------------------------ MODULE PluginDirectoryProofs ------------------------
(***************************************************************************)
(* The properties of PluginDirectory for every number of launchers, names, *)
(* copies and inodes, with inode numbers given out again and a user who    *)
(* edits the directory at any moment, or without either.  IInv says which  *)
(* entries can still be a copy's, by where its launcher is, where each     *)
(* cleanup that works on it is, and what its marker says.                  *)
(***************************************************************************)
EXTENDS PluginDirectory, TLAPS

\* The entry is a file that copy k made.
Owns(k, x) == entry[x] # NoInode /\ birth[entry[x]] = k

\* Nothing is left of the copy; the copy is not published.
Gone(k) == \A x \in Entries : ~Owns(k, x)
Unlinked(k) == \A n \in Names : ~Owns(k, n)

\* A copy makes one file, under its anchor and then under the jar's name, where it is
\* whole and recorded.
Filed ==
    /\ \A i \in Inodes : birth[i] \in Copies => file[birth[i]] = i
    /\ \A k \in Copies : entry[k] # NoInode => birth[entry[k]] = k
    /\ \A k \in Copies, n \in Names : Owns(k, n) =>
         name[k] = n /\ entry[n] \in whole /\ marker[k] = "whole"
    /\ \A k \in Copies : IF file[k] = NoInode THEN marker[k] = "none"
                         ELSE pid[k] \in Procs /\ name[k] \in Names

\* What a launcher may rely on about the copy it makes or removes.
AtWork(p) ==
    LET k == copy[p] IN
    k # NoCopy =>
      /\ file[k] # NoInode /\ pid[k] = p
      /\ pc[p] \in Making \cup Failing \cup {"anchorcheck", "anchor", "marker"} => Unlinked(k)
      /\ pc[p] \in {"mark", "marking", "link"} /\ entry[k] # NoInode => entry[k] \in whole
      /\ pc[p] \in Releasing \cup {"link", "live"} => marker[k] = "whole"
      /\ pc[p] \in (Failing \ {"failanchor"}) \cup {"marker"} => entry[k] = NoInode

\* A cleanup works on a copy that no launcher has any more, and has not passed an
\* entry of it by.
Cleaning(p) ==
    LET k == cur[p] IN
    pc[p] \in {"scan", "unlink"} =>
      /\ k \in Copies /\ file[k] # NoInode /\ copy[pid[k]] # k
      /\ \A x \in Entries : Owns(k, x) => x \in scan[p] \/ (pc[p] = "unlink" /\ x = hit[p])
      /\ pc[p] = "unlink" => hit[p] \in Entries

\* The copies a cleanup owes have still to be read or looked for, or are gone; a launcher
\* owes none when it is not cleaning up.
Owing(p) ==
    /\ pc[p] \in {"clean", "scan", "unlink"} \/ owed[p] = {}
    /\ \A k \in owed[p] :
         /\ file[k] # NoInode /\ pc[pid[k]] = "dead"
         /\ marker[k] = "whole" \/ Gone(k)
         /\ k \in todo[p] \/ (pc[p] \in {"scan", "unlink"} /\ cur[p] = k) \/ Gone(k)

\* LeftoversRecorded, with the launcher that the record of the copy names.
Recorded ==
    \A k \in Copies, x \in Entries : Owns(k, x) =>
        marker[k] = "whole" \/ k \in cut \/ copy[pid[k]] = k

\* What an entry that is unlinked next can be: the file that was compared, nothing,
\* a file of another copy, or a file the user gave the name since.
Decided(p) ==
    \A x \in Entries : (Unlinks(p, x) /\ Owns(User, x)) => p \in raced \/ Claims(p, entry[x])

IInv ==
    /\ TypeOK /\ Filed /\ Recorded
    /\ \A p \in Procs : AtWork(p) /\ Cleaning(p) /\ Owing(p) /\ Decided(p)

\* A step makes no file, and forgets nothing about those there are.
Shrinks ==
    /\ \A x \in Entries : entry'[x] = entry[x] \/ entry'[x] = NoInode
    /\ birth' = birth /\ pid' = pid /\ file' = file /\ name' = name
    /\ \A i \in whole : i \in whole'

\* A step is not launcher q's, and of no concern to its copy and its cleanup.
Stays(q) ==
    /\ pc'[q] = pc[q] /\ copy'[q] = copy[q] /\ todo'[q] = todo[q] /\ cur'[q] = cur[q]
    /\ scan'[q] = scan[q] /\ hit'[q] = hit[q] /\ (q \in raced => q \in raced')
    /\ \A r \in Procs : copy'[r] = copy[r] \/ copy'[r] = NoCopy
    /\ \A k \in owed'[q] : k \in owed[q]
    /\ \A r \in Procs : pc[r] = "dead" => pc'[r] = "dead" \/ \A k \in owed'[q] : pid[k] # r
    /\ \A k \in Copies : marker'[k] = marker[k] \/ (k # copy[q] /\ (k \in owed'[q] => Gone(k)))

\* A scan returns markers that are there, all of them or ScanLimit.
LEMMA ScanFinds == \A S \in Scans : S \subseteq {k \in Copies : marker[k] # "none"}
  BY Zenon DEF Scans

\* The files after a step that makes none are files that were there.
LEMMA NothingNew ==
    ASSUME Shrinks, NEW k, NEW x \in Entries, Owns(k, x)'
    PROVE  Owns(k, x) /\ entry'[x] = entry[x]
  BY Zenon DEF Shrinks, Owns

\* Filed survives it, if markers change only of copies that are not published.
LEMMA FiledKeeps ==
    ASSUME Filed, Shrinks,
           \A k \in Copies : marker'[k] = marker[k] \/ (file[k] # NoInode /\ Unlinked(k))
    PROVE  Filed'
  <1>1. \A k \in Copies, n \in Names : Owns(k, n)' => Owns(k, n) /\ entry'[n] = entry[n]
    BY NothingNew, Zenon DEF Entries
  <1>2. \A k \in Copies : entry'[k] # NoInode => entry'[k] = entry[k]
    BY Zenon DEF Shrinks, Entries
  <1>3. \A k \in Copies, n \in Names : Owns(k, n)' =>
          name[k] = n /\ entry'[n] \in whole' /\ marker'[k] = "whole"
    BY <1>1, Zenon DEF Filed, Unlinked, Shrinks
  <1> QED
    BY <1>2, <1>3, Zenon DEF Filed, Shrinks

\* Recorded survives it, if no launcher parts with its copy.
LEMMA RecordedKeeps ==
    ASSUME Recorded, Shrinks, UNCHANGED <<marker, copy, cut>>
    PROVE  Recorded'
  BY NothingNew, Zenon DEF Recorded, Shrinks

\* What one launcher relies on, no other takes away.
LEMMA Undisturbed ==
    ASSUME IInv, NEW q \in Procs, Shrinks, Stays(q)
    PROVE  AtWork(q)' /\ Cleaning(q)' /\ Owing(q)' /\ Decided(q)'
  <1>old. \A k, x : x \in Entries /\ Owns(k, x)' => Owns(k, x) /\ entry'[x] = entry[x]
    BY NothingNew, Zenon
  <1>copy. copy[q] \in Copies \cup {NoCopy}
    BY Zenon DEF IInv, TypeOK
  <1>1. AtWork(q)'
    <2>1. ASSUME NEW k \in Copies, Unlinked(k) PROVE Unlinked(k)'
      BY <2>1, <1>old, Zenon DEF Unlinked, Entries
    <2>2. AtWork(q)
      BY Zenon DEF IInv
    <2>3. copy[q] \in Copies => marker'[copy[q]] = marker[copy[q]]
      BY Zenon DEF Stays
    <2> QED
      BY <2>1, <2>2, <2>3, <1>copy, Zenon DEF AtWork, Stays, Shrinks, Entries
  <1>2. Cleaning(q)'
    <2>1. Cleaning(q)
      BY Zenon DEF IInv
    <2>2. ASSUME NEW k \in Copies, file[k] # NoInode, copy[pid[k]] # k PROVE copy'[pid[k]] # k
      <3>1. pid[k] \in Procs
        BY <2>2, Zenon DEF IInv, Filed
      <3> QED
        BY <3>1, <2>2, PluginAssumption, Zenon DEF Stays
    <2> QED
      BY <2>1, <2>2, <1>old, Zenon DEF Cleaning, Stays, Shrinks
  <1>3. Owing(q)'
    <2>1. Owing(q) /\ owed[q] \subseteq Copies
      BY Zenon DEF IInv, TypeOK
    <2>2. ASSUME NEW k, Gone(k) PROVE Gone(k)'
      BY <2>2, <1>old, Zenon DEF Gone
    <2>3. \A k \in owed'[q] : k \in Copies /\ k \in owed[q] /\ (marker'[k] = marker[k] \/ Gone(k))
      BY <2>1, Zenon DEF Stays
    <2>4. \A k \in owed'[q] : pc'[pid[k]] = "dead"
      <3> SUFFICES ASSUME NEW k \in owed'[q] PROVE pc'[pid[k]] = "dead"
        OBVIOUS
      <3>1. file[k] # NoInode /\ pc[pid[k]] = "dead" /\ k \in Copies
        BY <2>1, <2>3, Zenon DEF Owing
      <3>2. pid[k] \in Procs
        BY <3>1, Zenon DEF IInv, Filed
      <3> QED
        BY <3>1, <3>2, Zenon DEF Stays
    <2>5. owed[q] = {} => owed'[q] = {}
      BY Zenon DEF Stays
    <2> QED
      BY <2>1, <2>2, <2>3, <2>4, <2>5, Zenon DEF Owing, Stays, Shrinks
  <1>4. Decided(q)'
    <2>1. Decided(q)
      BY Zenon DEF IInv
    <2> QED
      BY <2>1, <1>old DEF Decided, Unlinks, Claims, Stays, Shrinks
  <1> QED
    BY <1>1, <1>2, <1>3, <1>4, Zenon

\* The copy of a launcher is nobody else's, and its marker is no dead process's.
LEMMA OwnCopy ==
    ASSUME IInv, NEW p \in Procs, copy[p] # NoCopy
    PROVE  /\ copy[p] \in Copies /\ file[copy[p]] # NoInode /\ pid[copy[p]] = p
           /\ \A q \in Procs : copy[p] \notin owed[q] /\ (copy[q] = copy[p] => q = p)
  <1>1. copy[p] \in Copies /\ pc[p] # "dead"
    BY Zenon DEF IInv, TypeOK, Working, Making, Failing, Releasing
  <1>2. \A q \in Procs : copy[q] # NoCopy => file[copy[q]] # NoInode /\ pid[copy[q]] = q
    BY Zenon DEF IInv, AtWork
  <1>3. \A q \in Procs : \A k \in owed[q] : pc[pid[k]] = "dead"
    BY Zenon DEF IInv, Owing
  <1> QED
    BY <1>1, <1>2, <1>3

\* The variables have their types.
LEMMA Typed == IInv => TypeOK
  BY Zenon DEF IInv
\* A copy has the one file it made.
LEMMA FiledHolds == IInv => Filed
  BY Zenon DEF IInv
\* A file without a launcher is recorded or was cut off.
LEMMA RecordedHolds == IInv => Recorded
  BY Zenon DEF IInv
\* A launcher's own copy is what it takes it for.
LEMMA AtWorkHolds == IInv => \A q \in Procs : AtWork(q)
  BY Zenon DEF IInv
\* A cleanup works on a copy that no launcher has.
LEMMA CleaningHolds == IInv => \A q \in Procs : Cleaning(q)
  BY Zenon DEF IInv
\* What a cleanup owes is still ahead of it, or gone.
LEMMA OwingHolds == IInv => \A q \in Procs : Owing(q)
  BY Zenon DEF IInv
\* What is unlinked next was compared, or has raced.
LEMMA DecidedHolds == IInv => \A q \in Procs : Decided(q)
  BY Zenon DEF IInv
\* Where the launchers are.
LEMMA PcType == IInv => pc \in [Procs -> Control]
  BY Zenon DEF IInv, TypeOK
\* The copy a launcher has.
LEMMA CopyType == IInv => copy \in [Procs -> Copies \cup {NoCopy}]
  BY Zenon DEF IInv, TypeOK
\* A launcher has a copy where it works on one.
LEMMA HasCopy == IInv => \A q \in Procs : copy[q] # NoCopy <=> pc[q] \in Working
  BY Zenon DEF IInv, TypeOK
\* The markers a cleanup has still to read.
LEMMA TodoType == IInv => todo \in [Procs -> SUBSET Copies]
  BY Zenon DEF IInv, TypeOK
\* The copies a cleanup owes.
LEMMA OwedType == IInv => owed \in [Procs -> SUBSET Copies]
  BY Zenon DEF IInv, TypeOK
\* The copy it looks for.
LEMMA CurType == IInv => cur \in [Procs -> Copies \cup {NoCopy}]
  BY Zenon DEF IInv, TypeOK
\* The entries it looks at.
LEMMA ScanType == IInv => scan \in [Procs -> SUBSET Entries]
  BY Zenon DEF IInv, TypeOK
\* The entry it unlinks.
LEMMA HitType == IInv => hit \in [Procs -> Entries \cup {NoCopy}]
  BY Zenon DEF IInv, TypeOK
\* What the entries refer to.
LEMMA EntryType == IInv => entry \in [Entries -> Inodes \cup {NoInode}]
  BY Zenon DEF IInv, TypeOK
\* Who made each file.
LEMMA BirthType == IInv => birth \in [Inodes -> Copies \cup {User, NoCopy}]
  BY Zenon DEF IInv, TypeOK
\* The markers.
LEMMA MarkerType == IInv => marker \in [Copies -> {"none", "torn", "whole"}]
  BY Zenon DEF IInv, TypeOK
\* The launcher a marker names.
LEMMA PidType == IInv => pid \in [Copies -> Procs \cup {NoCopy}]
  BY Zenon DEF IInv, TypeOK
\* The files.
LEMMA FileType == IInv => file \in [Copies -> Inodes \cup {NoInode}]
  BY Zenon DEF IInv, TypeOK
\* The name a marker records.
LEMMA NameType == IInv => name \in [Copies -> Names \cup {NoCopy}]
  BY Zenon DEF IInv, TypeOK
\* The histories.
LEMMA SetTypes == IInv => whole \subseteq Inodes /\ raced \subseteq Procs /\ cut \subseteq Copies
  BY Zenon DEF IInv, TypeOK

\* A cleanup begins with the markers its scan returned.
LEMMA MaterializeKeeps ==
    ASSUME IInv, NEW p \in Procs, Materialize(p)
    PROVE  IInv'
  <1>1. Shrinks
    BY Zenon DEF Shrinks, Materialize, fileVars, recordVars
  <1>2. ASSUME NEW q \in Procs, q # p PROVE Stays(q)
    BY <1>2, PcType, TodoType, OwedType, Zenon
       DEF Stays, Materialize, Goto, fileVars, recordVars
  <1>3. TypeOK'
    BY ScanFinds, Typed
       DEF TypeOK, Making, Failing, Releasing, Working, Control, Materialize, Goto, fileVars,
           recordVars
  <1>4. Filed'
    BY <1>1, FiledHolds, FiledKeeps, Zenon DEF Materialize
  <1>5. Recorded'
    BY <1>1, RecordedHolds, RecordedKeeps, Zenon DEF Materialize
  <1>6. AtWork(p)'
    BY HasCopy, Zenon DEF AtWork, Materialize, Working, Making, Failing, Releasing
  <1>7. Cleaning(p)'
    BY PcType, Zenon DEF Cleaning, Materialize, Goto
  <1>8. Owing(p)'
    BY ScanFinds, PcType, TodoType, OwedType, FiledHolds
       DEF Owing, Filed, Orphaned, Materialize, Goto, fileVars, recordVars
  <1>9. Decided(p)'
    BY PcType, Zenon DEF Decided, Unlinks, Materialize, Goto
  <1> QED
    BY <1>1, <1>2, <1>3, <1>4, <1>5, <1>6, <1>7, <1>8, <1>9, Undisturbed, Zenon DEF IInv

\* A marker is read: the entries its cleanup looks at cover the copy's.
LEMMA ReadMarkerKeeps ==
    ASSUME IInv, NEW p \in Procs, NEW k \in Copies, ReadMarker(p, k)
    PROVE  IInv'
  <1>1. Shrinks
    BY Zenon DEF Shrinks, ReadMarker, fileVars, recordVars
  <1>2. ASSUME NEW q \in Procs, q # p PROVE Stays(q)
    BY <1>2, PcType, TodoType, CurType, ScanType, Zenon
       DEF Stays, ReadMarker, Goto, fileVars, recordVars, history
  <1>3. TypeOK'
    <2>1. CASE Orphaned(k)
      <3>1. {name[k]} \cup {c \in Copies : entry[c] # NoInode} \in SUBSET Entries
        BY <2>1, FiledHolds DEF Filed, Entries, Orphaned
      <3>2. /\ pc' = [pc EXCEPT ![p] = "scan"] /\ cur' = [cur EXCEPT ![p] = k]
            /\ scan' = [scan EXCEPT ![p] = {name[k]} \cup {c \in Copies : entry[c] # NoInode}]
        BY <2>1, Zenon DEF ReadMarker, Goto
      <3>3. todo' \in [Procs -> SUBSET Copies] /\ scan' \in [Procs -> SUBSET Entries]
        BY <3>1, <3>2, TodoType, ScanType, Zenon DEF ReadMarker
      <3> QED
        BY <3>2, <3>3, Typed, Zenon
           DEF TypeOK, Making, Failing, Releasing, Working, Control, ReadMarker, fileVars,
               recordVars, history
    <2>2. CASE ~Orphaned(k)
      BY <2>2, Typed, Zenon DEF TypeOK, ReadMarker, fileVars, recordVars, history
    <2> QED
      BY <2>1, <2>2, Zenon
  <1>4. Filed'
    BY <1>1, FiledHolds, FiledKeeps, Zenon DEF ReadMarker
  <1>5. Recorded'
    BY <1>1, RecordedHolds, RecordedKeeps, Zenon DEF ReadMarker, history
  <1>6. AtWork(p)'
    BY HasCopy, Zenon DEF AtWork, ReadMarker, Working, Making, Failing, Releasing
  <1>7. Cleaning(p)'
    <2>1. CASE Orphaned(k)
      <3>1. file[k] # NoInode /\ copy[pid[k]] # k
        BY <2>1, PluginAssumption, HasCopy, FiledHolds, Zenon
           DEF Orphaned, Filed, Working, Making, Failing, Releasing
      <3>2. \A x \in Entries : Owns(k, x) => x = name[k] \/ (x \in Copies /\ entry[x] # NoInode)
        BY FiledHolds, Zenon DEF Filed, Owns, Entries
      <3> QED
        BY <2>1, <3>1, <3>2, PcType, CurType, ScanType
           DEF Cleaning, Owns, ReadMarker, Goto, fileVars, recordVars
    <2>2. CASE ~Orphaned(k)
      BY <2>2, Zenon DEF Cleaning, ReadMarker
    <2> QED
      BY <2>1, <2>2, Zenon
  <1>8. Owing(p)'
    BY PcType, TodoType, OwedType, CurType, FiledHolds, OwingHolds
       DEF Owing, Gone, Owns, Filed, Orphaned, ReadMarker, Goto, fileVars, recordVars, history
  <1>9. Decided(p)'
    BY PcType, Zenon DEF Decided, Unlinks, ReadMarker, Goto
  <1> QED
    BY <1>1, <1>2, <1>3, <1>4, <1>5, <1>6, <1>7, <1>8, <1>9, Undisturbed, Zenon DEF IInv

\* A marker is passed over.
LEMMA SkipMarkerKeeps ==
    ASSUME IInv, NEW p \in Procs, NEW k \in Copies, SkipMarker(p, k)
    PROVE  IInv'
  <1>1. Shrinks
    BY Zenon DEF Shrinks, SkipMarker, fileVars, recordVars
  <1>2. ASSUME NEW q \in Procs, q # p PROVE Stays(q)
    BY <1>2, TodoType, OwedType, Zenon DEF Stays, SkipMarker, fileVars, recordVars
  <1>3. TypeOK'
    BY Typed, Zenon DEF TypeOK, SkipMarker, fileVars, recordVars
  <1>4. Filed'
    BY <1>1, FiledHolds, FiledKeeps, Zenon DEF SkipMarker
  <1>5. Recorded'
    BY <1>1, RecordedHolds, RecordedKeeps, Zenon DEF SkipMarker
  <1>6. AtWork(p)'
    BY HasCopy, Zenon DEF AtWork, SkipMarker, Working, Making, Failing, Releasing
  <1>7. Cleaning(p)'
    BY PcType, Zenon DEF Cleaning, SkipMarker, Goto
  <1>8. Owing(p)'
    BY TodoType, OwedType, OwingHolds, Zenon
       DEF Owing, Gone, Owns, SkipMarker, fileVars, recordVars
  <1>9. Decided(p)'
    BY PcType, Zenon DEF Decided, Unlinks, SkipMarker, Goto
  <1> QED
    BY <1>1, <1>2, <1>3, <1>4, <1>5, <1>6, <1>7, <1>8, <1>9, Undisturbed, Zenon DEF IInv

\* An entry that is not the copy's is passed by.
LEMMA CheckEntryKeeps ==
    ASSUME IInv, NEW p \in Procs, NEW x \in Entries, CheckEntry(p, x)
    PROVE  IInv'
  <1>1. Shrinks
    BY Zenon DEF Shrinks, CheckEntry, fileVars, recordVars
  <1>2. ASSUME NEW q \in Procs, q # p PROVE Stays(q)
    BY <1>2, PcType, ScanType, HitType, Zenon
       DEF Stays, CheckEntry, Goto, fileVars, recordVars, history
  <1>3. TypeOK'
    <2>1. pc' \in [Procs -> Control] /\ (\A q \in Procs : pc'[q] \in Working <=> pc[q] \in Working)
      BY PcType, Zenon DEF CheckEntry, Goto, Control, Working, Making, Failing, Releasing
    <2> QED
      BY <2>1, Typed, Zenon DEF TypeOK, CheckEntry, fileVars, recordVars, history
  <1>4. Filed'
    BY <1>1, FiledHolds, FiledKeeps, Zenon DEF CheckEntry
  <1>5. Recorded'
    BY <1>1, RecordedHolds, RecordedKeeps, Zenon DEF CheckEntry, history
  <1>6. AtWork(p)'
    BY HasCopy, Zenon DEF AtWork, CheckEntry, Working, Making, Failing, Releasing
  <1>7. Cleaning(p)'
    BY PcType, ScanType, HitType, EntryType, FiledHolds, CleaningHolds
       DEF Cleaning, Filed, Owns, CheckEntry, Goto, fileVars, recordVars, history
  <1>8. Owing(p)'
    BY PcType, OwedType, FiledHolds, OwingHolds
       DEF Owing, Gone, Owns, Filed, CheckEntry, Goto, fileVars, recordVars, history
  <1>9. Decided(p)'
    BY PcType, HitType, Zenon
       DEF Decided, Unlinks, Claims, CheckEntry, Goto, fileVars, recordVars, history
  <1> QED
    BY <1>1, <1>2, <1>3, <1>4, <1>5, <1>6, <1>7, <1>8, <1>9, Undisturbed, Zenon DEF IInv

\* The entry that matched is unlinked, whatever it is now.
LEMMA UnlinkEntryKeeps ==
    ASSUME IInv, NEW p \in Procs, UnlinkEntry(p)
    PROVE  IInv'
  <1>1. Shrinks
    BY EntryType, Zenon DEF Shrinks, UnlinkEntry, Unlink, recordVars
  <1>2. ASSUME NEW q \in Procs, q # p PROVE Stays(q)
    BY <1>2, PcType, HitType, Zenon DEF Stays, UnlinkEntry, Goto, Unlink, recordVars
  <1>3. TypeOK'
    BY Zenon, Typed
       DEF TypeOK, Making, Failing, Releasing, Working, Control, UnlinkEntry, Goto, Unlink,
           recordVars
  <1>4. Filed'
    BY <1>1, FiledHolds, FiledKeeps, Zenon DEF UnlinkEntry
  <1>5. Recorded'
    BY <1>1, RecordedHolds, RecordedKeeps, Zenon DEF UnlinkEntry
  <1>6. AtWork(p)'
    BY HasCopy, Zenon DEF AtWork, UnlinkEntry, Working, Making, Failing, Releasing
  <1>7. Cleaning(p)'
    BY PcType, EntryType, CleaningHolds, <1>1, NothingNew
       DEF Cleaning, Owns, UnlinkEntry, Goto, Unlink, recordVars
  <1>8. Owing(p)'
    BY PcType, OwingHolds, <1>1, NothingNew DEF Owing, Gone, UnlinkEntry, Goto, recordVars
  <1>9. Decided(p)'
    BY PcType, Zenon DEF Decided, Unlinks, UnlinkEntry, Goto
  <1> QED
    BY <1>1, <1>2, <1>3, <1>4, <1>5, <1>6, <1>7, <1>8, <1>9, Undisturbed, Zenon DEF IInv

\* The marker of a copy of which nothing is left is unlinked.
LEMMA UnlinkMarkerKeeps ==
    ASSUME IInv, NEW p \in Procs, UnlinkMarker(p)
    PROVE  IInv'
  <1>0. cur[p] \in Copies /\ file[cur[p]] # NoInode /\ Gone(cur[p]) /\ \A q \in Procs : copy[q] # cur[p]
    BY CleaningHolds, AtWorkHolds, PluginAssumption DEF UnlinkMarker, Cleaning, AtWork, Gone
  <1>1. Shrinks
    BY Zenon DEF Shrinks, UnlinkMarker, fileVars, recordVars
  <1>2. ASSUME NEW q \in Procs, q # p PROVE Stays(q)
    BY <1>2, <1>0, PcType, CurType, MarkerType, Zenon
       DEF Stays, UnlinkMarker, Goto, fileVars, recordVars, history
  <1>3. TypeOK'
    BY Zenon, Typed
       DEF TypeOK, Making, Failing, Releasing, Working, Control, UnlinkMarker, Goto, fileVars,
           recordVars, history
  <1>4. Filed'
    BY <1>0, <1>1, FiledHolds, FiledKeeps DEF UnlinkMarker, Gone, Unlinked, Entries
  <1>5. Recorded'
    BY <1>0, <1>1, RecordedHolds, NothingNew
       DEF Recorded, Gone, UnlinkMarker, recordVars, history
  <1>6. AtWork(p)'
    BY HasCopy, Zenon DEF AtWork, UnlinkMarker, Working, Making, Failing, Releasing
  <1>7. Cleaning(p)'
    BY PcType, Zenon DEF Cleaning, UnlinkMarker, Goto
  <1>8. Owing(p)'
    BY <1>0, PcType, OwingHolds
       DEF Owing, Gone, Owns, UnlinkMarker, Goto, fileVars, recordVars, history
  <1>9. Decided(p)'
    BY PcType, Zenon DEF Decided, Unlinks, UnlinkMarker, Goto
  <1> QED
    BY <1>1, <1>2, <1>3, <1>4, <1>5, <1>6, <1>7, <1>8, <1>9, Undisturbed, Zenon DEF IInv

\* The cleanup is through.
LEMMA EndCleanKeeps ==
    ASSUME IInv, NEW p \in Procs, EndClean(p)
    PROVE  IInv'
  <1>1. Shrinks
    BY Zenon DEF Shrinks, EndClean, fileVars, recordVars
  <1>2. ASSUME NEW q \in Procs, q # p PROVE Stays(q)
    BY <1>2, PcType, OwedType, Zenon DEF Stays, EndClean, Goto, scanVars, fileVars, recordVars
  <1>3. TypeOK'
    BY Typed, Zenon
       DEF TypeOK, Making, Failing, Releasing, Working, Control, EndClean, Goto, fileVars,
           recordVars, scanVars
  <1>4. Filed'
    BY <1>1, FiledHolds, FiledKeeps, Zenon DEF EndClean
  <1>5. Recorded'
    BY <1>1, RecordedHolds, RecordedKeeps, Zenon DEF EndClean
  <1>6. AtWork(p)'
    BY HasCopy, Zenon DEF AtWork, EndClean, Working, Making, Failing, Releasing
  <1>7. Cleaning(p)'
    BY PcType, Zenon DEF Cleaning, EndClean, Goto
  <1>8. Owing(p)'
    BY PcType, OwedType, Zenon DEF Owing, EndClean
  <1>9. Decided(p)'
    BY PcType, Zenon DEF Decided, Unlinks, EndClean, Goto
  <1> QED
    BY <1>1, <1>2, <1>3, <1>4, <1>5, <1>6, <1>7, <1>8, <1>9, Undisturbed, Zenon DEF IInv

\* mkstemp fails.
LEMMA CreateAnchorFailsKeeps ==
    ASSUME IInv, NEW p \in Procs, CreateAnchorFails(p)
    PROVE  IInv'
  <1>1. Shrinks
    BY Zenon DEF Shrinks, CreateAnchorFails, fileVars, recordVars
  <1>2. ASSUME NEW q \in Procs, q # p PROVE Stays(q)
    BY <1>2, PcType, Zenon
       DEF Stays, CreateAnchorFails, Goto, scanVars, fileVars, recordVars, history
  <1>3. TypeOK'
    BY Typed, Zenon
       DEF TypeOK, Making, Failing, Releasing, Working, Control, CreateAnchorFails, Goto,
           fileVars, recordVars, scanVars, history
  <1>4. Filed'
    BY <1>1, FiledHolds, FiledKeeps, Zenon DEF CreateAnchorFails
  <1>5. Recorded'
    BY <1>1, RecordedHolds, RecordedKeeps, Zenon DEF CreateAnchorFails, history
  <1>6. AtWork(p)'
    BY HasCopy, Zenon DEF AtWork, CreateAnchorFails, Working, Making, Failing, Releasing
  <1>7. Cleaning(p)'
    BY PcType, Zenon DEF Cleaning, CreateAnchorFails, Goto
  <1>8. Owing(p)'
    BY PcType, OwingHolds, Zenon DEF Owing, CreateAnchorFails, Goto, history
  <1>9. Decided(p)'
    BY PcType, Zenon DEF Decided, Unlinks, CreateAnchorFails, Goto
  <1> QED
    BY <1>1, <1>2, <1>3, <1>4, <1>5, <1>6, <1>7, <1>8, <1>9, Undisturbed, Zenon DEF IInv

\* The bytes are copied.
LEMMA CopyBytesKeeps ==
    ASSUME IInv, NEW p \in Procs, CopyBytes(p)
    PROVE  IInv'
  <1>1. Shrinks
    BY Zenon DEF Shrinks, CopyBytes, recordVars
  <1>2. ASSUME NEW q \in Procs, q # p PROVE Stays(q)
    BY <1>2, PcType, Zenon DEF Stays, CopyBytes, Goto, scanVars, recordVars, history
  <1>3. TypeOK'
    <2>1. file[copy[p]] \in Inodes
      BY CopyType, HasCopy, FileType, AtWorkHolds DEF AtWork, Working, Making, CopyBytes
    <2> QED
      BY <2>1, Typed, Zenon
         DEF TypeOK, Making, Working, Control, CopyBytes, Goto, recordVars, scanVars, history
  <1>4. Filed'
    BY <1>1, FiledHolds, FiledKeeps, Zenon DEF CopyBytes
  <1>5. Recorded'
    BY <1>1, RecordedHolds, RecordedKeeps, Zenon DEF CopyBytes, history
  <1>6. AtWork(p)'
    BY PcType, CopyType, EntryType, FiledHolds, AtWorkHolds
       DEF Filed, AtWork, Unlinked, Owns, Entries, Failing, Releasing, Working, Control,
           CopyBytes, Goto, recordVars
  <1>7. Cleaning(p)'
    BY PcType, Zenon DEF Cleaning, CopyBytes, Goto
  <1>8. Owing(p)'
    BY PcType, OwingHolds, Zenon DEF Owing, CopyBytes, Goto, history
  <1>9. Decided(p)'
    BY PcType, Zenon DEF Decided, Unlinks, CopyBytes, Goto
  <1> QED
    BY <1>1, <1>2, <1>3, <1>4, <1>5, <1>6, <1>7, <1>8, <1>9, Undisturbed, Zenon DEF IInv

\* A copy that failed early is unlinked.
LEMMA DiscardKeeps ==
    ASSUME IInv, NEW p \in Procs, Discard(p)
    PROVE  IInv'
  <1>1. Shrinks
    BY EntryType, Zenon DEF Shrinks, Discard, Unlink, recordVars
  <1>2. ASSUME NEW q \in Procs, q # p PROVE Stays(q)
    BY <1>2, PcType, CopyType, Zenon
       DEF Stays, Discard, Goto, Unlink, scanVars, recordVars, history
  <1>3. TypeOK'
    BY Typed, Zenon
       DEF TypeOK, Entries, Making, Failing, Releasing, Working, Control, Discard, Goto, Unlink,
           recordVars, scanVars, history
  <1>4. Filed'
    BY <1>1, FiledHolds, FiledKeeps, Zenon DEF Discard
  <1>5. Recorded'
    BY EntryType, FiledHolds, RecordedHolds
       DEF Filed, Entries, Recorded, Owns, Discard, Unlink, recordVars, history
  <1>6. AtWork(p)'
    BY CopyType, Zenon DEF AtWork, Discard
  <1>7. Cleaning(p)'
    BY PcType, Zenon DEF Cleaning, Discard, Goto
  <1>8. Owing(p)'
    BY PcType, OwingHolds, Zenon DEF Owing, Discard, Goto, history
  <1>9. Decided(p)'
    BY PcType, Zenon DEF Decided, Unlinks, Discard, Goto
  <1> QED
    BY <1>1, <1>2, <1>3, <1>4, <1>5, <1>6, <1>7, <1>8, <1>9, Undisturbed, Zenon DEF IInv

\* The marker is made.
LEMMA OpenMarkerKeeps ==
    ASSUME IInv, NEW p \in Procs, OpenMarker(p)
    PROVE  IInv'
  <1>0. copy[p] # NoCopy /\ Unlinked(copy[p])
    BY HasCopy, AtWorkHolds, Zenon DEF OpenMarker, AtWork, Making, Failing, Releasing, Working
  <1>1. Shrinks
    BY Zenon DEF Shrinks, OpenMarker, fileVars, recordVars
  <1>2. ASSUME NEW q \in Procs, q # p PROVE Stays(q)
    BY <1>2, <1>0, OwnCopy, PcType, MarkerType
       DEF Stays, OpenMarker, Goto, scanVars, fileVars, recordVars, history
  <1>3. TypeOK'
    BY Typed, Zenon
       DEF TypeOK, Making, Working, Control, OpenMarker, Goto, fileVars, recordVars, scanVars,
           history
  <1>4. Filed'
    BY <1>0, <1>1, OwnCopy, FiledHolds, FiledKeeps DEF OpenMarker
  <1>5. Recorded'
    BY PluginAssumption, RecordedHolds, AtWorkHolds
       DEF AtWork, Recorded, Owns, OpenMarker, fileVars, recordVars, history
  <1>6. AtWork(p)'
    BY PcType, CopyType, HasCopy, AtWorkHolds, Zenon
       DEF AtWork, Unlinked, Owns, Making, Failing, Releasing, Working, OpenMarker, Goto,
           scanVars, fileVars, recordVars, history
  <1>7. Cleaning(p)'
    BY PcType, Zenon DEF Cleaning, OpenMarker, Goto
  <1>8. Owing(p)'
    BY PcType, OwingHolds, Zenon DEF Owing, OpenMarker, Goto, history
  <1>9. Decided(p)'
    BY PcType, Zenon DEF Decided, Unlinks, OpenMarker, Goto
  <1> QED
    BY <1>1, <1>2, <1>3, <1>4, <1>5, <1>6, <1>7, <1>8, <1>9, Undisturbed, Zenon DEF IInv

\* The marker is complete.
LEMMA WriteMarkerKeeps ==
    ASSUME IInv, NEW p \in Procs, WriteMarker(p)
    PROVE  IInv'
  <1>0. copy[p] # NoCopy /\ Unlinked(copy[p])
    BY HasCopy, AtWorkHolds, Zenon DEF WriteMarker, AtWork, Making, Failing, Releasing, Working
  <1>1. Shrinks
    BY Zenon DEF Shrinks, WriteMarker, fileVars, recordVars
  <1>2. ASSUME NEW q \in Procs, q # p PROVE Stays(q)
    BY <1>2, <1>0, OwnCopy, PcType, MarkerType
       DEF Stays, WriteMarker, Goto, scanVars, fileVars, recordVars, history
  <1>3. TypeOK'
    BY Typed, Zenon
       DEF TypeOK, Making, Working, Control, WriteMarker, Goto, fileVars, recordVars, scanVars,
           history
  <1>4. Filed'
    BY <1>0, <1>1, OwnCopy, FiledHolds, FiledKeeps DEF WriteMarker
  <1>5. Recorded'
    BY RecordedHolds DEF Recorded, Owns, WriteMarker, fileVars, recordVars, history
  <1>6. AtWork(p)'
    BY CopyType, MarkerType, AtWorkHolds
       DEF AtWork, Unlinked, Owns, Making, Failing, WriteMarker, Goto, fileVars, recordVars
  <1>7. Cleaning(p)'
    BY PcType, Zenon DEF Cleaning, WriteMarker, Goto
  <1>8. Owing(p)'
    BY PcType, OwingHolds, Zenon DEF Owing, WriteMarker, Goto, history
  <1>9. Decided(p)'
    BY PcType, Zenon DEF Decided, Unlinks, WriteMarker, Goto
  <1> QED
    BY <1>1, <1>2, <1>3, <1>4, <1>5, <1>6, <1>7, <1>8, <1>9, Undisturbed, Zenon DEF IInv

\* The marker cannot be made.
LEMMA MarkerFailsKeeps ==
    ASSUME IInv, NEW p \in Procs, MarkerFails(p)
    PROVE  IInv'
  <1>0. copy[p] # NoCopy /\ Unlinked(copy[p])
    BY HasCopy, AtWorkHolds, Zenon DEF MarkerFails, AtWork, Making, Failing, Releasing, Working
  <1>1. Shrinks
    BY Zenon DEF Shrinks, MarkerFails, fileVars, recordVars
  <1>2. ASSUME NEW q \in Procs, q # p PROVE Stays(q)
    BY <1>2, <1>0, OwnCopy, PcType, MarkerType
       DEF Stays, MarkerFails, Goto, scanVars, fileVars, recordVars, history
  <1>3. TypeOK'
    BY Typed, Zenon
       DEF TypeOK, Failing, Working, Control, MarkerFails, Goto, fileVars, recordVars, scanVars,
           history
  <1>4. Filed'
    BY <1>0, <1>1, OwnCopy, FiledHolds, FiledKeeps DEF MarkerFails
  <1>5. Recorded'
    BY PluginAssumption, RecordedHolds, AtWorkHolds
       DEF AtWork, Recorded, Owns, MarkerFails, fileVars, recordVars, history
  <1>6. AtWork(p)'
    BY PcType, CopyType, HasCopy, AtWorkHolds, Zenon
       DEF AtWork, Unlinked, Owns, Making, Failing, Releasing, Working, MarkerFails, Goto,
           scanVars, fileVars, recordVars, history
  <1>7. Cleaning(p)'
    BY PcType, Zenon DEF Cleaning, MarkerFails, Goto
  <1>8. Owing(p)'
    BY PcType, OwingHolds, Zenon DEF Owing, MarkerFails, Goto, history
  <1>9. Decided(p)'
    BY PcType, Zenon DEF Decided, Unlinks, MarkerFails, Goto
  <1> QED
    BY <1>1, <1>2, <1>3, <1>4, <1>5, <1>6, <1>7, <1>8, <1>9, Undisturbed, Zenon DEF IInv

\* The name is taken.
LEMMA LinkFailsKeeps ==
    ASSUME IInv, NEW p \in Procs, LinkFails(p)
    PROVE  IInv'
  <1>1. Shrinks
    BY Zenon DEF Shrinks, LinkFails, fileVars, recordVars
  <1>2. ASSUME NEW q \in Procs, q # p PROVE Stays(q)
    BY <1>2, PcType, Zenon DEF Stays, LinkFails, Goto, scanVars, fileVars, recordVars, history
  <1>3. TypeOK'
    BY Typed, Zenon
       DEF TypeOK, Failing, Working, Control, LinkFails, Goto, fileVars, recordVars, scanVars,
           history
  <1>4. Filed'
    BY <1>1, FiledHolds, FiledKeeps, Zenon DEF LinkFails
  <1>5. Recorded'
    BY <1>1, RecordedHolds, RecordedKeeps, Zenon DEF LinkFails, history
  <1>6. AtWork(p)'
    BY PcType, CopyType, HasCopy, AtWorkHolds, Zenon
       DEF AtWork, Unlinked, Owns, Making, Failing, Releasing, Working, LinkFails, Goto,
           scanVars, fileVars, recordVars, history
  <1>7. Cleaning(p)'
    BY PcType, Zenon DEF Cleaning, LinkFails, Goto
  <1>8. Owing(p)'
    BY PcType, OwingHolds, Zenon DEF Owing, LinkFails, Goto, history
  <1>9. Decided(p)'
    BY PcType, Zenon DEF Decided, Unlinks, LinkFails, Goto
  <1> QED
    BY <1>1, <1>2, <1>3, <1>4, <1>5, <1>6, <1>7, <1>8, <1>9, Undisturbed, Zenon DEF IInv

\* The failure exit unlinks the anchor,
LEMMA FailAnchorKeeps ==
    ASSUME IInv, NEW p \in Procs, FailAnchor(p)
    PROVE  IInv'
  <1>1. Shrinks
    BY EntryType, Zenon DEF Shrinks, FailAnchor, Unlink, recordVars
  <1>2. ASSUME NEW q \in Procs, q # p PROVE Stays(q)
    BY <1>2, PcType, Zenon DEF Stays, FailAnchor, Goto, Unlink, scanVars, recordVars, history
  <1>3. TypeOK'
    BY Typed, Zenon
       DEF TypeOK, Entries, Failing, Working, Control, FailAnchor, Goto, Unlink, recordVars,
           scanVars, history
  <1>4. Filed'
    BY <1>1, FiledHolds, FiledKeeps, Zenon DEF FailAnchor
  <1>5. Recorded'
    BY <1>1, RecordedHolds, RecordedKeeps, Zenon DEF FailAnchor, history
  <1>6. AtWork(p)'
    BY CopyType, EntryType, AtWorkHolds
       DEF AtWork, Unlinked, Owns, Entries, Failing, Releasing, FailAnchor, Goto, Unlink,
           recordVars
  <1>7. Cleaning(p)'
    BY PcType, Zenon DEF Cleaning, FailAnchor, Goto
  <1>8. Owing(p)'
    BY PcType, OwingHolds, Zenon DEF Owing, FailAnchor, Goto, history
  <1>9. Decided(p)'
    BY PcType, Zenon DEF Decided, Unlinks, FailAnchor, Goto
  <1> QED
    BY <1>1, <1>2, <1>3, <1>4, <1>5, <1>6, <1>7, <1>8, <1>9, Undisturbed, Zenon DEF IInv

\* then the marker,
LEMMA FailMarkerKeeps ==
    ASSUME IInv, NEW p \in Procs, FailMarker(p)
    PROVE  IInv'
  <1>0. copy[p] # NoCopy /\ Unlinked(copy[p])
    BY HasCopy, AtWorkHolds, Zenon DEF FailMarker, AtWork, Making, Failing, Releasing, Working
  <1>1. Shrinks
    BY Zenon DEF Shrinks, FailMarker, fileVars, recordVars
  <1>2. ASSUME NEW q \in Procs, q # p PROVE Stays(q)
    BY <1>2, <1>0, OwnCopy, PcType, MarkerType
       DEF Stays, FailMarker, Goto, scanVars, fileVars, recordVars, history
  <1>3. TypeOK'
    BY Typed, Zenon
       DEF TypeOK, Failing, Working, Control, FailMarker, Goto, fileVars, recordVars, scanVars,
           history
  <1>4. Filed'
    BY <1>0, <1>1, OwnCopy, FiledHolds, FiledKeeps DEF FailMarker
  <1>5. Recorded'
    BY PluginAssumption, RecordedHolds, AtWorkHolds
       DEF AtWork, Recorded, Owns, FailMarker, fileVars, recordVars, history
  <1>6. AtWork(p)'
    BY PcType, CopyType, HasCopy, AtWorkHolds, Zenon
       DEF AtWork, Unlinked, Owns, Making, Failing, Releasing, Working, FailMarker, Goto,
           scanVars, fileVars, recordVars, history
  <1>7. Cleaning(p)'
    BY PcType, Zenon DEF Cleaning, FailMarker, Goto
  <1>8. Owing(p)'
    BY PcType, OwingHolds, Zenon DEF Owing, FailMarker, Goto, history
  <1>9. Decided(p)'
    BY PcType, Zenon DEF Decided, Unlinks, FailMarker, Goto
  <1> QED
    BY <1>1, <1>2, <1>3, <1>4, <1>5, <1>6, <1>7, <1>8, <1>9, Undisturbed, Zenon DEF IInv

\* and compares the destination.
LEMMA FailCheckKeeps ==
    ASSUME IInv, NEW p \in Procs, FailCheck(p)
    PROVE  IInv'
  <1>1. Shrinks
    BY Zenon DEF Shrinks, FailCheck, fileVars, recordVars
  <1>2. ASSUME NEW q \in Procs, q # p PROVE Stays(q)
    BY <1>2, PcType, CopyType, Zenon
       DEF Stays, FailCheck, Goto, scanVars, fileVars, recordVars, history
  <1>3. TypeOK'
    BY Typed
       DEF TypeOK, Making, Failing, Releasing, Working, Control, FailCheck, Goto, fileVars,
           recordVars, scanVars, history
  <1>4. Filed'
    BY <1>1, FiledHolds, FiledKeeps, Zenon DEF FailCheck
  <1>5. Recorded'
    BY CopyType, EntryType, FiledHolds, RecordedHolds, AtWorkHolds
       DEF Filed, AtWork, Entries, Recorded, Owns, Failing, FailCheck, fileVars, recordVars,
           history
  <1>6. AtWork(p)'
    BY PcType, CopyType, HasCopy, AtWorkHolds
       DEF AtWork, Unlinked, Owns, Making, Failing, Releasing, Working, FailCheck, Goto,
           scanVars, fileVars, recordVars, history
  <1>7. Cleaning(p)'
    BY PcType, Zenon DEF Cleaning, FailCheck, Goto
  <1>8. Owing(p)'
    BY PcType, OwingHolds, Zenon DEF Owing, FailCheck, Goto, history
  <1>9. Decided(p)'
    BY PcType, CopyType, Zenon
       DEF Decided, Unlinks, Claims, FailCheck, Goto, fileVars, recordVars
  <1> QED
    BY <1>1, <1>2, <1>3, <1>4, <1>5, <1>6, <1>7, <1>8, <1>9, Undisturbed, Zenon DEF IInv

\* A destination with the same identity is unlinked.
LEMMA FailDestKeeps ==
    ASSUME IInv, NEW p \in Procs, FailDest(p)
    PROVE  IInv'
  <1>1. Shrinks
    BY EntryType, Zenon DEF Shrinks, FailDest, Unlink, recordVars
  <1>2. ASSUME NEW q \in Procs, q # p PROVE Stays(q)
    BY <1>2, PcType, CopyType, Zenon DEF Stays, FailDest, Goto, Unlink, scanVars, recordVars
  <1>3. TypeOK'
    BY Typed, FiledHolds, AtWorkHolds
       DEF TypeOK, AtWork, Filed, Entries, Making, Failing, Releasing, Working, Control,
           FailDest, Goto, Unlink, recordVars, scanVars
  <1>4. Filed'
    BY <1>1, FiledHolds, FiledKeeps, Zenon DEF FailDest
  <1>5. Recorded'
    BY FiledHolds, RecordedHolds, AtWorkHolds
       DEF Filed, AtWork, Entries, Recorded, Owns, Failing, FailDest, Unlink, recordVars
  <1>6. AtWork(p)'
    BY CopyType, Zenon DEF AtWork, FailDest
  <1>7. Cleaning(p)'
    BY PcType, Zenon DEF Cleaning, FailDest, Goto
  <1>8. Owing(p)'
    BY PcType, OwingHolds, Zenon DEF Owing, FailDest, Goto
  <1>9. Decided(p)'
    BY PcType, Zenon DEF Decided, Unlinks, FailDest, Goto
  <1> QED
    BY <1>1, <1>2, <1>3, <1>4, <1>5, <1>6, <1>7, <1>8, <1>9, Undisturbed, Zenon DEF IInv

\* The host ends.
LEMMA HostEndsKeeps ==
    ASSUME IInv, NEW p \in Procs, HostEnds(p)
    PROVE  IInv'
  <1>1. Shrinks
    BY Zenon DEF Shrinks, HostEnds, fileVars, recordVars
  <1>2. ASSUME NEW q \in Procs, q # p PROVE Stays(q)
    BY <1>2, PcType, Zenon DEF Stays, HostEnds, Goto, scanVars, fileVars, recordVars, history
  <1>3. TypeOK'
    BY Typed, Zenon
       DEF TypeOK, Releasing, Working, Control, HostEnds, Goto, fileVars, recordVars, scanVars,
           history
  <1>4. Filed'
    BY <1>1, FiledHolds, FiledKeeps, Zenon DEF HostEnds
  <1>5. Recorded'
    BY <1>1, RecordedHolds, RecordedKeeps, Zenon DEF HostEnds, history
  <1>6. AtWork(p)'
    BY PcType, CopyType, HasCopy, AtWorkHolds, Zenon
       DEF AtWork, Unlinked, Owns, Making, Failing, Releasing, Working, HostEnds, Goto,
           scanVars, fileVars, recordVars, history
  <1>7. Cleaning(p)'
    BY PcType, Zenon DEF Cleaning, HostEnds, Goto
  <1>8. Owing(p)'
    BY PcType, OwingHolds, Zenon DEF Owing, HostEnds, Goto, history
  <1>9. Decided(p)'
    BY PcType, Zenon DEF Decided, Unlinks, HostEnds, Goto
  <1> QED
    BY <1>1, <1>2, <1>3, <1>4, <1>5, <1>6, <1>7, <1>8, <1>9, Undisturbed, Zenon DEF IInv

\* release_plugin compares the destination,
LEMMA ReleaseCheckDestKeeps ==
    ASSUME IInv, NEW p \in Procs, ReleaseCheckDest(p)
    PROVE  IInv'
  <1>1. Shrinks
    BY Zenon DEF Shrinks, ReleaseCheckDest, fileVars, recordVars
  <1>2. ASSUME NEW q \in Procs, q # p PROVE Stays(q)
    BY <1>2, PcType, Zenon
       DEF Stays, ReleaseCheckDest, Goto, scanVars, fileVars, recordVars, history
  <1>3. TypeOK'
    BY Typed, Zenon
       DEF TypeOK, Releasing, Working, Control, ReleaseCheckDest, Goto, fileVars, recordVars,
           scanVars, history
  <1>4. Filed'
    BY <1>1, FiledHolds, FiledKeeps, Zenon DEF ReleaseCheckDest
  <1>5. Recorded'
    BY <1>1, RecordedHolds, RecordedKeeps, Zenon DEF ReleaseCheckDest, history
  <1>6. AtWork(p)'
    BY CopyType, SetTypes, FiledHolds, AtWorkHolds
       DEF Filed, AtWork, Unlinked, Owns, Making, Failing, Releasing, ReleaseCheckDest, Goto,
           fileVars, recordVars
  <1>7. Cleaning(p)'
    BY PcType, Zenon DEF Cleaning, ReleaseCheckDest, Goto
  <1>8. Owing(p)'
    BY PcType, OwingHolds, Zenon DEF Owing, ReleaseCheckDest, Goto, history
  <1>9. Decided(p)'
    BY PcType, Zenon DEF Decided, Unlinks, Claims, ReleaseCheckDest, Goto, fileVars, recordVars
  <1> QED
    BY <1>1, <1>2, <1>3, <1>4, <1>5, <1>6, <1>7, <1>8, <1>9, Undisturbed, Zenon DEF IInv

\* unlinks it,
LEMMA ReleaseDestKeeps ==
    ASSUME IInv, NEW p \in Procs, ReleaseDest(p)
    PROVE  IInv'
  <1>1. Shrinks
    BY EntryType, Zenon DEF Shrinks, ReleaseDest, Unlink, recordVars
  <1>2. ASSUME NEW q \in Procs, q # p PROVE Stays(q)
    BY <1>2, PcType, Zenon DEF Stays, ReleaseDest, Goto, Unlink, scanVars, recordVars
  <1>3. TypeOK'
    BY Typed, FiledHolds, AtWorkHolds
       DEF TypeOK, AtWork, Filed, Entries, Releasing, Working, Control, ReleaseDest, Goto,
           Unlink, recordVars, scanVars
  <1>4. Filed'
    BY <1>1, FiledHolds, FiledKeeps, Zenon DEF ReleaseDest
  <1>5. Recorded'
    BY <1>1, RecordedHolds, RecordedKeeps, Zenon DEF ReleaseDest
  <1>6. AtWork(p)'
    BY CopyType, EntryType, FiledHolds, AtWorkHolds
       DEF Filed, AtWork, Unlinked, Owns, Entries, Failing, Releasing, ReleaseDest, Goto,
           Unlink, recordVars
  <1>7. Cleaning(p)'
    BY PcType, Zenon DEF Cleaning, ReleaseDest, Goto
  <1>8. Owing(p)'
    BY PcType, OwingHolds, Zenon DEF Owing, ReleaseDest, Goto
  <1>9. Decided(p)'
    BY PcType, Zenon DEF Decided, Unlinks, ReleaseDest, Goto
  <1> QED
    BY <1>1, <1>2, <1>3, <1>4, <1>5, <1>6, <1>7, <1>8, <1>9, Undisturbed, Zenon DEF IInv

\* compares the anchor,
LEMMA ReleaseCheckAnchorKeeps ==
    ASSUME IInv, NEW p \in Procs, ReleaseCheckAnchor(p)
    PROVE  IInv'
  <1>1. Shrinks
    BY Zenon DEF Shrinks, ReleaseCheckAnchor, fileVars, recordVars
  <1>2. ASSUME NEW q \in Procs, q # p PROVE Stays(q)
    BY <1>2, PcType, Zenon
       DEF Stays, ReleaseCheckAnchor, Goto, scanVars, fileVars, recordVars, history
  <1>3. TypeOK'
    BY Typed, Zenon
       DEF TypeOK, Releasing, Working, Control, ReleaseCheckAnchor, Goto, fileVars, recordVars,
           scanVars, history
  <1>4. Filed'
    BY <1>1, FiledHolds, FiledKeeps, Zenon DEF ReleaseCheckAnchor
  <1>5. Recorded'
    BY <1>1, RecordedHolds, RecordedKeeps, Zenon DEF ReleaseCheckAnchor, history
  <1>6. AtWork(p)'
    BY CopyType, EntryType, FiledHolds, AtWorkHolds
       DEF Filed, AtWork, Unlinked, Owns, Entries, Failing, Releasing, ReleaseCheckAnchor, Goto,
           fileVars, recordVars
  <1>7. Cleaning(p)'
    BY PcType, Zenon DEF Cleaning, ReleaseCheckAnchor, Goto
  <1>8. Owing(p)'
    BY PcType, OwingHolds, Zenon DEF Owing, ReleaseCheckAnchor, Goto, history
  <1>9. Decided(p)'
    BY PcType, Zenon DEF Decided, Unlinks, ReleaseCheckAnchor, Goto
  <1> QED
    BY <1>1, <1>2, <1>3, <1>4, <1>5, <1>6, <1>7, <1>8, <1>9, Undisturbed, Zenon DEF IInv

\* unlinks it,
LEMMA ReleaseAnchorKeeps ==
    ASSUME IInv, NEW p \in Procs, ReleaseAnchor(p)
    PROVE  IInv'
  <1>1. Shrinks
    BY EntryType, Zenon DEF Shrinks, ReleaseAnchor, Unlink, recordVars
  <1>2. ASSUME NEW q \in Procs, q # p PROVE Stays(q)
    BY <1>2, PcType, Zenon DEF Stays, ReleaseAnchor, Goto, Unlink, scanVars, recordVars, history
  <1>3. TypeOK'
    BY Typed, Zenon
       DEF TypeOK, Entries, Releasing, Working, Control, ReleaseAnchor, Goto, Unlink,
           recordVars, scanVars, history
  <1>4. Filed'
    BY <1>1, FiledHolds, FiledKeeps, Zenon DEF ReleaseAnchor
  <1>5. Recorded'
    BY <1>1, RecordedHolds, RecordedKeeps, Zenon DEF ReleaseAnchor, history
  <1>6. AtWork(p)'
    BY CopyType, EntryType, AtWorkHolds
       DEF AtWork, Unlinked, Owns, Entries, Releasing, ReleaseAnchor, Goto, Unlink, recordVars
  <1>7. Cleaning(p)'
    BY PcType, Zenon DEF Cleaning, ReleaseAnchor, Goto
  <1>8. Owing(p)'
    BY PcType, OwingHolds, Zenon DEF Owing, ReleaseAnchor, Goto, history
  <1>9. Decided(p)'
    BY PcType, Zenon DEF Decided, Unlinks, ReleaseAnchor, Goto
  <1> QED
    BY <1>1, <1>2, <1>3, <1>4, <1>5, <1>6, <1>7, <1>8, <1>9, Undisturbed, Zenon DEF IInv

\* and then the marker.
LEMMA ReleaseMarkerKeeps ==
    ASSUME IInv, NEW p \in Procs, ReleaseMarker(p)
    PROVE  IInv'
  <1>0. copy[p] # NoCopy /\ Unlinked(copy[p])
    BY HasCopy, AtWorkHolds, Zenon
       DEF ReleaseMarker, AtWork, Making, Failing, Releasing, Working
  <1>1. Shrinks
    BY Zenon DEF Shrinks, ReleaseMarker, fileVars, recordVars
  <1>2. ASSUME NEW q \in Procs, q # p PROVE Stays(q)
    BY <1>2, <1>0, OwnCopy, PcType, CopyType, MarkerType
       DEF Stays, ReleaseMarker, Goto, scanVars, fileVars, recordVars, history
  <1>3. TypeOK'
    BY Typed, Zenon
       DEF TypeOK, Making, Failing, Releasing, Working, Control, ReleaseMarker, Goto, fileVars,
           recordVars, scanVars, history
  <1>4. Filed'
    BY <1>0, <1>1, OwnCopy, FiledHolds, FiledKeeps DEF ReleaseMarker
  <1>5. Recorded'
    BY PluginAssumption, FiledHolds, RecordedHolds, AtWorkHolds
       DEF Filed, AtWork, Unlinked, Entries, Recorded, Owns, ReleaseMarker, fileVars,
           recordVars, history
  <1>6. AtWork(p)'
    BY CopyType, Zenon DEF AtWork, ReleaseMarker
  <1>7. Cleaning(p)'
    BY PcType, Zenon DEF Cleaning, ReleaseMarker, Goto
  <1>8. Owing(p)'
    BY PcType, OwingHolds, Zenon DEF Owing, ReleaseMarker, Goto, history
  <1>9. Decided(p)'
    BY PcType, Zenon DEF Decided, Unlinks, ReleaseMarker, Goto
  <1> QED
    BY <1>1, <1>2, <1>3, <1>4, <1>5, <1>6, <1>7, <1>8, <1>9, Undisturbed, Zenon DEF IInv

\* A pid comes back to life.
LEMMA StartKeeps ==
    ASSUME IInv, NEW p \in Procs, Start(p)
    PROVE  IInv'
  <1>1. Shrinks
    BY Zenon DEF Shrinks, Start, fileVars, recordVars
  <1>2. ASSUME NEW q \in Procs, q # p PROVE Stays(q)
    BY <1>2, PcType, OwedType, Zenon DEF Stays, Start, Goto, scanVars, fileVars, recordVars
  <1>3. TypeOK'
    BY Typed, Zenon
       DEF TypeOK, Making, Failing, Releasing, Working, Control, Start, Goto, fileVars,
           recordVars, scanVars
  <1>4. Filed'
    BY <1>1, FiledHolds, FiledKeeps, Zenon DEF Start
  <1>5. Recorded'
    BY <1>1, RecordedHolds, RecordedKeeps, Zenon DEF Start
  <1>6. AtWork(p)'
    BY HasCopy, Zenon DEF AtWork, Start, Working, Making, Failing, Releasing
  <1>7. Cleaning(p)'
    BY PcType, Zenon DEF Cleaning, Start, Goto
  <1>8. Owing(p)'
    BY PcType, OwingHolds, Zenon DEF Owing, Start, Goto
  <1>9. Decided(p)'
    BY PcType, Zenon DEF Decided, Unlinks, Start, Goto
  <1> QED
    BY <1>1, <1>2, <1>3, <1>4, <1>5, <1>6, <1>7, <1>8, <1>9, Undisturbed, Zenon DEF IInv

\* A launcher exits.
LEMMA ExitKeeps ==
    ASSUME IInv, NEW p \in Procs, Exit(p)
    PROVE  IInv'
  <1>1. Shrinks
    BY Zenon DEF Shrinks, Exit, fileVars, recordVars
  <1>2. ASSUME NEW q \in Procs, q # p PROVE Stays(q)
    BY <1>2, PcType, Zenon DEF Stays, Exit, Goto, scanVars, fileVars, recordVars, history
  <1>3. TypeOK'
    BY Typed, Zenon
       DEF TypeOK, Making, Failing, Releasing, Working, Control, Exit, Goto, fileVars,
           recordVars, scanVars, history
  <1>4. Filed'
    BY <1>1, FiledHolds, FiledKeeps, Zenon DEF Exit
  <1>5. Recorded'
    BY <1>1, RecordedHolds, RecordedKeeps, Zenon DEF Exit, history
  <1>6. AtWork(p)'
    BY HasCopy, Zenon DEF AtWork, Exit, Working, Making, Failing, Releasing
  <1>7. Cleaning(p)'
    BY PcType, Zenon DEF Cleaning, Exit, Goto
  <1>8. Owing(p)'
    BY PcType, OwingHolds, Zenon DEF Owing, Exit, Goto, history
  <1>9. Decided(p)'
    BY PcType, Zenon DEF Decided, Unlinks, Exit, Goto
  <1> QED
    BY <1>1, <1>2, <1>3, <1>4, <1>5, <1>6, <1>7, <1>8, <1>9, Undisturbed, Zenon DEF IInv

\* A launcher dies where it is.
LEMMA CrashKeeps ==
    ASSUME IInv, NEW p \in Procs, Crash(p)
    PROVE  IInv'
  <1>1. Shrinks
    BY Zenon DEF Shrinks, Crash, fileVars, recordVars
  <1>2. ASSUME NEW q \in Procs, q # p PROVE Stays(q)
    BY <1>2, PcType, CopyType, TodoType, CurType, ScanType, HitType, OwedType, Zenon
       DEF Stays, Crash, Goto, fileVars, recordVars
  <1>3. TypeOK'
    BY Typed, Zenon
       DEF TypeOK, Making, Failing, Releasing, Working, Control, Crash, Goto, fileVars,
           recordVars
  <1>4. Filed'
    BY <1>1, FiledHolds, FiledKeeps, Zenon DEF Crash
  <1>5. Recorded'
    BY HasCopy, FiledHolds, RecordedHolds, AtWorkHolds
       DEF Filed, AtWork, Entries, Recorded, Owns, Working, Crash, fileVars, recordVars
  <1>6. AtWork(p)'
    BY CopyType, Zenon DEF AtWork, Crash
  <1>7. Cleaning(p)'
    BY PcType, Zenon DEF Cleaning, Crash, Goto
  <1>8. Owing(p)'
    BY OwedType, Zenon DEF Owing, Crash
  <1>9. Decided(p)'
    BY PcType, Zenon DEF Decided, Unlinks, Crash, Goto
  <1> QED
    BY <1>1, <1>2, <1>3, <1>4, <1>5, <1>6, <1>7, <1>8, <1>9, Undisturbed, Zenon DEF IInv

\* The copy is published: whole, recorded, under its name.
LEMMA LinkKeeps ==
    ASSUME IInv, NEW p \in Procs, Link(p)
    PROVE  IInv'
  <1>1. TypeOK'
    BY Typed, FiledHolds
       DEF TypeOK, Filed, Entries, Working, Control, Link, Goto, recordVars, scanVars, history
  <1>2. Filed'
    BY PluginAssumption, CopyType, HasCopy, FiledHolds, AtWorkHolds
       DEF AtWork, Filed, Owns, Making, Working, Link, recordVars
  <1>3. Recorded'
    BY CopyType, HasCopy, RecordedHolds
       DEF Entries, Recorded, Owns, Making, Working, Link, recordVars, history
  <1>4. ASSUME NEW q \in Procs PROVE AtWork(q)'
    BY PluginAssumption, PcType, CopyType, HasCopy, OwedType, FiledHolds, AtWorkHolds
       DEF Filed, AtWork, Unlinked, Owns, Making, Failing, Control, Link, Goto, recordVars
  <1>5. ASSUME NEW q \in Procs PROVE Cleaning(q)'
    BY CopyType, HasCopy, FiledHolds, AtWorkHolds, CleaningHolds
       DEF Filed, AtWork, Cleaning, Owns, Making, Working, Link, Goto, recordVars, scanVars
  <1>6. ASSUME NEW q \in Procs PROVE Owing(q)'
    BY CopyType, HasCopy, OwingHolds
       DEF Entries, Owing, Gone, Owns, Making, Working, Link, Goto, recordVars, scanVars,
           history
  <1>7. ASSUME NEW q \in Procs PROVE Decided(q)'
    BY PluginAssumption, CopyType, HasCopy, FiledHolds, DecidedHolds
       DEF Filed, Decided, Unlinks, Claims, Owns, Making, Working, Link, Goto, recordVars,
           scanVars, history
  <1> QED
    BY <1>1, <1>2, <1>3, <1>4, <1>5, <1>6, <1>7, Zenon DEF IInv

\* mkstemp makes a file for a copy that had none, under an inode no entry refers to.
LEMMA CreateAnchorKeeps ==
    ASSUME IInv, NEW p \in Procs, CreateAnchor(p)
    PROVE  IInv'
  <1>1. PICK k \in Unborn, i \in Free, n \in Names :
          /\ copy' = [copy EXCEPT ![p] = k]
          /\ entry' = [entry EXCEPT ![k] = i] /\ birth' = [birth EXCEPT ![i] = k]
          /\ whole' = whole \ {i}
          /\ pid' = [pid EXCEPT ![k] = p] /\ file' = [file EXCEPT ![k] = i]
          /\ name' = [name EXCEPT ![k] = n]
    BY Zenon DEF CreateAnchor
  <1>2. PICK label \in {"copy", "discard"} : pc' = [pc EXCEPT ![p] = label]
    BY Zenon DEF CreateAnchor, Goto
  <1>3. pc[p] = "create" /\ UNCHANGED <<todo, cur, scan, hit, marker, owed, raced, cut>>
    BY Zenon DEF CreateAnchor, scanVars, history
  <1>4. /\ k \in Copies /\ file[k] = NoInode /\ i \in Inodes /\ \A x \in Entries : entry[x] # i
    BY Zenon DEF Unborn, Free
  <1>4a. copy[p] = NoCopy
    BY <1>3, HasCopy, Zenon DEF Working, Making, Failing, Releasing
  <1>5. TypeOK'
    BY <1>1, <1>2, <1>3, <1>4, PluginAssumption, Typed, Zenon
       DEF TypeOK, Entries, Making, Working, Control
  <1>6. entry[k] = NoInode /\ \A q \in Procs : copy[q] # k /\ k \notin owed[q]
    BY <1>4, PluginAssumption, EntryType, FiledHolds, AtWorkHolds, OwingHolds
       DEF Filed, AtWork, Owing, Entries
  <1>7. \A c \in Copies \cup {User}, x \in Entries :
          Owns(c, x)' <=> (IF x = k THEN c = k ELSE Owns(c, x))
    BY <1>1, <1>4, PluginAssumption, EntryType, BirthType, Zenon DEF Owns
  <1>8. Filed'
    BY <1>1, <1>3, <1>4, PluginAssumption, BirthType, PidType, FileType, NameType, FiledHolds
       DEF Filed, Owns, Entries
  <1>9. Recorded'
    <2> SUFFICES ASSUME NEW c \in Copies, NEW x \in Entries, Owns(c, x)'
                 PROVE  (marker[c] = "whole" \/ c \in cut \/ copy[pid[c]] = c)'
      BY Zenon DEF Recorded
    <2>1. CASE c = k
      BY <2>1, <1>1, CopyType, PidType, Zenon
    <2>2. CASE c # k
      <3>1. Owns(c, x)
        BY <2>2, <1>7, Zenon
      <3>2. file[c] # NoInode
        BY <3>1, EntryType, FiledHolds DEF Filed, Owns
      <3>3. pid[c] \in Procs /\ (copy[pid[c]] = c => pid[c] # p)
        BY <1>4a, <3>2, PluginAssumption, FiledHolds, Zenon DEF Filed
      <3> QED
        BY <3>1, <3>3, <1>1, <1>3, <1>6, RecordedHolds DEF Recorded
    <2> QED
      BY <2>1, <2>2, Zenon
  <1>10. ASSUME NEW q \in Procs PROVE AtWork(q)'
    BY <1>1, <1>2, <1>3, <1>4, PluginAssumption, CopyType, HasCopy, TodoType, CurType, HitType,
       PidType, FileType, SetTypes, FiledHolds, AtWorkHolds
       DEF Filed, AtWork, Owns, Unlinked, Entries, Failing, Releasing
  <1>11. ASSUME NEW q \in Procs PROVE Cleaning(q)'
    BY <1>1, <1>2, <1>3, <1>4, <1>7, CleaningHolds DEF Cleaning
  <1>12. ASSUME NEW q \in Procs PROVE Owing(q)'
    BY <1>1, <1>2, <1>3, <1>4, <1>7, OwingHolds DEF Owing, Owns, Gone
  <1>13. ASSUME NEW q \in Procs PROVE Decided(q)'
    <2> SUFFICES ASSUME NEW x \in Entries, Unlinks(q, x)', Owns(User, x)'
                 PROVE  (q \in raced \/ Claims(q, entry[x]))'
      BY Zenon DEF Decided
    <2>1. q # p
      BY <1>2, <1>3 DEF Unlinks
    <2>2. x # k /\ Owns(User, x)
      BY <1>7, PluginAssumption, <1>4, Zenon
    <2>3. pc'[q] = pc[q] /\ cur'[q] = cur[q] /\ hit'[q] = hit[q]
      BY <2>1, <1>2, <1>3, PcType, Zenon
    <2>4. copy[q] # k /\ copy'[q] = copy[q] /\ entry'[x] = entry[x]
      BY <2>1, <2>2, <1>1, <1>6, CopyType, EntryType, Zenon
    <2>5. \A c \in Copies \ {k} : name'[c] = name[c] /\ file'[c] = file[c]
      BY <1>1, NameType, FileType, Zenon
    <2>6. /\ pc[q] = "unlink" => cur[q] \in Copies \ {k}
          /\ pc[q] \in {"dest", "faildest"} => copy[q] \in Copies \ {k}
      <3>1. pc[q] = "unlink" => cur[q] \in Copies \ {k}
        BY <1>4, CleaningHolds, Zenon DEF Cleaning
      <3>2. pc[q] \in {"dest", "faildest"} => copy[q] \in Copies \ {k}
        BY <2>4, HasCopy, CopyType, Zenon DEF Working, Releasing, Failing
      <3> QED
        BY <3>1, <3>2
    <2>7. Unlinks(q, x)
      BY <2>3, <2>4, <2>5, <2>6, Zenon DEF Unlinks
    <2>8. q \in raced \/ Claims(q, entry[x])
      BY <2>2, <2>7, DecidedHolds, Zenon DEF Decided
    <2> QED
      BY <2>3, <2>4, <2>5, <2>6, <2>8, <1>3, Zenon DEF Claims
  <1> QED
    BY <1>5, <1>8, <1>9, <1>10, <1>11, <1>12, <1>13, Zenon DEF IInv

\* The user's jar is a new file under a free name; a launcher that is about to unlink
\* the name has raced.
LEMMA UserAddsKeeps ==
    ASSUME IInv, UserAdds
    PROVE  IInv'
  <1>1. PICK n \in Names, i \in Free :
          /\ entry[n] = NoInode /\ entry' = [entry EXCEPT ![n] = i]
          /\ birth' = [birth EXCEPT ![i] = User] /\ whole' = whole \ {i}
          /\ raced' = raced \cup {p \in Procs : Unlinks(p, n)}
    BY Zenon DEF UserAdds
  <1>2. UNCHANGED <<pc, copy, todo, cur, scan, hit, marker, pid, file, name, owed, cut>>
    BY Zenon DEF UserAdds, scanVars, recordVars
  <1>3. i \in Inodes /\ \A x \in Entries : entry[x] # i
    BY Zenon DEF Free
  <1>4. TypeOK'
    BY <1>1, <1>2, <1>3, Typed, Zenon DEF TypeOK, Entries
  <1>5. \A c \in Copies \cup {User}, x \in Entries :
          Owns(c, x)' <=> (IF x = n THEN c = User ELSE Owns(c, x))
    BY <1>1, <1>3, EntryType, BirthType, Zenon DEF Owns
  <1>6. Filed'
    BY <1>1, <1>2, <1>5, PluginAssumption, FiledHolds DEF Filed, Owns, Entries
  <1>7. Recorded'
    BY <1>2, <1>5, PluginAssumption, RecordedHolds, Zenon DEF Recorded
  <1>8. ASSUME NEW q \in Procs PROVE AtWork(q)'
    BY <1>1, <1>2, <1>5, PluginAssumption, CopyType, FiledHolds, AtWorkHolds
       DEF Filed, AtWork, Owns, Unlinked, Entries
  <1>9. ASSUME NEW q \in Procs PROVE Cleaning(q)'
    BY <1>2, <1>5, PluginAssumption, CleaningHolds DEF Cleaning
  <1>10. ASSUME NEW q \in Procs PROVE Owing(q)'
    BY <1>2, <1>5, PluginAssumption, OwedType, OwingHolds DEF Owing, Gone
  <1>11. ASSUME NEW q \in Procs PROVE Decided(q)'
    <2> SUFFICES ASSUME NEW x \in Entries, Unlinks(q, x)', Owns(User, x)'
                 PROVE  (q \in raced \/ Claims(q, entry[x]))'
      BY Zenon DEF Decided
    <2>1. Unlinks(q, x)
      BY <1>2, Zenon DEF Unlinks
    <2>2. CASE x = n
      BY <2>1, <2>2, <1>1, Zenon
    <2>3. CASE x # n
      <3>1. Owns(User, x) /\ entry'[x] = entry[x]
        BY <2>3, <1>1, <1>5, EntryType
      <3>2. q \in raced \/ Claims(q, entry[x])
        BY <2>1, <3>1, DecidedHolds, Zenon DEF Decided
      <3> QED
        BY <3>1, <3>2, <1>1, <1>2, Zenon DEF Claims
    <2> QED
      BY <2>2, <2>3, Zenon
  <1> QED
    BY <1>4, <1>6, <1>7, <1>8, <1>9, <1>10, <1>11, Zenon DEF IInv

\* A jar the user deletes is one the invariant need not speak of any more.
LEMMA UserDeletesKeeps ==
    ASSUME IInv, UserDeletes
    PROVE  IInv'
  <1>1. PICK n \in Names : entry' = [entry EXCEPT ![n] = NoInode]
    BY Zenon DEF UserDeletes, Unlink
  <1>2. UNCHANGED <<pc, copy, todo, cur, scan, hit, birth, whole, marker, pid, file, name, owed, raced, cut>>
    BY Zenon DEF UserDeletes, Unlink, scanVars, recordVars, history
  <1>3. TypeOK'
    BY <1>1, <1>2, Typed, Zenon DEF TypeOK, Entries
  <1>4. Shrinks
    BY <1>1, <1>2, EntryType, Zenon DEF Shrinks
  <1>5. Filed' /\ Recorded'
    BY <1>2, <1>4, FiledHolds, RecordedHolds, FiledKeeps, RecordedKeeps, Zenon
  <1>6. ASSUME NEW q \in Procs PROVE Stays(q)
    BY <1>2, Zenon DEF Stays
  <1> QED
    BY <1>3, <1>4, <1>5, <1>6, Undisturbed, Zenon DEF IInv

\* Nothing happens.
LEMMA StutterKeeps ==
    ASSUME IInv, UNCHANGED vars
    PROVE  IInv'
  <1>1. UNCHANGED <<pc, copy, todo, cur, scan, hit, entry, birth, whole, marker, pid, file, name, owed, raced, cut>>
    BY Zenon DEF vars, scanVars, fileVars, recordVars, history
  <1>2. TypeOK' /\ Shrinks
    BY <1>1, Typed, Zenon DEF TypeOK, Shrinks
  <1>3. Filed' /\ Recorded'
    BY <1>1, <1>2, FiledHolds, RecordedHolds, FiledKeeps, RecordedKeeps, Zenon
  <1>4. ASSUME NEW q \in Procs PROVE Stays(q)
    BY <1>1, Zenon DEF Stays
  <1> QED
    BY <1>2, <1>3, <1>4, Undisturbed, Zenon DEF IInv

\* IInv is inductive: every system call of every launcher, every crash and every edit
\* of the user keeps it.  A step that makes no file leaves the others alone; what has
\* to be shown of each is what it does to the launcher that takes it.
LEMMA NextKeeps ==
    ASSUME IInv, [Next]_vars
    PROVE  IInv'
  BY MaterializeKeeps, ReadMarkerKeeps, SkipMarkerKeeps, CheckEntryKeeps, UnlinkEntryKeeps,
     UnlinkMarkerKeeps, EndCleanKeeps, CreateAnchorFailsKeeps, CopyBytesKeeps, DiscardKeeps,
     OpenMarkerKeeps, WriteMarkerKeeps, MarkerFailsKeeps, LinkFailsKeeps, FailAnchorKeeps,
     FailMarkerKeeps, FailCheckKeeps, FailDestKeeps, HostEndsKeeps, ReleaseCheckDestKeeps,
     ReleaseDestKeeps, ReleaseCheckAnchorKeeps, ReleaseAnchorKeeps, ReleaseMarkerKeeps,
     StartKeeps, ExitKeeps, CrashKeeps, LinkKeeps, CreateAnchorKeeps, UserAddsKeeps,
     UserDeletesKeeps, StutterKeeps, Zenon DEF Next, Cleanup, Publish, Release

\* IInv holds of every reachable state.
THEOREM Invariance == Spec => []IInv
  <1>1. Init => IInv
    <2> SUFFICES ASSUME Init PROVE IInv
      OBVIOUS
    <2> USE PluginAssumption DEF Init
    <2>1. TypeOK
      BY Zenon DEF TypeOK, Making, Failing, Releasing, Working, Control
    <2>2. Filed /\ Recorded
      BY Zenon DEF Filed, Recorded, Owns, Entries
    <2>3. ASSUME NEW p \in Procs PROVE AtWork(p) /\ Cleaning(p) /\ Owing(p) /\ Decided(p)
      BY Zenon DEF AtWork, Cleaning, Owing, Decided, Unlinks, Owns, Entries
    <2> QED
      BY <2>1, <2>2, <2>3, Zenon DEF IInv
  <1>2. IInv /\ [Next]_vars => IInv'
    BY NextKeeps, Zenon
  <1> QED
    BY <1>1, <1>2, PTL DEF Spec

\* A jar the loader published is whole and recorded, whoever dies when.
THEOREM PublishedStaysRecorded == Spec => []PublishedIsRecorded
  <1>1. IInv => PublishedIsRecorded
    BY DEF IInv, TypeOK, Filed, Owns, PublishedIsRecorded, Entries
  <1> QED
    BY <1>1, Invariance, PTL

\* A cleanup that is through has left nothing of the copies whose launcher was dead all
\* along, for every scan limit and however many cleanups run at once.
THEOREM CleanupLeavesNothing == Spec => []CleanupErases
  <1>1. IInv => CleanupErases
    BY Zenon DEF IInv, TypeOK, Owing, Gone, Owns, CleanupErases
  <1> QED
    BY <1>1, Invariance, PTL

\* On every error path a file without a launcher is recorded or was cut off.
THEOREM LeftoversAreRecorded == Spec => []LeftoversRecorded
  <1>1. IInv => LeftoversRecorded
    BY PluginAssumption DEF IInv, TypeOK, Filed, Recorded, Owns, LeftoversRecorded
  <1> QED
    BY <1>1, Invariance, PTL

\* The unlinks of a launcher: by the name it compared, which Decided is about, or of its
\* own anchor, which is never the user's file.
LEMMA UnlinksKeepUserFiles ==
    ASSUME IInv, NEW p \in Procs,
           \/ UnlinkEntry(p) \/ FailDest(p) \/ ReleaseDest(p)
           \/ Discard(p) \/ FailAnchor(p) \/ ReleaseAnchor(p)
    PROVE  KeepsUserFiles
  <1> SUFFICES ASSUME NEW x \in Entries, Owns(User, x), entry'[x] # entry[x]
               PROVE  entry'[x] = NoInode /\ pc'[p] # pc[p] /\ (p \in raced \/ Claims(p, entry[x]))
    BY Zenon DEF KeepsUserFiles, Owns
  <1>1. CASE UnlinkEntry(p) \/ FailDest(p) \/ ReleaseDest(p)
    <2>1. Unlinks(p, x)
      BY <1>1, Zenon DEF UnlinkEntry, FailDest, ReleaseDest, Unlink, Unlinks, IInv, TypeOK
    <2>2. entry'[x] = NoInode /\ pc'[p] # pc[p]
      BY <1>1, Zenon DEF UnlinkEntry, FailDest, ReleaseDest, Unlink, Goto, IInv, TypeOK
    <2> QED
      BY <2>1, <2>2, Zenon DEF IInv, Decided
  <1>2. CASE Discard(p) \/ FailAnchor(p) \/ ReleaseAnchor(p)
    <2>1. x = copy[p]
      BY <1>2, Zenon DEF Discard, FailAnchor, ReleaseAnchor, Unlink, IInv, TypeOK
    <2>2. copy[p] \in Copies
      BY <1>2, PluginAssumption, Zenon
         DEF Discard, FailAnchor, ReleaseAnchor, IInv, TypeOK, Making, Failing, Releasing,
             Working, Control
    <2> QED
      BY <2>1, <2>2, PluginAssumption, Zenon DEF IInv, Filed, Owns
  <1> QED
    BY <1>1, <1>2, Zenon

\* The two steps that make an entry take a name that is free.
LEMMA NewEntriesKeepUserFiles ==
    ASSUME IInv, NEW p \in Procs, CreateAnchor(p) \/ Link(p)
    PROVE  KeepsUserFiles
  <1>1. CASE CreateAnchor(p)
    <2>1. PICK k \in Unborn, i \in Free : entry' = [entry EXCEPT ![k] = i]
      BY <1>1, Zenon DEF CreateAnchor
    <2>2. k \in Copies /\ entry[k] = NoInode
      BY PluginAssumption DEF Unborn, IInv, TypeOK, Filed, Entries
    <2> QED
      BY <2>1, <2>2, Zenon DEF KeepsUserFiles, IInv, TypeOK
  <1>2. CASE Link(p)
    BY <1>2, Zenon DEF Link, KeepsUserFiles, IInv, TypeOK
  <1> QED
    BY <1>1, <1>2, Zenon

\* No step of a launcher replaces or removes a file of the user's, but for an inode
\* number given out again and a jar put there between the check and the unlink.
THEOREM UserFilesAreKept == Spec => UserFilesKept
  <1>1. IInv /\ Next => KeepsUserFiles
    <2> SUFFICES ASSUME IInv, Next PROVE KeepsUserFiles
      OBVIOUS
    <2>1. ASSUME NEW p \in Procs, Cleanup(p) PROVE UnlinkEntry(p) \/ UNCHANGED entry
      BY <2>1, Zenon
         DEF Cleanup, Materialize, ReadMarker, SkipMarker, CheckEntry, UnlinkMarker, EndClean,
             fileVars
    <2>2. ASSUME NEW p \in Procs, Publish(p)
          PROVE  \/ CreateAnchor(p) \/ Link(p) \/ Discard(p) \/ FailAnchor(p) \/ FailDest(p)
                 \/ UNCHANGED entry
      BY <2>2, Zenon
         DEF Publish, CreateAnchorFails, CopyBytes, OpenMarker, WriteMarker, MarkerFails,
             LinkFails, FailMarker, FailCheck, fileVars
    <2>3. ASSUME NEW p \in Procs, Release(p) PROVE ReleaseDest(p) \/ ReleaseAnchor(p) \/ UNCHANGED entry
      BY <2>3, Zenon
         DEF Release, HostEnds, ReleaseCheckDest, ReleaseCheckAnchor, ReleaseMarker, fileVars
    <2>4. ASSUME NEW p \in Procs, Start(p) \/ Exit(p) \/ Crash(p) PROVE UNCHANGED entry
      BY <2>4, Zenon DEF Start, Exit, Crash, fileVars
    <2>5. UserAdds \/ UserDeletes => UNCHANGED pc
      BY Zenon DEF UserAdds, UserDeletes
    <2>6. UNCHANGED entry \/ UNCHANGED pc => KeepsUserFiles
      BY Zenon DEF KeepsUserFiles
    <2> QED
      BY <2>1, <2>2, <2>3, <2>4, <2>5, <2>6, UnlinksKeepUserFiles, NewEntriesKeepUserFiles,
         Zenon DEF Next
  <1> QED
    BY <1>1, Invariance, PTL DEF Spec, UserFilesKept
==============================================================================
