--------------------------- MODULE PluginDirectory ---------------------------
(***************************************************************************)
(* The plugin directory that preload launchers share with the host and     *)
(* with the user: rymga_platform_materialize_plugin, release_plugin and    *)
(* cleanup_plugins of rymga_platform_posix.c.  One action per system call  *)
(* that reads an identity or changes an entry, so other launchers, the     *)
(* user and crashes fall between the check and the unlink.                 *)
(*                                                                         *)
(* A copy is one run of materialize_plugin: the name mkstemp drew for its  *)
(* anchor, which also stands for the marker written for it.  Random names  *)
(* are never drawn twice.  File identity is the inode number: an inode is  *)
(* free, and may be given out again, once no entry refers to it.           *)
(***************************************************************************)
EXTENDS Naturals, FiniteSets

CONSTANTS Procs,       \* pids of launchers
          Names,       \* jar file names
          Copies,      \* anchors .rymga-loader-XXXXXX, one per materialization
          Inodes,
          NoInode, NoCopy, User,
          ScanLimit,   \* 256 in rymga_platform_cleanup_plugins
          Reuse,       \* the file system gives freed inode numbers out again
          UserWaits    \* the user edits the directory only while no launcher does

ASSUME PluginAssumption ==
    /\ NoInode \notin Inodes /\ NoCopy \notin Copies /\ User \notin Copies
    /\ NoCopy # User /\ Names \cap Copies = {} /\ NoCopy \notin Names
    /\ ScanLimit \in Nat
    /\ {Reuse, UserWaits} \subseteq BOOLEAN

Entries == Names \cup Copies

VARIABLES
    pc,        \* where each launcher is; "dead" when the pid is free
    copy,      \* the copy it is making, has published or is removing
    todo,      \* markers its cleanup has still to read
    cur,       \* the dead owner's marker its cleanup works on
    scan,      \* directory entries the inner loop has still to look at
    hit,       \* the entry whose identity matched and that is unlinked next
    entry,     \* the directory: entry -> inode
    birth,     \* history: the copy, or the user, that made the file
    whole,     \* inodes whose content is complete and synced
    marker,    \* marker of a copy: "none", "torn" or "whole"
    pid,       \* the launcher, the file identity and the jar name of a copy,
    file,      \*   as rymga_platform_plugin and the marker hold them
    name,
    owed,      \* history: markers whose owner was dead since the scan began
    raced,     \* history: launchers that decided to unlink a name before the user
               \*   gave it to a jar of their own
    cut        \* history: copies whose launcher died without a complete marker for them

scanVars == <<todo, cur, scan, hit>>
fileVars == <<entry, birth, whole>>
recordVars == <<pid, file, name>>
history == <<owed, raced, cut>>
vars == <<pc, copy, scanVars, fileVars, marker, recordVars, history>>

Making    == {"copy", "mark", "marking", "link", "discard"}
Failing   == {"failanchor", "failmarker", "failcheck", "faildest"}
Releasing == {"destcheck", "dest", "anchorcheck", "anchor", "marker"}
Working   == Making \cup Failing \cup Releasing \cup {"live"}
Control   == Working \cup {"dead", "idle", "clean", "scan", "unlink", "create"}

\* The record of a plugin is filled in exactly while the launcher has one.
TypeOK ==
    /\ pc \in [Procs -> Control]
    /\ copy \in [Procs -> Copies \cup {NoCopy}]
    /\ \A p \in Procs : copy[p] # NoCopy <=> pc[p] \in Working
    /\ todo \in [Procs -> SUBSET Copies] /\ owed \in [Procs -> SUBSET Copies]
    /\ cur \in [Procs -> Copies \cup {NoCopy}]
    /\ scan \in [Procs -> SUBSET Entries]
    /\ hit \in [Procs -> Entries \cup {NoCopy}]
    /\ entry \in [Entries -> Inodes \cup {NoInode}]
    /\ birth \in [Inodes -> Copies \cup {User, NoCopy}]
    /\ whole \subseteq Inodes
    /\ marker \in [Copies -> {"none", "torn", "whole"}]
    /\ pid \in [Copies -> Procs \cup {NoCopy}]
    /\ file \in [Copies -> Inodes \cup {NoInode}]
    /\ name \in [Copies -> Names \cup {NoCopy}]
    /\ raced \subseteq Procs /\ cut \subseteq Copies

Init ==
    /\ pc = [p \in Procs |-> "dead"] /\ copy = [p \in Procs |-> NoCopy]
    /\ todo = [p \in Procs |-> {}] /\ owed = [p \in Procs |-> {}]
    /\ cur = [p \in Procs |-> NoCopy] /\ scan = [p \in Procs |-> {}]
    /\ hit = [p \in Procs |-> NoCopy]
    /\ entry = [x \in Entries |-> NoInode]
    /\ birth = [i \in Inodes |-> NoCopy] /\ whole = {}
    /\ marker = [k \in Copies |-> "none"] /\ pid = [k \in Copies |-> NoCopy]
    /\ file = [k \in Copies |-> NoInode] /\ name = [k \in Copies |-> NoCopy]
    /\ raced = {} /\ cut = {}

Goto(p, label) == pc' = [pc EXCEPT ![p] = label]
Unlink(x) == entry' = [entry EXCEPT ![x] = NoInode] /\ UNCHANGED <<birth, whole>>

\* Inode numbers the file system may hand out, and names mkstemp may draw.
Free == {i \in Inodes : /\ \A x \in Entries : entry[x] # i
                        /\ Reuse \/ birth[i] = NoCopy}
Unborn == {k \in Copies : file[k] = NoInode}
-----------------------------------------------------------------------------
(* rymga_platform_cleanup_plugins, the first step of materialize_plugin *)

\* parse_plugin_marker: complete, and kill(pid, 0) says the owner is dead.
Orphaned(k) == marker[k] = "whole" /\ pid[k] \in Procs /\ pc[pid[k]] = "dead"

\* The markers a scan returns, in no particular order: all, or ScanLimit.
Scans ==
    LET found == {k \in Copies : marker[k] # "none"}
    IN  IF Cardinality(found) <= ScanLimit THEN {found}
        ELSE {S \in SUBSET found : Cardinality(S) = ScanLimit}

Materialize(p) ==
    /\ pc[p] = "idle" /\ Goto(p, "clean")
    /\ \E S \in Scans :
         /\ todo' = [todo EXCEPT ![p] = S]
         /\ owed' = [owed EXCEPT ![p] = {k \in S : Orphaned(k)}]
    /\ UNCHANGED <<copy, cur, scan, hit, fileVars, marker, recordVars, raced, cut>>

\* Mutant: looks only for the published jar.
ReadMarkerJarOnly(p, k) ==
    /\ pc[p] = "clean" /\ k \in todo[p]
    /\ todo' = [todo EXCEPT ![p] = @ \ {k}]
    /\ IF Orphaned(k)
         THEN /\ Goto(p, "scan") /\ cur' = [cur EXCEPT ![p] = k]
              /\ scan' = [scan EXCEPT ![p] = {name[k]}]
         ELSE UNCHANGED <<pc, cur, scan>>
    /\ UNCHANGED <<copy, hit, fileVars, marker, recordVars, history>>

ReadMarker(p, k) ==
    /\ pc[p] = "clean" /\ k \in todo[p]
    /\ todo' = [todo EXCEPT ![p] = @ \ {k}]
    /\ IF Orphaned(k)
         THEN /\ Goto(p, "scan") /\ cur' = [cur EXCEPT ![p] = k]
              /\ scan' = [scan EXCEPT ![p] =
                            {name[k]} \cup {c \in Copies : entry[c] # NoInode}]
         ELSE UNCHANGED <<pc, cur, scan>>
    /\ UNCHANGED <<copy, hit, fileVars, marker, recordVars, history>>

\* An open, a dup or fdopendir fails, for the marker or for the whole scan:
\* nothing is removed.
SkipMarker(p, k) ==
    /\ pc[p] = "clean" /\ k \in todo[p]
    /\ todo' = [todo EXCEPT ![p] = @ \ {k}]
    /\ owed' = [owed EXCEPT ![p] = @ \ {k}]
    /\ UNCHANGED <<pc, copy, cur, scan, hit, fileVars, marker, recordVars, raced, cut>>

\* Mutant: compares names, not identities.
CheckEntryByName(p, x) ==
    /\ pc[p] = "scan" /\ x \in scan[p]
    /\ scan' = [scan EXCEPT ![p] = @ \ {x}]
    /\ IF x \in {name[cur[p]], cur[p]}
         THEN Goto(p, "unlink") /\ hit' = [hit EXCEPT ![p] = x]
         ELSE UNCHANGED <<pc, hit>>
    /\ UNCHANGED <<copy, todo, cur, fileVars, marker, recordVars, history>>

\* file_identity_at: an entry that is the marker's file is unlinked next ...
CheckEntry(p, x) ==
    /\ pc[p] = "scan" /\ x \in scan[p]
    /\ scan' = [scan EXCEPT ![p] = @ \ {x}]
    /\ IF entry[x] = file[cur[p]]
         THEN Goto(p, "unlink") /\ hit' = [hit EXCEPT ![p] = x]
         ELSE UNCHANGED <<pc, hit>>
    /\ UNCHANGED <<copy, todo, cur, fileVars, marker, recordVars, history>>

\* ... by name.
UnlinkEntry(p) ==
    /\ pc[p] = "unlink" /\ Goto(p, "scan") /\ Unlink(hit[p])
    /\ hit' = [hit EXCEPT ![p] = NoCopy]
    /\ UNCHANGED <<copy, todo, cur, scan, marker, recordVars, owed, cut>>
    /\ raced' = raced \ {p}

UnlinkMarker(p) ==
    /\ pc[p] = "scan" /\ scan[p] = {} /\ Goto(p, "clean")
    /\ marker' = [marker EXCEPT ![cur[p]] = "none"]
    /\ cur' = [cur EXCEPT ![p] = NoCopy]
    /\ UNCHANGED <<copy, todo, scan, hit, fileVars, recordVars, history>>

EndClean(p) ==
    /\ pc[p] = "clean" /\ todo[p] = {} /\ Goto(p, "create")
    /\ owed' = [owed EXCEPT ![p] = {}]
    /\ UNCHANGED <<copy, scanVars, fileVars, marker, recordVars, raced, cut>>
-----------------------------------------------------------------------------
(* The rest of rymga_platform_materialize_plugin *)

\* mkstemp draws a name and makes a new file; the directory or the source
\* may turn out not to open, and then the file is unlinked again.
CreateAnchor(p) ==
    /\ pc[p] = "create"
    /\ \E label \in {"copy", "discard"} : Goto(p, label)
    /\ \E k \in Unborn, i \in Free, n \in Names :
         /\ copy' = [copy EXCEPT ![p] = k]
         /\ entry' = [entry EXCEPT ![k] = i] /\ birth' = [birth EXCEPT ![i] = k]
         /\ whole' = whole \ {i}
         /\ pid' = [pid EXCEPT ![k] = p] /\ file' = [file EXCEPT ![k] = i]
         /\ name' = [name EXCEPT ![k] = n]
    /\ UNCHANGED <<scanVars, marker, history>>

\* mkstemp fails.
CreateAnchorFails(p) ==
    /\ pc[p] = "create" /\ Goto(p, "idle")
    /\ UNCHANGED <<copy, scanVars, fileVars, marker, recordVars, history>>

\* The read/write loop, fsync, close and file_identity_at, which has to find the anchor;
\* or the failure of any of them, before the identity of the file is known.
CopyBytes(p) ==
    /\ pc[p] = "copy"
    /\ \/ Goto(p, "mark") /\ entry[copy[p]] # NoInode /\ whole' = whole \cup {file[copy[p]]}
       \/ Goto(p, "discard") /\ UNCHANGED whole
    /\ UNCHANGED <<copy, scanVars, entry, birth, marker, recordVars, history>>

Discard(p) ==
    /\ pc[p] = "discard" /\ Goto(p, "idle") /\ Unlink(copy[p])
    /\ copy' = [copy EXCEPT ![p] = NoCopy]
    /\ UNCHANGED <<scanVars, marker, recordVars, history>>

\* create_plugin_marker opens the file and starts to write ...
OpenMarker(p) ==
    /\ pc[p] = "mark" /\ Goto(p, "marking")
    /\ marker' = [marker EXCEPT ![copy[p]] = "torn"]
    /\ UNCHANGED <<copy, scanVars, fileVars, recordVars, history>>

\* ... and returns true once write, fsync and close are done.
WriteMarker(p) ==
    /\ pc[p] = "marking" /\ Goto(p, "link")
    /\ marker' = [marker EXCEPT ![copy[p]] = "whole"]
    /\ UNCHANGED <<copy, scanVars, fileVars, recordVars, history>>

\* Mutant: a marker that cannot be made leaves the anchor where it is.
MarkerFailsReturns(p) ==
    /\ pc[p] \in {"mark", "marking"} /\ Goto(p, "idle")
    /\ marker' = [marker EXCEPT ![copy[p]] = "none"]
    /\ copy' = [copy EXCEPT ![p] = NoCopy]
    /\ UNCHANGED <<scanVars, fileVars, recordVars, history>>

\* The open fails, or the write does and the marker is unlinked.
MarkerFails(p) ==
    /\ pc[p] \in {"mark", "marking"} /\ Goto(p, "failanchor")
    /\ marker' = [marker EXCEPT ![copy[p]] = "none"]
    /\ UNCHANGED <<copy, scanVars, fileVars, recordVars, history>>

\* linkat never replaces an entry.
Link(p) ==
    /\ pc[p] = "link" /\ Goto(p, "live")
    /\ entry[copy[p]] # NoInode /\ entry[name[copy[p]]] = NoInode
    /\ entry' = [entry EXCEPT ![name[copy[p]]] = entry[copy[p]]]
    /\ UNCHANGED <<copy, scanVars, birth, whole, marker, recordVars, history>>

LinkFails(p) ==
    /\ pc[p] = "link" /\ Goto(p, "failanchor")
    /\ UNCHANGED <<copy, scanVars, fileVars, marker, recordVars, history>>

\* The common failure exit: anchor, marker, then the destination if it is ours.
FailAnchor(p) ==
    /\ pc[p] = "failanchor" /\ Goto(p, "failmarker") /\ Unlink(copy[p])
    /\ UNCHANGED <<copy, scanVars, marker, recordVars, history>>

FailMarker(p) ==
    /\ pc[p] = "failmarker" /\ Goto(p, "failcheck")
    /\ marker' = [marker EXCEPT ![copy[p]] = "none"]
    /\ UNCHANGED <<copy, scanVars, fileVars, recordVars, history>>

FailCheck(p) ==
    /\ pc[p] = "failcheck"
    /\ IF entry[name[copy[p]]] = file[copy[p]]
         THEN Goto(p, "faildest") /\ UNCHANGED copy
         ELSE Goto(p, "idle") /\ copy' = [copy EXCEPT ![p] = NoCopy]
    /\ UNCHANGED <<scanVars, fileVars, marker, recordVars, history>>

FailDest(p) ==
    /\ pc[p] = "faildest" /\ Goto(p, "idle") /\ Unlink(name[copy[p]])
    /\ copy' = [copy EXCEPT ![p] = NoCopy]
    /\ UNCHANGED <<scanVars, marker, recordVars, owed, cut>>
    /\ raced' = raced \ {p}
-----------------------------------------------------------------------------
(* rymga_platform_release_plugin, once the host has ended: destination and
   anchor, each only if its identity still is the copy's, then the marker *)

\* Mutant: the marker goes first.
HostEndsMarkerFirst(p) ==
    /\ pc[p] = "live" /\ Goto(p, "destcheck")
    /\ marker' = [marker EXCEPT ![copy[p]] = "none"]
    /\ UNCHANGED <<copy, scanVars, fileVars, recordVars, history>>

HostEnds(p) ==
    /\ pc[p] = "live" /\ Goto(p, "destcheck")
    /\ UNCHANGED <<copy, scanVars, fileVars, marker, recordVars, history>>

ReleaseCheckDest(p) ==
    /\ pc[p] = "destcheck"
    /\ Goto(p, IF entry[name[copy[p]]] = file[copy[p]] THEN "dest" ELSE "anchorcheck")
    /\ UNCHANGED <<copy, scanVars, fileVars, marker, recordVars, history>>

ReleaseDest(p) ==
    /\ pc[p] = "dest" /\ Goto(p, "anchorcheck") /\ Unlink(name[copy[p]])
    /\ UNCHANGED <<copy, scanVars, marker, recordVars, owed, cut>>
    /\ raced' = raced \ {p}

ReleaseCheckAnchor(p) ==
    /\ pc[p] = "anchorcheck"
    /\ Goto(p, IF entry[copy[p]] = file[copy[p]] THEN "anchor" ELSE "marker")
    /\ UNCHANGED <<copy, scanVars, fileVars, marker, recordVars, history>>

ReleaseAnchor(p) ==
    /\ pc[p] = "anchor" /\ Goto(p, "marker") /\ Unlink(copy[p])
    /\ UNCHANGED <<copy, scanVars, marker, recordVars, history>>

ReleaseMarker(p) ==
    /\ pc[p] = "marker" /\ Goto(p, "idle")
    /\ marker' = [marker EXCEPT ![copy[p]] = "none"]
    /\ copy' = [copy EXCEPT ![p] = NoCopy]
    /\ UNCHANGED <<scanVars, fileVars, recordVars, history>>
-----------------------------------------------------------------------------
(* The world around the calls *)

\* A pid comes (back) to life: its markers stop being a dead process's.
Start(p) ==
    /\ pc[p] = "dead" /\ Goto(p, "idle")
    /\ owed' = [q \in Procs |-> {k \in owed[q] : pid[k] # p}]
    /\ UNCHANGED <<copy, scanVars, fileVars, marker, recordVars, raced, cut>>

Exit(p) ==
    /\ pc[p] = "idle" /\ Goto(p, "dead")
    /\ UNCHANGED <<copy, scanVars, fileVars, marker, recordVars, history>>

Crash(p) ==
    /\ pc[p] \notin {"dead", "idle"} /\ Goto(p, "dead")
    /\ copy' = [copy EXCEPT ![p] = NoCopy] /\ cur' = [cur EXCEPT ![p] = NoCopy]
    /\ hit' = [hit EXCEPT ![p] = NoCopy] /\ scan' = [scan EXCEPT ![p] = {}]
    /\ todo' = [todo EXCEPT ![p] = {}] /\ owed' = [owed EXCEPT ![p] = {}]
    /\ raced' = raced \ {p}
    /\ cut' = IF pc[p] \in Making \cup {"failanchor"} /\ marker[copy[p]] # "whole" THEN cut \cup {copy[p]} ELSE cut
    /\ UNCHANGED <<fileVars, marker, recordVars>>

\* The identity of the entry was read, and it is unlinked next.
Unlinks(p, x) == (pc[p] = "unlink" /\ hit[p] = x) \/ (pc[p] \in {"dest", "faildest"} /\ name[copy[p]] = x)

MayEdit == UserWaits => \A p \in Procs : pc[p] \in {"dead", "idle", "live"}

\* The user installs a jar of their own under a free name.
UserAdds ==
    /\ MayEdit
    /\ \E n \in Names, i \in Free :
         /\ entry[n] = NoInode /\ entry' = [entry EXCEPT ![n] = i]
         /\ birth' = [birth EXCEPT ![i] = User] /\ whole' = whole \ {i}
         /\ raced' = raced \cup {p \in Procs : Unlinks(p, n)}
    /\ UNCHANGED <<pc, copy, scanVars, marker, recordVars, owed, cut>>

\* The user deletes a jar, their own or the loader's.
UserDeletes ==
    /\ MayEdit
    /\ \E n \in Names : entry[n] # NoInode /\ Unlink(n)
    /\ UNCHANGED <<pc, copy, scanVars, marker, recordVars, history>>
-----------------------------------------------------------------------------
Cleanup(p) ==
    \/ Materialize(p) \/ UnlinkEntry(p) \/ UnlinkMarker(p) \/ EndClean(p)
    \/ \E k \in Copies : ReadMarker(p, k) \/ SkipMarker(p, k)
    \/ \E x \in Entries : CheckEntry(p, x)
Publish(p) ==
    \/ CreateAnchor(p) \/ CreateAnchorFails(p) \/ CopyBytes(p) \/ Discard(p)
    \/ OpenMarker(p) \/ WriteMarker(p) \/ MarkerFails(p) \/ Link(p) \/ LinkFails(p)
    \/ FailAnchor(p) \/ FailMarker(p) \/ FailCheck(p) \/ FailDest(p)
Release(p) ==
    \/ HostEnds(p) \/ ReleaseCheckDest(p) \/ ReleaseDest(p) \/ ReleaseCheckAnchor(p)
    \/ ReleaseAnchor(p) \/ ReleaseMarker(p)

Next ==
    \/ \E p \in Procs : \/ Cleanup(p) \/ Publish(p) \/ Release(p)
                        \/ Start(p) \/ Exit(p) \/ Crash(p)
    \/ UserAdds \/ UserDeletes

Spec == Init /\ [][Next]_vars
-----------------------------------------------------------------------------
(* Properties *)

\* A jar the loader published is whole, and recorded in a complete marker for as long
\* as it is there, whoever dies when: materialize_plugin syncs the bytes under the
\* anchor's name and writes the marker before linkat, and release and cleanup unlink
\* the marker after the jar.
PublishedIsRecorded ==
    \A n \in Names : (entry[n] # NoInode /\ birth[entry[n]] \in Copies) =>
        LET k == birth[entry[n]]
        IN  entry[n] \in whole /\ marker[k] = "whole" /\ name[k] = n /\ file[k] = entry[n]

\* When cleanup_plugins is through, nothing is left of the copies whose marker
\* it read and whose launcher was dead all along: neither jar nor anchor.
CleanupErases ==
    \A p \in Procs : (pc[p] = "clean" /\ todo[p] = {}) =>
        \A k \in owed[p], x \in Entries : entry[x] # NoInode => birth[entry[x]] # k

\* Every file of a copy that no launcher is at work on is recorded, so that a later
\* cleanup can find it, on every error path of materialize_plugin and release_plugin:
\* only a launcher that dies while its marker is not complete leaves a file without one.
LeftoversRecorded ==
    \A x \in Entries : (entry[x] # NoInode /\ birth[entry[x]] \in Copies) =>
        LET k == birth[entry[x]]
        IN  marker[k] = "whole" \/ k \in cut \/ \E p \in Procs : copy[p] = k

\* The file that launcher p unlinks next is recorded to have the inode number.
Claims(p, i) ==
    \/ pc[p] = "unlink" /\ file[cur[p]] = i
    \/ pc[p] \in {"dest", "faildest"} /\ file[copy[p]] = i

\* ARCHITECTURE.md: the launcher removes only files it owns.  No step of a
\* launcher replaces a file the user put into the directory, or removes one, but for
\* two cases that the identity check cannot tell: the file was given the very inode
\* number of a copy that is gone, or the user put it there between the check and
\* the unlink.
KeepsUserFiles ==
    pc' # pc => \A x \in Entries :
        (entry[x] # NoInode /\ birth[entry[x]] = User) =>
            \/ entry'[x] = entry[x]
            \/ entry'[x] = NoInode /\ \E p \in Procs : pc'[p] # pc[p] /\ (p \in raced \/ Claims(p, entry[x]))
UserFilesKept == [][KeepsUserFiles]_vars

\* The same, between launchers: while the host of a launcher runs, no other
\* launcher removes the jar it published.
KeepsLiveJars ==
    pc' # pc => \A p \in Procs :
        LET k == copy[p]
        IN  (pc[p] = "live" /\ pc'[p] = "live" /\ entry[name[k]] = file[k]) =>
                entry'[name[k]] = file[k]
LiveJarsKept == [][KeepsLiveJars]_vars
=============================================================================
