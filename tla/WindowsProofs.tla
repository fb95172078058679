---------------------------- MODULE WindowsProofs ----------------------------
(***************************************************************************)
(* The properties of WindowsLauncher for every number of launchers.  What  *)
(* has to be known of a launcher depends on where it is, on whose files it *)
(* is removing, and, once its process has ended, on what the removals of   *)
(* others have got to: IInv says it per launcher.                          *)
(***************************************************************************)
EXTENDS WindowsLauncher, TLAPS

\* The steps of the removal of a temporary directory and of a copy.
Removing == {"deleteJar", "deletePart", "deleteMarker", "removeDirectory"}
Unpublishing == {"compareJar", "deleteCopy", "deleteAnchor", "deleteRecord"}

\* The steps before a launcher has a file of its own, and those with the artifact.
Early == {"start", "console", "hide", "read", "restore", "unhandle", "acquire", "sweep",
          "judge", "makeDirectory", "createMarker", "writeMarker", "createPart"}
Materializing == {"materialize", "sweepPlugins", "judgeCopy", "copy"}
Publishing == {"createRecord", "writeRecord", "link"}
Hosting == {"startHost", "createProcess", "wait"}
Holding == {"handle", "release"} \cup Materializing \cup Unpublishing \cup Publishing \cup Hosting

\* The steps that work on the launcher's own files.
OnOwn == {"makeDirectory", "createMarker", "writeMarker", "createPart", "download", "handle",
          "copy", "release"} \cup Publishing \cup Hosting

\* The echo is off only where the prompt has yet to restore it.
Echoing(l) ==
    /\ l \notin echo => pc[l] \in {"read", "restore"} \/ (pc[l] = "gone" /\ control[l] = "endEarly")
    /\ control[l] # "none" => Restoring(l) \/ pc[l] = "gone"
    /\ control[l] = "end" => l \in echo /\ pc[l] # "hide"

\* The jar is gone from the directory, or was in use; so is the copy.
NoJar(m) == file[m] = "none" \/ Jar(m) \in refused
NoCopy(m) == (m \notin partial /\ dest # m) \/ Copy(m) \in refused

\* A launcher removes its own files or those of one that has ended, and what the steps
\* it has done already were to delete is gone.
Targeting(l) ==
    LET m == target[l] IN
    /\ pc[l] \in {"judge", "judgeCopy"} => m \in Launchers
    /\ pc[l] \in Removing \cup Unpublishing => m \in Launchers /\ (m = l \/ pc[m] = "gone")
    /\ pc[l] \in OnOwn => m = l
    /\ pc[l] = "deletePart" => file[m] # "jar" \/ Jar(m) \in refused
    /\ pc[l] \in {"deleteMarker", "removeDirectory"} => NoJar(m)
    /\ pc[l] \in {"deleteAnchor", "deleteRecord"} => dest # m \/ Copy(m) \in refused
    /\ pc[l] = "deleteRecord" => m \notin partial \/ Copy(m) \in refused
    /\ pc[l] = "deleteCopy" => dest \in {Nobody, m} \cup raced

\* The file in a launcher's temporary directory, and its marker.
Filing(l) ==
    /\ pc[l] = "start" => l \notin dirs /\ record[l] = "none"
    /\ pc[l] \in Early \/ (pc[l] \in Removing /\ target[l] # l) => file[l] = "none"
    /\ pc[l] \in Holding => file[l] = "jar"
    /\ pc[l] = "exit" => NoJar(l)
    /\ pc[l] \in {"createPart", "download"} => marker[l] = "whole"
    /\ file[l] # "none" => marker[l] = "whole" \/ Jar(l) \in refused \/ l \in leaky

\* Its copy in the plugin directory, and the record of it.
Copying(l) ==
    /\ pc[l] \in Early \cup Removing \cup Materializing \cup {"download", "handle", "exit"} => NoCopy(l)
    /\ pc[l] \in Unpublishing /\ target[l] # l => NoCopy(l)
    /\ pc[l] \in Materializing \cup Unpublishing \cup Publishing => l \in preload
    /\ pc[l] \in Hosting \cup {"release"} /\ l \notin preload => NoCopy(l)
    /\ pc[l] \in Publishing => dest # l \/ Copy(l) \in refused
    /\ pc[l] \in Hosting /\ l \in preload /\ l \notin raced => dest = l
    /\ pc[l] \in {"link", "release"} \cup Hosting /\ l \in preload => record[l] = "whole"
    /\ pc[l] \in {"compareJar", "deleteCopy"} /\ target[l] = l => record[l] = "whole"
    /\ pc[l] = "gone" => NoCopy(l) \/ record[l] = "whole" \/ l \in bare

\* The host, and the handler that keeps its parent alive.
Keeping(l) ==
    /\ host[l] = "running" => pc[l] = "wait" \/ l \in closed
    /\ pc[l] \in {"createProcess", "wait"} => l \in keep

IInv ==
    /\ TypeOK
    /\ \A l \in Launchers : Echoing(l) /\ Targeting(l) /\ Filing(l) /\ Copying(l) /\ Keeping(l)

\* What a step may do to the files of a launcher that has ended, or does not move: they
\* get fewer.
Fades(m) ==
    /\ pc[m] = "gone" => pc'[m] = "gone"
    /\ file'[m] = file[m] \/ file'[m] = "none"
    /\ (m \in partial' => m \in partial) /\ (dest' = m => dest = m)

\* No step makes files of a launcher that has ended, or forgets what happened; while a
\* launcher is about to delete what has the jar's name, who gets the name has raced.
Onward ==
    /\ \A m \in Launchers : pc[m] = "gone" => Fades(m)
    /\ preload' = preload
    /\ refused \subseteq refused' /\ leaky \subseteq leaky'
    /\ closed \subseteq closed' /\ bare \subseteq bare'
    /\ \A m \in Launchers : m \in raced => m \in raced'
    /\ Deleting => raced \subseteq raced' /\ (dest' = dest \/ dest' = Nobody \/ dest' \in raced')

\* A step is not launcher h's, and leaves it what it works with; the markers of one that
\* has ended go last.
Stays(h) ==
    /\ pc'[h] = pc[h] /\ target'[h] = target[h] /\ control'[h] = control[h] /\ Fades(h)
    /\ (h \in echo' <=> h \in echo) /\ (h \in keep => h \in keep') /\ (h \in dirs' => h \in dirs)
    /\ host'[h] = host[h] \/ host'[h] # "running"
    /\ pc[h] # "gone" => file'[h] = file[h]
    /\ marker'[h] = marker[h] \/ (pc[h] = "gone" /\ NoJar(h)')
    /\ record'[h] = record[h] \/ (pc[h] = "gone" /\ NoCopy(h)')
    /\ (dest = h /\ pc[h] \in Hosting) => dest' = h \/ h \in raced'

\* A step of launcher l that touches no file.
Moves(l) ==
    /\ pc[l] # "gone" /\ \A h \in Launchers \ {l} : pc'[h] = pc[h] /\ target'[h] = target[h]
    /\ UNCHANGED <<preload, dirs, marker, file, partial, record, dest, refused, leaky, raced>>
    /\ UNCHANGED launcherVars

\* The jar and the copy of a launcher are files.
LEMMA FilesTyped == \A m \in Launchers : Jar(m) \in Files /\ Copy(m) \in Files
  BY Zenon DEF Jar, Copy, Files

\* The variables have their types.
LEMMA Typed == IInv => TypeOK
  BY Zenon DEF IInv
\* The echo of every launcher is on, or about to be restored.
LEMMA EchoingHolds == IInv => \A h \in Launchers : Echoing(h)
  BY Zenon DEF IInv
\* Every launcher removes its own files, or those of one that has ended.
LEMMA TargetingHolds == IInv => \A h \in Launchers : Targeting(h)
  BY Zenon DEF IInv
\* The file of every launcher is under its marker.
LEMMA FilingHolds == IInv => \A h \in Launchers : Filing(h)
  BY Zenon DEF IInv
\* The copy of every launcher is recorded or about to be.
LEMMA CopyingHolds == IInv => \A h \in Launchers : Copying(h)
  BY Zenon DEF IInv
\* A running host has its launcher, but for a closed console.
LEMMA KeepingHolds == IInv => \A h \in Launchers : Keeping(h)
  BY Zenon DEF IInv
\* Where the launchers are.
LEMMA PcType == IInv => pc \in [Launchers -> Control]
  BY Zenon DEF IInv, TypeOK
\* Whose files a launcher works on.
LEMMA TargetType == IInv => target \in [Launchers -> Launchers \cup {Nobody}]
  BY Zenon DEF IInv, TypeOK
\* The markers a cleanup has still to read.
LEMMA TodoType == IInv => todo \in [Launchers -> SUBSET Launchers]
  BY Zenon DEF IInv, TypeOK
\* The markers.
LEMMA MarkerType == IInv => marker \in [Launchers -> Marks]
  BY Zenon DEF IInv, TypeOK
\* The records of the copies.
LEMMA RecordType == IInv => record \in [Launchers -> Marks]
  BY Zenon DEF IInv, TypeOK
\* The files.
LEMMA FileType == IInv => file \in [Launchers -> {"none", "part", "jar"}]
  BY Zenon DEF IInv, TypeOK
\* The file a host has open.
LEMMA OpenedType == IInv => opened \in [Launchers -> Files \cup {NoFile}]
  BY Zenon DEF IInv, TypeOK
\* The hosts.
LEMMA HostType == IInv => host \in [Launchers -> {"none", "running", "ended"}]
  BY Zenon DEF IInv, TypeOK
\* The control threads.
LEMMA ControlType == IInv => control \in [Launchers -> {"none", "called", "endEarly", "end"}]
  BY Zenon DEF IInv, TypeOK

\* What one launcher relies on, no other takes away.
LEMMA Undisturbed ==
    ASSUME IInv, Onward, NEW h \in Launchers, Stays(h)
    PROVE  Echoing(h)' /\ Targeting(h)' /\ Filing(h)' /\ Copying(h)' /\ Keeping(h)'
  <1>1. ASSUME NEW m \in Launchers, m = h \/ pc[m] = "gone"
        PROVE  Fades(m) /\ (NoJar(m) => NoJar(m)') /\ (NoCopy(m) => NoCopy(m)')
    <2>1. Fades(m)
      BY <1>1, Zenon DEF Onward, Stays
    <2> QED
      BY <2>1, Zenon DEF Fades, Onward, NoJar, NoCopy
  <1>2. Echoing(h)' /\ Keeping(h)'
    BY EchoingHolds, KeepingHolds, Zenon DEF Echoing, Keeping, Restoring, Stays, Onward
  <1>3. Targeting(h)'
    <2>1. target'[h] = target[h] /\ pc'[h] = pc[h]
      BY Zenon DEF Stays
    <2>2. /\ pc[h] \in {"judge", "judgeCopy"} => target[h] \in Launchers
          /\ pc[h] \in OnOwn => target[h] = h
      BY TargetingHolds, Zenon DEF Targeting
    <2>3. ASSUME pc[h] \in Removing \cup Unpublishing
          PROVE  /\ target[h] \in Launchers /\ Fades(target[h])
                 /\ target[h] = h \/ pc'[target[h]] = "gone"
                 /\ NoJar(target[h]) => file'[target[h]] = "none" \/ Jar(target[h]) \in refused'
      <3>1. target[h] \in Launchers /\ (target[h] = h \/ pc[target[h]] = "gone")
        BY <2>3, TargetingHolds, Zenon DEF Targeting
      <3> QED
        BY <3>1, <1>1, Zenon DEF Fades, NoJar
    <2>4. ASSUME pc[h] = "deletePart" PROVE file'[target[h]] # "jar" \/ Jar(target[h]) \in refused'
      BY <2>3, <2>4, TargetingHolds, Zenon DEF Targeting, Removing, Fades, Onward
    <2>5. ASSUME pc[h] \in {"deleteMarker", "removeDirectory"}
          PROVE  file'[target[h]] = "none" \/ Jar(target[h]) \in refused'
      BY <2>3, <2>5, TargetingHolds, Zenon DEF Targeting, Removing
    <2>6. ASSUME pc[h] \in {"deleteAnchor", "deleteRecord"}
          PROVE  dest' # target[h] \/ Copy(target[h]) \in refused'
      BY <2>3, <2>6, TargetingHolds, Zenon DEF Targeting, Unpublishing, Fades, Onward
    <2>7. ASSUME pc[h] = "deleteRecord"
          PROVE  target[h] \notin partial' \/ Copy(target[h]) \in refused'
      BY <2>3, <2>7, TargetingHolds, Zenon DEF Targeting, Unpublishing, Fades, Onward
    <2>8. ASSUME pc[h] = "deleteCopy" PROVE dest' \in {Nobody, target[h]} \cup raced'
      <3>1. dest \in {Nobody, target[h]} \cup raced /\ Deleting
        BY <2>8, TargetingHolds, Zenon DEF Targeting, Deleting
      <3> QED
        BY <3>1, Zenon DEF Onward
    <2> QED
      BY <2>1, <2>2, <2>3, <2>4, <2>5, <2>6, <2>7, <2>8, Zenon DEF Targeting, NoJar
  <1>4. Filing(h)'
    BY <1>1, FilingHolds, Zenon
       DEF Filing, Stays, Fades, Onward, NoJar, Holding, Materializing, Unpublishing,
           Publishing, Hosting
  <1>5. Copying(h)'
    <2>1. ASSUME pc[h] # "gone" PROVE record'[h] = record[h]
      BY <2>1, Zenon DEF Stays
    <2>2. /\ pc'[h] \in {"link", "release"} \cup Hosting /\ h \in preload' => record'[h] = "whole"
          /\ pc'[h] \in {"compareJar", "deleteCopy"} /\ target'[h] = h => record'[h] = "whole"
      BY <2>1, CopyingHolds, Zenon DEF Copying, Stays, Onward, Hosting
    <2> QED
      BY <2>2, <1>1, CopyingHolds, Zenon DEF Copying, Stays, Fades, Onward
  <1> QED
    BY <1>2, <1>3, <1>4, <1>5, Zenon

\* A step that touches no file concerns nobody else.
LEMMA MovesAlone ==
    ASSUME NEW l \in Launchers, Moves(l)
    PROVE  Onward /\ \A h \in Launchers \ {l} : Stays(h)
  <1>1. Onward
    BY Zenon DEF Onward, Fades, Moves, launcherVars
  <1>2. ASSUME NEW h \in Launchers \ {l} PROVE Stays(h)
    BY <1>2, Zenon DEF Stays, Fades, Moves, launcherVars
  <1> QED
    BY <1>1, <1>2, Zenon

\* The cleanup begins.
LEMMA CleanupStaleKeeps ==
    ASSUME IInv, NEW l \in Launchers, CleanupStale(l), UNCHANGED launcherVars
    PROVE  IInv'
  <1>0. pc[l] = "acquire" /\ pc'[l] = "sweep" /\ \A h \in Launchers \ {l} : pc'[h] = pc[h]
    BY PcType, Zenon DEF CleanupStale, Step
  <1>1. Moves(l)
    BY <1>0, Zenon
       DEF Moves, CleanupStale, tempVars, pluginVars, pastVars, launcherVars, historyVars
  <1>2. TypeOK'
    BY StoreAssumption, Typed
       DEF TypeOK, Control, CleanupStale, Step, Scans, procVars, tempVars, pluginVars, pastVars,
           storeVars, launcherVars, historyVars
  <1>3. Echoing(l)' /\ Keeping(l)'
    BY <1>0, <1>1, EchoingHolds, KeepingHolds, Zenon
       DEF Echoing, Keeping, Restoring, Moves, launcherVars, historyVars
  <1>4. Targeting(l)'
    BY <1>0, TargetingHolds, <1>1, Zenon
       DEF Targeting, NoJar, Removing, Unpublishing, OnOwn, Publishing, Hosting, CleanupStale,
           Moves
  <1>5. Filing(l)' /\ Copying(l)'
    BY <1>0, <1>1, FilingHolds, CopyingHolds, Zenon
       DEF Filing, Copying, NoJar, NoCopy, Moves, Early, Removing, Holding, Materializing,
           Unpublishing, Publishing, Hosting
  <1> QED
    BY <1>0, <1>1, <1>2, <1>3, <1>4, <1>5, MovesAlone, Undisturbed, Zenon DEF IInv

\* A marker is opened, or passed over.
LEMMA OpenMarkerKeeps ==
    ASSUME IInv, NEW l \in Launchers, NEW m \in Launchers, OpenMarker(l, m), UNCHANGED launcherVars
    PROVE  IInv'
  <1>0. /\ pc[l] = "sweep" /\ pc'[l] \in {"judge", "sweep"}
        /\ \A h \in Launchers \ {l} : pc'[h] = pc[h]
    BY PcType, Zenon DEF OpenMarker, Step
  <1>1. Moves(l)
    BY <1>0, TargetType, Zenon
       DEF Moves, OpenMarker, tempVars, pluginVars, pastVars, launcherVars, historyVars
  <1>2. TypeOK'
    BY StoreAssumption, Typed
       DEF TypeOK, Control, OpenMarker, Step, procVars, tempVars, pluginVars, pastVars,
           storeVars, launcherVars, historyVars
  <1>3. Echoing(l)' /\ Keeping(l)'
    BY <1>0, <1>1, EchoingHolds, KeepingHolds, Zenon
       DEF Echoing, Keeping, Restoring, Moves, launcherVars, historyVars
  <1>4. Targeting(l)'
    BY <1>0, PcType, TargetType, TargetingHolds, Zenon
       DEF Targeting, NoJar, Removing, Unpublishing, OnOwn, Publishing, Hosting, OpenMarker,
           Step
  <1>5. Filing(l)' /\ Copying(l)'
    BY <1>0, <1>1, FilingHolds, CopyingHolds, Zenon
       DEF Filing, Copying, NoJar, NoCopy, Moves, Early, Removing, Holding, Materializing,
           Unpublishing, Publishing, Hosting
  <1> QED
    BY <1>0, <1>1, <1>2, <1>3, <1>4, <1>5, MovesAlone, Undisturbed, Zenon DEF IInv

\* Only the directory of a launcher that has ended is judged stale.
LEMMA JudgeKeeps ==
    ASSUME IInv, NEW l \in Launchers, Judge(l), UNCHANGED launcherVars
    PROVE  IInv'
  <1>0. /\ pc[l] = "judge" /\ pc'[l] \in {"deleteJar", "sweep"}
        /\ \A h \in Launchers \ {l} : pc'[h] = pc[h]
    BY PcType, Zenon DEF Judge, Step
  <1>1. Moves(l)
    BY <1>0, Zenon DEF Moves, Judge, tempVars, pluginVars, pastVars, launcherVars, historyVars
  <1>2. TypeOK'
    BY StoreAssumption, Typed, Zenon
       DEF TypeOK, Control, Judge, Step, Stale, Alive, procVars, tempVars, pluginVars, pastVars,
           storeVars, launcherVars, historyVars
  <1>3. Echoing(l)' /\ Keeping(l)'
    BY <1>0, <1>1, EchoingHolds, KeepingHolds, Zenon
       DEF Echoing, Keeping, Restoring, Moves, launcherVars, historyVars
  <1>4. Targeting(l)'
    BY <1>0, TargetingHolds, <1>1, PcType, FilingHolds, Zenon
       DEF Targeting, NoJar, Removing, Unpublishing, OnOwn, Publishing, Hosting, Judge, Moves,
           Step, Stale, Alive, Filing
  <1>5. Filing(l)' /\ Copying(l)'
    BY <1>0, <1>1, FilingHolds, CopyingHolds, Zenon
       DEF Filing, Copying, NoJar, NoCopy, Moves, Early, Removing, Holding, Materializing,
           Unpublishing, Publishing, Hosting
  <1> QED
    BY <1>0, <1>1, <1>2, <1>3, <1>4, <1>5, MovesAlone, Undisturbed, Zenon DEF IInv

\* The cleanup is through, and the launcher turns to its own directory.
LEMMA SweepEndsKeeps ==
    ASSUME IInv, NEW l \in Launchers, SweepEnds(l), UNCHANGED launcherVars
    PROVE  IInv'
  <1>0. pc[l] = "sweep" /\ pc'[l] = "makeDirectory" /\ \A h \in Launchers \ {l} : pc'[h] = pc[h]
    BY PcType, Zenon DEF SweepEnds, Step
  <1>1. Moves(l)
    BY <1>0, TargetType, Zenon
       DEF Moves, SweepEnds, tempVars, pluginVars, pastVars, launcherVars, historyVars
  <1>2. TypeOK'
    BY StoreAssumption, Typed, Zenon
       DEF TypeOK, Control, SweepEnds, Step, procVars, tempVars, pluginVars, pastVars,
           storeVars, launcherVars, historyVars
  <1>3. Echoing(l)' /\ Keeping(l)'
    BY <1>0, <1>1, EchoingHolds, KeepingHolds, Zenon
       DEF Echoing, Keeping, Restoring, Moves, launcherVars, historyVars
  <1>4. Targeting(l)'
    BY <1>0, TargetType, TargetingHolds, Zenon
       DEF Targeting, NoJar, Removing, Unpublishing, OnOwn, Publishing, Hosting, SweepEnds
  <1>5. Filing(l)' /\ Copying(l)'
    BY <1>0, <1>1, FilingHolds, CopyingHolds, Zenon
       DEF Filing, Copying, NoJar, NoCopy, Moves, Early, Removing, Holding, Materializing,
           Unpublishing, Publishing, Hosting
  <1> QED
    BY <1>0, <1>1, <1>2, <1>3, <1>4, <1>5, MovesAlone, Undisturbed, Zenon DEF IInv

\* After DeleteJar the jar is gone or was in use,
LEMMA DeleteJarKeeps ==
    ASSUME IInv, NEW l \in Launchers, DeleteJar(l), UNCHANGED launcherVars
    PROVE  IInv'
  <1>0. pc[l] = "deleteJar" /\ pc'[l] = "deletePart" /\ \A h \in Launchers \ {l} : pc'[h] = pc[h]
    BY PcType, Zenon DEF DeleteJar, Step
  <1>1. Onward
    BY <1>0, FileType, TargetingHolds, Zenon
       DEF Onward, Fades, DeleteJar, pluginVars, launcherVars, historyVars
  <1>2. ASSUME NEW h \in Launchers, h # l PROVE Stays(h)
    BY <1>2, <1>0, FileType, TargetingHolds, Zenon
       DEF Stays, Fades, NoJar, Hosting, Targeting, Removing, Unpublishing, NoCopy, DeleteJar,
           pluginVars, launcherVars, historyVars
  <1>3. TypeOK'
    BY StoreAssumption, FilesTyped, Typed, TargetingHolds
       DEF TypeOK, Targeting, Control, Marks, Removing, Unpublishing, Publishing, Hosting,
           OnOwn, DeleteJar, Step, InUse, procVars, tempVars, pluginVars, pastVars, storeVars,
           launcherVars, historyVars
  <1>4. Echoing(l)' /\ Keeping(l)'
    BY <1>0, EchoingHolds, KeepingHolds, Zenon
       DEF Echoing, Keeping, Restoring, DeleteJar, pluginVars, launcherVars, historyVars
  <1>5. Targeting(l)'
    BY <1>0, FileType, TargetingHolds, Zenon
       DEF Targeting, NoJar, Removing, Unpublishing, OnOwn, Publishing, Hosting, DeleteJar,
           pluginVars, launcherVars, historyVars
  <1>6. Filing(l)'
    BY <1>0, FileType, FilingHolds, TargetingHolds
       DEF Filing, NoJar, Targeting, Early, Removing, Holding, Materializing, Unpublishing,
           Publishing, Hosting, DeleteJar, pluginVars, launcherVars, historyVars
  <1>7. Copying(l)'
    BY <1>0, CopyingHolds, TargetingHolds, Zenon
       DEF Copying, NoCopy, Targeting, Early, Removing, Materializing, Unpublishing, Publishing,
           Hosting, DeleteJar, pluginVars, launcherVars, historyVars
  <1> QED
    BY <1>1, <1>2, <1>3, <1>4, <1>5, <1>6, <1>7, Undisturbed, Zenon DEF IInv

\* after DeletePart the partial file is gone too,
LEMMA DeletePartKeeps ==
    ASSUME IInv, NEW l \in Launchers, DeletePart(l), UNCHANGED launcherVars
    PROVE  IInv'
  <1>0. /\ pc[l] = "deletePart" /\ pc'[l] = "deleteMarker"
        /\ \A h \in Launchers \ {l} : pc'[h] = pc[h]
    BY PcType, Zenon DEF DeletePart, Step
  <1>1. Onward
    BY <1>0, FileType, TargetingHolds, Zenon
       DEF Onward, Fades, DeletePart, pluginVars, pastVars, launcherVars, historyVars
  <1>2. ASSUME NEW h \in Launchers, h # l PROVE Stays(h)
    BY <1>2, <1>0, FileType, TargetingHolds, Zenon
       DEF Stays, Fades, NoJar, Hosting, Targeting, Removing, Unpublishing, NoCopy, DeletePart,
           pluginVars, pastVars, launcherVars, historyVars
  <1>3. TypeOK'
    BY StoreAssumption, Typed, TargetingHolds
       DEF TypeOK, Targeting, Control, Marks, Removing, Unpublishing, Publishing, Hosting,
           OnOwn, DeletePart, Step, procVars, tempVars, pluginVars, pastVars, storeVars,
           launcherVars, historyVars
  <1>4. Echoing(l)' /\ Keeping(l)'
    BY <1>0, EchoingHolds, KeepingHolds, Zenon
       DEF Echoing, Keeping, Restoring, DeletePart, pluginVars, pastVars, launcherVars,
           historyVars
  <1>5. Targeting(l)'
    BY <1>0, FileType, TargetingHolds, Zenon
       DEF Targeting, NoJar, Removing, Unpublishing, OnOwn, Publishing, Hosting, DeletePart,
           pluginVars, pastVars, launcherVars, historyVars
  <1>6. Filing(l)'
    BY <1>0, FileType, FilingHolds, TargetingHolds, Zenon
       DEF Filing, NoJar, Targeting, Early, Removing, Holding, Materializing, Unpublishing,
           Publishing, Hosting, DeletePart, pluginVars, pastVars, launcherVars, historyVars
  <1>7. Copying(l)'
    BY <1>0, CopyingHolds, TargetingHolds, Zenon
       DEF Copying, NoCopy, Targeting, Early, Removing, Materializing, Unpublishing, Publishing,
           Hosting, DeletePart, pluginVars, pastVars, launcherVars, historyVars
  <1> QED
    BY <1>1, <1>2, <1>3, <1>4, <1>5, <1>6, <1>7, Undisturbed, Zenon DEF IInv

\* so the marker is deleted last,
LEMMA DeleteMarkerKeeps ==
    ASSUME IInv, NEW l \in Launchers, DeleteMarker(l), UNCHANGED launcherVars
    PROVE  IInv'
  <1>0. /\ pc[l] = "deleteMarker" /\ pc'[l] = "removeDirectory"
        /\ \A h \in Launchers \ {l} : pc'[h] = pc[h]
    BY PcType, Zenon DEF DeleteMarker, Step
  <1>1. Onward
    BY <1>0, Zenon
       DEF Onward, Fades, DeleteMarker, pluginVars, pastVars, launcherVars, historyVars
  <1>2. ASSUME NEW h \in Launchers, h # l PROVE Stays(h)
    BY <1>2, <1>0, MarkerType, TargetingHolds, Zenon
       DEF Stays, Fades, NoJar, Hosting, Targeting, Removing, Unpublishing, NoCopy,
           DeleteMarker, pluginVars, pastVars, launcherVars, historyVars
  <1>3. TypeOK'
    BY StoreAssumption, Typed, TargetingHolds
       DEF TypeOK, Targeting, Control, Marks, Removing, Unpublishing, Publishing, Hosting,
           OnOwn, DeleteMarker, Step, Read, procVars, tempVars, pluginVars, pastVars, storeVars,
           launcherVars, historyVars
  <1>4. Echoing(l)' /\ Keeping(l)'
    BY <1>0, EchoingHolds, KeepingHolds, Zenon
       DEF Echoing, Keeping, Restoring, DeleteMarker, pluginVars, pastVars, launcherVars,
           historyVars
  <1>5. Targeting(l)'
    BY <1>0, TargetingHolds, Zenon
       DEF Targeting, NoJar, Removing, Unpublishing, OnOwn, Publishing, Hosting, DeleteMarker,
           pluginVars, pastVars, launcherVars, historyVars
  <1>6. Filing(l)'
    BY <1>0, MarkerType, FilingHolds, TargetingHolds, Zenon
       DEF Filing, NoJar, Targeting, Early, Removing, Holding, Materializing, Unpublishing,
           Publishing, Hosting, DeleteMarker, pluginVars, pastVars, launcherVars, historyVars
  <1>7. Copying(l)'
    BY <1>0, CopyingHolds, TargetingHolds, Zenon
       DEF Copying, NoCopy, Targeting, Early, Removing, Materializing, Unpublishing, Publishing,
           Hosting, DeleteMarker, pluginVars, pastVars, launcherVars, historyVars
  <1> QED
    BY <1>1, <1>2, <1>3, <1>4, <1>5, <1>6, <1>7, Undisturbed, Zenon DEF IInv

\* and the directory after it.
LEMMA RemoveDirectoryKeeps ==
    ASSUME IInv, NEW l \in Launchers, RemoveDirectory(l), UNCHANGED launcherVars
    PROVE  IInv'
  <1>0. /\ pc[l] = "removeDirectory" /\ pc'[l] \in {"exit", "sweep"}
        /\ \A h \in Launchers \ {l} : pc'[h] = pc[h]
    BY PcType, Zenon DEF RemoveDirectory, Step
  <1>1. Onward
    BY <1>0, Zenon
       DEF Onward, Fades, RemoveDirectory, pluginVars, pastVars, launcherVars, historyVars
  <1>2. ASSUME NEW h \in Launchers, h # l PROVE Stays(h)
    BY <1>2, <1>0, TargetingHolds, Zenon
       DEF Stays, Fades, NoJar, Hosting, Targeting, Removing, Unpublishing, NoCopy,
           RemoveDirectory, pluginVars, pastVars, launcherVars, historyVars
  <1>3. TypeOK'
    BY StoreAssumption, Typed, Zenon
       DEF TypeOK, Control, RemoveDirectory, Step, procVars, tempVars, pluginVars, pastVars,
           storeVars, launcherVars, historyVars
  <1>4. Echoing(l)' /\ Keeping(l)'
    BY <1>0, EchoingHolds, KeepingHolds, Zenon
       DEF Echoing, Keeping, Restoring, RemoveDirectory, pluginVars, pastVars, launcherVars,
           historyVars
  <1>5. Targeting(l)'
    BY <1>0, PcType, TargetingHolds, Zenon
       DEF Targeting, NoJar, Removing, Unpublishing, OnOwn, Publishing, Hosting, Step,
           RemoveDirectory, pluginVars, pastVars, launcherVars, historyVars
  <1>6. Filing(l)'
    BY <1>0, PcType, FilingHolds, TargetingHolds
       DEF Filing, NoJar, Targeting, Early, Removing, Holding, Materializing, Unpublishing,
           Publishing, Hosting, Step, RemoveDirectory, pluginVars, pastVars, launcherVars,
           historyVars
  <1>7. Copying(l)'
    BY <1>0, PcType, CopyingHolds, TargetingHolds, Zenon
       DEF Copying, NoCopy, Targeting, Early, Removing, Materializing, Unpublishing, Publishing,
           Hosting, Step, RemoveDirectory, pluginVars, pastVars, launcherVars, historyVars
  <1> QED
    BY <1>1, <1>2, <1>3, <1>4, <1>5, <1>6, <1>7, Undisturbed, Zenon DEF IInv

\* The temporary directory is made.
LEMMA MakeDirectoryKeeps ==
    ASSUME IInv, NEW l \in Launchers, MakeDirectory(l), UNCHANGED launcherVars
    PROVE  IInv'
  <1>0. /\ pc[l] = "makeDirectory" /\ pc'[l] \in {"createMarker", "exit"}
        /\ \A h \in Launchers \ {l} : pc'[h] = pc[h]
    BY PcType, Zenon DEF MakeDirectory, Step
  <1>1. Onward
    BY <1>0, Zenon
       DEF Onward, Fades, MakeDirectory, pluginVars, pastVars, launcherVars, historyVars
  <1>2. ASSUME NEW h \in Launchers, h # l PROVE Stays(h)
    BY <1>2, <1>0, Zenon
       DEF Stays, Fades, MakeDirectory, pluginVars, pastVars, launcherVars, historyVars
  <1>3. TypeOK'
    BY StoreAssumption, Typed
       DEF TypeOK, Control, MakeDirectory, Step, procVars, tempVars, pluginVars, pastVars,
           storeVars, launcherVars, historyVars
  <1>4. Echoing(l)' /\ Keeping(l)'
    BY <1>0, EchoingHolds, KeepingHolds, Zenon
       DEF Echoing, Keeping, Restoring, MakeDirectory, pluginVars, pastVars, launcherVars,
           historyVars
  <1>5. Targeting(l)'
    BY <1>0, PcType, TargetingHolds, Zenon
       DEF Targeting, NoJar, Removing, Unpublishing, OnOwn, Publishing, Hosting, Step,
           MakeDirectory, pluginVars, pastVars, launcherVars, historyVars
  <1>6. Filing(l)'
    BY <1>0, PcType, FilingHolds, Zenon
       DEF Filing, NoJar, Early, Removing, Holding, Materializing, Unpublishing, Publishing,
           Hosting, Step, MakeDirectory, pluginVars, pastVars, launcherVars, historyVars
  <1>7. Copying(l)'
    BY <1>0, PcType, CopyingHolds, Zenon
       DEF Copying, NoCopy, Early, Removing, Materializing, Unpublishing, Publishing, Hosting,
           Step, MakeDirectory, pluginVars, pastVars, launcherVars, historyVars
  <1> QED
    BY <1>1, <1>2, <1>3, <1>4, <1>5, <1>6, <1>7, Undisturbed, Zenon DEF IInv

\* Its marker is created,
LEMMA CreateMarkerKeeps ==
    ASSUME IInv, NEW l \in Launchers, CreateMarker(l), UNCHANGED launcherVars
    PROVE  IInv'
  <1>0. /\ pc[l] = "createMarker" /\ pc'[l] \in {"writeMarker", "removeDirectory"}
        /\ \A h \in Launchers \ {l} : pc'[h] = pc[h]
    BY PcType, Zenon DEF CreateMarker, Step
  <1>1. Onward
    BY <1>0, Zenon
       DEF Onward, Fades, CreateMarker, pluginVars, pastVars, launcherVars, historyVars
  <1>2. ASSUME NEW h \in Launchers, h # l PROVE Stays(h)
    BY <1>2, <1>0, MarkerType, Zenon
       DEF Stays, Fades, CreateMarker, pluginVars, pastVars, launcherVars, historyVars
  <1>3. TypeOK'
    BY StoreAssumption, Typed
       DEF TypeOK, Control, Marks, CreateMarker, Step, procVars, tempVars, pluginVars, pastVars,
           storeVars, launcherVars, historyVars
  <1>4. Echoing(l)' /\ Keeping(l)'
    BY <1>0, EchoingHolds, KeepingHolds, Zenon
       DEF Echoing, Keeping, Restoring, CreateMarker, pluginVars, pastVars, launcherVars,
           historyVars
  <1>5. Targeting(l)'
    BY <1>0, PcType, TargetingHolds, FilingHolds, Zenon
       DEF Targeting, NoJar, Removing, Unpublishing, OnOwn, Publishing, Hosting, Step,
           CreateMarker, pluginVars, pastVars, launcherVars, historyVars, Filing, Early
  <1>6. Filing(l)'
    BY <1>0, PcType, MarkerType, FilingHolds, Zenon
       DEF Filing, NoJar, Early, Removing, Holding, Materializing, Unpublishing, Publishing,
           Hosting, Step, CreateMarker, pluginVars, pastVars, launcherVars, historyVars
  <1>7. Copying(l)'
    BY <1>0, PcType, CopyingHolds, Zenon
       DEF Copying, NoCopy, Early, Removing, Materializing, Unpublishing, Publishing, Hosting,
           Step, CreateMarker, pluginVars, pastVars, launcherVars, historyVars
  <1> QED
    BY <1>1, <1>2, <1>3, <1>4, <1>5, <1>6, <1>7, Undisturbed, Zenon DEF IInv

\* and written.
LEMMA WriteMarkerKeeps ==
    ASSUME IInv, NEW l \in Launchers, WriteMarker(l), UNCHANGED launcherVars
    PROVE  IInv'
  <1>0. /\ pc[l] = "writeMarker" /\ pc'[l] \in {"createPart", "deleteMarker"}
        /\ \A h \in Launchers \ {l} : pc'[h] = pc[h]
    BY PcType, Zenon DEF WriteMarker, Step
  <1>1. Onward
    BY <1>0, Zenon
       DEF Onward, Fades, WriteMarker, pluginVars, pastVars, launcherVars, historyVars
  <1>2. ASSUME NEW h \in Launchers, h # l PROVE Stays(h)
    BY <1>2, <1>0, MarkerType, Zenon
       DEF Stays, Fades, WriteMarker, pluginVars, pastVars, launcherVars, historyVars
  <1>3. TypeOK'
    BY StoreAssumption, Typed, TargetingHolds
       DEF TypeOK, Targeting, Control, Marks, Removing, Unpublishing, Publishing, Hosting,
           OnOwn, WriteMarker, Step, procVars, tempVars, pluginVars, pastVars, storeVars,
           launcherVars, historyVars
  <1>4. Echoing(l)' /\ Keeping(l)'
    BY <1>0, EchoingHolds, KeepingHolds, Zenon
       DEF Echoing, Keeping, Restoring, WriteMarker, pluginVars, pastVars, launcherVars,
           historyVars
  <1>5. Targeting(l)'
    BY <1>0, PcType, TargetingHolds, FilingHolds, Zenon
       DEF Targeting, NoJar, Removing, Unpublishing, OnOwn, Publishing, Hosting, Step,
           WriteMarker, pluginVars, pastVars, launcherVars, historyVars, Filing, Early
  <1>6. Filing(l)'
    BY <1>0, PcType, MarkerType, FilingHolds, Zenon
       DEF Filing, NoJar, Early, Removing, Holding, Materializing, Unpublishing, Publishing,
           Hosting, Step, WriteMarker, pluginVars, pastVars, launcherVars, historyVars
  <1>7. Copying(l)'
    BY <1>0, PcType, CopyingHolds, Zenon
       DEF Copying, NoCopy, Early, Removing, Materializing, Unpublishing, Publishing, Hosting,
           Step, WriteMarker, pluginVars, pastVars, launcherVars, historyVars
  <1> QED
    BY <1>1, <1>2, <1>3, <1>4, <1>5, <1>6, <1>7, Undisturbed, Zenon DEF IInv

\* The partial file comes under a whole marker.
LEMMA CreatePartKeeps ==
    ASSUME IInv, NEW l \in Launchers, CreatePart(l), UNCHANGED launcherVars
    PROVE  IInv'
  <1>0. /\ pc[l] = "createPart" /\ pc'[l] \in {"download", "deleteMarker"}
        /\ \A h \in Launchers \ {l} : pc'[h] = pc[h]
    BY PcType, Zenon DEF CreatePart, Step
  <1>1. Onward
    BY <1>0, FileType, Zenon
       DEF Onward, Fades, CreatePart, pluginVars, pastVars, launcherVars, historyVars
  <1>2. ASSUME NEW h \in Launchers, h # l PROVE Stays(h)
    BY <1>2, <1>0, FileType, Zenon
       DEF Stays, Fades, CreatePart, pluginVars, pastVars, launcherVars, historyVars
  <1>3. TypeOK'
    BY StoreAssumption, Typed
       DEF TypeOK, Control, CreatePart, Step, procVars, tempVars, pluginVars, pastVars,
           storeVars, launcherVars, historyVars
  <1>4. Echoing(l)' /\ Keeping(l)'
    BY <1>0, EchoingHolds, KeepingHolds, Zenon
       DEF Echoing, Keeping, Restoring, CreatePart, pluginVars, pastVars, launcherVars,
           historyVars
  <1>5. Targeting(l)'
    BY <1>0, PcType, FileType, TargetingHolds, FilingHolds
       DEF Targeting, NoJar, Removing, Unpublishing, OnOwn, Publishing, Hosting, Step,
           CreatePart, pluginVars, pastVars, launcherVars, historyVars, Filing, Early
  <1>6. Filing(l)'
    BY <1>0, PcType, FileType, FilingHolds, Zenon
       DEF Filing, NoJar, Early, Removing, Holding, Materializing, Unpublishing, Publishing,
           Hosting, Step, CreatePart, pluginVars, pastVars, launcherVars, historyVars
  <1>7. Copying(l)'
    BY <1>0, PcType, CopyingHolds, Zenon
       DEF Copying, NoCopy, Early, Removing, Materializing, Unpublishing, Publishing, Hosting,
           Step, CreatePart, pluginVars, pastVars, launcherVars, historyVars
  <1> QED
    BY <1>1, <1>2, <1>3, <1>4, <1>5, <1>6, <1>7, Undisturbed, Zenon DEF IInv

\* The transfer, and the rename to the jar's name.
LEMMA DownloadKeeps ==
    ASSUME IInv, NEW l \in Launchers, Download(l), UNCHANGED launcherVars
    PROVE  IInv'
  <1>0. /\ pc[l] = "download" /\ pc'[l] \in {"handle", "deleteJar"}
        /\ \A h \in Launchers \ {l} : pc'[h] = pc[h]
    BY PcType, Zenon DEF Download, Step
  <1>1. Onward
    BY <1>0, FileType, Zenon
       DEF Onward, Fades, Download, pluginVars, pastVars, launcherVars, historyVars
  <1>2. ASSUME NEW h \in Launchers, h # l PROVE Stays(h)
    BY <1>2, <1>0, FileType, Zenon
       DEF Stays, Fades, Download, pluginVars, pastVars, launcherVars, historyVars
  <1>3. TypeOK'
    BY StoreAssumption, Typed
       DEF TypeOK, Control, Download, Step, procVars, tempVars, pluginVars, pastVars, storeVars,
           launcherVars, historyVars
  <1>4. Echoing(l)' /\ Keeping(l)'
    BY <1>0, EchoingHolds, KeepingHolds, Zenon
       DEF Echoing, Keeping, Restoring, Download, pluginVars, pastVars, launcherVars,
           historyVars
  <1>5. Targeting(l)'
    BY <1>0, PcType, FileType, TargetingHolds, Zenon
       DEF Targeting, NoJar, Removing, Unpublishing, OnOwn, Publishing, Hosting, Step, Download,
           pluginVars, pastVars, launcherVars, historyVars
  <1>6. Filing(l)'
    BY <1>0, PcType, FileType, FilingHolds, TargetingHolds, Zenon
       DEF Filing, NoJar, Early, Removing, Holding, Materializing, Unpublishing, Publishing,
           Hosting, Step, Download, pluginVars, pastVars, launcherVars, historyVars, Targeting,
           OnOwn
  <1>7. Copying(l)'
    BY <1>0, PcType, CopyingHolds, Zenon
       DEF Copying, NoCopy, Early, Removing, Materializing, Unpublishing, Publishing, Hosting,
           Step, Download, pluginVars, pastVars, launcherVars, historyVars
  <1> QED
    BY <1>1, <1>2, <1>3, <1>4, <1>5, <1>6, <1>7, Undisturbed, Zenon DEF IInv

\* The handle is made, or the files are removed again.
LEMMA MakeHandleKeeps ==
    ASSUME IInv, NEW l \in Launchers, MakeHandle(l), UNCHANGED launcherVars
    PROVE  IInv'
  <1>0. /\ pc[l] = "handle" /\ pc'[l] \in {"materialize", "startHost", "deleteJar"}
        /\ \A h \in Launchers \ {l} : pc'[h] = pc[h]
    BY PcType, Zenon DEF MakeHandle, Step
  <1>1. Onward
    BY <1>0, Zenon DEF Onward, Fades, MakeHandle, pluginVars, launcherVars, historyVars
  <1>2. ASSUME NEW h \in Launchers, h # l PROVE Stays(h)
    BY <1>2, <1>0, MarkerType, Zenon
       DEF Stays, Fades, MakeHandle, pluginVars, launcherVars, historyVars
  <1>3. TypeOK'
    BY StoreAssumption, Typed
       DEF TypeOK, Control, Marks, MakeHandle, Step, Read, procVars, tempVars, pluginVars,
           pastVars, storeVars, launcherVars, historyVars
  <1>4. Echoing(l)' /\ Keeping(l)'
    BY <1>0, EchoingHolds, KeepingHolds, Zenon
       DEF Echoing, Keeping, Restoring, MakeHandle, pluginVars, launcherVars, historyVars
  <1>5. Targeting(l)'
    BY <1>0, PcType, TargetingHolds, Zenon
       DEF Targeting, NoJar, Removing, Unpublishing, OnOwn, Publishing, Hosting, Step,
           MakeHandle, pluginVars, launcherVars, historyVars
  <1>6. Filing(l)'
    BY <1>0, PcType, MarkerType, FilingHolds, TargetingHolds, Zenon
       DEF Filing, NoJar, Early, Removing, Holding, Materializing, Unpublishing, Publishing,
           Hosting, Step, MakeHandle, pluginVars, launcherVars, historyVars, Targeting, OnOwn
  <1>7. Copying(l)'
    BY <1>0, PcType, CopyingHolds, Zenon
       DEF Copying, NoCopy, Early, Removing, Materializing, Unpublishing, Publishing, Hosting,
           Step, MakeHandle, pluginVars, launcherVars, historyVars
  <1> QED
    BY <1>1, <1>2, <1>3, <1>4, <1>5, <1>6, <1>7, Undisturbed, Zenon DEF IInv

\* The cleanup of the plugin directory begins.
LEMMA CleanupPluginsKeeps ==
    ASSUME IInv, NEW l \in Launchers, CleanupPlugins(l), UNCHANGED launcherVars
    PROVE  IInv'
  <1>0. /\ pc[l] = "materialize" /\ pc'[l] = "sweepPlugins"
        /\ \A h \in Launchers \ {l} : pc'[h] = pc[h]
    BY PcType, Zenon DEF CleanupPlugins, Step
  <1>1. Moves(l)
    BY <1>0, Zenon
       DEF Moves, CleanupPlugins, tempVars, pluginVars, pastVars, launcherVars, historyVars
  <1>2. TypeOK'
    BY StoreAssumption, Typed
       DEF TypeOK, Control, CleanupPlugins, Step, Scans, procVars, tempVars, pluginVars,
           pastVars, storeVars, launcherVars, historyVars
  <1>3. Echoing(l)' /\ Keeping(l)'
    BY <1>0, <1>1, EchoingHolds, KeepingHolds, Zenon
       DEF Echoing, Keeping, Restoring, Moves, launcherVars, historyVars
  <1>4. Targeting(l)'
    BY <1>0, TargetingHolds, <1>1, Zenon
       DEF Targeting, NoJar, Removing, Unpublishing, OnOwn, Publishing, Hosting, CleanupPlugins,
           Moves
  <1>5. Filing(l)' /\ Copying(l)'
    BY <1>0, <1>1, FilingHolds, CopyingHolds, Zenon
       DEF Filing, Copying, NoJar, NoCopy, Moves, Early, Removing, Holding, Materializing,
           Unpublishing, Publishing, Hosting
  <1> QED
    BY <1>0, <1>1, <1>2, <1>3, <1>4, <1>5, MovesAlone, Undisturbed, Zenon DEF IInv

\* A record is opened, or passed over.
LEMMA OpenRecordKeeps ==
    ASSUME IInv, NEW l \in Launchers, NEW m \in Launchers, OpenRecord(l, m), UNCHANGED launcherVars
    PROVE  IInv'
  <1>0. /\ pc[l] = "sweepPlugins" /\ pc'[l] \in {"judgeCopy", "sweepPlugins"}
        /\ \A h \in Launchers \ {l} : pc'[h] = pc[h]
    BY PcType, Zenon DEF OpenRecord, Step
  <1>1. Moves(l)
    BY <1>0, TargetType, Zenon
       DEF Moves, OpenRecord, tempVars, pluginVars, pastVars, launcherVars, historyVars
  <1>2. TypeOK'
    BY StoreAssumption, Typed
       DEF TypeOK, Control, OpenRecord, Step, procVars, tempVars, pluginVars, pastVars,
           storeVars, launcherVars, historyVars
  <1>3. Echoing(l)' /\ Keeping(l)'
    BY <1>0, <1>1, EchoingHolds, KeepingHolds, Zenon
       DEF Echoing, Keeping, Restoring, Moves, launcherVars, historyVars
  <1>4. Targeting(l)'
    BY <1>0, PcType, TargetType, TargetingHolds, Zenon
       DEF Targeting, NoJar, Removing, Unpublishing, OnOwn, Publishing, Hosting, OpenRecord,
           Step
  <1>5. Filing(l)' /\ Copying(l)'
    BY <1>0, <1>1, FilingHolds, CopyingHolds, Zenon
       DEF Filing, Copying, NoJar, NoCopy, Moves, Early, Removing, Holding, Materializing,
           Unpublishing, Publishing, Hosting
  <1> QED
    BY <1>0, <1>1, <1>2, <1>3, <1>4, <1>5, MovesAlone, Undisturbed, Zenon DEF IInv

\* Only the copy of a launcher that has ended is judged abandoned.
LEMMA JudgeCopyKeeps ==
    ASSUME IInv, NEW l \in Launchers, JudgeCopy(l), UNCHANGED launcherVars
    PROVE  IInv'
  <1>0. /\ pc[l] = "judgeCopy" /\ pc'[l] \in {"compareJar", "sweepPlugins"}
        /\ \A h \in Launchers \ {l} : pc'[h] = pc[h]
    BY PcType, Zenon DEF JudgeCopy, Step
  <1>1. Moves(l)
    BY <1>0, Zenon
       DEF Moves, JudgeCopy, tempVars, pluginVars, pastVars, launcherVars, historyVars
  <1>2. TypeOK'
    BY StoreAssumption, Typed, Zenon
       DEF TypeOK, Control, JudgeCopy, Step, Abandoned, Alive, procVars, tempVars, pluginVars,
           pastVars, storeVars, launcherVars, historyVars
  <1>3. Echoing(l)' /\ Keeping(l)'
    BY <1>0, <1>1, EchoingHolds, KeepingHolds, Zenon
       DEF Echoing, Keeping, Restoring, Moves, launcherVars, historyVars
  <1>4. Targeting(l)'
    BY <1>0, TargetingHolds, <1>1, PcType, FilingHolds, Zenon
       DEF Targeting, NoJar, Removing, Unpublishing, OnOwn, Publishing, Hosting, JudgeCopy,
           Moves, Step, Abandoned, Alive, Filing
  <1>5. Filing(l)' /\ Copying(l)'
    <2>1. pc'[l] = "compareJar" => target'[l] # l
      BY <1>0, PcType, Zenon DEF JudgeCopy, Step, Abandoned, Alive
    <2> QED
      BY <2>1, <1>0, <1>1, FilingHolds, CopyingHolds, Zenon
         DEF Filing, Copying, NoJar, NoCopy, Moves, Early, Removing, Holding, Materializing,
             Unpublishing, Publishing, Hosting
  <1> QED
    BY <1>0, <1>1, <1>2, <1>3, <1>4, <1>5, MovesAlone, Undisturbed, Zenon DEF IInv

\* The cleanup is through, and the launcher turns to its own copy.
LEMMA PluginSweepEndsKeeps ==
    ASSUME IInv, NEW l \in Launchers, PluginSweepEnds(l), UNCHANGED launcherVars
    PROVE  IInv'
  <1>0. pc[l] = "sweepPlugins" /\ pc'[l] = "copy" /\ \A h \in Launchers \ {l} : pc'[h] = pc[h]
    BY PcType, Zenon DEF PluginSweepEnds, Step
  <1>1. Moves(l)
    BY <1>0, TargetType, Zenon
       DEF Moves, PluginSweepEnds, tempVars, pluginVars, pastVars, launcherVars, historyVars
  <1>2. TypeOK'
    BY StoreAssumption, Typed, Zenon
       DEF TypeOK, Control, PluginSweepEnds, Step, procVars, tempVars, pluginVars, pastVars,
           storeVars, launcherVars, historyVars
  <1>3. Echoing(l)' /\ Keeping(l)'
    BY <1>0, <1>1, EchoingHolds, KeepingHolds, Zenon
       DEF Echoing, Keeping, Restoring, Moves, launcherVars, historyVars
  <1>4. Targeting(l)'
    BY <1>0, TargetType, TargetingHolds, Zenon
       DEF Targeting, NoJar, Removing, Unpublishing, OnOwn, Publishing, Hosting, PluginSweepEnds
  <1>5. Filing(l)' /\ Copying(l)'
    BY <1>0, <1>1, FilingHolds, CopyingHolds, Zenon
       DEF Filing, Copying, NoJar, NoCopy, Moves, Early, Removing, Holding, Materializing,
           Unpublishing, Publishing, Hosting
  <1> QED
    BY <1>0, <1>1, <1>2, <1>3, <1>4, <1>5, MovesAlone, Undisturbed, Zenon DEF IInv

\* What has the jar's name is compared.
LEMMA CompareJarKeeps ==
    ASSUME IInv, NEW l \in Launchers, CompareJar(l), UNCHANGED launcherVars
    PROVE  IInv'
  <1>0. /\ pc[l] = "compareJar" /\ pc'[l] \in {"deleteCopy", "deleteAnchor"}
        /\ \A h \in Launchers \ {l} : pc'[h] = pc[h]
    BY PcType, Zenon DEF CompareJar, Step
  <1>1. Moves(l)
    BY <1>0, Zenon
       DEF Moves, CompareJar, tempVars, pluginVars, pastVars, launcherVars, historyVars
  <1>2. TypeOK'
    BY StoreAssumption, Typed, Zenon
       DEF TypeOK, Control, CompareJar, Step, procVars, tempVars, pluginVars, pastVars,
           storeVars, launcherVars, historyVars
  <1>3. Echoing(l)' /\ Keeping(l)'
    BY <1>0, <1>1, EchoingHolds, KeepingHolds, Zenon
       DEF Echoing, Keeping, Restoring, Moves, launcherVars, historyVars
  <1>4. Targeting(l)'
    BY <1>0, TargetingHolds, <1>1, PcType, Zenon
       DEF Targeting, NoJar, Removing, Unpublishing, OnOwn, Publishing, Hosting, CompareJar,
           Moves, Step
  <1>5. Filing(l)' /\ Copying(l)'
    BY <1>0, <1>1, FilingHolds, CopyingHolds, Zenon
       DEF Filing, Copying, NoJar, NoCopy, Moves, Early, Removing, Holding, Materializing,
           Unpublishing, Publishing, Hosting, CompareJar
  <1> QED
    BY <1>0, <1>1, <1>2, <1>3, <1>4, <1>5, MovesAlone, Undisturbed, Zenon DEF IInv

\* Whatever has the name now is deleted, or was in use,
LEMMA DeleteCopyKeeps ==
    ASSUME IInv, NEW l \in Launchers, DeleteCopy(l), UNCHANGED launcherVars
    PROVE  IInv'
  <1>0. /\ pc[l] = "deleteCopy" /\ pc'[l] = "deleteAnchor"
        /\ \A h \in Launchers \ {l} : pc'[h] = pc[h]
    BY PcType, Zenon DEF DeleteCopy, Step
  <1>1. Onward
    BY <1>0, StoreAssumption, Zenon
       DEF Onward, Fades, DeleteCopy, tempVars, launcherVars, historyVars
  <1>2. ASSUME NEW h \in Launchers, h # l PROVE Stays(h)
    BY <1>2, <1>0, TargetingHolds, StoreAssumption, Zenon
       DEF Stays, Fades, Targeting, Removing, Unpublishing, NoCopy, DeleteCopy, tempVars,
           launcherVars, historyVars, Hosting
  <1>3. TypeOK'
    BY StoreAssumption, FilesTyped, Typed
       DEF TypeOK, Control, DeleteCopy, Step, InUse, procVars, tempVars, pluginVars, pastVars,
           storeVars, launcherVars, historyVars
  <1>4. Echoing(l)' /\ Keeping(l)'
    BY <1>0, EchoingHolds, KeepingHolds, Zenon
       DEF Echoing, Keeping, Restoring, DeleteCopy, tempVars, launcherVars, historyVars
  <1>5. Targeting(l)'
    BY <1>0, TargetingHolds, StoreAssumption, Zenon
       DEF Targeting, NoJar, Removing, Unpublishing, OnOwn, Publishing, Hosting, DeleteCopy,
           tempVars, launcherVars, historyVars
  <1>6. Filing(l)'
    BY <1>0, FilingHolds, TargetingHolds, Zenon
       DEF Filing, NoJar, Targeting, Early, Removing, Holding, Materializing, Unpublishing,
           Publishing, Hosting, DeleteCopy, tempVars, launcherVars, historyVars
  <1>7. Copying(l)'
    BY <1>0, CopyingHolds, TargetingHolds, StoreAssumption, Zenon
       DEF Copying, NoCopy, Targeting, Early, Removing, Materializing, Unpublishing, Publishing,
           Hosting, DeleteCopy, tempVars, launcherVars, historyVars
  <1> QED
    BY <1>1, <1>2, <1>3, <1>4, <1>5, <1>6, <1>7, Undisturbed, Zenon DEF IInv

\* then the partial copy,
LEMMA DeleteAnchorKeeps ==
    ASSUME IInv, NEW l \in Launchers, DeleteAnchor(l), UNCHANGED launcherVars
    PROVE  IInv'
  <1>0. /\ pc[l] = "deleteAnchor" /\ pc'[l] = "deleteRecord"
        /\ \A h \in Launchers \ {l} : pc'[h] = pc[h]
    BY PcType, Zenon DEF DeleteAnchor, Step
  <1>1. Onward
    BY <1>0, Zenon DEF Onward, Fades, DeleteAnchor, tempVars, launcherVars, historyVars
  <1>2. ASSUME NEW h \in Launchers, h # l PROVE Stays(h)
    BY <1>2, <1>0, TargetingHolds, Zenon
       DEF Stays, Fades, NoJar, Hosting, Targeting, Removing, Unpublishing, NoCopy,
           DeleteAnchor, tempVars, launcherVars, historyVars
  <1>3. TypeOK'
    BY StoreAssumption, FilesTyped, Typed
       DEF TypeOK, Control, DeleteAnchor, Step, InUse, procVars, tempVars, pluginVars, pastVars,
           storeVars, launcherVars, historyVars
  <1>4. Echoing(l)' /\ Keeping(l)'
    BY <1>0, EchoingHolds, KeepingHolds, Zenon
       DEF Echoing, Keeping, Restoring, DeleteAnchor, tempVars, launcherVars, historyVars
  <1>5. Targeting(l)'
    BY <1>0, TargetingHolds, Zenon
       DEF Targeting, NoJar, Removing, Unpublishing, OnOwn, Publishing, Hosting, DeleteAnchor,
           tempVars, launcherVars, historyVars
  <1>6. Filing(l)'
    BY <1>0, FilingHolds, TargetingHolds, Zenon
       DEF Filing, NoJar, Targeting, Early, Removing, Holding, Materializing, Unpublishing,
           Publishing, Hosting, DeleteAnchor, tempVars, launcherVars, historyVars
  <1>7. Copying(l)'
    BY <1>0, CopyingHolds, TargetingHolds, Zenon
       DEF Copying, NoCopy, Targeting, Early, Removing, Materializing, Unpublishing, Publishing,
           Hosting, DeleteAnchor, tempVars, launcherVars, historyVars
  <1> QED
    BY <1>1, <1>2, <1>3, <1>4, <1>5, <1>6, <1>7, Undisturbed, Zenon DEF IInv

\* and the record last.
LEMMA DeleteRecordKeeps ==
    ASSUME IInv, NEW l \in Launchers, DeleteRecord(l), UNCHANGED launcherVars
    PROVE  IInv'
  <1>0. /\ pc[l] = "deleteRecord" /\ pc'[l] \in {"deleteJar", "sweepPlugins"}
        /\ \A h \in Launchers \ {l} : pc'[h] = pc[h]
    BY PcType, Zenon DEF DeleteRecord, Step
  <1>1. Onward
    BY <1>0, Zenon
       DEF Onward, Fades, DeleteRecord, tempVars, pastVars, launcherVars, historyVars
  <1>2. ASSUME NEW h \in Launchers, h # l PROVE Stays(h)
    BY <1>2, <1>0, RecordType, TargetingHolds, Zenon
       DEF Stays, Fades, NoJar, Hosting, Targeting, Removing, Unpublishing, NoCopy,
           DeleteRecord, tempVars, pastVars, launcherVars, historyVars
  <1>3. TypeOK'
    BY StoreAssumption, Typed, TargetingHolds
       DEF TypeOK, Targeting, Control, Marks, Removing, Unpublishing, Publishing, Hosting,
           OnOwn, DeleteRecord, Step, Read, procVars, tempVars, pluginVars, pastVars, storeVars,
           launcherVars, historyVars
  <1>4. Echoing(l)' /\ Keeping(l)'
    BY <1>0, EchoingHolds, KeepingHolds, Zenon
       DEF Echoing, Keeping, Restoring, DeleteRecord, tempVars, pastVars, launcherVars,
           historyVars
  <1>5. Targeting(l)'
    BY <1>0, PcType, TargetingHolds, Zenon
       DEF Targeting, NoJar, Removing, Unpublishing, OnOwn, Publishing, Hosting, Step,
           DeleteRecord, tempVars, pastVars, launcherVars, historyVars
  <1>6. Filing(l)'
    BY <1>0, PcType, RecordType, FilingHolds, TargetingHolds, Zenon
       DEF Filing, NoJar, Targeting, Early, Removing, Holding, Materializing, Unpublishing,
           Publishing, Hosting, Step, DeleteRecord, tempVars, pastVars, launcherVars,
           historyVars
  <1>7. Copying(l)'
    BY <1>0, PcType, RecordType, CopyingHolds, TargetingHolds
       DEF Copying, NoCopy, Targeting, Early, Removing, Materializing, Unpublishing, Publishing,
           Hosting, Step, DeleteRecord, tempVars, pastVars, launcherVars, historyVars
  <1> QED
    BY <1>1, <1>2, <1>3, <1>4, <1>5, <1>6, <1>7, Undisturbed, Zenon DEF IInv

\* The partial copy is made.
LEMMA CopyPartialKeeps ==
    ASSUME IInv, NEW l \in Launchers, CopyPartial(l), UNCHANGED launcherVars
    PROVE  IInv'
  <1>0. /\ pc[l] = "copy" /\ pc'[l] \in {"createRecord", "deleteJar"}
        /\ \A h \in Launchers \ {l} : pc'[h] = pc[h]
    BY PcType, Zenon DEF CopyPartial, Step
  <1>1. Onward
    BY <1>0, Zenon DEF Onward, Fades, CopyPartial, tempVars, pastVars, launcherVars, historyVars
  <1>2. ASSUME NEW h \in Launchers, h # l PROVE Stays(h)
    BY <1>2, <1>0, Zenon
       DEF Stays, Fades, CopyPartial, tempVars, pastVars, launcherVars, historyVars
  <1>3. TypeOK'
    BY StoreAssumption, Typed
       DEF TypeOK, Control, CopyPartial, Step, procVars, tempVars, pluginVars, pastVars,
           storeVars, launcherVars, historyVars
  <1>4. Echoing(l)' /\ Keeping(l)'
    BY <1>0, EchoingHolds, KeepingHolds, Zenon
       DEF Echoing, Keeping, Restoring, CopyPartial, tempVars, pastVars, launcherVars,
           historyVars
  <1>5. Targeting(l)'
    BY <1>0, PcType, TargetingHolds, Zenon
       DEF Targeting, NoJar, Removing, Unpublishing, OnOwn, Publishing, Hosting, Step,
           CopyPartial, tempVars, pastVars, launcherVars, historyVars
  <1>6. Filing(l)'
    BY <1>0, PcType, FilingHolds, TargetingHolds, Zenon
       DEF Filing, NoJar, Early, Removing, Holding, Materializing, Unpublishing, Publishing,
           Hosting, Step, CopyPartial, tempVars, pastVars, launcherVars, historyVars, Targeting,
           OnOwn
  <1>7. Copying(l)'
    BY <1>0, PcType, CopyingHolds, Zenon
       DEF Copying, NoCopy, Early, Removing, Materializing, Unpublishing, Publishing, Hosting,
           Step, CopyPartial, tempVars, pastVars, launcherVars, historyVars
  <1> QED
    BY <1>1, <1>2, <1>3, <1>4, <1>5, <1>6, <1>7, Undisturbed, Zenon DEF IInv

\* Its record is created,
LEMMA CreateRecordKeeps ==
    ASSUME IInv, NEW l \in Launchers, CreateRecord(l), UNCHANGED launcherVars
    PROVE  IInv'
  <1>0. /\ pc[l] = "createRecord" /\ pc'[l] \in {"writeRecord", "deleteAnchor"}
        /\ \A h \in Launchers \ {l} : pc'[h] = pc[h]
    BY PcType, Zenon DEF CreateRecord, Step
  <1>1. Onward
    BY <1>0, Zenon
       DEF Onward, Fades, CreateRecord, tempVars, pastVars, launcherVars, historyVars
  <1>2. ASSUME NEW h \in Launchers, h # l PROVE Stays(h)
    BY <1>2, <1>0, RecordType, Zenon
       DEF Stays, Fades, CreateRecord, tempVars, pastVars, launcherVars, historyVars
  <1>3. TypeOK'
    BY StoreAssumption, Typed
       DEF TypeOK, Control, Marks, CreateRecord, Step, procVars, tempVars, pluginVars, pastVars,
           storeVars, launcherVars, historyVars
  <1>4. Echoing(l)' /\ Keeping(l)'
    BY <1>0, EchoingHolds, KeepingHolds, Zenon
       DEF Echoing, Keeping, Restoring, CreateRecord, tempVars, pastVars, launcherVars,
           historyVars
  <1>5. Targeting(l)'
    BY <1>0, PcType, TargetingHolds, CopyingHolds, Zenon
       DEF Targeting, NoJar, Removing, Unpublishing, OnOwn, Publishing, Hosting, Step,
           CreateRecord, tempVars, pastVars, launcherVars, historyVars, Copying
  <1>6. Filing(l)'
    BY <1>0, PcType, RecordType, FilingHolds, Zenon
       DEF Filing, NoJar, Early, Removing, Holding, Materializing, Unpublishing, Publishing,
           Hosting, Step, CreateRecord, tempVars, pastVars, launcherVars, historyVars
  <1>7. Copying(l)'
    BY <1>0, PcType, RecordType, CopyingHolds, TargetingHolds, Zenon
       DEF Copying, NoCopy, Early, Removing, Materializing, Unpublishing, Publishing, Hosting,
           Step, CreateRecord, tempVars, pastVars, launcherVars, historyVars, Targeting, OnOwn
  <1> QED
    BY <1>1, <1>2, <1>3, <1>4, <1>5, <1>6, <1>7, Undisturbed, Zenon DEF IInv

\* and written.
LEMMA WriteRecordKeeps ==
    ASSUME IInv, NEW l \in Launchers, WriteRecord(l), UNCHANGED launcherVars
    PROVE  IInv'
  <1>0. /\ pc[l] = "writeRecord" /\ pc'[l] \in {"link", "deleteAnchor"}
        /\ \A h \in Launchers \ {l} : pc'[h] = pc[h]
    BY PcType, Zenon DEF WriteRecord, Step
  <1>1. Onward
    BY <1>0, Zenon DEF Onward, Fades, WriteRecord, tempVars, pastVars, launcherVars, historyVars
  <1>2. ASSUME NEW h \in Launchers, h # l PROVE Stays(h)
    BY <1>2, <1>0, RecordType, Zenon
       DEF Stays, Fades, WriteRecord, tempVars, pastVars, launcherVars, historyVars
  <1>3. TypeOK'
    BY StoreAssumption, Typed, TargetingHolds
       DEF TypeOK, Targeting, Control, Marks, Removing, Unpublishing, Publishing, Hosting,
           OnOwn, WriteRecord, Step, procVars, tempVars, pluginVars, pastVars, storeVars,
           launcherVars, historyVars
  <1>4. Echoing(l)' /\ Keeping(l)'
    BY <1>0, EchoingHolds, KeepingHolds, Zenon
       DEF Echoing, Keeping, Restoring, WriteRecord, tempVars, pastVars, launcherVars,
           historyVars
  <1>5. Targeting(l)'
    BY <1>0, PcType, TargetingHolds, CopyingHolds, Zenon
       DEF Targeting, NoJar, Removing, Unpublishing, OnOwn, Publishing, Hosting, Step,
           WriteRecord, tempVars, pastVars, launcherVars, historyVars, Copying
  <1>6. Filing(l)'
    BY <1>0, PcType, RecordType, FilingHolds, Zenon
       DEF Filing, NoJar, Early, Removing, Holding, Materializing, Unpublishing, Publishing,
           Hosting, Step, WriteRecord, tempVars, pastVars, launcherVars, historyVars
  <1>7. Copying(l)'
    BY <1>0, PcType, RecordType, CopyingHolds, TargetingHolds, Zenon
       DEF Copying, NoCopy, Early, Removing, Materializing, Unpublishing, Publishing, Hosting,
           Step, WriteRecord, tempVars, pastVars, launcherVars, historyVars, Targeting, OnOwn
  <1> QED
    BY <1>1, <1>2, <1>3, <1>4, <1>5, <1>6, <1>7, Undisturbed, Zenon DEF IInv

\* The copy gets the jar's name if nothing has it.
LEMMA LinkKeeps ==
    ASSUME IInv, NEW l \in Launchers, Link(l), UNCHANGED launcherVars
    PROVE  IInv'
  <1>0. /\ pc[l] = "link" /\ pc'[l] \in {"startHost", "deleteAnchor"}
        /\ \A h \in Launchers \ {l} : pc'[h] = pc[h]
    BY PcType, Zenon DEF Link, Step
  <1>1. Onward
    BY <1>0, Zenon DEF Onward, Fades, Link, tempVars, launcherVars, historyVars
  <1>2. ASSUME NEW h \in Launchers, h # l PROVE Stays(h)
    BY <1>2, <1>0, StoreAssumption DEF Stays, Fades, Link, tempVars, launcherVars, historyVars
  <1>3. TypeOK'
    BY StoreAssumption, Typed
       DEF TypeOK, Control, Link, Step, Deleting, procVars, tempVars, pluginVars, pastVars,
           storeVars, launcherVars, historyVars
  <1>4. Echoing(l)' /\ Keeping(l)'
    BY <1>0, EchoingHolds, KeepingHolds, Zenon
       DEF Echoing, Keeping, Restoring, Link, tempVars, launcherVars, historyVars
  <1>5. Targeting(l)'
    BY <1>0, PcType, TargetingHolds, CopyingHolds, Zenon
       DEF Targeting, NoJar, Removing, Unpublishing, OnOwn, Publishing, Hosting, Step, Link,
           tempVars, launcherVars, historyVars, Copying
  <1>6. Filing(l)'
    BY <1>0, PcType, FilingHolds, Zenon
       DEF Filing, NoJar, Early, Removing, Holding, Materializing, Unpublishing, Publishing,
           Hosting, Step, Link, tempVars, launcherVars, historyVars
  <1>7. Copying(l)'
    BY <1>0, PcType, CopyingHolds, TargetingHolds, Zenon
       DEF Copying, NoCopy, Early, Removing, Materializing, Unpublishing, Publishing, Hosting,
           Step, Link, tempVars, launcherVars, historyVars, Targeting, OnOwn
  <1> QED
    BY <1>1, <1>2, <1>3, <1>4, <1>5, <1>6, <1>7, Undisturbed, Zenon DEF IInv

\* The arguments are read.
LEMMA ParseArgumentsKeeps ==
    ASSUME IInv, NEW l \in Launchers, ParseArguments(l)
    PROVE  IInv'
  <1>0. /\ pc[l] = "start" /\ pc'[l] \in {"console", "acquire", "exit"}
        /\ \A h \in Launchers \ {l} : pc'[h] = pc[h]
    BY PcType, Zenon DEF ParseArguments, Step
  <1>1. Moves(l)
    BY <1>0, Zenon
       DEF Moves, ParseArguments, tempVars, pluginVars, pastVars, launcherVars, historyVars
  <1>2. TypeOK'
    BY StoreAssumption, Typed
       DEF TypeOK, Control, ParseArguments, Step, procVars, tempVars, pluginVars, pastVars,
           storeVars, launcherVars, historyVars
  <1>3. Echoing(l)' /\ Keeping(l)'
    BY <1>0, <1>1, EchoingHolds, KeepingHolds, Zenon
       DEF Echoing, Keeping, Restoring, Moves, launcherVars, historyVars
  <1>4. Targeting(l)'
    BY <1>0, TargetingHolds, <1>1, Zenon
       DEF Targeting, NoJar, Removing, Unpublishing, OnOwn, Publishing, Hosting, ParseArguments,
           Moves
  <1>5. Filing(l)' /\ Copying(l)'
    BY <1>0, <1>1, FilingHolds, CopyingHolds, Zenon
       DEF Filing, Copying, NoJar, NoCopy, Moves, Early, Removing, Holding, Materializing,
           Unpublishing, Publishing, Hosting
  <1> QED
    BY <1>0, <1>1, <1>2, <1>3, <1>4, <1>5, MovesAlone, Undisturbed, Zenon DEF IInv

\* The prompt's handler is installed.
LEMMA InstallRestoreKeeps ==
    ASSUME IInv, NEW l \in Launchers, InstallRestore(l)
    PROVE  IInv'
  <1>0. /\ pc[l] = "console" /\ pc'[l] \in {"hide", "exit"}
        /\ \A h \in Launchers \ {l} : pc'[h] = pc[h]
    BY PcType, Zenon DEF InstallRestore, Step
  <1>1. Moves(l)
    BY <1>0, Zenon
       DEF Moves, InstallRestore, tempVars, pluginVars, pastVars, launcherVars, historyVars
  <1>2. TypeOK'
    BY StoreAssumption, Typed
       DEF TypeOK, Control, InstallRestore, Step, procVars, tempVars, pluginVars, pastVars,
           storeVars, launcherVars, historyVars
  <1>3. Echoing(l)' /\ Keeping(l)'
    BY <1>0, <1>1, EchoingHolds, KeepingHolds, Zenon
       DEF Echoing, Keeping, Restoring, Moves, launcherVars, historyVars
  <1>4. Targeting(l)'
    BY <1>0, TargetingHolds, <1>1, Zenon
       DEF Targeting, NoJar, Removing, Unpublishing, OnOwn, Publishing, Hosting, InstallRestore,
           Moves
  <1>5. Filing(l)' /\ Copying(l)'
    BY <1>0, <1>1, FilingHolds, CopyingHolds, Zenon
       DEF Filing, Copying, NoJar, NoCopy, Moves, Early, Removing, Holding, Materializing,
           Unpublishing, Publishing, Hosting
  <1> QED
    BY <1>0, <1>1, <1>2, <1>3, <1>4, <1>5, MovesAlone, Undisturbed, Zenon DEF IInv

\* The echo is hidden.
LEMMA HideEchoKeeps ==
    ASSUME IInv, NEW l \in Launchers, HideEcho(l)
    PROVE  IInv'
  <1>0. pc[l] = "hide" /\ pc'[l] \in {"read", "exit"} /\ \A h \in Launchers \ {l} : pc'[h] = pc[h]
    BY PcType, Zenon DEF HideEcho, Step
  <1>1. Onward
    BY <1>0, Zenon DEF Onward, Fades, HideEcho, tempVars, pluginVars, pastVars, historyVars
  <1>2. ASSUME NEW h \in Launchers, h # l PROVE Stays(h)
    BY <1>2, <1>0, ControlType, Zenon
       DEF Stays, Fades, HideEcho, tempVars, pluginVars, pastVars, historyVars
  <1>3. TypeOK'
    BY StoreAssumption, Typed
       DEF TypeOK, Control, HideEcho, Step, procVars, tempVars, pluginVars, pastVars, storeVars,
           launcherVars, historyVars
  <1>4. Echoing(l)' /\ Keeping(l)'
    BY <1>0, ControlType, EchoingHolds, KeepingHolds, PcType, Zenon
       DEF Echoing, Keeping, Restoring, HideEcho, tempVars, pluginVars, pastVars, historyVars,
           Step
  <1>5. Targeting(l)'
    BY <1>0, PcType, TargetingHolds, Zenon
       DEF Targeting, NoJar, Removing, Unpublishing, OnOwn, Publishing, Hosting, Step, HideEcho,
           tempVars, pluginVars, pastVars, historyVars
  <1>6. Filing(l)'
    BY <1>0, PcType, FilingHolds, Zenon
       DEF Filing, NoJar, Early, Removing, Holding, Materializing, Unpublishing, Publishing,
           Hosting, Step, HideEcho, tempVars, pluginVars, pastVars, historyVars
  <1>7. Copying(l)'
    BY <1>0, PcType, CopyingHolds, Zenon
       DEF Copying, NoCopy, Early, Removing, Materializing, Unpublishing, Publishing, Hosting,
           Step, HideEcho, tempVars, pluginVars, pastVars, historyVars
  <1> QED
    BY <1>1, <1>2, <1>3, <1>4, <1>5, <1>6, <1>7, Undisturbed, Zenon DEF IInv

\* The license is read.
LEMMA ReadLicenseKeeps ==
    ASSUME IInv, NEW l \in Launchers, ReadLicense(l)
    PROVE  IInv'
  <1>0. pc[l] = "read" /\ pc'[l] = "restore" /\ \A h \in Launchers \ {l} : pc'[h] = pc[h]
    BY PcType, Zenon DEF ReadLicense, Step
  <1>1. Moves(l)
    BY <1>0, Zenon
       DEF Moves, ReadLicense, tempVars, pluginVars, pastVars, launcherVars, historyVars
  <1>2. TypeOK'
    BY StoreAssumption, Typed, Zenon
       DEF TypeOK, Control, ReadLicense, Step, procVars, tempVars, pluginVars, pastVars,
           storeVars, launcherVars, historyVars
  <1>3. Echoing(l)' /\ Keeping(l)'
    BY <1>0, <1>1, EchoingHolds, KeepingHolds, Zenon
       DEF Echoing, Keeping, Restoring, Moves, launcherVars, historyVars
  <1>4. Targeting(l)'
    BY <1>0, TargetingHolds, <1>1, Zenon
       DEF Targeting, NoJar, Removing, Unpublishing, OnOwn, Publishing, Hosting, ReadLicense,
           Moves
  <1>5. Filing(l)' /\ Copying(l)'
    BY <1>0, <1>1, FilingHolds, CopyingHolds, Zenon
       DEF Filing, Copying, NoJar, NoCopy, Moves, Early, Removing, Holding, Materializing,
           Unpublishing, Publishing, Hosting
  <1> QED
    BY <1>0, <1>1, <1>2, <1>3, <1>4, <1>5, MovesAlone, Undisturbed, Zenon DEF IInv

\* The echo is restored.
LEMMA RestoreEchoKeeps ==
    ASSUME IInv, NEW l \in Launchers, RestoreEcho(l)
    PROVE  IInv'
  <1>0. pc[l] = "restore" /\ pc'[l] = "unhandle" /\ \A h \in Launchers \ {l} : pc'[h] = pc[h]
    BY PcType, Zenon DEF RestoreEcho, Step
  <1>1. Onward
    BY <1>0, Zenon DEF Onward, Fades, RestoreEcho, tempVars, pluginVars, pastVars, historyVars
  <1>2. ASSUME NEW h \in Launchers, h # l PROVE Stays(h)
    BY <1>2, <1>0, Zenon
       DEF Stays, Fades, RestoreEcho, tempVars, pluginVars, pastVars, historyVars
  <1>3. TypeOK'
    BY StoreAssumption, Typed, Zenon
       DEF TypeOK, Control, RestoreEcho, Step, procVars, tempVars, pluginVars, pastVars,
           storeVars, launcherVars, historyVars
  <1>4. Echoing(l)' /\ Keeping(l)'
    BY <1>0, EchoingHolds, KeepingHolds, Zenon
       DEF Echoing, Keeping, Restoring, RestoreEcho, tempVars, pluginVars, pastVars, historyVars
  <1>5. Targeting(l)'
    BY <1>0, TargetingHolds, Zenon
       DEF Targeting, NoJar, Removing, Unpublishing, OnOwn, Publishing, Hosting, RestoreEcho,
           tempVars, pluginVars, pastVars, historyVars
  <1>6. Filing(l)'
    BY <1>0, FilingHolds, Zenon
       DEF Filing, NoJar, Early, Removing, Holding, Materializing, Unpublishing, Publishing,
           Hosting, RestoreEcho, tempVars, pluginVars, pastVars, historyVars
  <1>7. Copying(l)'
    BY <1>0, CopyingHolds, Zenon
       DEF Copying, NoCopy, Early, Removing, Materializing, Unpublishing, Publishing, Hosting,
           RestoreEcho, tempVars, pluginVars, pastVars, historyVars
  <1> QED
    BY <1>1, <1>2, <1>3, <1>4, <1>5, <1>6, <1>7, Undisturbed, Zenon DEF IInv

\* The prompt's handler is removed.
LEMMA RemoveRestoreKeeps ==
    ASSUME IInv, NEW l \in Launchers, RemoveRestore(l)
    PROVE  IInv'
  <1>0. /\ pc[l] = "unhandle" /\ pc'[l] \in {"acquire", "exit"}
        /\ \A h \in Launchers \ {l} : pc'[h] = pc[h]
    BY PcType, Zenon DEF RemoveRestore, Step
  <1>1. Onward
    BY <1>0, Zenon DEF Onward, Fades, RemoveRestore, tempVars, pluginVars, pastVars, historyVars
  <1>2. ASSUME NEW h \in Launchers, h # l PROVE Stays(h)
    BY <1>2, <1>0, ControlType, Zenon
       DEF Stays, Fades, RemoveRestore, tempVars, pluginVars, pastVars, historyVars
  <1>3. TypeOK'
    BY StoreAssumption, Typed
       DEF TypeOK, Control, RemoveRestore, Step, procVars, tempVars, pluginVars, pastVars,
           storeVars, launcherVars, historyVars
  <1>4. Echoing(l)' /\ Keeping(l)'
    BY <1>0, ControlType, EchoingHolds, KeepingHolds, Zenon
       DEF Echoing, Keeping, Restoring, RemoveRestore, tempVars, pluginVars, pastVars,
           historyVars
  <1>5. Targeting(l)'
    BY <1>0, PcType, TargetingHolds, Zenon
       DEF Targeting, NoJar, Removing, Unpublishing, OnOwn, Publishing, Hosting, Step,
           RemoveRestore, tempVars, pluginVars, pastVars, historyVars
  <1>6. Filing(l)'
    BY <1>0, PcType, FilingHolds, Zenon
       DEF Filing, NoJar, Early, Removing, Holding, Materializing, Unpublishing, Publishing,
           Hosting, Step, RemoveRestore, tempVars, pluginVars, pastVars, historyVars
  <1>7. Copying(l)'
    BY <1>0, PcType, CopyingHolds, Zenon
       DEF Copying, NoCopy, Early, Removing, Materializing, Unpublishing, Publishing, Hosting,
           Step, RemoveRestore, tempVars, pluginVars, pastVars, historyVars
  <1> QED
    BY <1>1, <1>2, <1>3, <1>4, <1>5, <1>6, <1>7, Undisturbed, Zenon DEF IInv

\* The handler is installed before there is a host.
LEMMA KeepKeeps ==
    ASSUME IInv, NEW l \in Launchers, Keep(l)
    PROVE  IInv'
  <1>0. /\ pc[l] = "startHost" /\ pc'[l] \in {"createProcess", "release"}
        /\ \A h \in Launchers \ {l} : pc'[h] = pc[h]
    BY PcType, Zenon DEF Keep, Step
  <1>1. Onward
    BY <1>0, Zenon DEF Onward, Fades, Keep, tempVars, pluginVars, pastVars, historyVars
  <1>2. ASSUME NEW h \in Launchers, h # l PROVE Stays(h)
    BY <1>2, <1>0, Zenon DEF Stays, Fades, Keep, tempVars, pluginVars, pastVars, historyVars
  <1>3. TypeOK'
    BY StoreAssumption, Typed
       DEF TypeOK, Control, Keep, Step, procVars, tempVars, pluginVars, pastVars, storeVars,
           launcherVars, historyVars
  <1>4. Echoing(l)' /\ Keeping(l)'
    BY <1>0, EchoingHolds, KeepingHolds, PcType, Zenon
       DEF Echoing, Keeping, Restoring, Keep, tempVars, pluginVars, pastVars, historyVars, Step
  <1>5. Targeting(l)'
    BY <1>0, PcType, TargetingHolds, Zenon
       DEF Targeting, NoJar, Removing, Unpublishing, OnOwn, Publishing, Hosting, Step, Keep,
           tempVars, pluginVars, pastVars, historyVars
  <1>6. Filing(l)'
    BY <1>0, PcType, FilingHolds, Zenon
       DEF Filing, NoJar, Early, Removing, Holding, Materializing, Unpublishing, Publishing,
           Hosting, Step, Keep, tempVars, pluginVars, pastVars, historyVars
  <1>7. Copying(l)'
    BY <1>0, PcType, CopyingHolds, Zenon
       DEF Copying, NoCopy, Early, Removing, Materializing, Unpublishing, Publishing, Hosting,
           Step, Keep, tempVars, pluginVars, pastVars, historyVars
  <1> QED
    BY <1>1, <1>2, <1>3, <1>4, <1>5, <1>6, <1>7, Undisturbed, Zenon DEF IInv

\* The host is started.
LEMMA CreateProcessKeeps ==
    ASSUME IInv, NEW l \in Launchers, CreateProcess(l)
    PROVE  IInv'
  <1>0. /\ pc[l] = "createProcess" /\ pc'[l] \in {"wait", "release"}
        /\ \A h \in Launchers \ {l} : pc'[h] = pc[h]
    BY PcType, Zenon DEF CreateProcess, Step
  <1>1. Onward
    BY <1>0, Zenon DEF Onward, Fades, CreateProcess, tempVars, pluginVars, pastVars, historyVars
  <1>2. ASSUME NEW h \in Launchers, h # l PROVE Stays(h)
    BY <1>2, <1>0, HostType, Zenon
       DEF Stays, Fades, CreateProcess, tempVars, pluginVars, pastVars, historyVars
  <1>3. TypeOK'
    BY StoreAssumption, Typed
       DEF TypeOK, Control, CreateProcess, Step, procVars, tempVars, pluginVars, pastVars,
           storeVars, launcherVars, historyVars
  <1>4. Echoing(l)' /\ Keeping(l)'
    BY <1>0, HostType, EchoingHolds, KeepingHolds, PcType, Zenon
       DEF Echoing, Keeping, Restoring, CreateProcess, tempVars, pluginVars, pastVars,
           historyVars, Step
  <1>5. Targeting(l)'
    BY <1>0, PcType, TargetingHolds, Zenon
       DEF Targeting, NoJar, Removing, Unpublishing, OnOwn, Publishing, Hosting, Step,
           CreateProcess, tempVars, pluginVars, pastVars, historyVars
  <1>6. Filing(l)'
    BY <1>0, PcType, FilingHolds, Zenon
       DEF Filing, NoJar, Early, Removing, Holding, Materializing, Unpublishing, Publishing,
           Hosting, Step, CreateProcess, tempVars, pluginVars, pastVars, historyVars
  <1>7. Copying(l)'
    BY <1>0, PcType, CopyingHolds, Zenon
       DEF Copying, NoCopy, Early, Removing, Materializing, Unpublishing, Publishing, Hosting,
           Step, CreateProcess, tempVars, pluginVars, pastVars, historyVars
  <1> QED
    BY <1>1, <1>2, <1>3, <1>4, <1>5, <1>6, <1>7, Undisturbed, Zenon DEF IInv

\* The host opens the jar.
LEMMA HostOpensKeeps ==
    ASSUME IInv, NEW l \in Launchers, HostOpens(l)
    PROVE  IInv'
  <1>1. Onward
    BY Zenon
       DEF Onward, Fades, HostOpens, procVars, tempVars, pluginVars, pastVars, launcherVars,
           historyVars
  <1>2. ASSUME NEW h \in Launchers PROVE Stays(h)
    BY Zenon
       DEF Stays, Fades, HostOpens, procVars, tempVars, pluginVars, pastVars, launcherVars,
           historyVars
  <1>3. TypeOK'
    BY StoreAssumption, FilesTyped, Typed
       DEF TypeOK, Control, HostOpens, Step, procVars, tempVars, pluginVars, pastVars,
           storeVars, launcherVars, historyVars
  <1> QED
    BY <1>1, <1>2, <1>3, Undisturbed, Zenon DEF IInv

\* The host ends.
LEMMA HostEndsKeeps ==
    ASSUME IInv, NEW l \in Launchers, HostEnds(l)
    PROVE  IInv'
  <1>1. Onward
    BY Zenon DEF Onward, Fades, HostEnds, procVars, tempVars, pluginVars, pastVars, historyVars
  <1>2. ASSUME NEW h \in Launchers PROVE Stays(h)
    BY HostType, Zenon
       DEF Stays, Fades, HostEnds, procVars, tempVars, pluginVars, pastVars, historyVars
  <1>3. TypeOK'
    BY StoreAssumption, FilesTyped, Typed, Zenon
       DEF TypeOK, Control, HostEnds, Step, procVars, tempVars, pluginVars, pastVars, storeVars,
           launcherVars, historyVars
  <1> QED
    BY <1>1, <1>2, <1>3, Undisturbed, Zenon DEF IInv

\* The launcher sees that it ended.
LEMMA WaitKeeps ==
    ASSUME IInv, NEW l \in Launchers, Wait(l)
    PROVE  IInv'
  <1>0. pc[l] = "wait" /\ pc'[l] = "release" /\ \A h \in Launchers \ {l} : pc'[h] = pc[h]
    BY PcType, Zenon DEF Wait, Step
  <1>1. Moves(l)
    BY <1>0, Zenon DEF Moves, Wait, tempVars, pluginVars, pastVars, launcherVars, historyVars
  <1>2. TypeOK'
    BY StoreAssumption, Typed, Zenon
       DEF TypeOK, Control, Wait, Step, procVars, tempVars, pluginVars, pastVars, storeVars,
           launcherVars, historyVars
  <1>3. Echoing(l)' /\ Keeping(l)'
    BY <1>0, <1>1, EchoingHolds, KeepingHolds, Zenon
       DEF Echoing, Keeping, Restoring, Moves, launcherVars, historyVars, Wait
  <1>4. Targeting(l)'
    BY <1>0, TargetingHolds, <1>1, Zenon
       DEF Targeting, NoJar, Removing, Unpublishing, OnOwn, Publishing, Hosting, Wait, Moves
  <1>5. Filing(l)' /\ Copying(l)'
    BY <1>0, <1>1, FilingHolds, CopyingHolds, Zenon
       DEF Filing, Copying, NoJar, NoCopy, Moves, Early, Removing, Holding, Materializing,
           Unpublishing, Publishing, Hosting
  <1> QED
    BY <1>0, <1>1, <1>2, <1>3, <1>4, <1>5, MovesAlone, Undisturbed, Zenon DEF IInv

\* The launcher begins to remove its own files.
LEMMA ReleaseKeeps ==
    ASSUME IInv, NEW l \in Launchers, Release(l)
    PROVE  IInv'
  <1>0. /\ pc[l] = "release" /\ pc'[l] \in {"compareJar", "deleteJar"}
        /\ \A h \in Launchers \ {l} : pc'[h] = pc[h]
    BY PcType, Zenon DEF Release, Step
  <1>1. Onward
    BY <1>0, Zenon DEF Onward, Fades, Release, tempVars, pluginVars, pastVars, historyVars
  <1>2. ASSUME NEW h \in Launchers, h # l PROVE Stays(h)
    BY <1>2, <1>0, Zenon DEF Stays, Fades, Release, tempVars, pluginVars, pastVars, historyVars
  <1>3. TypeOK'
    BY StoreAssumption, Typed, Zenon
       DEF TypeOK, Control, Release, Step, procVars, tempVars, pluginVars, pastVars, storeVars,
           launcherVars, historyVars
  <1>4. Echoing(l)' /\ Keeping(l)'
    BY <1>0, EchoingHolds, KeepingHolds, Zenon
       DEF Echoing, Keeping, Restoring, Release, tempVars, pluginVars, pastVars, historyVars
  <1>5. Targeting(l)'
    BY <1>0, PcType, TargetingHolds, Zenon
       DEF Targeting, NoJar, Removing, Unpublishing, OnOwn, Publishing, Hosting, Step, Release,
           tempVars, pluginVars, pastVars, historyVars
  <1>6. Filing(l)'
    BY <1>0, PcType, FilingHolds, TargetingHolds, Zenon
       DEF Filing, NoJar, Early, Removing, Holding, Materializing, Unpublishing, Publishing,
           Hosting, Step, Release, tempVars, pluginVars, pastVars, historyVars, Targeting, OnOwn
  <1>7. Copying(l)'
    BY <1>0, PcType, CopyingHolds, TargetingHolds
       DEF Copying, NoCopy, Early, Removing, Materializing, Unpublishing, Publishing, Hosting,
           Step, Release, tempVars, pluginVars, pastVars, historyVars, Targeting, OnOwn
  <1> QED
    BY <1>1, <1>2, <1>3, <1>4, <1>5, <1>6, <1>7, Undisturbed, Zenon DEF IInv

\* wmain returns.
LEMMA ReturnKeeps ==
    ASSUME IInv, NEW l \in Launchers, Return(l)
    PROVE  IInv'
  <1>0. pc[l] = "exit" /\ pc'[l] = "gone" /\ \A h \in Launchers \ {l} : pc'[h] = pc[h]
    BY PcType, Zenon DEF Return, Step
  <1>1. Onward
    BY <1>0, Zenon
       DEF Onward, Fades, Return, Forget, tempVars, pluginVars, pastVars, launcherVars,
           historyVars
  <1>2. ASSUME NEW h \in Launchers, h # l PROVE Stays(h)
    BY <1>2, <1>0, TargetType, Zenon
       DEF Stays, Fades, Return, Forget, tempVars, pluginVars, pastVars, launcherVars,
           historyVars
  <1>3. TypeOK'
    BY StoreAssumption, Typed, Zenon
       DEF TypeOK, Control, Return, Step, Forget, procVars, tempVars, pluginVars, pastVars,
           storeVars, launcherVars, historyVars
  <1>4. Echoing(l)' /\ Keeping(l)'
    BY <1>0, EchoingHolds, KeepingHolds, Zenon
       DEF Echoing, Keeping, Restoring, Return, Forget, tempVars, pluginVars, pastVars,
           launcherVars, historyVars
  <1>5. Targeting(l)'
    BY <1>0, TargetType, TargetingHolds, Zenon
       DEF Targeting, NoJar, Removing, Unpublishing, OnOwn, Publishing, Hosting, Return, Forget,
           tempVars, pluginVars, pastVars, launcherVars, historyVars
  <1>6. Filing(l)'
    BY <1>0, TargetType, FilingHolds, Zenon
       DEF Filing, NoJar, Early, Removing, Holding, Materializing, Unpublishing, Publishing,
           Hosting, Return, Forget, tempVars, pluginVars, pastVars, launcherVars, historyVars
  <1>7. Copying(l)'
    BY <1>0, TargetType, CopyingHolds, Zenon
       DEF Copying, NoCopy, Early, Removing, Materializing, Unpublishing, Publishing, Hosting,
           Return, Forget, tempVars, pluginVars, pastVars, launcherVars, historyVars
  <1> QED
    BY <1>1, <1>2, <1>3, <1>4, <1>5, <1>6, <1>7, Undisturbed, Zenon DEF IInv

\* A control event at the prompt.
LEMMA PromptEventKeeps ==
    ASSUME IInv, NEW l \in Launchers, PromptEvent(l)
    PROVE  IInv'
  <1>1. Onward
    BY Zenon
       DEF Onward, Fades, PromptEvent, storeVars, historyVars, procVars, tempVars, pluginVars,
           pastVars
  <1>2. ASSUME NEW h \in Launchers, h # l PROVE Stays(h)
    BY <1>2, ControlType, Zenon
       DEF Stays, Fades, PromptEvent, storeVars, historyVars, procVars, tempVars, pluginVars,
           pastVars
  <1>3. TypeOK'
    BY StoreAssumption, Typed, Zenon
       DEF TypeOK, Control, PromptEvent, Step, procVars, tempVars, pluginVars, pastVars,
           storeVars, launcherVars, historyVars
  <1>4. Echoing(l)' /\ Keeping(l)'
    BY ControlType, EchoingHolds, KeepingHolds, Zenon
       DEF Echoing, Keeping, Restoring, PromptEvent, storeVars, historyVars, procVars, tempVars,
           pluginVars, pastVars
  <1>5. Targeting(l)'
    BY TargetingHolds, Zenon
       DEF Targeting, NoJar, Removing, Unpublishing, OnOwn, Publishing, Hosting, PromptEvent,
           storeVars, historyVars, procVars, tempVars, pluginVars, pastVars
  <1>6. Filing(l)'
    BY FilingHolds, Zenon
       DEF Filing, NoJar, Early, Removing, Holding, Materializing, Unpublishing, Publishing,
           Hosting, PromptEvent, storeVars, historyVars, procVars, tempVars, pluginVars,
           pastVars
  <1>7. Copying(l)'
    BY CopyingHolds, Zenon
       DEF Copying, NoCopy, Early, Removing, Materializing, Unpublishing, Publishing, Hosting,
           PromptEvent, storeVars, historyVars, procVars, tempVars, pluginVars, pastVars
  <1> QED
    BY <1>1, <1>2, <1>3, <1>4, <1>5, <1>6, <1>7, Undisturbed, Zenon DEF IInv

\* The control thread restores the echo.
LEMMA RestoreConsoleKeeps ==
    ASSUME IInv, NEW l \in Launchers, RestoreConsole(l)
    PROVE  IInv'
  <1>1. Onward
    BY Zenon
       DEF Onward, Fades, RestoreConsole, storeVars, historyVars, procVars, tempVars,
           pluginVars, pastVars
  <1>2. ASSUME NEW h \in Launchers, h # l PROVE Stays(h)
    BY <1>2, ControlType, Zenon
       DEF Stays, Fades, RestoreConsole, storeVars, historyVars, procVars, tempVars, pluginVars,
           pastVars
  <1>3. TypeOK'
    BY StoreAssumption, Typed, Zenon
       DEF TypeOK, Control, RestoreConsole, Step, procVars, tempVars, pluginVars, pastVars,
           storeVars, launcherVars, historyVars
  <1>4. Echoing(l)' /\ Keeping(l)'
    BY ControlType, EchoingHolds, KeepingHolds, Zenon
       DEF Echoing, Keeping, Restoring, RestoreConsole, storeVars, historyVars, procVars,
           tempVars, pluginVars, pastVars
  <1>5. Targeting(l)'
    BY TargetingHolds, Zenon
       DEF Targeting, NoJar, Removing, Unpublishing, OnOwn, Publishing, Hosting, RestoreConsole,
           storeVars, historyVars, procVars, tempVars, pluginVars, pastVars
  <1>6. Filing(l)'
    BY FilingHolds, Zenon
       DEF Filing, NoJar, Early, Removing, Holding, Materializing, Unpublishing, Publishing,
           Hosting, RestoreConsole, storeVars, historyVars, procVars, tempVars, pluginVars,
           pastVars
  <1>7. Copying(l)'
    BY CopyingHolds, Zenon
       DEF Copying, NoCopy, Early, Removing, Materializing, Unpublishing, Publishing, Hosting,
           RestoreConsole, storeVars, historyVars, procVars, tempVars, pluginVars, pastVars
  <1> QED
    BY <1>1, <1>2, <1>3, <1>4, <1>5, <1>6, <1>7, Undisturbed, Zenon DEF IInv

\* A process ends where it is, with its console and its host accounted for.
LEMMA DieKeeps ==
    ASSUME IInv, NEW l \in Launchers, Die(l), Alive(l), closed' \subseteq Launchers,
           closed \subseteq closed', host[l] = "running" => l \in closed',
           l \in echo \/ control[l] = "endEarly"
    PROVE  IInv'
  <1>0. pc[l] # "gone" /\ pc'[l] = "gone" /\ \A h \in Launchers \ {l} : pc'[h] = pc[h]
    BY PcType, Zenon DEF Die, Alive
  <1>1. Onward
    BY <1>0, Zenon DEF Onward, Fades, Die, Forget, pastVars
  <1>2. ASSUME NEW h \in Launchers, h # l PROVE Stays(h)
    BY <1>2, <1>0, TargetType, MarkerType, RecordType, Zenon
       DEF Stays, Fades, Die, Forget, Torn, pastVars
  <1>3. TypeOK'
    BY Typed, Zenon DEF TypeOK, Die, Forget, Torn, Control, Marks, pastVars
  <1>4. Echoing(l)' /\ Keeping(l)'
    BY <1>0, EchoingHolds, Zenon DEF Echoing, Keeping, Die
  <1>5. Targeting(l)'
    BY <1>0, Zenon DEF Targeting, Removing, Unpublishing, OnOwn, Publishing, Hosting
  <1>6. Filing(l)'
    BY <1>0, MarkerType, FilingHolds, Zenon
       DEF Filing, Early, Removing, Holding, Materializing, Unpublishing, Publishing, Hosting,
           Die, Torn, pastVars
  <1>7. Copying(l)'
    <2>1. pc[l] = "deleteRecord" => NoCopy(l)
      BY TargetingHolds, CopyingHolds, Zenon DEF Targeting, Copying, NoCopy, Unpublishing
    <2>2. pc[l] = "deleteAnchor" => Unrecorded(l) \/ record[l] = "whole"
      BY Zenon DEF Unrecorded
    <2>3. pc[l] \in {"compareJar", "deleteCopy"} => NoCopy(l) \/ record[l] = "whole"
      BY CopyingHolds, Zenon DEF Copying, Unpublishing
    <2>4. pc[l] \in Publishing \cup Hosting \cup {"release"} =>
            NoCopy(l) \/ record[l] = "whole" \/ Unrecorded(l)
      BY CopyingHolds, Zenon DEF Copying, Publishing, Unrecorded
    <2>5. pc[l] \in Early \cup Removing \cup Materializing \cup {"download", "handle", "exit"} => NoCopy(l)
      BY CopyingHolds, Zenon DEF Copying
    <2>6. pc[l] \in Control \ {"gone"}
      BY <1>0, PcType, Zenon
    <2>7. NoCopy(l) \/ record[l] = "whole" \/ Unrecorded(l)
      BY <2>1, <2>2, <2>3, <2>4, <2>5, <2>6, Zenon
         DEF Control, Early, Removing, Materializing, Publishing, Hosting
    <2>8. NoCopy(l)' \/ record'[l] = "whole" \/ l \in bare'
      BY <2>7, RecordType, Zenon DEF Die, Torn, NoCopy, pastVars
    <2> QED
      BY <2>8, <1>0, Zenon
         DEF Copying, Early, Removing, Materializing, Unpublishing, Publishing, Hosting
  <1> QED
    BY <1>1, <1>2, <1>3, <1>4, <1>5, <1>6, <1>7, Undisturbed, Zenon DEF IInv

\* The default handler ends the process.
LEMMA EndProcessKeeps ==
    ASSUME IInv, NEW l \in Launchers, EndProcess(l)
    PROVE  IInv'
  <1>1. Restoring(l) /\ (l \in echo \/ control[l] = "endEarly")
    BY EchoingHolds, Zenon DEF Echoing, EndProcess
  <1>2. Alive(l) /\ (host[l] = "running" => l \in closed)
    BY <1>1, KeepingHolds, Zenon DEF Keeping, Restoring, Alive
  <1>3. closed' = closed /\ closed \subseteq Launchers /\ Die(l)
    BY Typed, Zenon DEF TypeOK, EndProcess
  <1> QED
    BY <1>1, <1>2, <1>3, DieKeeps, Zenon

\* Ctrl-C ends a launcher that has no host.
LEMMA InterruptKeeps ==
    ASSUME IInv, NEW l \in Launchers, Interrupt(l)
    PROVE  IInv'
  <1>1. l \in echo \/ control[l] = "endEarly"
    BY EchoingHolds, Zenon DEF Echoing, Interrupt, Restoring, Alive
  <1>2. Alive(l) /\ (host[l] = "running" => l \in closed)
    BY KeepingHolds, Zenon DEF Keeping, Interrupt
  <1>3. closed' = closed /\ closed \subseteq Launchers /\ Die(l)
    BY Typed, Zenon DEF TypeOK, Interrupt
  <1> QED
    BY <1>1, <1>2, <1>3, DieKeeps, Zenon

\* The console is closed.
LEMMA CloseKeeps ==
    ASSUME IInv, NEW l \in Launchers, Close(l)
    PROVE  IInv'
  <1>1. l \in echo \/ control[l] = "endEarly"
    BY EchoingHolds, Zenon DEF Echoing, Close, Restoring, Alive
  <1>2. Alive(l) /\ closed' = closed \cup {l} /\ closed \subseteq Launchers /\ Die(l)
    BY Typed, Zenon DEF TypeOK, Close
  <1> QED
    BY <1>1, <1>2, DieKeeps, Zenon

\* The user puts a file into a temporary directory.
LEMMA PutForeignKeeps ==
    ASSUME IInv, NEW l \in Launchers, PutForeign(l)
    PROVE  IInv'
  <1>1. Onward
    BY Zenon
       DEF Onward, Fades, PutForeign, procVars, pluginVars, pastVars, launcherVars, historyVars
  <1>2. ASSUME NEW h \in Launchers PROVE Stays(h)
    BY Zenon
       DEF Stays, Fades, PutForeign, procVars, pluginVars, pastVars, launcherVars, historyVars
  <1>3. TypeOK'
    BY StoreAssumption, Typed, Zenon
       DEF TypeOK, Control, PutForeign, Step, procVars, tempVars, pluginVars, pastVars,
           storeVars, launcherVars, historyVars
  <1> QED
    BY <1>1, <1>2, <1>3, Undisturbed, Zenon DEF IInv

\* A day passes.
LEMMA DayKeeps ==
    ASSUME IInv, Day
    PROVE  IInv'
  <1>1. Onward
    BY Zenon DEF Onward, Fades, Day, procVars, pluginVars, pastVars, launcherVars, historyVars
  <1>2. ASSUME NEW h \in Launchers PROVE Stays(h)
    BY Zenon DEF Stays, Fades, Day, procVars, pluginVars, pastVars, launcherVars, historyVars
  <1>3. TypeOK'
    BY StoreAssumption, Typed, Zenon
       DEF TypeOK, Control, Day, Step, procVars, tempVars, pluginVars, pastVars, storeVars,
           launcherVars, historyVars
  <1> QED
    BY <1>1, <1>2, <1>3, Undisturbed, Zenon DEF IInv

\* The user puts, replaces or removes a file with the jar's name.
LEMMA UserEditsKeeps ==
    ASSUME IInv, UserEdits
    PROVE  IInv'
  <1>1. Onward
    BY StoreAssumption, Zenon
       DEF Onward, Fades, UserEdits, procVars, tempVars, launcherVars, historyVars
  <1>2. ASSUME NEW h \in Launchers PROVE Stays(h)
    BY StoreAssumption, Zenon
       DEF Stays, Fades, UserEdits, procVars, tempVars, launcherVars, historyVars
  <1>3. TypeOK'
    BY StoreAssumption, Typed
       DEF TypeOK, Control, UserEdits, Step, Deleting, InUse, procVars, tempVars, pluginVars,
           pastVars, storeVars, launcherVars, historyVars
  <1> QED
    BY <1>1, <1>2, <1>3, Undisturbed, Zenon DEF IInv

\* The invariant is about the variables only.
LEMMA StutterKeeps ==
    ASSUME IInv, UNCHANGED vars
    PROVE  IInv'
  <1>1. Onward
    BY Zenon
       DEF Onward, Fades, vars, storeVars, launcherVars, procVars, tempVars, pluginVars,
           pastVars, historyVars
  <1>2. ASSUME NEW h \in Launchers PROVE Stays(h)
    BY Zenon
       DEF Stays, Fades, vars, storeVars, launcherVars, procVars, tempVars, pluginVars,
           pastVars, historyVars
  <1>3. TypeOK'
    BY Typed, Zenon
       DEF TypeOK, procVars, tempVars, pluginVars, pastVars, storeVars, launcherVars,
           historyVars, vars
  <1> QED
    BY <1>1, <1>2, <1>3, Undisturbed, Zenon DEF IInv

\* IInv is inductive: every step of every launcher, every control event, and what the
\* user does keep it.
LEMMA NextKeeps ==
    ASSUME IInv, [Next]_vars
    PROVE  IInv'
  BY CleanupStaleKeeps, OpenMarkerKeeps, JudgeKeeps, SweepEndsKeeps, DeleteJarKeeps,
     DeletePartKeeps, DeleteMarkerKeeps, RemoveDirectoryKeeps, MakeDirectoryKeeps,
     CreateMarkerKeeps, WriteMarkerKeeps, CreatePartKeeps, DownloadKeeps, MakeHandleKeeps,
     CleanupPluginsKeeps, OpenRecordKeeps, JudgeCopyKeeps, PluginSweepEndsKeeps,
     CompareJarKeeps, DeleteCopyKeeps, DeleteAnchorKeeps, DeleteRecordKeeps, CopyPartialKeeps,
     CreateRecordKeeps, WriteRecordKeeps, LinkKeeps, ParseArgumentsKeeps, InstallRestoreKeeps,
     HideEchoKeeps, ReadLicenseKeeps, RestoreEchoKeeps, RemoveRestoreKeeps, KeepKeeps,
     CreateProcessKeeps, HostOpensKeeps, HostEndsKeeps, WaitKeeps, ReleaseKeeps, ReturnKeeps,
     PromptEventKeeps, RestoreConsoleKeeps, EndProcessKeeps, InterruptKeeps, CloseKeeps,
     PutForeignKeeps, DayKeeps, UserEditsKeeps, StutterKeeps, Zenon
     DEF Next, Prompt, Run, Events, Acquire, Materialize

\* IInv holds of every reachable state.
THEOREM Invariance == Spec => []IInv
  <1>1. Init => IInv
    <2> SUFFICES ASSUME Init PROVE IInv
      OBVIOUS
    <2> USE StoreAssumption DEF Init, StoreInit
    <2>1. TypeOK
      BY Zenon DEF TypeOK, Control, Marks
    <2>2. ASSUME NEW l \in Launchers PROVE Echoing(l) /\ Keeping(l)
      BY Zenon DEF Echoing, Keeping, Restoring
    <2>3. ASSUME NEW l \in Launchers PROVE Targeting(l)
      BY Zenon DEF Targeting, Removing, Unpublishing, OnOwn, Publishing, Hosting
    <2>4. ASSUME NEW l \in Launchers PROVE Filing(l)
      BY Zenon
         DEF Filing, Early, Removing, Holding, Materializing, Unpublishing, Publishing, Hosting
    <2>5. ASSUME NEW l \in Launchers PROVE Copying(l)
      BY Zenon
         DEF Copying, NoCopy, Early, Removing, Materializing, Unpublishing, Publishing, Hosting
    <2> QED
      BY <2>1, <2>2, <2>3, <2>4, <2>5, Zenon DEF IInv
  <1>2. IInv /\ [Next]_vars => IInv'
    BY NextKeeps, Zenon
  <1> QED
    BY <1>1, <1>2, PTL DEF Spec

\* Whatever ends the launcher, its console echoes again, unless the event came before
\* wmain hid the echo.
THEOREM EchoIsRestored == Spec => []EchoRestored
  <1>1. IInv => EchoRestored
    BY Zenon DEF IInv, Echoing, EchoRestored
  <1> QED
    BY <1>1, Invariance, PTL

\* A running host has its jar, in the temporary directory and, with preload, under the
\* jar's name, however many launchers clean up around it: keep_parent_alive keeps its
\* launcher in WaitForSingleObject, and a cleanup removes only what the dead left.
THEOREM HostsHaveJars == Spec => []HostHasJar
  <1>1. IInv => HostHasJar
    <2> SUFFICES ASSUME IInv, NEW l \in Launchers, host[l] = "running", l \notin closed \cup raced
                 PROVE  file[l] = "jar" /\ (l \in preload => dest = l)
      BY Zenon DEF HostHasJar
    <2>1. pc[l] = "wait"
      BY Zenon DEF IInv, Keeping
    <2>2. file[l] = "jar"
      BY <2>1, Zenon DEF IInv, Filing, Holding, Hosting
    <2>3. l \in preload => dest = l
      BY <2>1, Zenon DEF IInv, Copying, Hosting
    <2> QED
      BY <2>2, <2>3, Zenon
  <1> QED
    BY <1>1, Invariance, PTL

\* What a launcher that has ended left of the artifact is under a whole marker or
\* record, but for the exceptions ArtifactRecorded names: the markers are the first
\* files to be written and the last to be deleted.
THEOREM ArtifactsRecorded == Spec => []ArtifactRecorded
  <1>1. IInv => ArtifactRecorded
    <2> SUFFICES ASSUME IInv, NEW l \in Launchers, ~Alive(l)
                 PROVE  /\ file[l] # "none" => marker[l] = "whole" \/ Jar(l) \in refused \/ l \in leaky
                        /\ l \in partial \/ dest = l =>
                             record[l] = "whole" \/ Copy(l) \in refused \/ l \in bare
      BY Zenon DEF ArtifactRecorded
    <2>1. file[l] # "none" => marker[l] = "whole" \/ Jar(l) \in refused \/ l \in leaky
      BY Zenon DEF IInv, Filing
    <2>2. NoCopy(l) \/ record[l] = "whole" \/ l \in bare
      BY Zenon DEF Alive, IInv, Copying, Early
    <2> QED
      BY <2>1, <2>2, Zenon DEF NoCopy
  <1> QED
    BY <1>1, Invariance, PTL

\* What LiveFilesPrivate says of one launcher.
Private(l) ==
    /\ <<file[l], marker[l], record[l]>>' = <<file[l], marker[l], record[l]>>
    /\ (l \in dirs <=> l \in dirs') /\ (l \in partial <=> l \in partial')

\* A step of a launcher changes its own files, or those of one that has ended: Stale
\* and Abandoned ask for the process before anything is removed.
LEMMA StepsArePrivate ==
    ASSUME IInv, [Next]_vars, NEW l \in Launchers, Alive(l), pc'[l] = pc[l]
    PROVE  Private(l)
  <1>dead. ASSUME NEW q \in Launchers, pc[q] \in Removing \cup Unpublishing, q # l PROVE target[q] # l
    BY <1>dead, Zenon DEF IInv, Targeting, Alive
  <1>1. ASSUME NEW q \in Launchers, DeleteJar(q) PROVE Private(l)
    <2>1. q # l /\ pc[q] \in Removing \cup Unpublishing
      BY <1>1, PcType, Zenon DEF DeleteJar, Step, Removing
    <2>2. target[q] # l
      BY <2>1, <1>dead, Zenon
    <2> QED
      BY <1>1, <2>2, FileType, Zenon DEF DeleteJar, Private, pluginVars
  <1>2. ASSUME NEW q \in Launchers, DeletePart(q) PROVE Private(l)
    <2>1. q # l /\ pc[q] \in Removing \cup Unpublishing
      BY <1>2, PcType, Zenon DEF DeletePart, Step, Removing
    <2>2. target[q] # l
      BY <2>1, <1>dead, Zenon
    <2> QED
      BY <1>2, <2>2, FileType, Zenon DEF DeletePart, Private, pluginVars
  <1>3. ASSUME NEW q \in Launchers, DeleteMarker(q) PROVE Private(l)
    <2>1. q # l /\ pc[q] \in Removing \cup Unpublishing
      BY <1>3, PcType, Zenon DEF DeleteMarker, Step, Removing
    <2>2. target[q] # l
      BY <2>1, <1>dead, Zenon
    <2> QED
      BY <1>3, <2>2, MarkerType, Zenon DEF DeleteMarker, Private, pluginVars
  <1>4. ASSUME NEW q \in Launchers, RemoveDirectory(q) PROVE Private(l)
    <2>1. q # l /\ pc[q] \in Removing \cup Unpublishing
      BY <1>4, PcType, Zenon DEF RemoveDirectory, Step, Removing
    <2>2. target[q] # l
      BY <2>1, <1>dead, Zenon
    <2> QED
      BY <1>4, <2>2, Zenon DEF RemoveDirectory, Private, pluginVars
  <1>5. ASSUME NEW q \in Launchers, DeleteAnchor(q) PROVE Private(l)
    <2>1. q # l /\ pc[q] \in Removing \cup Unpublishing
      BY <1>5, PcType, Zenon DEF DeleteAnchor, Step, Unpublishing
    <2>2. target[q] # l
      BY <2>1, <1>dead, Zenon
    <2> QED
      BY <1>5, <2>2, Zenon DEF DeleteAnchor, Private, tempVars
  <1>6. ASSUME NEW q \in Launchers, DeleteRecord(q) PROVE Private(l)
    <2>1. q # l /\ pc[q] \in Removing \cup Unpublishing
      BY <1>6, PcType, Zenon DEF DeleteRecord, Step, Unpublishing
    <2>2. target[q] # l
      BY <2>1, <1>dead, Zenon
    <2> QED
      BY <1>6, <2>2, RecordType, Zenon DEF DeleteRecord, Private, tempVars
  <1>7. ASSUME NEW q \in Launchers,
               \/ MakeDirectory(q) \/ CreateMarker(q) \/ WriteMarker(q) \/ CreatePart(q)
               \/ Download(q) \/ MakeHandle(q)
        PROVE  Private(l)
    <2>1. q # l
      BY <1>7, PcType, Zenon
         DEF MakeDirectory, CreateMarker, WriteMarker, CreatePart, Download, MakeHandle, Step
    <2>2. CASE MakeDirectory(q)
      BY <2>1, <2>2, Zenon DEF MakeDirectory, Private, pluginVars
    <2>3. CASE CreateMarker(q) \/ WriteMarker(q)
      BY <2>1, <2>3, MarkerType, Zenon DEF CreateMarker, WriteMarker, Private, pluginVars
    <2>4. CASE CreatePart(q) \/ Download(q)
      BY <2>1, <2>4, FileType, Zenon DEF CreatePart, Download, Private, pluginVars
    <2>5. CASE MakeHandle(q)
      BY <2>1, <2>5, MarkerType, Zenon DEF MakeHandle, Private, pluginVars
    <2> QED
      BY <1>7, <2>2, <2>3, <2>4, <2>5, Zenon
  <1>8. ASSUME NEW q \in Launchers, CopyPartial(q) \/ CreateRecord(q) \/ WriteRecord(q)
        PROVE  Private(l)
    <2>1. q # l
      BY <1>8, PcType, Zenon DEF CopyPartial, CreateRecord, WriteRecord, Step
    <2>2. CASE CopyPartial(q)
      BY <2>1, <2>2, Zenon DEF CopyPartial, Private, tempVars
    <2>3. CASE CreateRecord(q) \/ WriteRecord(q)
      BY <2>1, <2>3, RecordType, Zenon DEF CreateRecord, WriteRecord, Private, tempVars
    <2> QED
      BY <1>8, <2>2, <2>3, Zenon
  <1>9. ASSUME NEW q \in Launchers, Die(q) PROVE Private(l)
    <2>1. q # l
      BY <1>9, PcType, Zenon DEF Die, Alive
    <2> QED
      BY <1>9, <2>1, MarkerType, RecordType, Zenon DEF Die, Torn, Private
  <1>10. ASSUME UNCHANGED <<file, marker, record, dirs, partial>> PROVE Private(l)
    BY <1>10, Zenon DEF Private
  <1>11. ASSUME NEW q \in Launchers, NEW m \in Launchers,
                \/ CleanupStale(q) \/ OpenMarker(q, m) \/ Judge(q) \/ SweepEnds(q) \/ CleanupPlugins(q)
                \/ OpenRecord(q, m) \/ JudgeCopy(q) \/ PluginSweepEnds(q) \/ CompareJar(q)
                \/ DeleteCopy(q) \/ Link(q)
         PROVE  Private(l)
    BY <1>11, <1>10, Zenon
       DEF CleanupStale, OpenMarker, Judge, SweepEnds, CleanupPlugins, OpenRecord, JudgeCopy,
           PluginSweepEnds, CompareJar, DeleteCopy, Link, tempVars, pluginVars
  <1>12. ASSUME NEW q \in Launchers, Prompt(q) PROVE Private(l)
    BY <1>12, <1>10, Zenon
       DEF Prompt, ParseArguments, InstallRestore, HideEcho, ReadLicense, RestoreEcho,
           RemoveRestore, tempVars, pluginVars
  <1>13. ASSUME NEW q \in Launchers,
                \/ Keep(q) \/ CreateProcess(q) \/ HostOpens(q) \/ HostEnds(q) \/ Wait(q)
                \/ Release(q) \/ Return(q)
         PROVE  Private(l)
    BY <1>13, <1>10, Zenon
       DEF Keep, CreateProcess, HostOpens, HostEnds, Wait, Release, Return, tempVars, pluginVars
  <1>14. ASSUME NEW q \in Launchers, Events(q) PROVE Private(l)
    BY <1>14, <1>9, <1>10, Zenon
       DEF Events, PromptEvent, RestoreConsole, EndProcess, Interrupt, Close, storeVars,
           tempVars, pluginVars
  <1>15. CASE Day \/ UserEdits \/ (\E q \in Launchers : PutForeign(q)) \/ UNCHANGED vars
    BY <1>15, <1>10, Zenon DEF Day, UserEdits, PutForeign, vars, storeVars, tempVars, pluginVars
  <1>16. ASSUME NEW q \in Launchers, Acquire(q) \/ Materialize(q) PROVE Private(l)
    BY <1>16, <1>1, <1>2, <1>3, <1>4, <1>5, <1>6, <1>7, <1>8, <1>11, Zenon
       DEF Acquire, Materialize
  <1> QED
    BY <1>12, <1>13, <1>14, <1>15, <1>16, Zenon DEF Next, Run

\* No cleanup touches the directory, the markers or the copy of a live launcher.
THEOREM LiveFilesArePrivate == Spec => LiveFilesPrivate
  <1>1. IInv /\ [Next]_vars =>
          [\A l \in Launchers : Alive(l) /\ pc'[l] = pc[l] =>
             /\ <<file[l], marker[l], record[l]>>' = <<file[l], marker[l], record[l]>>
             /\ (l \in dirs <=> l \in dirs') /\ (l \in partial <=> l \in partial')]_vars
    BY StepsArePrivate, Zenon DEF Private
  <1> QED
    BY <1>1, Invariance, PTL DEF Spec, LiveFilesPrivate

\* The jar's name is taken from the user only by a deletion that was decided before the
\* user had it: CreateHardLink fails on a name that exists, and CompareJar goes by the
\* identity of the file.
LEMMA StepsKeepUserFile ==
    ASSUME IInv, [Next]_vars, dest = User, dest' # User
    PROVE  pc' = pc \/ User \in raced
  <1>1. ASSUME NEW q \in Launchers, DeleteCopy(q) PROVE User \in raced
    BY <1>1, StoreAssumption, Zenon DEF DeleteCopy, Step, IInv, Targeting, Unpublishing
  <1>2. ASSUME NEW q \in Launchers, Link(q) PROVE FALSE
    BY <1>2, StoreAssumption, Zenon DEF Link
  <1>3. ASSUME NEW q \in Launchers, Acquire(q) PROVE FALSE
    BY <1>3, Zenon
       DEF Acquire, CleanupStale, OpenMarker, Judge, SweepEnds, DeleteJar, DeletePart,
           DeleteMarker, RemoveDirectory, MakeDirectory, CreateMarker, WriteMarker, CreatePart,
           Download, MakeHandle, pluginVars
  <1>4. ASSUME NEW q \in Launchers, Materialize(q) PROVE User \in raced
    BY <1>4, <1>1, <1>2, Zenon
       DEF Materialize, CleanupPlugins, OpenRecord, JudgeCopy, PluginSweepEnds, CompareJar,
           DeleteAnchor, DeleteRecord, CopyPartial, CreateRecord, WriteRecord, pluginVars
  <1>5. ASSUME NEW q \in Launchers, Prompt(q) PROVE FALSE
    BY <1>5, Zenon
       DEF Prompt, ParseArguments, InstallRestore, HideEcho, ReadLicense, RestoreEcho,
           RemoveRestore, pluginVars
  <1>6. ASSUME NEW q \in Launchers,
               \/ Keep(q) \/ CreateProcess(q) \/ HostOpens(q) \/ HostEnds(q) \/ Wait(q)
               \/ Release(q) \/ Return(q)
        PROVE  FALSE
    BY <1>6, Zenon
       DEF Keep, CreateProcess, HostOpens, HostEnds, Wait, Release, Return, pluginVars
  <1>7. ASSUME NEW q \in Launchers, Events(q) PROVE FALSE
    BY <1>7, Zenon
       DEF Events, PromptEvent, RestoreConsole, EndProcess, Interrupt, Close, Die, storeVars,
           pluginVars
  <1>8. CASE Day \/ UserEdits \/ (\E q \in Launchers : PutForeign(q)) \/ UNCHANGED vars
    BY <1>8, Zenon DEF Day, UserEdits, PutForeign, vars, storeVars, procVars, pluginVars
  <1> QED
    BY <1>3, <1>4, <1>5, <1>6, <1>7, <1>8, Zenon DEF Next, Run

\* A file the user put under the jar's name stays, unless the deletion was decided
\* before it was there.
THEOREM UserFilesAreKept == Spec => UserFilesKept
  <1>1. IInv /\ [Next]_vars => [dest = User /\ dest' # User => pc' = pc \/ User \in raced]_vars
    BY StepsKeepUserFile, Zenon
  <1> QED
    BY <1>1, Invariance, PTL DEF Spec, UserFilesKept
==============================================================================
