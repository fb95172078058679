----------------------- MODULE RuntimeDirectoryProofs -----------------------
(***************************************************************************)
(* Proofs about RuntimeDirectory for any set of pids, any set of names,    *)
(* any clock, age threshold and scan limit.                                *)
(*                                                                         *)
(* The argument: a directory in use (mine) carries its user's pid in the   *)
(* marker from the moment a marker exists, so no cleanup claims it         *)
(* (Separate); the contents of a directory are fixed by the place its user *)
(* (Stage) or its cleaner (CleanStage) has reached.                        *)
(***************************************************************************)
EXTENDS RuntimeDirectory, TLAPS

None(d) == marker[d] = "none" /\ part[d] = "none" /\ jar[d] = "none"
Bare(d) == part[d] = "none" /\ jar[d] = "none"
Recorded(d) == marker[d] = "whole" \/ d \in leaky

\* What the directory of a process holds at each label.
Stage(p, d) ==
    /\ pc[p] = "mark" => None(d)
    /\ pc[p] = "marking" => marker[d] = "torn" /\ Bare(d)
    /\ pc[p] = "file" => marker[d] = "whole" /\ Bare(d)
    /\ pc[p] = "fetch" => marker[d] = "whole" /\ jar[d] = "none"
    /\ pc[p] = "sync" => marker[d] = "whole" /\ jar[d] = "none"
    /\ pc[p] = "rename" => marker[d] = "whole" /\ part[d] = "durable" /\ jar[d] = "none"
    /\ pc[p] \in {"handle", "held"} => marker[d] = "whole" /\ part[d] = "none" /\ jar[d] = "durable"
    /\ pc[p] = "drop" => Recorded(d)
    /\ pc[p] = "dropjar" => Recorded(d) /\ part[d] = "none"
    /\ pc[p] = "unmark" => Bare(d)
    /\ pc[p] = "rmdir" => None(d)

\* What a directory under removal holds at each label of its cleaner.
CleanStage(p, d) ==
    /\ pc[p] = "rmpart" => jar[d] = "none"
    /\ pc[p] = "rmmarker" => Bare(d)
    /\ pc[p] = "rmroot" => None(d)

\* Directories in use are private and marked with their user's pid, and no
\* cleaner is at work in them.
Separate ==
    /\ \A p \in Procs : mine[p] # NoDir <=> pc[p] \in Working
    /\ \A p \in Procs : target[p] # NoDir <=> pc[p] \in Cleaning
    /\ \A p \in Procs : mine[p] # NoDir => mine[p] \in present
    /\ \A p \in Procs : target[p] # NoDir => target[p] \in used
    /\ \A p, q \in Procs : (mine[p] # NoDir /\ mine[p] = mine[q]) => p = q
    /\ \A p, q \in Procs : mine[p] # NoDir => mine[p] # target[q]
    /\ \A p \in Procs : (mine[p] # NoDir /\ marker[mine[p]] # "none") => owner[mine[p]] = p

Contents ==
    /\ \A p \in Procs : mine[p] # NoDir => Stage(p, mine[p])
    /\ \A p \in Procs : target[p] # NoDir => CleanStage(p, target[p])
    /\ \A d \in Dirs : d \notin used => None(d)
    /\ \A d \in Dirs : jar[d] \in {"none", "durable"}
    /\ \A d \in Dirs : Bare(d) \/ Recorded(d)

IInv == TypeOK /\ Separate /\ Contents

USE RuntimeAssumption
-----------------------------------------------------------------------------
\* The constants of the specification start it in a state of the invariant.
LEMMA InitIInv == Init => IInv
<1> SUFFICES ASSUME Init PROVE IInv
    OBVIOUS
<1>1. TypeOK
    BY DEF Init, TypeOK, Control, Content
<1>2. Separate
    BY DEF Init, Separate, Working, Cleaning, Filling, Removing
<1>3. Contents
    BY DEF Init, Contents, None, Bare, Recorded
<1>. QED BY <1>1, <1>2, <1>3 DEF IInv

USE DEF Goto, procVars, dirVars, envVars, Working, Filling, Removing, Cleaning

\* Every action of the runtime directory preserves the types of its state.
LEMMA TypeStep == IInv /\ [Next]_vars => TypeOK'
<1> SUFFICES ASSUME IInv, [Next]_vars PROVE TypeOK'
    OBVIOUS
<1> USE DEF IInv, TypeOK, Control, Content, Separate
<1>1. ASSUME NEW p \in Procs, Cleanup(p) PROVE TypeOK'
  <2>1. CASE BeginAcquire(p)
    BY <2>1 DEF BeginAcquire, Scans
  <2>2. CASE CleanJar(p)
    BY <2>2 DEF CleanJar
  <2>3. CASE CleanPart(p)
    BY <2>3 DEF CleanPart
  <2>4. CASE CleanMarker(p)
    BY <2>4 DEF CleanMarker
  <2>5. CASE CleanRoot(p)
    BY <2>5 DEF CleanRoot, AfterRmdir
  <2>6. CASE EndClean(p)
    BY <2>6 DEF EndClean
  <2>7. ASSUME NEW d \in Dirs, CheckDir(p, d) PROVE TypeOK'
    BY <2>7 DEF CheckDir
  <2>8. ASSUME NEW d \in Dirs, SkipDir(p, d) PROVE TypeOK'
    BY <2>8 DEF SkipDir
  <2>. QED BY <1>1, <2>1, <2>2, <2>3, <2>4, <2>5, <2>6, <2>7, <2>8 DEF Cleanup
<1>2. ASSUME NEW p \in Procs, Download(p) PROVE TypeOK'
  <2>1. CASE AcquireFails(p)
    BY <2>1 DEF AcquireFails
  <2>2. CASE MakeTempDirectory(p)
    BY <2>2 DEF MakeTempDirectory
  <2>3. CASE OpenMarker(p)
    BY <2>3 DEF OpenMarker
  <2>4. CASE WriteMarker(p)
    BY <2>4 DEF WriteMarker
  <2>5. CASE MarkerFails(p)
    BY <2>5 DEF MarkerFails
  <2>6. CASE CreateFile(p)
    BY <2>6 DEF CreateFile
  <2>7. CASE CreateFileFails(p)
    BY <2>7 DEF CreateFileFails
  <2>8. CASE Fetch(p)
    BY <2>8 DEF Fetch
  <2>9. CASE SyncClose(p)
    BY <2>9 DEF SyncClose
  <2>10. CASE Rename(p)
    BY <2>10 DEF Rename
  <2>11. CASE SyncOrRenameFails(p)
    BY <2>11 DEF SyncOrRenameFails
  <2>12. CASE MakeHandle(p)
    BY <2>12 DEF MakeHandle
  <2>13. CASE HandleFails(p)
    BY <2>13 DEF HandleFails
  <2>. QED BY <1>2, <2>1, <2>2, <2>3, <2>4, <2>5, <2>6, <2>7, <2>8, <2>9, <2>10, <2>11, <2>12, <2>13 DEF Download
<1>3. ASSUME NEW p \in Procs, Remove(p) PROVE TypeOK'
  <2>1. CASE Release(p)
    BY <2>1 DEF Release
  <2>2. CASE Drop(p)
    BY <2>2 DEF Drop
  <2>3. CASE DropJar(p)
    BY <2>3 DEF DropJar
  <2>4. CASE Unmark(p)
    BY <2>4 DEF Unmark
  <2>5. CASE Rmdir(p)
    BY <2>5 DEF Rmdir, AfterRmdir
  <2>. QED BY <1>3, <2>1, <2>2, <2>3, <2>4, <2>5 DEF Remove
<1>4. ASSUME NEW p \in Procs, Start(p) PROVE TypeOK'
    BY <1>4 DEF Start
<1>5. ASSUME NEW p \in Procs, Exit(p) PROVE TypeOK'
    BY <1>5 DEF Exit
<1>6. ASSUME NEW p \in Procs, Crash(p) PROVE TypeOK'
    BY <1>6 DEF Crash
<1>7. CASE PowerLoss
    BY <1>7 DEF PowerLoss, AfterPowerLoss
<1>8. CASE SetClock
    BY <1>8 DEF SetClock
<1>9. CASE AddForeign
    BY <1>9 DEF AddForeign
<1>10. CASE UNCHANGED vars
    BY <1>10 DEF vars
<1>. QED BY <1>1, <1>2, <1>3, <1>4, <1>5, <1>6, <1>7, <1>8, <1>9, <1>10 DEF Next

\* No action makes a directory in use shared, unmarked or the target of a cleanup.
LEMMA SeparateStep == IInv /\ [Next]_vars => Separate'
<1> SUFFICES ASSUME IInv, [Next]_vars PROVE Separate'
    OBVIOUS
<1> USE DEF IInv, TypeOK, Control, Separate, Contents, Stage, None
<1>1. ASSUME NEW p \in Procs, Cleanup(p) PROVE Separate'
  <2>1. CASE BeginAcquire(p)
    BY <2>1 DEF BeginAcquire
  <2>2. CASE CleanJar(p)
    BY <2>2 DEF CleanJar
  <2>3. CASE CleanPart(p)
    BY <2>3 DEF CleanPart
  <2>4. CASE CleanMarker(p)
    BY <2>4 DEF CleanMarker
  <2>5. CASE CleanRoot(p)
    BY <2>5 DEF CleanRoot, AfterRmdir
  <2>6. CASE EndClean(p)
    BY <2>6 DEF EndClean
  <2>7. ASSUME NEW d \in Dirs, CheckDir(p, d) PROVE Separate'
    BY <2>7, SMTT(30) DEF CheckDir, Stale
  <2>8. ASSUME NEW d \in Dirs, SkipDir(p, d) PROVE Separate'
    BY <2>8 DEF SkipDir
  <2>. QED BY <1>1, <2>1, <2>2, <2>3, <2>4, <2>5, <2>6, <2>7, <2>8 DEF Cleanup
<1>2. ASSUME NEW p \in Procs, Download(p) PROVE Separate'
  <2>1. CASE AcquireFails(p)
    BY <2>1 DEF AcquireFails
  <2>2. CASE MakeTempDirectory(p)
    BY <2>2 DEF MakeTempDirectory
  <2>3. CASE OpenMarker(p)
    BY <2>3 DEF OpenMarker
  <2>4. CASE WriteMarker(p)
    BY <2>4 DEF WriteMarker
  <2>5. CASE MarkerFails(p)
    BY <2>5 DEF MarkerFails
  <2>6. CASE CreateFile(p)
    BY <2>6 DEF CreateFile
  <2>7. CASE CreateFileFails(p)
    BY <2>7 DEF CreateFileFails
  <2>8. CASE Fetch(p)
    BY <2>8 DEF Fetch
  <2>9. CASE SyncClose(p)
    BY <2>9 DEF SyncClose
  <2>10. CASE Rename(p)
    BY <2>10 DEF Rename
  <2>11. CASE SyncOrRenameFails(p)
    BY <2>11 DEF SyncOrRenameFails
  <2>12. CASE MakeHandle(p)
    BY <2>12 DEF MakeHandle
  <2>13. CASE HandleFails(p)
    BY <2>13 DEF HandleFails
  <2>. QED BY <1>2, <2>1, <2>2, <2>3, <2>4, <2>5, <2>6, <2>7, <2>8, <2>9, <2>10, <2>11, <2>12, <2>13 DEF Download
<1>3. ASSUME NEW p \in Procs, Remove(p) PROVE Separate'
  <2>1. CASE Release(p)
    BY <2>1 DEF Release
  <2>2. CASE Drop(p)
    BY <2>2 DEF Drop
  <2>3. CASE DropJar(p)
    BY <2>3 DEF DropJar
  <2>4. CASE Unmark(p)
    BY <2>4 DEF Unmark
  <2>5. CASE Rmdir(p)
    BY <2>5 DEF Rmdir, AfterRmdir
  <2>. QED BY <1>3, <2>1, <2>2, <2>3, <2>4, <2>5 DEF Remove
<1>4. ASSUME NEW p \in Procs, Start(p) PROVE Separate'
    BY <1>4 DEF Start
<1>5. ASSUME NEW p \in Procs, Exit(p) PROVE Separate'
    BY <1>5 DEF Exit
<1>6. ASSUME NEW p \in Procs, Crash(p) PROVE Separate'
    BY <1>6 DEF Crash
<1>7. CASE PowerLoss
    BY <1>7 DEF PowerLoss
<1>8. CASE SetClock
    BY <1>8 DEF SetClock
<1>9. CASE AddForeign
    BY <1>9 DEF AddForeign
<1>10. CASE UNCHANGED vars
    BY <1>10 DEF vars
<1>. QED BY <1>1, <1>2, <1>3, <1>4, <1>5, <1>6, <1>7, <1>8, <1>9, <1>10 DEF Next

\* Every action leaves the directories with the contents its label promises.
LEMMA ContentsStep == IInv /\ [Next]_vars => Contents'
<1> SUFFICES ASSUME IInv, [Next]_vars PROVE Contents'
    OBVIOUS
<1> USE DEF IInv, TypeOK, Control, Content, Separate, Contents, Stage, CleanStage, None, Bare, Recorded
<1>1. ASSUME NEW p \in Procs, Cleanup(p) PROVE Contents'
  <2>1. CASE BeginAcquire(p)
    BY <2>1 DEF BeginAcquire
  <2>2. CASE CleanJar(p)
    BY <2>2 DEF CleanJar
  <2>3. CASE CleanPart(p)
    BY <2>3 DEF CleanPart
  <2>4. CASE CleanMarker(p)
    BY <2>4 DEF CleanMarker
  <2>5. CASE CleanRoot(p)
    BY <2>5 DEF CleanRoot, AfterRmdir
  <2>6. CASE EndClean(p)
    BY <2>6 DEF EndClean
  <2>7. ASSUME NEW d \in Dirs, CheckDir(p, d) PROVE Contents'
    BY <2>7 DEF CheckDir, Stale
  <2>8. ASSUME NEW d \in Dirs, SkipDir(p, d) PROVE Contents'
    BY <2>8 DEF SkipDir
  <2>. QED BY <1>1, <2>1, <2>2, <2>3, <2>4, <2>5, <2>6, <2>7, <2>8 DEF Cleanup
<1>2. ASSUME NEW p \in Procs, Download(p) PROVE Contents'
  <2>1. CASE AcquireFails(p)
    BY <2>1, SMTT(30) DEF AcquireFails
  <2>2. CASE MakeTempDirectory(p)
    BY <2>2, SMTT(30) DEF MakeTempDirectory
  <2>3. CASE OpenMarker(p)
    BY <2>3 DEF OpenMarker
  <2>4. CASE WriteMarker(p)
    BY <2>4 DEF WriteMarker
  <2>5. CASE MarkerFails(p)
    BY <2>5 DEF MarkerFails
  <2>6. CASE CreateFile(p)
    BY <2>6 DEF CreateFile
  <2>7. CASE CreateFileFails(p)
    BY <2>7 DEF CreateFileFails
  <2>8. CASE Fetch(p)
    BY <2>8 DEF Fetch
  <2>9. CASE SyncClose(p)
    BY <2>9 DEF SyncClose
  <2>10. CASE Rename(p)
    BY <2>10 DEF Rename
  <2>11. CASE SyncOrRenameFails(p)
    BY <2>11 DEF SyncOrRenameFails
  <2>12. CASE MakeHandle(p)
    BY <2>12 DEF MakeHandle
  <2>13. CASE HandleFails(p)
    BY <2>13, SMTT(30) DEF HandleFails
  <2>. QED BY <1>2, <2>1, <2>2, <2>3, <2>4, <2>5, <2>6, <2>7, <2>8, <2>9, <2>10, <2>11, <2>12, <2>13 DEF Download
<1>3. ASSUME NEW p \in Procs, Remove(p) PROVE Contents'
  <2>1. CASE Release(p)
    BY <2>1 DEF Release
  <2>2. CASE Drop(p)
    BY <2>2 DEF Drop
  <2>3. CASE DropJar(p)
    BY <2>3 DEF DropJar
  <2>4. CASE Unmark(p)
    BY <2>4 DEF Unmark
  <2>5. CASE Rmdir(p)
    BY <2>5 DEF Rmdir, AfterRmdir
  <2>. QED BY <1>3, <2>1, <2>2, <2>3, <2>4, <2>5 DEF Remove
<1>4. ASSUME NEW p \in Procs, Start(p) PROVE Contents'
    BY <1>4 DEF Start
<1>5. ASSUME NEW p \in Procs, Exit(p) PROVE Contents'
    BY <1>5 DEF Exit
<1>6. ASSUME NEW p \in Procs, Crash(p) PROVE Contents'
    BY <1>6 DEF Crash
<1>7. CASE PowerLoss
    BY <1>7 DEF PowerLoss, AfterPowerLoss
<1>8. CASE SetClock
    BY <1>8 DEF SetClock
<1>9. CASE AddForeign
    BY <1>9, SMTT(30) DEF AddForeign
<1>10. CASE UNCHANGED vars
    BY <1>10 DEF vars
<1>. QED BY <1>1, <1>2, <1>3, <1>4, <1>5, <1>6, <1>7, <1>8, <1>9, <1>10 DEF Next
-----------------------------------------------------------------------------
\* The inductive invariant holds in every state the loader processes reach.
THEOREM Invariance == Spec => []IInv
<1>1. IInv /\ [Next]_vars => IInv'
    BY TypeStep, SeparateStep, ContentsStep DEF IInv
<1>. QED BY InitIInv, <1>1, PTL DEF Spec

\* For any number of processes: while a handle is held, its jar is in place,
\* intact and marked as its holder's (rymga_loader_acquire to artifact_release).
THEOREM HandleSafe == Spec => []HandleOwnsFile
<1>1. IInv => HandleOwnsFile
    BY DEF IInv, Separate, Contents, Stage, HandleOwnsFile
<1>. QED BY Invariance, <1>1, PTL

\* Nothing but the manifest's bytes is ever found under an artifact's final name,
\* crashes and power loss included.
THEOREM PublishedSafe == Spec => []PublishedIsVerified
<1>1. IInv => PublishedIsVerified
    BY DEF IInv, Contents, PublishedIsVerified
<1>. QED BY Invariance, <1>1, PTL

\* Artifact bytes always lie under a whole owner marker, so that a later
\* cleanup_stale finds them; the strdup failure is the only exception.
THEOREM RecordedSafe == Spec => []ArtifactStaysRecorded
<1>1. IInv => ArtifactStaysRecorded
    BY DEF IInv, Contents, Bare, Recorded, ArtifactStaysRecorded
<1>. QED BY Invariance, <1>1, PTL

\* A step of one process leaves the directory in use by another as it is.
LEMMA PrivateStep == IInv /\ [Next]_vars => [UntouchedByOthers]_vars
<1> SUFFICES ASSUME IInv, [Next]_vars PROVE [UntouchedByOthers]_vars
    OBVIOUS
<1> USE DEF IInv, TypeOK, Separate, Control, UntouchedByOthers
<1>1. ASSUME NEW p \in Procs, Cleanup(p) PROVE [UntouchedByOthers]_vars
  <2>1. CASE BeginAcquire(p)
    BY <2>1 DEF BeginAcquire
  <2>2. CASE CleanJar(p)
    BY <2>2 DEF CleanJar
  <2>3. CASE CleanPart(p)
    BY <2>3 DEF CleanPart
  <2>4. CASE CleanMarker(p)
    BY <2>4 DEF CleanMarker
  <2>5. CASE CleanRoot(p)
    BY <2>5 DEF CleanRoot, AfterRmdir
  <2>6. CASE EndClean(p)
    BY <2>6 DEF EndClean
  <2>7. ASSUME NEW d \in Dirs, CheckDir(p, d) PROVE [UntouchedByOthers]_vars
    BY <2>7 DEF CheckDir
  <2>8. ASSUME NEW d \in Dirs, SkipDir(p, d) PROVE [UntouchedByOthers]_vars
    BY <2>8 DEF SkipDir
  <2>. QED BY <1>1, <2>1, <2>2, <2>3, <2>4, <2>5, <2>6, <2>7, <2>8 DEF Cleanup
<1>2. ASSUME NEW p \in Procs, Download(p) PROVE [UntouchedByOthers]_vars
  <2>1. CASE AcquireFails(p)
    BY <2>1 DEF AcquireFails
  <2>2. CASE MakeTempDirectory(p)
    BY <2>2 DEF MakeTempDirectory
  <2>3. CASE OpenMarker(p)
    BY <2>3 DEF OpenMarker
  <2>4. CASE WriteMarker(p)
    BY <2>4 DEF WriteMarker
  <2>5. CASE MarkerFails(p)
    BY <2>5 DEF MarkerFails
  <2>6. CASE CreateFile(p)
    BY <2>6 DEF CreateFile
  <2>7. CASE CreateFileFails(p)
    BY <2>7 DEF CreateFileFails
  <2>8. CASE Fetch(p)
    BY <2>8 DEF Fetch
  <2>9. CASE SyncClose(p)
    BY <2>9 DEF SyncClose
  <2>10. CASE Rename(p)
    BY <2>10 DEF Rename
  <2>11. CASE SyncOrRenameFails(p)
    BY <2>11 DEF SyncOrRenameFails
  <2>12. CASE MakeHandle(p)
    BY <2>12 DEF MakeHandle
  <2>13. CASE HandleFails(p)
    BY <2>13 DEF HandleFails
  <2>. QED BY <1>2, <2>1, <2>2, <2>3, <2>4, <2>5, <2>6, <2>7, <2>8, <2>9, <2>10, <2>11, <2>12, <2>13 DEF Download
<1>3. ASSUME NEW p \in Procs, Remove(p) PROVE [UntouchedByOthers]_vars
  <2>1. CASE Release(p)
    BY <2>1 DEF Release
  <2>2. CASE Drop(p)
    BY <2>2 DEF Drop
  <2>3. CASE DropJar(p)
    BY <2>3 DEF DropJar
  <2>4. CASE Unmark(p)
    BY <2>4 DEF Unmark
  <2>5. CASE Rmdir(p)
    BY <2>5 DEF Rmdir, AfterRmdir
  <2>. QED BY <1>3, <2>1, <2>2, <2>3, <2>4, <2>5 DEF Remove
<1>4. ASSUME NEW p \in Procs, Start(p) PROVE [UntouchedByOthers]_vars
    BY <1>4 DEF Start
<1>5. ASSUME NEW p \in Procs, Exit(p) PROVE [UntouchedByOthers]_vars
    BY <1>5 DEF Exit
<1>6. ASSUME NEW p \in Procs, Crash(p) PROVE [UntouchedByOthers]_vars
    BY <1>6 DEF Crash
<1>7. CASE PowerLoss
    BY <1>7 DEF PowerLoss
<1>8. CASE SetClock
    BY <1>8 DEF SetClock
<1>9. CASE AddForeign
    BY <1>9 DEF AddForeign
<1>10. CASE UNCHANGED vars
    BY <1>10 DEF vars
<1>. QED BY <1>1, <1>2, <1>3, <1>4, <1>5, <1>6, <1>7, <1>8, <1>9, <1>10 DEF Next

\* Between mkdtemp and rmdir a directory is changed by its own process only.
THEOREM DirectoryPrivate == Spec => LiveDirectoryPrivate
BY Invariance, PrivateStep, PTL DEF Spec, LiveDirectoryPrivate

\* Each return without an artifact, and each release, removes its directory.
LEMMA LeakStep == (IInv /\ NoLeakWithoutCrash) /\ [Next]_vars => NoLeakWithoutCrash'
<1> SUFFICES ASSUME (IInv /\ NoLeakWithoutCrash), [Next]_vars PROVE NoLeakWithoutCrash'
    OBVIOUS
<1> USE DEF IInv, TypeOK, Separate, Contents, Stage, None, Control, NoLeakWithoutCrash
<1>1. ASSUME NEW p \in Procs, Cleanup(p) PROVE NoLeakWithoutCrash'
  <2>1. CASE BeginAcquire(p)
    BY <2>1 DEF BeginAcquire
  <2>2. CASE CleanJar(p)
    BY <2>2 DEF CleanJar
  <2>3. CASE CleanPart(p)
    BY <2>3 DEF CleanPart
  <2>4. CASE CleanMarker(p)
    BY <2>4 DEF CleanMarker
  <2>5. CASE CleanRoot(p)
    BY <2>5 DEF CleanRoot, AfterRmdir
  <2>6. CASE EndClean(p)
    BY <2>6 DEF EndClean
  <2>7. ASSUME NEW d \in Dirs, CheckDir(p, d) PROVE NoLeakWithoutCrash'
    BY <2>7 DEF CheckDir
  <2>8. ASSUME NEW d \in Dirs, SkipDir(p, d) PROVE NoLeakWithoutCrash'
    BY <2>8 DEF SkipDir
  <2>. QED BY <1>1, <2>1, <2>2, <2>3, <2>4, <2>5, <2>6, <2>7, <2>8 DEF Cleanup
<1>2. ASSUME NEW p \in Procs, Download(p) PROVE NoLeakWithoutCrash'
  <2>1. CASE AcquireFails(p)
    BY <2>1 DEF AcquireFails
  <2>2. CASE MakeTempDirectory(p)
    BY <2>2 DEF MakeTempDirectory
  <2>3. CASE OpenMarker(p)
    BY <2>3 DEF OpenMarker
  <2>4. CASE WriteMarker(p)
    BY <2>4 DEF WriteMarker
  <2>5. CASE MarkerFails(p)
    BY <2>5 DEF MarkerFails
  <2>6. CASE CreateFile(p)
    BY <2>6 DEF CreateFile
  <2>7. CASE CreateFileFails(p)
    BY <2>7 DEF CreateFileFails
  <2>8. CASE Fetch(p)
    BY <2>8 DEF Fetch
  <2>9. CASE SyncClose(p)
    BY <2>9 DEF SyncClose
  <2>10. CASE Rename(p)
    BY <2>10 DEF Rename
  <2>11. CASE SyncOrRenameFails(p)
    BY <2>11 DEF SyncOrRenameFails
  <2>12. CASE MakeHandle(p)
    BY <2>12 DEF MakeHandle
  <2>13. CASE HandleFails(p)
    BY <2>13 DEF HandleFails
  <2>. QED BY <1>2, <2>1, <2>2, <2>3, <2>4, <2>5, <2>6, <2>7, <2>8, <2>9, <2>10, <2>11, <2>12, <2>13 DEF Download
<1>3. ASSUME NEW p \in Procs, Remove(p) PROVE NoLeakWithoutCrash'
  <2>1. CASE Release(p)
    BY <2>1 DEF Release
  <2>2. CASE Drop(p)
    BY <2>2 DEF Drop
  <2>3. CASE DropJar(p)
    BY <2>3 DEF DropJar
  <2>4. CASE Unmark(p)
    BY <2>4 DEF Unmark
  <2>5. CASE Rmdir(p)
    BY <2>5 DEF Rmdir, AfterRmdir, Empty
  <2>. QED BY <1>3, <2>1, <2>2, <2>3, <2>4, <2>5 DEF Remove
<1>4. ASSUME NEW p \in Procs, Start(p) PROVE NoLeakWithoutCrash'
    BY <1>4 DEF Start
<1>5. ASSUME NEW p \in Procs, Exit(p) PROVE NoLeakWithoutCrash'
    BY <1>5, SMTT(30) DEF Exit
<1>6. ASSUME NEW p \in Procs, Crash(p) PROVE NoLeakWithoutCrash'
    BY <1>6 DEF Crash
<1>7. CASE PowerLoss
    BY <1>7 DEF PowerLoss
<1>8. CASE SetClock
    BY <1>8 DEF SetClock
<1>9. CASE AddForeign
    BY <1>9 DEF AddForeign
<1>10. CASE UNCHANGED vars
    BY <1>10 DEF vars
<1>. QED BY <1>1, <1>2, <1>3, <1>4, <1>5, <1>6, <1>7, <1>8, <1>9, <1>10 DEF Next

\* Without a crash, directories exist only while a process uses them (or while
\* a user's own file keeps rmdir from removing them).
THEOREM NoLeak == Spec => []NoLeakWithoutCrash
<1>1. Init => NoLeakWithoutCrash
    BY DEF Init, NoLeakWithoutCrash
<1>. QED BY <1>1, Invariance, LeakStep, PTL DEF Spec
-----------------------------------------------------------------------------
\* A directory that has been stale since a scan began is still stale or already
\* bare, and the scan has it before it, is at work in it, or may forget it.
Owed ==
    \A p \in Procs : \A d \in owed[p] :
        /\ d \in used /\ \A q \in Procs : mine[q] # d
        /\ Stale(d) \/ Bare(d)
        /\ d \in todo[p] \/ d = target[p] \/ Bare(d)

\* Concurrent cleanups, crashes and new processes keep what a scan owes.
LEMMA OwedStep == (IInv /\ Owed) /\ [Next]_vars => Owed'
<1> SUFFICES ASSUME (IInv /\ Owed), [Next]_vars PROVE Owed'
    OBVIOUS
<1> USE DEF IInv, TypeOK, Separate, Contents, CleanStage, None, Bare, Control, Stale, Aged, Owed
<1>1. ASSUME NEW p \in Procs, Cleanup(p) PROVE Owed'
  <2>1. CASE BeginAcquire(p)
    BY <2>1, SMTT(30) DEF BeginAcquire, Scans
  <2>2. CASE CleanJar(p)
    BY <2>2 DEF CleanJar
  <2>3. CASE CleanPart(p)
    BY <2>3, SMTT(30) DEF CleanPart
  <2>4. CASE CleanMarker(p)
    BY <2>4 DEF CleanMarker
  <2>5. CASE CleanRoot(p)
    BY <2>5 DEF CleanRoot, AfterRmdir, Empty
  <2>6. CASE EndClean(p)
    BY <2>6, SMTT(30) DEF EndClean
  <2>7. ASSUME NEW d \in Dirs, CheckDir(p, d) PROVE Owed'
    BY <2>7, SMTT(30) DEF CheckDir
  <2>8. ASSUME NEW d \in Dirs, SkipDir(p, d) PROVE Owed'
    BY <2>8 DEF SkipDir
  <2>. QED BY <1>1, <2>1, <2>2, <2>3, <2>4, <2>5, <2>6, <2>7, <2>8 DEF Cleanup
<1>2. ASSUME NEW p \in Procs, Download(p) PROVE Owed'
  <2>1. CASE AcquireFails(p)
    BY <2>1 DEF AcquireFails
  <2>2. CASE MakeTempDirectory(p)
    BY <2>2 DEF MakeTempDirectory
  <2>3. CASE OpenMarker(p)
    BY <2>3, SMTT(30) DEF OpenMarker
  <2>4. CASE WriteMarker(p)
    BY <2>4 DEF WriteMarker
  <2>5. CASE MarkerFails(p)
    BY <2>5 DEF MarkerFails
  <2>6. CASE CreateFile(p)
    BY <2>6 DEF CreateFile
  <2>7. CASE CreateFileFails(p)
    BY <2>7 DEF CreateFileFails
  <2>8. CASE Fetch(p)
    BY <2>8 DEF Fetch
  <2>9. CASE SyncClose(p)
    BY <2>9, SMTT(30) DEF SyncClose
  <2>10. CASE Rename(p)
    BY <2>10, SMTT(30) DEF Rename
  <2>11. CASE SyncOrRenameFails(p)
    BY <2>11 DEF SyncOrRenameFails
  <2>12. CASE MakeHandle(p)
    BY <2>12 DEF MakeHandle
  <2>13. CASE HandleFails(p)
    BY <2>13, SMTT(30) DEF HandleFails
  <2>. QED BY <1>2, <2>1, <2>2, <2>3, <2>4, <2>5, <2>6, <2>7, <2>8, <2>9, <2>10, <2>11, <2>12, <2>13 DEF Download
<1>3. ASSUME NEW p \in Procs, Remove(p) PROVE Owed'
  <2>1. CASE Release(p)
    BY <2>1 DEF Release
  <2>2. CASE Drop(p)
    BY <2>2, SMTT(30) DEF Drop
  <2>3. CASE DropJar(p)
    BY <2>3 DEF DropJar
  <2>4. CASE Unmark(p)
    BY <2>4, SMTT(30) DEF Unmark
  <2>5. CASE Rmdir(p)
    BY <2>5, SMTT(30) DEF Rmdir, AfterRmdir, Empty
  <2>. QED BY <1>3, <2>1, <2>2, <2>3, <2>4, <2>5 DEF Remove
<1>4. ASSUME NEW p \in Procs, Start(p) PROVE Owed'
    BY <1>4, SMTT(30) DEF Start
<1>5. ASSUME NEW p \in Procs, Exit(p) PROVE Owed'
    BY <1>5, SMTT(30) DEF Exit
<1>6. ASSUME NEW p \in Procs, Crash(p) PROVE Owed'
    BY <1>6 DEF Crash
<1>7. CASE PowerLoss
    BY <1>7 DEF PowerLoss, AfterPowerLoss
<1>8. CASE SetClock
    BY <1>8, SMTT(30) DEF SetClock
<1>9. CASE AddForeign
    BY <1>9, SMTT(30) DEF AddForeign
<1>10. CASE UNCHANGED vars
    BY <1>10 DEF vars
<1>. QED BY <1>1, <1>2, <1>3, <1>4, <1>5, <1>6, <1>7, <1>8, <1>9, <1>10 DEF Next

\* When cleanup_stale ends, no directory it listed that was stale throughout
\* holds artifact bytes, for any number of concurrent cleanups and crashes.
THEOREM CleanupComplete == Spec => []CleanupErases
<1>1. Init => Owed
    BY DEF Init, Owed
<1>2. IInv /\ Owed => CleanupErases
    BY DEF IInv, TypeOK, Separate, Owed, Bare, CleanupErases
<1>. QED BY <1>1, <1>2, Invariance, OwedStep, PTL DEF Spec
-----------------------------------------------------------------------------
\* In reachable states a slot of the shelf is empty or intact.
LEMMA ShelfValue ==
    ASSUME IInv, NEW d \in Dirs
    PROVE  /\ jar[d] = "none" => Shelf[d] = "empty"
           /\ jar[d] = "durable" => Shelf[d] = "intact"
           /\ jar[d] \in {"none", "durable"}
BY DEF IInv, Contents, Shelf

\* A leased slot is the directory of the process that holds its handle.
LEMMA LeaseValue ==
    ASSUME IInv, NEW d \in Dirs, NEW p \in Procs, mine[p] = d \/ target[p] = d,
           pc[p] # "held"
    PROVE  ~Store!Leased(d)
BY DEF IInv, TypeOK, Separate, Lease, Store!Leased

\* A step that keeps the jars and the holders is a stutter of the store.
LEMMA StoreStutter ==
    ASSUME IInv, NEW p \in Procs, jar' = jar,
           \A q \in Procs \ {p} : pc'[q] = pc[q] /\ mine'[q] = mine[q],
           pc[p] # "held", pc'[p] # "held"
    PROVE  UNCHANGED <<Shelf, Lease>>
BY DEF Shelf, Lease

\* Every step of the runtime directory is a step of the store or a stutter.
LEMMA StoreStep == IInv /\ IInv' /\ [Next]_vars => [Store!Next]_<<Shelf, Lease>>
<1> SUFFICES ASSUME IInv, IInv', [Next]_vars PROVE [Store!Next]_<<Shelf, Lease>>
    OBVIOUS
<1> USE DEF IInv, TypeOK, Control
<1>1. ASSUME NEW p \in Procs, NEW d \in Dirs, mine[p] = d \/ target[p] = d,
             pc[p] # "held", Lease' = Lease, jar' = [jar EXCEPT ![d] = "none"]
      PROVE  Store!Erase(d) \/ UNCHANGED <<Shelf, Lease>>
  <2>1. ~Store!Leased(d)
    BY <1>1, LeaseValue
  <2>2. CASE jar[d] = "none"
    BY <1>1, <2>2 DEF Shelf
  <2>3. CASE jar[d] = "durable"
    <3>1. Shelf' = [Shelf EXCEPT ![d] = "empty"]
      BY <1>1, <2>3 DEF Shelf
    <3>2. Shelf[d] = "intact"
      BY <2>3, ShelfValue
    <3>. QED BY <1>1, <2>1, <3>1, <3>2 DEF Store!Erase
  <2>. QED BY <2>2, <2>3, ShelfValue
<1>2. ASSUME NEW p \in Procs, Cleanup(p) PROVE [Store!Next]_<<Shelf, Lease>>
  <2>1. CASE BeginAcquire(p)
    BY <2>1, StoreStutter DEF BeginAcquire
  <2>2. CASE CleanPart(p)
    BY <2>2, StoreStutter DEF CleanPart
  <2>3. CASE CleanMarker(p)
    BY <2>3, StoreStutter DEF CleanMarker
  <2>4. CASE CleanRoot(p)
    BY <2>4, StoreStutter DEF CleanRoot
  <2>5. CASE EndClean(p)
    BY <2>5, StoreStutter DEF EndClean
  <2>6. CASE CleanJar(p)
    <3>a. target[p] \in Dirs
      BY <2>6 DEF CleanJar, Separate
    <3>b. Lease' = Lease
      BY <2>6 DEF CleanJar, Lease
    <3>1. target[p] \in Dirs /\ Lease' = Lease
      BY <3>a, <3>b
    <3>. QED BY <1>1, <2>6, <3>1 DEF CleanJar, Store!Next
  <2>7. ASSUME NEW d \in Dirs, CheckDir(p, d) PROVE UNCHANGED <<Shelf, Lease>>
    BY <2>7, StoreStutter DEF CheckDir
  <2>8. ASSUME NEW d \in Dirs, SkipDir(p, d) PROVE UNCHANGED <<Shelf, Lease>>
    BY <2>8, StoreStutter DEF SkipDir
  <2>. QED BY <1>2, <2>1, <2>2, <2>3, <2>4, <2>5, <2>6, <2>7, <2>8 DEF Cleanup
<1>3. ASSUME NEW p \in Procs, Download(p) PROVE [Store!Next]_<<Shelf, Lease>>
  <2>1. CASE AcquireFails(p)
    BY <2>1, StoreStutter DEF AcquireFails
  <2>2. CASE MakeTempDirectory(p)
    BY <2>2, StoreStutter DEF MakeTempDirectory
  <2>3. CASE OpenMarker(p)
    BY <2>3, StoreStutter, SMTT(30) DEF OpenMarker
  <2>4. CASE WriteMarker(p)
    BY <2>4, StoreStutter DEF WriteMarker
  <2>5. CASE MarkerFails(p)
    BY <2>5, StoreStutter DEF MarkerFails
  <2>6. CASE CreateFile(p)
    BY <2>6, StoreStutter DEF CreateFile
  <2>7. CASE CreateFileFails(p)
    BY <2>7, StoreStutter DEF CreateFileFails
  <2>8. CASE Fetch(p)
    BY <2>8, StoreStutter, SMTT(30) DEF Fetch
  <2>9. CASE SyncClose(p)
    BY <2>9, StoreStutter DEF SyncClose
  <2>10. CASE SyncOrRenameFails(p)
    BY <2>10, StoreStutter DEF SyncOrRenameFails
  <2>11. CASE Rename(p)
    <3> DEFINE d == mine[p]
    <3>a. d \in Dirs /\ d # NoDir
      BY <2>11 DEF Rename, Separate
    <3>b. jar[d] = "none" /\ part[d] = "durable"
      BY <2>11, <3>a DEF Rename, Contents, Stage
    <3>c. Lease' = Lease
      BY <2>11 DEF Rename, Lease
    <3>1. d \in Dirs /\ jar[d] = "none" /\ part[d] = "durable" /\ Lease' = Lease
      BY <3>a, <3>b, <3>c
    <3>2. ~Store!Leased(d)
      BY <2>11, <3>1, LeaseValue DEF Rename
    <3>3. Shelf' = [Shelf EXCEPT ![d] = "intact"]
      BY <2>11, <3>1 DEF Rename, Shelf
    <3>4. Store!Publish(d)
      BY <3>1, <3>2, <3>3, ShelfValue DEF Store!Publish
    <3>. QED BY <3>1, <3>4 DEF Store!Next
  <2>12. CASE MakeHandle(p)
    <3> DEFINE d == mine[p]
    <3>a. d \in Dirs /\ d # NoDir
      BY <2>12 DEF MakeHandle, Separate
    <3>b. jar[d] = "durable"
      BY <2>12, <3>a DEF MakeHandle, Contents, Stage
    <3>c. Lease[p] = NoDir
      BY <2>12 DEF MakeHandle, Lease
    <3>d. Shelf' = Shelf
      BY <2>12 DEF MakeHandle, Shelf
    <3>1. d \in Dirs /\ jar[d] = "durable" /\ Lease[p] = NoDir /\ Shelf' = Shelf
      BY <3>a, <3>b, <3>c, <3>d
    <3>2. ~Store!Leased(d)
      BY <2>12, <3>1, LeaseValue DEF MakeHandle
    <3>3. Lease' = [Lease EXCEPT ![p] = d]
      BY <2>12 DEF MakeHandle, Lease
    <3>4. Store!Take(p, d)
      BY <3>1, <3>2, <3>3, ShelfValue DEF Store!Take
    <3>. QED BY <3>1, <3>4 DEF Store!Next
  <2>13. CASE HandleFails(p)
    <3>a. mine[p] \in Dirs
      BY <2>13 DEF HandleFails, Separate
    <3>b. Lease' = Lease
      BY <2>13 DEF HandleFails, Lease
    <3>1. mine[p] \in Dirs /\ Lease' = Lease
      BY <3>a, <3>b
    <3>2. CASE jar' = jar
      BY <3>1, <3>2 DEF Shelf
    <3>3. CASE jar' = [jar EXCEPT ![mine[p]] = "none"]
      BY <1>1, <2>13, <3>1, <3>3 DEF HandleFails, Store!Next
    <3>. QED BY <2>13, <3>2, <3>3 DEF HandleFails
  <2>. QED BY <1>3, <2>1, <2>2, <2>3, <2>4, <2>5, <2>6, <2>7, <2>8, <2>9, <2>10, <2>11, <2>12, <2>13 DEF Download
<1>4. ASSUME NEW p \in Procs, Remove(p) PROVE [Store!Next]_<<Shelf, Lease>>
  <2>1. CASE Release(p)
    <3> DEFINE d == mine[p]
    <3>1. d \in Dirs /\ Lease[p] = d
      BY <2>1 DEF Release, Separate, Lease
    <3>2. Shelf' = [Shelf EXCEPT ![Lease[p]] = "empty"]
      BY <2>1, <3>1 DEF Release, Shelf
    <3>3. Lease' = [Lease EXCEPT ![p] = NoDir]
      BY <2>1 DEF Release, Lease
    <3>4. Store!GiveBack(p)
      BY <3>1, <3>2, <3>3 DEF Store!GiveBack
    <3>. QED BY <3>4 DEF Store!Next
  <2>2. CASE DropJar(p)
    <3>a. mine[p] \in Dirs
      BY <2>2 DEF DropJar, Separate
    <3>b. Lease' = Lease
      BY <2>2 DEF DropJar, Lease
    <3>1. mine[p] \in Dirs /\ Lease' = Lease
      BY <3>a, <3>b
    <3>. QED BY <1>1, <2>2, <3>1 DEF DropJar, Store!Next
  <2>3. CASE Drop(p)
    BY <2>3, StoreStutter DEF Drop
  <2>4. CASE Unmark(p)
    BY <2>4, StoreStutter DEF Unmark
  <2>5. CASE Rmdir(p)
    BY <2>5, StoreStutter DEF Rmdir
  <2>. QED BY <1>4, <2>1, <2>2, <2>3, <2>4, <2>5 DEF Remove
<1>5. ASSUME NEW p \in Procs, Start(p) \/ Exit(p) PROVE UNCHANGED <<Shelf, Lease>>
    BY <1>5, StoreStutter DEF Start, Exit
<1>6. ASSUME NEW p \in Procs, Crash(p) PROVE Store!Abandon
  <2>1. Lease' = [q \in Procs |-> IF q \in {p} THEN NoDir ELSE Lease[q]] /\ Shelf' = Shelf
    BY <1>6 DEF Crash, Lease, Shelf
  <2>2. {p} \in SUBSET Procs
    OBVIOUS
  <2>. QED BY ONLY <2>1, <2>2, Zenon DEF Store!Abandon
<1>7. CASE PowerLoss
  <2>1. jar' = jar
    BY <1>7 DEF PowerLoss, AfterPowerLoss, Contents
  <2>2. Lease' = [q \in Procs |-> IF q \in Procs THEN NoDir ELSE Lease[q]] /\ Shelf' = Shelf
    BY <1>7, <2>1 DEF PowerLoss, Lease, Shelf
  <2>3. Store!Abandon
    BY <2>2 DEF Store!Abandon
  <2>. QED BY <2>3 DEF Store!Next
<1>8. CASE SetClock \/ AddForeign \/ UNCHANGED vars
    BY <1>8 DEF SetClock, AddForeign, vars, Shelf, Lease
<1>. QED BY <1>2, <1>3, <1>4, <1>5, <1>6, <1>7, <1>8 DEF Next, Store!Next

\* Acquire and release over the file system implement the abstract store, for
\* every number of processes, crashes and cleanups.
THEOREM Refinement == Spec => ImplementsStore
<1>1. Init => Store!Init
    BY DEF Init, Store!Init, Shelf, Lease
<1>. QED BY <1>1, Invariance, StoreStep, PTL DEF Spec, Store!Spec, ImplementsStore

=============================================================================
