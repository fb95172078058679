-------------------------- MODULE RuntimeDirectory --------------------------
(***************************************************************************)
(* The private runtime directory that every loader process of one user     *)
(* shares: one temporary directory per acquired artifact, its owner        *)
(* marker, the partial download, the published jar, the release of the     *)
(* artifact handle, and the removal of what dead processes left behind.    *)
(* rymga_loader.c (acquire, download_artifact, artifact_release) over      *)
(* rymga_platform_posix.c.  One action per system call that changes the    *)
(* directory, so a crash may fall between any two of them.                 *)
(*                                                                         *)
(* A process is its pid.  A pid that is dead may be given to a new loader  *)
(* process (Start).  mkdtemp names are random and never drawn twice.       *)
(***************************************************************************)
EXTENDS Naturals, FiniteSets

CONSTANTS Procs,      \* pids of loader processes
          Dirs,       \* names rymga-loader-XXXXXX
          NoDir,
          NoProc,
          Times,      \* values of time(NULL)
          MaxAge,     \* 86400 in rymga_loader_acquire
          ScanLimit   \* 256 in rymga_platform_cleanup_stale

ASSUME RuntimeAssumption ==
    /\ NoDir \notin Dirs
    /\ NoProc \notin Procs
    /\ Times \subseteq Nat
    /\ MaxAge \in Nat \ {0}
    /\ ScanLimit \in Nat

VARIABLES
    pc,        \* where each process is; "dead" when the pid is free
    mine,      \* the directory the process is filling, holding or removing
    target,    \* the stale directory its cleanup is removing
    todo,      \* the directory entries its cleanup has still to check
    used,      \* names mkdtemp has returned so far
    present,   \* directories that exist
    marker,    \* .rymga-owner of each directory: "none", "torn" or "whole"
    owner,     \* the pid written in the marker
    created,   \* the time written in the marker
    part,      \* .artifact.part
    jar,       \* the artifact under its final name
    foreign,   \* directories that also hold a file the loader did not make
    now,       \* time(NULL)
    crashed,   \* history: some process died outside a normal exit
    leaky,     \* history: directories whose handle lost its path to strdup
    owed       \* history: entries that stayed stale since the scan began

procVars == <<pc, mine, target, todo>>
dirVars  == <<used, present, marker, owner, created, part, jar>>
envVars  == <<foreign, now, crashed, leaky, owed>>
vars     == <<procVars, dirVars, envVars>>

\* A file is absent, holds other bytes than the manifest's, holds exactly the
\* manifest's bytes but only in the page cache, or holds them on the disk.
Content == {"none", "other", "matching", "durable"}

Cleaning == {"rmjar", "rmpart", "rmmarker", "rmroot"}
Filling  == {"mark", "marking", "file", "fetch", "sync", "rename", "handle"}
Removing == {"drop", "dropjar", "unmark", "rmdir"}
Working  == Filling \cup {"held"} \cup Removing
Control  == {"dead", "idle", "clean", "session"} \cup Cleaning \cup Working

TypeOK ==
    /\ pc \in [Procs -> Control]
    /\ mine \in [Procs -> Dirs \cup {NoDir}]
    /\ target \in [Procs -> Dirs \cup {NoDir}]
    /\ todo \in [Procs -> SUBSET Dirs]
    /\ used \subseteq Dirs /\ present \subseteq used /\ foreign \subseteq Dirs
    /\ marker \in [Dirs -> {"none", "torn", "whole"}]
    /\ owner \in [Dirs -> Procs \cup {NoProc}]
    /\ created \in [Dirs -> Times]
    /\ part \in [Dirs -> Content] /\ jar \in [Dirs -> Content]
    /\ now \in Times /\ crashed \in BOOLEAN
    /\ leaky \subseteq Dirs /\ owed \in [Procs -> SUBSET Dirs]

Init ==
    /\ pc = [p \in Procs |-> "dead"]
    /\ mine = [p \in Procs |-> NoDir] /\ target = [p \in Procs |-> NoDir]
    /\ todo = [p \in Procs |-> {}] /\ owed = [p \in Procs |-> {}]
    /\ used = {} /\ present = {} /\ foreign = {} /\ leaky = {}
    /\ marker = [d \in Dirs |-> "none"] /\ owner = [d \in Dirs |-> NoProc]
    /\ now \in Times /\ created = [d \in Dirs |-> now]
    /\ part = [d \in Dirs |-> "none"] /\ jar = [d \in Dirs |-> "none"]
    /\ crashed = FALSE

Goto(p, label) == pc' = [pc EXCEPT ![p] = label]
-----------------------------------------------------------------------------
(* rymga_platform_cleanup_stale *)

\* The age test: a marker from the future is never old.
Aged(d, t) == created[d] <= t /\ t - created[d] >= MaxAge

\* Mutant: the owner's pid is not probed.
StaleUnprobed(d) ==
    /\ d \in present /\ marker[d] = "whole" /\ Aged(d, now)
    /\ owner[d] \in Procs /\ d \notin foreign

\* stale_owned_directory: whole marker, old enough, kill(pid, 0) says ESRCH,
\* and nothing in the directory that the loader did not make.
Stale(d) ==
    /\ d \in present /\ marker[d] = "whole" /\ Aged(d, now)
    /\ owner[d] \in Procs /\ pc[owner[d]] = "dead"
    /\ d \notin foreign

\* The entries a scan returns, in no particular order: all, or ScanLimit.
Scans ==
    IF Cardinality(present) <= ScanLimit THEN {present}
    ELSE {S \in SUBSET present : Cardinality(S) = ScanLimit}

BeginAcquire(p) ==
    /\ pc[p] = "idle" /\ Goto(p, "clean")
    /\ \E S \in Scans :
         /\ todo' = [todo EXCEPT ![p] = S]
         /\ owed' = [owed EXCEPT ![p] = {d \in S : Stale(d)}]
    /\ UNCHANGED <<mine, target, dirVars, foreign, now, crashed, leaky>>

\* Mutant: the marker is removed first, as soon as the entry is claimed.
CheckDirMarkerFirst(p, d) ==
    /\ pc[p] = "clean" /\ d \in todo[p]
    /\ todo' = [todo EXCEPT ![p] = @ \ {d}]
    /\ IF Stale(d)
         THEN /\ Goto(p, "rmjar") /\ target' = [target EXCEPT ![p] = d]
              /\ marker' = [marker EXCEPT ![d] = "none"]
         ELSE UNCHANGED <<pc, target, marker>>
    /\ UNCHANGED <<mine, used, present, owner, created, part, jar, envVars>>

CheckDir(p, d) ==
    /\ pc[p] = "clean" /\ d \in todo[p]
    /\ todo' = [todo EXCEPT ![p] = @ \ {d}]
    /\ IF Stale(d)
         THEN Goto(p, "rmjar") /\ target' = [target EXCEPT ![p] = d]
         ELSE UNCHANGED <<pc, target>>
    /\ UNCHANGED <<mine, dirVars, envVars>>

\* An open, a dup or fdopendir fails, of the entry or of the root and so of
\* every entry: nothing is removed.
SkipDir(p, d) ==
    /\ pc[p] = "clean" /\ d \in todo[p]
    /\ todo' = [todo EXCEPT ![p] = @ \ {d}]
    /\ owed' = [owed EXCEPT ![p] = @ \ {d}]
    /\ UNCHANGED <<pc, mine, target, dirVars, foreign, now, crashed, leaky>>

CleanJar(p) ==
    /\ pc[p] = "rmjar" /\ Goto(p, "rmpart")
    /\ jar' = [jar EXCEPT ![target[p]] = "none"]
    /\ UNCHANGED <<mine, target, todo, used, present, marker, owner, created, part, envVars>>

CleanPart(p) ==
    /\ pc[p] = "rmpart" /\ Goto(p, "rmmarker")
    /\ part' = [part EXCEPT ![target[p]] = "none"]
    /\ UNCHANGED <<mine, target, todo, used, present, marker, owner, created, jar, envVars>>

CleanMarker(p) ==
    /\ pc[p] = "rmmarker" /\ Goto(p, "rmroot")
    /\ marker' = [marker EXCEPT ![target[p]] = "none"]
    /\ UNCHANGED <<mine, target, todo, used, present, owner, created, part, jar, envVars>>

\* rmdir succeeds only on an empty directory.
Empty(d) == marker[d] = "none" /\ part[d] = "none" /\ jar[d] = "none" /\ d \notin foreign
AfterRmdir(d) == IF Empty(d) THEN present \ {d} ELSE present

CleanRoot(p) ==
    /\ pc[p] = "rmroot" /\ Goto(p, "clean")
    /\ present' = AfterRmdir(target[p])
    /\ target' = [target EXCEPT ![p] = NoDir]
    /\ UNCHANGED <<mine, todo, used, marker, owner, created, part, jar, envVars>>

EndClean(p) ==
    /\ pc[p] = "clean" /\ todo[p] = {} /\ Goto(p, "session")
    /\ owed' = [owed EXCEPT ![p] = {}]
    /\ UNCHANGED <<mine, target, todo, dirVars, foreign, now, crashed, leaky>>
-----------------------------------------------------------------------------
(* The rest of rymga_loader_acquire and download_artifact *)

\* Every return before a directory exists: curl, network, denial, protocol,
\* signature, or mkdtemp itself.
AcquireFails(p) ==
    /\ pc[p] = "session" /\ Goto(p, "idle")
    /\ UNCHANGED <<mine, target, todo, dirVars, envVars>>

MakeTempDirectory(p) ==
    /\ pc[p] = "session" /\ Goto(p, "mark")
    /\ \E d \in Dirs \ used :
         /\ used' = used \cup {d} /\ present' = present \cup {d}
         /\ mine' = [mine EXCEPT ![p] = d]
    /\ UNCHANGED <<target, todo, marker, owner, created, part, jar, envVars>>

\* create_marker opens the file and starts to write ...
OpenMarker(p) ==
    /\ pc[p] = "mark" /\ Goto(p, "marking")
    /\ marker' = [marker EXCEPT ![mine[p]] = "torn"]
    /\ owner' = [owner EXCEPT ![mine[p]] = p]
    /\ created' = [created EXCEPT ![mine[p]] = now]
    /\ UNCHANGED <<mine, target, todo, used, present, part, jar, envVars>>

\* ... and returns true once write and fsync are done.
WriteMarker(p) ==
    /\ pc[p] = "marking" /\ Goto(p, "file")
    /\ marker' = [marker EXCEPT ![mine[p]] = "whole"]
    /\ UNCHANGED <<mine, target, todo, used, present, owner, created, part, jar, envVars>>

\* chmod or the open fails: rmdir.  The write fails: unlink, then rmdir.
MarkerFails(p) ==
    /\ \/ pc[p] = "mark" /\ Goto(p, "rmdir")
       \/ pc[p] = "marking" /\ Goto(p, "unmark")
    /\ UNCHANGED <<mine, target, todo, dirVars, envVars>>

CreateFile(p) ==
    /\ pc[p] = "file" /\ Goto(p, "fetch")
    /\ part' = [part EXCEPT ![mine[p]] = "other"]
    /\ UNCHANGED <<mine, target, todo, used, present, marker, owner, created, jar, envVars>>

\* Mutant: returns the error without removing the directory.
CreateFileFailsAndReturns(p) ==
    /\ pc[p] = "file" /\ Goto(p, "idle")
    /\ mine' = [mine EXCEPT ![p] = NoDir]
    /\ UNCHANGED <<target, todo, dirVars, envVars>>

CreateFileFails(p) ==
    /\ pc[p] = "file" /\ Goto(p, "unmark")
    /\ UNCHANGED <<mine, target, todo, dirVars, envVars>>

\* GET /v1/artifact: size and digest match the manifest, or anything else
\* happened and the result is an error.
Fetch(p) ==
    /\ pc[p] = "fetch"
    /\ \E c \in {"other", "matching"} :
         /\ part' = [part EXCEPT ![mine[p]] = c]
         /\ Goto(p, IF c = "matching" THEN "sync" ELSE "drop")
    /\ UNCHANGED <<mine, target, todo, used, present, marker, owner, created, jar, envVars>>

\* Mutant: closes without fsync.
CloseOnly(p) ==
    /\ pc[p] = "sync" /\ Goto(p, "rename")
    /\ UNCHANGED <<mine, target, todo, dirVars, envVars>>

SyncClose(p) ==
    /\ pc[p] = "sync" /\ Goto(p, "rename")
    /\ part' = [part EXCEPT ![mine[p]] = "durable"]
    /\ UNCHANGED <<mine, target, todo, used, present, marker, owner, created, jar, envVars>>

Rename(p) ==
    /\ pc[p] = "rename" /\ Goto(p, "handle")
    /\ jar' = [jar EXCEPT ![mine[p]] = part[mine[p]]]
    /\ part' = [part EXCEPT ![mine[p]] = "none"]
    /\ UNCHANGED <<mine, target, todo, used, present, marker, owner, created, envVars>>

SyncOrRenameFails(p) ==
    /\ pc[p] \in {"sync", "rename"} /\ Goto(p, "drop")
    /\ UNCHANGED <<mine, target, todo, dirVars, envVars>>

MakeHandle(p) ==
    /\ pc[p] = "handle" /\ Goto(p, "held")
    /\ UNCHANGED <<mine, target, todo, dirVars, envVars>>

\* calloc, or a strdup, returns NULL.  A half-made handle is released before
\* the common cleanup: with only the path it removes the jar, with only the
\* directory it removes the marker (and rmdir fails, the jar is still there).
HandleFails(p) ==
    /\ pc[p] = "handle" /\ Goto(p, "drop")
    /\ \/ UNCHANGED <<marker, jar, leaky>>
       \/ jar' = [jar EXCEPT ![mine[p]] = "none"] /\ UNCHANGED <<marker, leaky>>
       \/ /\ marker' = [marker EXCEPT ![mine[p]] = "none"]
          /\ leaky' = leaky \cup {mine[p]} /\ UNCHANGED jar
    /\ UNCHANGED <<mine, target, todo, used, present, owner, created, part,
                   foreign, now, crashed, owed>>

\* rymga_loader_artifact_release: the jar, then the directory's marker ...
Release(p) ==
    /\ pc[p] = "held" /\ Goto(p, "unmark")
    /\ jar' = [jar EXCEPT ![mine[p]] = "none"]
    /\ UNCHANGED <<mine, target, todo, used, present, marker, owner, created, part, envVars>>

\* Mutant: the cleanup label forgets the jar that rename created.
DropJarNot(p) ==
    /\ pc[p] = "dropjar" /\ Goto(p, "unmark")
    /\ UNCHANGED <<mine, target, todo, dirVars, envVars>>

\* The cleanup label of download_artifact: partial, jar, marker, directory.
Drop(p) ==
    /\ pc[p] = "drop" /\ Goto(p, "dropjar")
    /\ part' = [part EXCEPT ![mine[p]] = "none"]
    /\ UNCHANGED <<mine, target, todo, used, present, marker, owner, created, jar, envVars>>

DropJar(p) ==
    /\ pc[p] = "dropjar" /\ Goto(p, "unmark")
    /\ jar' = [jar EXCEPT ![mine[p]] = "none"]
    /\ UNCHANGED <<mine, target, todo, used, present, marker, owner, created, part, envVars>>

\* rymga_platform_remove_directory
Unmark(p) ==
    /\ pc[p] = "unmark" /\ Goto(p, "rmdir")
    /\ marker' = [marker EXCEPT ![mine[p]] = "none"]
    /\ UNCHANGED <<mine, target, todo, used, present, owner, created, part, jar, envVars>>

Rmdir(p) ==
    /\ pc[p] = "rmdir" /\ Goto(p, "idle")
    /\ present' = AfterRmdir(mine[p])
    /\ mine' = [mine EXCEPT ![p] = NoDir]
    /\ UNCHANGED <<target, todo, used, marker, owner, created, part, jar, envVars>>
-----------------------------------------------------------------------------
(* The world around the calls *)

\* A pid comes (back) to life: directories it is written in stop being stale.
Start(p) ==
    /\ pc[p] = "dead" /\ Goto(p, "idle")
    /\ owed' = [q \in Procs |-> {d \in owed[q] : owner[d] # p}]
    /\ UNCHANGED <<mine, target, todo, dirVars, foreign, now, crashed, leaky>>

Exit(p) ==
    /\ pc[p] = "idle" /\ Goto(p, "dead")
    /\ UNCHANGED <<mine, target, todo, dirVars, envVars>>

\* SIGKILL, an abort, or exit without releasing the handle.
Crash(p) ==
    /\ pc[p] \notin {"dead", "idle"} /\ Goto(p, "dead")
    /\ mine' = [mine EXCEPT ![p] = NoDir] /\ target' = [target EXCEPT ![p] = NoDir]
    /\ todo' = [todo EXCEPT ![p] = {}] /\ owed' = [owed EXCEPT ![p] = {}]
    /\ crashed' = TRUE
    /\ UNCHANGED <<dirVars, foreign, now, leaky>>

\* Bytes that were never synced are lost with the machine; names are journaled.
AfterPowerLoss(f) == [d \in Dirs |-> IF f[d] = "matching" THEN "other" ELSE f[d]]
PowerLoss ==
    /\ \E p \in Procs : pc[p] # "dead"
    /\ pc' = [p \in Procs |-> "dead"]
    /\ mine' = [p \in Procs |-> NoDir] /\ target' = [p \in Procs |-> NoDir]
    /\ todo' = [p \in Procs |-> {}] /\ owed' = [p \in Procs |-> {}]
    /\ part' = AfterPowerLoss(part) /\ jar' = AfterPowerLoss(jar)
    /\ crashed' = TRUE
    /\ UNCHANGED <<used, present, marker, owner, created, foreign, now, leaky>>

\* The wall clock advances or is set, also backwards.
SetClock ==
    /\ \E t \in Times \ {now} :
         /\ now' = t
         /\ owed' = [p \in Procs |-> {d \in owed[p] : Aged(d, t)}]
    /\ UNCHANGED <<procVars, dirVars, foreign, crashed, leaky>>

\* The user puts a file of theirs into a directory.
AddForeign ==
    /\ \E d \in present \ foreign :
         /\ foreign' = foreign \cup {d}
         /\ owed' = [p \in Procs |-> owed[p] \ {d}]
    /\ UNCHANGED <<procVars, dirVars, now, crashed, leaky>>
-----------------------------------------------------------------------------
Cleanup(p) ==
    \/ BeginAcquire(p) \/ CleanJar(p) \/ CleanPart(p) \/ CleanMarker(p)
    \/ CleanRoot(p) \/ EndClean(p) \/ \E d \in Dirs : CheckDir(p, d) \/ SkipDir(p, d)
Download(p) ==
    \/ AcquireFails(p) \/ MakeTempDirectory(p) \/ OpenMarker(p) \/ WriteMarker(p)
    \/ MarkerFails(p) \/ CreateFile(p) \/ CreateFileFails(p) \/ Fetch(p)
    \/ SyncClose(p) \/ Rename(p) \/ SyncOrRenameFails(p) \/ MakeHandle(p)
    \/ HandleFails(p)
Remove(p) == Release(p) \/ Drop(p) \/ DropJar(p) \/ Unmark(p) \/ Rmdir(p)

Next ==
    \/ \E p \in Procs : \/ Cleanup(p) \/ Download(p) \/ Remove(p)
                        \/ Start(p) \/ Exit(p) \/ Crash(p)
    \/ PowerLoss \/ SetClock \/ AddForeign

Spec == Init /\ [][Next]_vars
-----------------------------------------------------------------------------
(* Properties *)

\* ARCHITECTURE.md step 7: a live artifact handle owns the file.  From the
\* return of rymga_loader_acquire to the release, whatever other processes
\* clean, crash or start, the jar is there, intact and recorded as owned.
HandleOwnsFile ==
    \A p \in Procs : pc[p] = "held" =>
        LET d == mine[p]
        IN  d \in present /\ jar[d] = "durable" /\ marker[d] = "whole" /\ owner[d] = p

\* ARCHITECTURE.md step 7: only an exact size and hash match is published.  No
\* crash or power loss leaves other bytes under the final name (download_artifact
\* verifies, syncs and only then renames).
PublishedIsVerified == \A d \in Dirs : jar[d] \in {"none", "matching", "durable"}

\* Bytes of an artifact never outlive the marker that lets a later cleanup find
\* them: the marker is written first and removed last on every path of
\* download_artifact, artifact_release and cleanup_stale.  The one exception is
\* the handle that lost its path to a failed strdup.
ArtifactStaysRecorded ==
    \A d \in Dirs : (jar[d] # "none" \/ part[d] # "none") =>
        marker[d] = "whole" \/ d \in leaky

\* Every return of rymga_loader_acquire that is not OK, and every release, takes
\* its directory with it: without a crash only directories in use, or with a
\* user's own file in them, exist.
NoLeakWithoutCrash ==
    ~crashed => \A d \in present : d \in foreign \/ \E p \in Procs : mine[p] = d

\* When cleanup_stale is through, no directory it listed and could open that was
\* stale all along still holds artifact bytes, also if another process was removing the
\* same directory or died while doing so.
CleanupErases ==
    \A p \in Procs : (pc[p] = "clean" /\ todo[p] = {}) =>
        \A d \in owed[p] : jar[d] = "none" /\ part[d] = "none"

\* A step that is not the user's own leaves the user's directory as it was.
UntouchedByOthers ==
    \A p \in Procs : (mine[p] # NoDir /\ pc'[p] = pc[p]) =>
        LET d == mine[p]
        IN  /\ d \in present' /\ marker'[d] = marker[d] /\ owner'[d] = owner[d]
            /\ part'[d] = part[d] /\ jar'[d] = jar[d]

\* No step of another process, and no clock change, touches a directory between
\* its mkdtemp and its owner's rmdir (the liveness probe of cleanup_stale).
LiveDirectoryPrivate == [][UntouchedByOthers]_vars

\* The runtime directory seen as a shelf of artifacts under lease.
Shelf == [d \in Dirs |-> CASE jar[d] = "none" -> "empty"
                          [] jar[d] = "durable" -> "intact"
                          [] OTHER -> "torn"]
Lease == [p \in Procs |-> IF pc[p] = "held" THEN mine[p] ELSE NoDir]
Store == INSTANCE ArtifactStore WITH shelf <- Shelf, lease <- Lease

\* rymga_loader_acquire / artifact_release over the file system implement the
\* abstract store: artifacts appear whole and leave only unleased or given back.
ImplementsStore == Store!Spec
=============================================================================
