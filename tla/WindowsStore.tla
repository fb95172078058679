---------------------------- MODULE WindowsStore ----------------------------
(***************************************************************************)
(* The runtime and the plugin directory on Windows: what                   *)
(* rymga_platform_windows.c does to them for rymga_loader_acquire,         *)
(* materialize_plugin and the two releases.  Three things differ from      *)
(* POSIX: a file that somebody has open cannot be deleted, a marker cannot *)
(* be read while it is written nor deleted while it is read, and           *)
(* rymga_platform_remove_file does not tell whether it removed anything.   *)
(*                                                                         *)
(* A launcher is one process.  Its temporary directory, its partial copy   *)
(* and its markers have random names and are known by it.  The jar has one *)
(* name, which every launcher's copy wants in the plugin directory.        *)
(***************************************************************************)
EXTENDS Naturals, FiniteSets

CONSTANTS Launchers,
          Nobody, User,
          ScanLimit     \* 256 in both cleanups

ASSUME StoreAssumption ==
    /\ Nobody \notin Launchers /\ User \notin Launchers /\ Nobody # User
    /\ ScanLimit \in Nat

VARIABLES
    pc,        \* where each launcher is; "gone" when its process has ended
    preload,   \* launchers started with preload, the others with run
    target,    \* whose files a launcher is looking at or removing
    todo,      \* what its cleanup has still to look at
    dirs,      \* temporary directories that exist
    marker,    \* .rymga-owner in each
    old,       \* markers a day old or more
    file,      \* .artifact.part, or the jar it was renamed to
    foreign,   \* temporary directories that also hold a file of the user's
    partial,   \* .rymga-loader-X.part files in the plugin directory
    record,    \* .rymga-preload-X.owner files in the plugin directory
    dest,      \* whose copy, or file, has the jar's name in the plugin directory
    opened,    \* the file each launcher's host has open
    refused,   \* history: files that were in use when they were to be deleted
    leaky,     \* history: launchers whose handle lost its path to strdup
    raced      \* history: copies, or the user's file, that got the name while a
               \* launcher was about to delete what had it before, or lost it to the user

procVars == <<pc, preload, target, todo>>
tempVars == <<dirs, marker, old, file, foreign>>
pluginVars == <<partial, record, dest>>
pastVars == <<refused, leaky, raced>>
storeVars == <<procVars, tempVars, pluginVars, opened, pastVars>>

Marks == {"none", "writing", "torn", "whole"}
Jar(l) == <<"jar", l>>
Copy(l) == <<"copy", l>>
Files == {"jar", "copy"} \X Launchers
NoFile == <<"none", Nobody>>

Step(l, from, to) == pc[l] = from /\ pc' = [pc EXCEPT ![l] = to]
InUse(f) == \E h \in Launchers : opened[h] = f
Alive(l) == pc[l] \notin {"start", "gone"}

\* Somebody has the marker open without sharing its deletion.
Read(label, m) == \E q \in Launchers : pc[q] = label /\ target[q] = m

\* A launcher has compared what has the jar's name and is about to delete it.
Deleting == \E q \in Launchers : pc[q] = "deleteCopy"

Scans(found) ==
    IF Cardinality(found) <= ScanLimit THEN {found}
    ELSE {S \in SUBSET found : Cardinality(S) = ScanLimit}

StoreInit ==
    /\ preload \in SUBSET Launchers
    /\ target = [l \in Launchers |-> Nobody] /\ todo = [l \in Launchers |-> {}]
    /\ dirs = {} /\ marker = [l \in Launchers |-> "none"] /\ old = {}
    /\ file = [l \in Launchers |-> "none"] /\ foreign = {}
    /\ partial = {} /\ record = [l \in Launchers |-> "none"]
    /\ dest = Nobody /\ opened = [l \in Launchers |-> NoFile]
    /\ refused = {} /\ leaky = {} /\ raced = {}
-----------------------------------------------------------------------------
(* rymga_platform_cleanup_stale *)

CleanupStale(l) ==
    /\ Step(l, "acquire", "sweep")
    /\ \E S \in Scans(dirs) : todo' = [todo EXCEPT ![l] = S]
    /\ UNCHANGED <<preload, target, tempVars, pluginVars, opened, pastVars>>

\* stale_owned_directory opens the marker, unless it is not there or being written.
OpenMarker(l, m) ==
    /\ pc[l] = "sweep" /\ m \in todo[l]
    /\ IF marker[m] \in {"torn", "whole"}
         THEN Step(l, "sweep", "judge") /\ target' = [target EXCEPT ![l] = m] /\ UNCHANGED todo
         ELSE todo' = [todo EXCEPT ![l] = @ \ {m}] /\ UNCHANGED <<pc, target>>
    /\ UNCHANGED <<preload, tempVars, pluginVars, opened, pastVars>>

\* Mutant: the process is not looked for.
StaleUnprobed(m) == m \in dirs /\ marker[m] = "whole" /\ m \in old /\ m \notin foreign

Stale(m) ==
    /\ m \in dirs /\ marker[m] = "whole" /\ m \in old /\ ~Alive(m)
    /\ m \notin foreign

Judge(l) ==
    /\ Step(l, "judge", IF Stale(target[l]) THEN "deleteJar" ELSE "sweep")
    /\ todo' = [todo EXCEPT ![l] = @ \ {target[l]}]
    /\ UNCHANGED <<preload, target, tempVars, pluginVars, opened, pastVars>>

SweepEnds(l) ==
    /\ todo[l] = {} /\ Step(l, "sweep", "makeDirectory")
    /\ target' = [target EXCEPT ![l] = l]
    /\ UNCHANGED <<preload, todo, tempVars, pluginVars, opened, pastVars>>
-----------------------------------------------------------------------------
(* The removal of a temporary directory: by a cleanup, by artifact_release and *)
(* by a download that failed.                                                  *)

\* Mutant: nothing is deleted, the next steps go on.
DeleteJarNot(l) ==
    /\ Step(l, "deleteJar", "deletePart")
    /\ UNCHANGED <<preload, target, todo, tempVars, pluginVars, opened, pastVars>>

DeleteJar(l) ==
    /\ Step(l, "deleteJar", "deletePart")
    /\ LET m == target[l] IN
         IF file[m] = "jar" /\ InUse(Jar(m))
           THEN refused' = refused \cup {Jar(m)} /\ UNCHANGED file
           ELSE /\ file' = [file EXCEPT ![m] = IF @ = "jar" THEN "none" ELSE @]
                /\ UNCHANGED refused
    /\ UNCHANGED <<preload, target, todo, dirs, marker, old, foreign, pluginVars, opened, leaky, raced>>

DeletePart(l) ==
    /\ Step(l, "deletePart", "deleteMarker")
    /\ file' = [file EXCEPT ![target[l]] = IF @ = "part" THEN "none" ELSE @]
    /\ UNCHANGED <<preload, target, todo, dirs, marker, old, foreign, pluginVars, opened, pastVars>>

DeleteMarker(l) ==
    /\ Step(l, "deleteMarker", "removeDirectory")
    /\ marker' = [marker EXCEPT ![target[l]] = IF Read("judge", target[l]) THEN @ ELSE "none"]
    /\ UNCHANGED <<preload, target, todo, dirs, old, file, foreign, pluginVars, opened, pastVars>>

\* RemoveDirectory fails on a directory that is not empty.
RemoveDirectory(l) ==
    /\ Step(l, "removeDirectory", IF target[l] = l THEN "exit" ELSE "sweep")
    /\ LET m == target[l] IN
         dirs' = IF marker[m] = "none" /\ file[m] = "none" /\ m \notin foreign THEN dirs \ {m} ELSE dirs
    /\ UNCHANGED <<preload, target, todo, marker, old, file, foreign, pluginVars, opened, pastVars>>
-----------------------------------------------------------------------------
(* make_temp_directory and download_artifact *)

MakeDirectory(l) ==
    /\ \/ Step(l, "makeDirectory", "createMarker") /\ dirs' = dirs \cup {l}
       \/ Step(l, "makeDirectory", "exit") /\ UNCHANGED dirs
    /\ UNCHANGED <<preload, target, todo, marker, old, file, foreign, pluginVars, opened, pastVars>>

CreateMarker(l) ==
    /\ \/ Step(l, "createMarker", "writeMarker") /\ marker' = [marker EXCEPT ![l] = "writing"]
       \/ Step(l, "createMarker", "removeDirectory") /\ UNCHANGED marker
    /\ UNCHANGED <<preload, target, todo, dirs, old, file, foreign, pluginVars, opened, pastVars>>

WriteMarker(l) ==
    /\ \/ Step(l, "writeMarker", "createPart") /\ marker' = [marker EXCEPT ![l] = "whole"]
       \/ Step(l, "writeMarker", "deleteMarker") /\ marker' = [marker EXCEPT ![l] = "torn"]
    /\ UNCHANGED <<preload, target, todo, dirs, old, file, foreign, pluginVars, opened, pastVars>>

CreatePart(l) ==
    /\ \/ Step(l, "createPart", "download") /\ file' = [file EXCEPT ![l] = "part"]
       \/ Step(l, "createPart", "deleteMarker") /\ UNCHANGED file
    /\ UNCHANGED <<preload, target, todo, dirs, marker, old, foreign, pluginVars, opened, pastVars>>

\* The transfer and its checks, sync_close and rename.
Download(l) ==
    /\ \/ Step(l, "download", "handle") /\ file' = [file EXCEPT ![l] = "jar"]
       \/ Step(l, "download", "deleteJar") /\ UNCHANGED file
    /\ UNCHANGED <<preload, target, todo, dirs, marker, old, foreign, pluginVars, opened, pastVars>>

\* calloc and strdup of the handle; without the path, artifact_release first removes
\* the marker only.
MakeHandle(l) ==
    /\ \/ /\ Step(l, "handle", IF l \in preload THEN "materialize" ELSE "startHost")
          /\ UNCHANGED <<marker, leaky>>
       \/ Step(l, "handle", "deleteJar") /\ UNCHANGED <<marker, leaky>>
       \/ /\ Step(l, "handle", "deleteJar") /\ leaky' = leaky \cup {l}
          /\ marker' = [marker EXCEPT ![l] = IF Read("judge", l) THEN @ ELSE "none"]
    /\ UNCHANGED <<preload, target, todo, dirs, old, file, foreign, pluginVars, opened, refused, raced>>
-----------------------------------------------------------------------------
(* rymga_platform_cleanup_plugins *)

CleanupPlugins(l) ==
    /\ Step(l, "materialize", "sweepPlugins")
    /\ \E S \in Scans({m \in Launchers : record[m] # "none"}) : todo' = [todo EXCEPT ![l] = S]
    /\ UNCHANGED <<preload, target, tempVars, pluginVars, opened, pastVars>>

OpenRecord(l, m) ==
    /\ pc[l] = "sweepPlugins" /\ m \in todo[l]
    /\ IF record[m] \in {"torn", "whole"}
         THEN Step(l, "sweepPlugins", "judgeCopy") /\ target' = [target EXCEPT ![l] = m] /\ UNCHANGED todo
         ELSE todo' = [todo EXCEPT ![l] = @ \ {m}] /\ UNCHANGED <<pc, target>>
    /\ UNCHANGED <<preload, tempVars, pluginVars, opened, pastVars>>

\* parse_plugin_marker: whole, and its launcher is no more; no age is asked for.
Abandoned(m) == record[m] = "whole" /\ ~Alive(m)

JudgeCopy(l) ==
    /\ Step(l, "judgeCopy", IF Abandoned(target[l]) THEN "compareJar" ELSE "sweepPlugins")
    /\ todo' = [todo EXCEPT ![l] = @ \ {target[l]}]
    /\ UNCHANGED <<preload, target, tempVars, pluginVars, opened, pastVars>>

PluginSweepEnds(l) ==
    /\ todo[l] = {} /\ Step(l, "sweepPlugins", "copy")
    /\ target' = [target EXCEPT ![l] = l]
    /\ UNCHANGED <<preload, todo, tempVars, pluginVars, opened, pastVars>>

\* Mutant: the jar's name is enough.
CompareNothing(l) ==
    /\ Step(l, "compareJar", IF dest # Nobody THEN "deleteCopy" ELSE "deleteAnchor")
    /\ UNCHANGED <<preload, target, todo, tempVars, pluginVars, opened, pastVars>>

\* file_identity of the destination against the record.
CompareJar(l) ==
    /\ Step(l, "compareJar", IF dest = target[l] THEN "deleteCopy" ELSE "deleteAnchor")
    /\ UNCHANGED <<preload, target, todo, tempVars, pluginVars, opened, pastVars>>

\* By name: whatever has it now.
DeleteCopy(l) ==
    /\ Step(l, "deleteCopy", "deleteAnchor")
    /\ IF dest \in Launchers /\ InUse(Copy(dest))
         THEN refused' = refused \cup {Copy(dest)} /\ UNCHANGED dest
         ELSE dest' = Nobody /\ UNCHANGED refused
    /\ UNCHANGED <<preload, target, todo, tempVars, partial, record, opened, leaky, raced>>

\* The .part files with the recorded identity: the partial copy is a link to the same file.
DeleteAnchor(l) ==
    /\ Step(l, "deleteAnchor", "deleteRecord")
    /\ LET m == target[l] IN
         IF m \in partial /\ InUse(Copy(m))
           THEN refused' = refused \cup {Copy(m)} /\ UNCHANGED partial
           ELSE partial' = partial \ {m} /\ UNCHANGED refused
    /\ UNCHANGED <<preload, target, todo, tempVars, record, dest, opened, leaky, raced>>

\* A cleanup goes on to the next record, a launcher's own release to its artifact.
DeleteRecord(l) ==
    /\ Step(l, "deleteRecord", IF target[l] = l THEN "deleteJar" ELSE "sweepPlugins")
    /\ record' = [record EXCEPT ![target[l]] = IF Read("judgeCopy", target[l]) THEN @ ELSE "none"]
    /\ UNCHANGED <<preload, target, todo, tempVars, partial, dest, opened, pastVars>>
-----------------------------------------------------------------------------
(* rymga_platform_materialize_plugin *)

\* CopyFile has the whole artifact in the partial file before there is a record of it.
CopyPartial(l) ==
    /\ \/ Step(l, "copy", "createRecord") /\ partial' = partial \cup {l}
       \/ Step(l, "copy", "deleteJar") /\ UNCHANGED partial
    /\ UNCHANGED <<preload, target, todo, tempVars, record, dest, opened, pastVars>>

CreateRecord(l) ==
    /\ \/ Step(l, "createRecord", "writeRecord") /\ record' = [record EXCEPT ![l] = "writing"]
       \/ Step(l, "createRecord", "deleteAnchor") /\ UNCHANGED record
    /\ UNCHANGED <<preload, target, todo, tempVars, partial, dest, opened, pastVars>>

\* A record that cannot be written is deleted, unless somebody reads it.
WriteRecord(l) ==
    /\ \/ Step(l, "writeRecord", "link") /\ record' = [record EXCEPT ![l] = "whole"]
       \/ /\ Step(l, "writeRecord", "deleteAnchor")
          /\ \E rest \in {"none", "torn"} : record' = [record EXCEPT ![l] = rest]
    /\ UNCHANGED <<preload, target, todo, tempVars, partial, dest, opened, pastVars>>

\* CreateHardLink does not replace what has the name.
Link(l) ==
    /\ IF dest = Nobody
         THEN /\ Step(l, "link", "startHost") /\ dest' = l
              /\ raced' = IF Deleting THEN raced \cup {l} ELSE raced
         ELSE Step(l, "link", "deleteAnchor") /\ UNCHANGED <<dest, raced>>
    /\ UNCHANGED <<preload, target, todo, tempVars, partial, record, opened, refused, leaky>>
-----------------------------------------------------------------------------
Acquire(l) ==
    \/ CleanupStale(l) \/ Judge(l) \/ SweepEnds(l) \/ (\E m \in Launchers : OpenMarker(l, m))
    \/ DeleteJar(l) \/ DeletePart(l) \/ DeleteMarker(l) \/ RemoveDirectory(l)
    \/ MakeDirectory(l) \/ CreateMarker(l) \/ WriteMarker(l) \/ CreatePart(l) \/ Download(l) \/ MakeHandle(l)

Materialize(l) ==
    \/ CleanupPlugins(l) \/ JudgeCopy(l) \/ PluginSweepEnds(l) \/ (\E m \in Launchers : OpenRecord(l, m))
    \/ CompareJar(l) \/ DeleteCopy(l) \/ DeleteAnchor(l) \/ DeleteRecord(l)
    \/ CopyPartial(l) \/ CreateRecord(l) \/ WriteRecord(l) \/ Link(l)
=============================================================================
