--------------------------- MODULE WindowsLauncher ---------------------------
(***************************************************************************)
(* rymga-loader on Windows: wmain from the license prompt to its return,   *)
(* with the console's control events and the host process, over the        *)
(* directories of WindowsStore.  Windows runs a control handler on a       *)
(* thread of its own, and ends the process after the last handler that     *)
(* does not claim the event.                                               *)
(***************************************************************************)
EXTENDS WindowsStore

VARIABLES
    echo,      \* launchers whose console echoes
    control,   \* the control thread in restore_license_console
    keep,      \* launchers with keep_parent_alive installed
    host,      \* the process each launcher started
    closed,    \* history: launchers ended where keep_parent_alive could not help
    bare       \* history: launchers that died before the record of their copy was whole

launcherVars == <<echo, control, keep, host, closed, bare>>
vars == <<storeVars, launcherVars>>
historyVars == <<closed, bare>>

Init ==
    /\ StoreInit /\ pc = [l \in Launchers |-> "start"]
    /\ echo = Launchers /\ control = [l \in Launchers |-> "none"] /\ keep = {}
    /\ host = [l \in Launchers |-> "none"]
    /\ closed = {} /\ bare = {}
-----------------------------------------------------------------------------
(* The arguments, and read_license_console *)

\* Rejected, or with the license from the console or, read at once, from stdin.
ParseArguments(l) ==
    /\ \E next \in {"console", "acquire", "exit"} : Step(l, "start", next)
    /\ UNCHANGED <<preload, target, todo, tempVars, pluginVars, opened, pastVars, launcherVars>>

InstallRestore(l) ==
    /\ Step(l, "console", "hide") \/ Step(l, "console", "exit")
    /\ UNCHANGED <<preload, target, todo, tempVars, pluginVars, opened, pastVars, launcherVars>>

HideEcho(l) ==
    /\ \/ /\ Step(l, "hide", "read") /\ echo' = echo \ {l}
          /\ UNCHANGED control
       \/ Step(l, "hide", "exit") /\ control' = [control EXCEPT ![l] = "none"] /\ UNCHANGED echo
    /\ UNCHANGED <<preload, target, todo, tempVars, pluginVars, opened, pastVars, keep, host, historyVars>>

ReadLicense(l) ==
    /\ Step(l, "read", "restore")
    /\ UNCHANGED <<preload, target, todo, tempVars, pluginVars, opened, pastVars, launcherVars>>

RestoreEcho(l) ==
    /\ Step(l, "restore", "unhandle") /\ echo' = echo \cup {l}
    /\ UNCHANGED <<preload, target, todo, tempVars, pluginVars, opened, pastVars, control, keep, host, historyVars>>

\* A control thread that ends the process later than this does what Close does.
RemoveRestore(l) ==
    /\ Step(l, "unhandle", "acquire") \/ Step(l, "unhandle", "exit")
    /\ control' = [control EXCEPT ![l] = "none"]
    /\ UNCHANGED <<preload, target, todo, tempVars, pluginVars, opened, pastVars, echo, keep, host, historyVars>>
-----------------------------------------------------------------------------
(* The host *)

\* What only the process knew is gone with it.
Forget(l) == target' = [target EXCEPT ![l] = Nobody] /\ todo' = [todo EXCEPT ![l] = {}]

\* The child's arguments, and the handler before the process.
Keep(l) ==
    /\ \/ Step(l, "startHost", "createProcess") /\ keep' = keep \cup {l}
       \/ Step(l, "startHost", "release") /\ UNCHANGED keep
    /\ UNCHANGED <<preload, target, todo, tempVars, pluginVars, opened, pastVars, echo, control, host, historyVars>>

CreateProcess(l) ==
    /\ \/ Step(l, "createProcess", "wait") /\ host' = [host EXCEPT ![l] = "running"]
       \/ Step(l, "createProcess", "release") /\ UNCHANGED host
    /\ UNCHANGED <<preload, target, todo, tempVars, pluginVars, opened, pastVars, echo, control, keep, historyVars>>

\* The host opens the jar if it is there, and does not share its deletion.
HostOpens(l) ==
    /\ host[l] = "running" /\ opened[l] = NoFile
    /\ \/ l \notin preload /\ file[l] = "jar" /\ opened' = [opened EXCEPT ![l] = Jar(l)]
       \/ l \in preload /\ dest \in Launchers /\ opened' = [opened EXCEPT ![l] = Copy(dest)]
    /\ UNCHANGED <<procVars, tempVars, pluginVars, pastVars, launcherVars>>

HostEnds(l) ==
    /\ host[l] = "running" /\ host' = [host EXCEPT ![l] = "ended"]
    /\ opened' = [opened EXCEPT ![l] = NoFile]
    /\ UNCHANGED <<procVars, tempVars, pluginVars, pastVars, echo, control, keep, historyVars>>

Wait(l) ==
    /\ host[l] = "ended" /\ Step(l, "wait", "release")
    /\ UNCHANGED <<preload, target, todo, tempVars, pluginVars, opened, pastVars, launcherVars>>

\* The handler is removed, then release_plugin and artifact_release.
Release(l) ==
    /\ Step(l, "release", IF l \in preload THEN "compareJar" ELSE "deleteJar")
    /\ keep' = keep \ {l}
    /\ UNCHANGED <<preload, target, todo, tempVars, pluginVars, opened, pastVars, echo, control, host, historyVars>>

Return(l) ==
    /\ Step(l, "exit", "gone") /\ Forget(l)
    /\ UNCHANGED <<preload, tempVars, pluginVars, opened, pastVars, launcherVars>>
-----------------------------------------------------------------------------
(* Control events *)

\* The file is left with what was written, and can be opened again.
Torn(f, l) == [f EXCEPT ![l] = IF @ = "writing" THEN "torn" ELSE @]

\* The partial copy is there and its record was not written yet, or could not be.
Unrecorded(l) == pc[l] \in {"createRecord", "writeRecord", "deleteAnchor"} /\ record[l] # "whole"

\* The process ends where it is: its handles are closed, its files stay.
Die(l) ==
    /\ pc' = [pc EXCEPT ![l] = "gone"] /\ bare' = IF Unrecorded(l) THEN bare \cup {l} ELSE bare
    /\ marker' = Torn(marker, l) /\ record' = Torn(record, l)
    /\ keep' = keep \ {l} /\ Forget(l)
    /\ UNCHANGED <<preload, dirs, old, file, foreign, partial, dest, opened, pastVars, echo, control, host>>

Restoring(l) == pc[l] \in {"hide", "read", "restore", "unhandle"}

\* Any event: restore_license_console is called on the control thread.
PromptEvent(l) ==
    /\ Restoring(l) /\ control[l] = "none"
    /\ control' = [control EXCEPT ![l] = "called"]
    /\ UNCHANGED <<storeVars, echo, keep, host, historyVars>>

\* Mutant: the handler does not touch the console.
RestoreNothing(l) ==
    /\ control[l] = "called"
    /\ control' = [control EXCEPT ![l] = IF pc[l] = "hide" THEN "endEarly" ELSE "end"]
    /\ UNCHANGED <<storeVars, echo, keep, host, historyVars>>

\* license_console is reset once the echo is back.
RestoreConsole(l) ==
    /\ control[l] = "called" /\ echo' = echo \cup {l}
    /\ control' = [control EXCEPT ![l] = IF pc[l] = "hide" THEN "endEarly" ELSE "end"]
    /\ UNCHANGED <<storeVars, keep, host, historyVars>>

\* The handler returned FALSE, and the default handler ends the process.
EndProcess(l) ==
    /\ control[l] \in {"endEarly", "end"} /\ pc[l] # "gone"
    /\ Die(l) /\ UNCHANGED closed

\* Mutant: keep_parent_alive does not claim the event.
InterruptAlways(l) ==
    /\ Alive(l) /\ ~Restoring(l) /\ control[l] = "none"
    /\ Die(l) /\ UNCHANGED closed

\* Ctrl-C and Ctrl-Break: claimed by keep_parent_alive where it is installed.
Interrupt(l) ==
    /\ Alive(l) /\ ~Restoring(l) /\ control[l] = "none" /\ l \notin keep
    /\ Die(l) /\ UNCHANGED closed

\* The console is closed, the session ends, or an event of the prompt ends the process
\* only now.
Close(l) ==
    /\ Alive(l) /\ ~Restoring(l) /\ control[l] = "none"
    /\ Die(l) /\ closed' = closed \cup {l}
-----------------------------------------------------------------------------
(* Time, and the user *)

Day ==
    /\ old' = {l \in Launchers : marker[l] # "none"} /\ old' # old
    /\ UNCHANGED <<procVars, dirs, marker, file, foreign, pluginVars, opened, pastVars, launcherVars>>

\* The user puts a file into a temporary directory.
PutForeign(l) ==
    /\ l \in dirs \ foreign /\ foreign' = foreign \cup {l}
    /\ UNCHANGED <<procVars, dirs, marker, old, file, pluginVars, opened, pastVars, launcherVars>>

\* The user puts a jar of that name, also over a launcher's, or takes it away.
UserEdits ==
    /\ IF dest \in Launchers
         THEN /\ ~InUse(Copy(dest)) /\ dest' = User
              /\ raced' = raced \cup {dest} \cup (IF Deleting THEN {User} ELSE {})
         ELSE /\ dest' = (IF dest = User THEN Nobody ELSE User)
              /\ raced' = IF Deleting THEN raced \cup {User} ELSE raced \ {User}
    /\ UNCHANGED <<procVars, tempVars, partial, record, opened, refused, leaky, launcherVars>>

Prompt(l) ==
    \/ ParseArguments(l) \/ InstallRestore(l) \/ HideEcho(l) \/ ReadLicense(l) \/ RestoreEcho(l)
    \/ RemoveRestore(l)

Events(l) == PromptEvent(l) \/ RestoreConsole(l) \/ EndProcess(l) \/ Interrupt(l) \/ Close(l)

Run(l) ==
    \/ (Acquire(l) \/ Materialize(l)) /\ UNCHANGED launcherVars
    \/ Keep(l) \/ CreateProcess(l) \/ HostOpens(l) \/ HostEnds(l) \/ Wait(l) \/ Release(l) \/ Return(l)

Ended == \A l \in Launchers : pc[l] = "gone" /\ host[l] # "running"

Next ==
    \/ \E l \in Launchers : Prompt(l) \/ Run(l) \/ Events(l) \/ PutForeign(l)
    \/ Day \/ UserEdits
    \/ Ended /\ UNCHANGED vars

Spec == Init /\ [][Next]_vars
-----------------------------------------------------------------------------
(* Properties *)

Control ==
    {"start", "console", "hide", "read", "restore", "unhandle", "acquire", "sweep", "judge",
     "deleteJar", "deletePart", "deleteMarker", "removeDirectory", "makeDirectory", "createMarker",
     "writeMarker", "createPart", "download", "handle", "materialize", "sweepPlugins", "judgeCopy",
     "compareJar", "deleteCopy", "deleteAnchor", "deleteRecord", "copy", "createRecord",
     "writeRecord", "link", "startHost", "createProcess", "wait", "release", "exit", "gone"}

\* The variables have their types; only a live launcher is writing a marker.
TypeOK ==
    /\ pc \in [Launchers -> Control] /\ preload \subseteq Launchers
    /\ dirs \subseteq Launchers /\ old \subseteq Launchers /\ foreign \subseteq Launchers
    /\ partial \subseteq Launchers /\ echo \subseteq Launchers /\ keep \subseteq Launchers
    /\ closed \subseteq Launchers /\ bare \subseteq Launchers /\ leaky \subseteq Launchers
    /\ target \in [Launchers -> Launchers \cup {Nobody}] /\ todo \in [Launchers -> SUBSET Launchers]
    /\ marker \in [Launchers -> Marks] /\ record \in [Launchers -> Marks]
    /\ file \in [Launchers -> {"none", "part", "jar"}] /\ dest \in Launchers \cup {Nobody, User}
    /\ opened \in [Launchers -> Files \cup {NoFile}] /\ refused \subseteq Files
    /\ raced \subseteq Launchers \cup {User} /\ host \in [Launchers -> {"none", "running", "ended"}]
    /\ control \in [Launchers -> {"none", "called", "endEarly", "end"}]
    /\ \A l \in Launchers : /\ marker[l] = "writing" => pc[l] = "writeMarker"
                            /\ record[l] = "writing" => pc[l] = "writeRecord"

\* However the launcher ends, its console echoes again: the exception is an event
\* whose handler has run before wmain hides the echo and ends the process only after.
EchoRestored ==
    \A l \in Launchers : pc[l] = "gone" => l \in echo \/ control[l] = "endEarly"

\* The host has its jar for as long as it runs: whatever other launchers clean up, and
\* whenever Ctrl-C comes.  Not so when the launcher's console was closed, or when
\* another launcher was about to delete what had the name before.
HostHasJar ==
    \A l \in Launchers : host[l] = "running" /\ l \notin closed \cup raced =>
        file[l] = "jar" /\ (l \in preload => dest = l)

\* Every file with the artifact's bytes is in the hands of a live launcher or under a
\* whole marker that lets a cleanup find it.  The exceptions: it was in use when it was
\* to be deleted, strdup failed, or the launcher died before its record was whole.
ArtifactRecorded ==
    \A l \in Launchers : ~Alive(l) =>
        /\ file[l] # "none" => marker[l] = "whole" \/ Jar(l) \in refused \/ l \in leaky
        /\ l \in partial \/ dest = l =>
             record[l] = "whole" \/ Copy(l) \in refused \/ l \in bare

\* A cleanup never touches the directory or the copy of a live launcher.
LiveFilesPrivate ==
    [][\A l \in Launchers : Alive(l) /\ pc'[l] = pc[l] =>
         /\ <<file[l], marker[l], record[l]>>' = <<file[l], marker[l], record[l]>>
         /\ (l \in dirs <=> l \in dirs') /\ (l \in partial <=> l \in partial')]_vars

\* A file of the user's under the jar's name is left alone, unless the user put it
\* there while a launcher was about to delete what had the name before.
UserFilesKept == [][dest = User /\ dest' # User => pc' = pc \/ User \in raced]_vars
=============================================================================
