--------------------------- MODULE PaperBootstrap ---------------------------
(***************************************************************************)
(* RymgaPaperBootstrap: the license thread acquires the artifact while the *)
(* server thread ticks and may disable the bootstrap at any moment.        *)
(*                                                                         *)
(* Of the host this assumes what Paper does: setEnabled(false) clears the  *)
(* plugin's flag before it calls onDisable, runTask throws for a plugin    *)
(* that is not enabled and then queues the task, the queued tasks of a     *)
(* plugin are cancelled once it is disabled, and PluginDisableEvent comes  *)
(* before the plugin it announces is disabled, to the listeners of enabled *)
(* plugins only.  enablePlugin throws only before the plugin is enabled.   *)
(***************************************************************************)
EXTENDS Naturals

VARIABLES
    main,       \* where the server thread is: "new", "on", a step of load or onDisable, "off"
    ticking,    \* the server still runs scheduled tasks
    stopping,
    worker,     \* where the license thread is
    value,      \* the acquire returned an artifact
    task,       \* the scheduled finishOnServerThread: "none", "queued", "run", "cancelled"
    field,      \* the field artifact refers to the artifact
    handle,     \* the artifact's native handle: "none", "open" or "zero"
    releases,   \* how often release0 was called with it
    guest,      \* the protected plugin: "none", "loaded", "enabled", "disabling" once its
                \* PluginDisableEvent was delivered, "disabled"
    license     \* the license array: "none", "clear" or "wiped"

vars == <<main, ticking, stopping, worker, value, task, field, handle, releases, guest, license>>

Stopping == {"stop", "shutdown", "unload", "close", "cancel"}

\* JavaPlugin.isEnabled of the bootstrap
Enabled == main \in {"on", "enable", "failed"}

\* isEnabled of the protected plugin, until the host has disabled it
GuestEnabled == guest \in {"enabled", "disabling"}

Init ==
    /\ main = "new" /\ ticking = TRUE /\ stopping = FALSE /\ worker = "none"
    /\ value = FALSE /\ task = "none" /\ field = FALSE /\ handle = "none"
    /\ releases = 0 /\ guest = "none" /\ license = "none"
-----------------------------------------------------------------------------
(* NativeArtifact.close and closeArtifact *)

\* Mutant: the handle is not zeroed.
CloseKeepsHandle ==
    /\ releases' = IF handle = "open" THEN releases + 1 ELSE releases
    /\ UNCHANGED handle

Close ==
    /\ releases' = IF handle = "open" THEN releases + 1 ELSE releases
    /\ handle' = IF handle = "open" THEN "zero" ELSE handle

CloseArtifact ==
    /\ field' = FALSE
    /\ IF field THEN Close ELSE UNCHANGED <<handle, releases>>
-----------------------------------------------------------------------------
(* The server thread *)

\* onEnable gives the acquire to the license thread; without a license it denies.
OnEnable ==
    /\ main = "new"
    /\ \/ main' = "on" /\ worker' = "queued" /\ license' = "clear"
       \/ main' = "stop" /\ UNCHANGED <<worker, license>>
    /\ UNCHANGED <<ticking, stopping, value, task, field, handle, releases, guest>>

\* An administrator disables the bootstrap, or the server stops.
Disable ==
    /\ main = "on" /\ main' = "stop"
    /\ ticking' \in BOOLEAN
    /\ UNCHANGED <<stopping, worker, value, task, field, handle, releases, guest, license>>

\* The server stops after the bootstrap was disabled.
ServerStops ==
    /\ main = "off" /\ ticking /\ ticking' = FALSE
    /\ UNCHANGED <<main, stopping, worker, value, task, field, handle, releases, guest, license>>

SetStopping ==
    /\ main = "stop" /\ main' = "shutdown" /\ stopping' = TRUE
    /\ UNCHANGED <<ticking, worker, value, task, field, handle, releases, guest, license>>

\* shutdownNow drops an acquire the license thread has not begun.
ShutdownNow ==
    /\ main = "shutdown" /\ main' = "unload"
    /\ worker' = IF worker = "queued" THEN "dropped" ELSE worker
    /\ UNCHANGED <<ticking, stopping, value, task, field, handle, releases, guest, license>>

DisableGuest ==
    /\ main = "unload" /\ main' = "close"
    /\ guest' = IF GuestEnabled THEN "disabled" ELSE guest
    /\ UNCHANGED <<ticking, stopping, worker, value, task, field, handle, releases, license>>

OnDisableCloses ==
    /\ main = "close" /\ main' = "cancel" /\ CloseArtifact
    /\ UNCHANGED <<ticking, stopping, worker, value, task, guest, license>>

CancelTasks ==
    /\ main = "cancel" /\ main' = "off"
    /\ task' = IF task = "queued" THEN "cancelled" ELSE task
    /\ UNCHANGED <<ticking, stopping, worker, value, field, handle, releases, guest, license>>

\* The server thread is between events and runs the queued task.
RunsTask == main \in {"on", "off"} /\ ticking /\ task = "queued" /\ task' = "run"

\* finishOnServerThread after onDisable
FinishStopped ==
    /\ RunsTask /\ stopping
    /\ IF value THEN Close ELSE UNCHANGED <<handle, releases>>
    /\ UNCHANGED <<main, ticking, stopping, worker, value, field, guest, license>>

FinishDenied ==
    /\ RunsTask /\ ~stopping /\ ~value
    /\ main' = "stop"
    /\ UNCHANGED <<ticking, stopping, worker, value, field, handle, releases, guest, license>>

\* load: loadPlugin throws and the value is closed, or the fields are set.
Load ==
    /\ RunsTask /\ ~stopping /\ value
    /\ \/ main' = "failed" /\ Close /\ UNCHANGED <<field, guest>>
       \/ main' = "enable" /\ field' = TRUE /\ guest' = "loaded" /\ UNCHANGED <<handle, releases>>
    /\ UNCHANGED <<ticking, stopping, worker, value, license>>

\* enablePlugin, up to the protected plugin's onEnable.
EnableGuest ==
    /\ main = "enable" /\ guest = "loaded" /\ guest' = "enabled"
    /\ UNCHANGED <<main, ticking, stopping, worker, value, task, field, handle, releases, license>>

\* Mutant: the value is a resource of the try.
LoadReturnsCloses ==
    /\ main = "enable" /\ guest = "enabled" /\ main' = "on" /\ Close
    /\ UNCHANGED <<ticking, stopping, worker, value, task, field, guest, license>>

LoadReturns ==
    /\ main = "enable" /\ guest = "enabled" /\ main' = "on"
    /\ UNCHANGED <<ticking, stopping, worker, value, task, field, handle, releases, guest, license>>

\* enablePlugin throws, or the plugin is disabled again when it returns: the handler
\* closes the value ...
LoadFails ==
    /\ main = "enable" /\ guest \in {"loaded", "disabled"} /\ main' = "failed" /\ Close
    /\ UNCHANGED <<ticking, stopping, worker, value, task, field, guest, license>>

\* ... and the field, and denies.
CloseFailed ==
    /\ main = "failed" /\ main' = "stop" /\ CloseArtifact
    /\ UNCHANGED <<ticking, stopping, worker, value, task, guest, license>>

\* onPluginDisable: the protected plugin is about to be disabled, by itself in its
\* onEnable or later by someone else; it is still enabled.
OnPluginDisable ==
    /\ Enabled /\ guest = "enabled" /\ guest' = "disabling" /\ CloseArtifact
    /\ UNCHANGED <<main, ticking, stopping, worker, value, task, license>>

\* The host disables it after the event: its onDisable runs without the artifact.
GuestDisabled ==
    /\ Enabled /\ guest = "disabling" /\ guest' = "disabled"
    /\ UNCHANGED <<main, ticking, stopping, worker, value, task, field, handle, releases, license>>
-----------------------------------------------------------------------------
(* The license thread *)

Begin ==
    /\ worker = "queued" /\ worker' = "acquire"
    /\ UNCHANGED <<main, ticking, stopping, value, task, field, handle, releases, guest, license>>

\* Mutant: the license is wiped on the way that returns an artifact only.
AcquireWipesOnSuccess ==
    /\ worker = "acquire" /\ worker' = "complete"
    /\ \/ value' = TRUE /\ handle' = "open" /\ license' = "wiped" /\ UNCHANGED releases
       \/ handle' = "zero" /\ releases' = releases + 1 /\ UNCHANGED <<value, license>>
       \/ UNCHANGED <<value, handle, releases, license>>
    /\ UNCHANGED <<main, ticking, stopping, task, field, guest>>

\* acquire: an artifact; or a handle whose path cannot be had, released at once; or
\* no handle. The license is wiped in finally.
Acquire ==
    /\ worker = "acquire" /\ worker' = "complete" /\ license' = "wiped"
    /\ \/ value' = TRUE /\ handle' = "open" /\ UNCHANGED releases
       \/ handle' = "zero" /\ releases' = releases + 1 /\ UNCHANGED value
       \/ UNCHANGED <<value, handle, releases>>
    /\ UNCHANGED <<main, ticking, stopping, task, field, guest>>

\* Mutant: a stopping bootstrap drops the value.
CompleteDrops ==
    /\ worker = "complete" /\ worker' = IF stopping THEN "done" ELSE "schedule"
    /\ UNCHANGED <<main, ticking, stopping, value, task, field, handle, releases, guest, license>>

\* complete reads stopping ...
Complete ==
    /\ worker = "complete"
    /\ worker' = IF stopping THEN "done" ELSE "schedule"
    /\ IF stopping /\ value THEN Close ELSE UNCHANGED <<handle, releases>>
    /\ UNCHANGED <<main, ticking, stopping, value, task, field, guest, license>>

\* Mutant: only an artifact is worth a task.
ScheduleValue ==
    /\ worker = "schedule"
    /\ worker' = IF Enabled /\ value THEN "enqueue" ELSE "done"
    /\ IF ~Enabled /\ value THEN Close ELSE UNCHANGED <<handle, releases>>
    /\ UNCHANGED <<main, ticking, stopping, value, task, field, guest, license>>

\* ... runTask throws unless the bootstrap is enabled ...
Schedule ==
    /\ worker = "schedule"
    /\ worker' = IF Enabled THEN "enqueue" ELSE "done"
    /\ IF ~Enabled /\ value THEN Close ELSE UNCHANGED <<handle, releases>>
    /\ UNCHANGED <<main, ticking, stopping, value, task, field, guest, license>>

\* ... and queues the task.
Enqueue ==
    /\ worker = "enqueue" /\ worker' = "done" /\ task' = "queued"
    /\ UNCHANGED <<main, ticking, stopping, value, field, handle, releases, guest, license>>

OnDisable == SetStopping \/ ShutdownNow \/ DisableGuest \/ OnDisableCloses \/ CancelTasks

FinishOnServerThread ==
    \/ FinishStopped \/ FinishDenied \/ Load \/ EnableGuest \/ LoadReturns \/ LoadFails
    \/ CloseFailed

License == Begin \/ Acquire \/ Complete \/ Schedule \/ Enqueue

\* A server that is off, with nothing left to run, stays as it is.
Idle == main = "off" /\ worker \in {"none", "done", "dropped"} /\ UNCHANGED vars

Next ==
    \/ OnEnable \/ Disable \/ ServerStops \/ OnDisable \/ FinishOnServerThread \/ OnPluginDisable
    \/ GuestDisabled \/ License \/ Idle

\* The license thread runs and the acquire returns (AcquireReturns of Delivery);
\* a server thread that has begun onDisable finishes it, and a ticking server
\* runs its tasks.
Fairness == WF_vars(License) /\ WF_vars(OnDisable) /\ WF_vars(FinishOnServerThread)

Spec == Init /\ [][Next]_vars /\ Fairness
-----------------------------------------------------------------------------
(* Properties *)

\* The bootstrap is off and neither thread has anything left to run.
Settled ==
    /\ main = "off" /\ worker \in {"none", "done", "dropped"}
    /\ task = "queued" => ~ticking

\* The variables have their types; an open handle belongs to an artifact.
TypeOK ==
    /\ main \in {"new", "on", "enable", "failed", "off"} \cup Stopping
    /\ ticking \in BOOLEAN /\ stopping \in BOOLEAN /\ value \in BOOLEAN /\ field \in BOOLEAN
    /\ worker \in {"none", "queued", "acquire", "complete", "schedule", "enqueue", "done", "dropped"}
    /\ task \in {"none", "queued", "run", "cancelled"}
    /\ handle \in {"none", "open", "zero"} /\ releases \in Nat
    /\ guest \in {"none", "loaded", "enabled", "disabling", "disabled"}
    /\ license \in {"none", "clear", "wiped"}
    /\ handle = "open" \/ field => value

\* release0 frees the native handle at most once, although the value, the field,
\* onPluginDisable and onDisable of both threads all close it.
ReleasedOnce == releases <= 1

\* The protected plugin has its jar until its PluginDisableEvent, on every path of both
\* threads; the event comes before its onDisable, which only runs with the jar when the
\* bootstrap's own onDisable is what disables it. And the artifact does not outlive the
\* plugin, but for the moment in which onDisable has still to close it.
HeldWhileEnabled ==
    /\ guest = "enabled" => handle = "open"
    /\ guest \in {"disabling", "disabled"} /\ handle = "open" => main = "close"

\* Once the bootstrap is off and both threads are through, the artifact is released,
\* unless the host never ran the task that complete had handed it.
ReleasedUnlessUnrun == Settled /\ handle = "open" => task \in {"queued", "cancelled"}

\* CODE_REFERENCE: the bootstrap "releases the artifact on plugin/server shutdown".
ReleasedOnShutdown == Settled => handle # "open"

\* CODE_REFERENCE: "License arrays are wiped in `finally`." Once both threads are
\* through the array is wiped, unless shutdownNow dropped the acquire, and its
\* finally with it, before the license thread had begun it.
WipedUnlessDropped == Settled /\ license = "clear" => worker = "dropped"

\* An acquire that was handed to the license thread ends with the protected plugin
\* enabled or with the bootstrap off; it is never left waiting by a server that ticks.
AcquireSettles == worker = "queued" ~> (GuestEnabled \/ main = "off")
=============================================================================
