------------------------ MODULE PaperBootstrapProofs ------------------------
(***************************************************************************)
(* The safety properties of PaperBootstrap, for behaviours of any length.  *)
(* The four of them are about who still answers for the artifact; none is  *)
(* inductive alone, because a step of one thread relies on where the other *)
(* thread has left the artifact.  Custody says that for every place.       *)
(***************************************************************************)
EXTENDS PaperBootstrap, TLAPS

\* The license thread has the result of the acquire and nobody else has it.
WorkerHolds == worker \in {"complete", "schedule", "enqueue"}

\* The result is in a task that did not run.
TaskHolds == task \in {"queued", "cancelled"}

\* The steps of onDisable that come after it has set stopping.
AfterStopping == {"shutdown", "unload", "close", "cancel", "off"}

\* Exactly one of the license thread, the task and the field answers for an open
\* handle; a value that was not handed on yet is open; the field and the protected
\* plugin exist only once the task has run, and not after onDisable has closed them; the
\* field is given up with the event that announces the end of the protected plugin.
Custody ==
    /\ handle = "open" => WorkerHolds \/ TaskHolds \/ field
    /\ value /\ (WorkerHolds \/ TaskHolds) => handle = "open"
    /\ worker # "done" => task = "none"
    /\ worker \in {"none", "queued", "acquire", "dropped"} => handle = "none" /\ ~value
    /\ field \/ guest # "none" => task = "run"
    /\ main \in {"cancel", "off"} => ~field
    /\ guest = "enabled" \/ (guest = "loaded" /\ main = "enable") => field /\ handle = "open"
    /\ guest \in {"disabling", "disabled"} => ~field \/ main = "close"
    /\ GuestEnabled => main \in {"on", "enable", "stop", "shutdown", "unload"}

\* How often the handle was released is what the handle says.
Released ==
    releases = IF handle = "zero" THEN 1 ELSE 0

\* Where the server thread is, in step with stopping and with the license.
Places ==
    /\ stopping <=> main \in AfterStopping
    /\ main = "new" => worker = "none"
    /\ main = "failed" => task = "run" /\ handle = "zero"
    /\ main = "enable" => task = "run" /\ handle # "none"
    /\ license = "clear" <=> worker \in {"queued", "acquire", "dropped"}
    /\ worker = "dropped" => stopping

IInv == TypeOK /\ Custody /\ Released /\ Places

\* The steps of onDisable, and the cancellation of the tasks after it, keep IInv.
LEMMA OnDisableKeeps == IInv /\ OnDisable => IInv'
  <1> SUFFICES ASSUME IInv, OnDisable PROVE IInv'
    OBVIOUS
  <1> USE DEF IInv, TypeOK, Custody, Released, Places, WorkerHolds, TaskHolds, AfterStopping, Stopping, GuestEnabled
  <1>1. CASE SetStopping
    BY <1>1 DEF SetStopping
  <1>2. CASE ShutdownNow
    BY <1>2 DEF ShutdownNow
  <1>3. CASE DisableGuest
    BY <1>3 DEF DisableGuest
  <1>4. CASE OnDisableCloses
    <2>1. ~field' /\ field' \in BOOLEAN
      BY <1>4, Zenon DEF OnDisableCloses, CloseArtifact
    <2> QED
      BY <1>4, <2>1 DEF OnDisableCloses, CloseArtifact, Close
  <1>5. CASE CancelTasks
    BY <1>5 DEF CancelTasks
  <1> QED
    BY <1>1, <1>2, <1>3, <1>4, <1>5 DEF OnDisable

\* finishOnServerThread keeps IInv on each of its ways.
LEMMA FinishKeeps == IInv /\ FinishOnServerThread => IInv'
  <1> SUFFICES ASSUME IInv, FinishOnServerThread PROVE IInv'
    OBVIOUS
  <1> USE DEF IInv, TypeOK, Custody, Released, Places, WorkerHolds, TaskHolds, AfterStopping, Stopping, GuestEnabled
  <1>1. CASE FinishStopped
    BY <1>1 DEF FinishStopped, RunsTask, Close
  <1>2. CASE FinishDenied
    BY <1>2 DEF FinishDenied, RunsTask
  <1>3. CASE Load
    <2>1. CASE main' = "failed" /\ Close /\ UNCHANGED <<field, guest>>
      BY <1>3, <2>1 DEF Load, RunsTask, Close
    <2>2. CASE main' = "enable" /\ field' = TRUE /\ guest' = "loaded" /\ UNCHANGED <<handle, releases>>
      BY <1>3, <2>2 DEF Load, RunsTask
    <2> QED
      BY <1>3, <2>1, <2>2 DEF Load
  <1>4. CASE EnableGuest
    BY <1>4 DEF EnableGuest
  <1>5. CASE LoadReturns
    BY <1>5 DEF LoadReturns
  <1>6. CASE LoadFails
    BY <1>6 DEF LoadFails, Close
  <1>7. CASE CloseFailed
    BY <1>7 DEF CloseFailed, CloseArtifact, Close
  <1> QED
    BY <1>1, <1>2, <1>3, <1>4, <1>5, <1>6, <1>7, Zenon DEF FinishOnServerThread

\* The license thread keeps IInv.
LEMMA LicenseKeeps == IInv /\ License => IInv'
  <1> SUFFICES ASSUME IInv, License PROVE IInv'
    OBVIOUS
  <1> USE DEF IInv, TypeOK, Custody, Released, Places, WorkerHolds, TaskHolds, AfterStopping, Stopping, GuestEnabled
  <1>1. CASE Begin
    BY <1>1 DEF Begin
  <1>2. CASE Acquire
    <2>1. CASE value' = TRUE /\ handle' = "open" /\ UNCHANGED releases
      BY <1>2, <2>1 DEF Acquire
    <2>2. CASE handle' = "zero" /\ releases' = releases + 1 /\ UNCHANGED value
      BY <1>2, <2>2 DEF Acquire
    <2>3. CASE UNCHANGED <<value, handle, releases>>
      BY <1>2, <2>3 DEF Acquire
    <2> QED
      BY <1>2, <2>1, <2>2, <2>3 DEF Acquire
  <1>3. CASE Complete
    BY <1>3 DEF Complete, Close
  <1>4. CASE Schedule
    BY <1>4 DEF Schedule, Enabled, Close
  <1>5. CASE Enqueue
    BY <1>5 DEF Enqueue
  <1> QED
    BY <1>1, <1>2, <1>3, <1>4, <1>5 DEF License

\* The server's other events keep IInv: the bootstrap is enabled or disabled, the
\* server stops, the protected plugin is disabled by someone else.
LEMMA ServerKeeps ==
    IInv /\ (OnEnable \/ Disable \/ ServerStops \/ OnPluginDisable \/ GuestDisabled) => IInv'
  <1> SUFFICES ASSUME IInv, OnEnable \/ Disable \/ ServerStops \/ OnPluginDisable \/ GuestDisabled
               PROVE  IInv'
    OBVIOUS
  <1> USE DEF IInv, TypeOK, Custody, Released, Places, WorkerHolds, TaskHolds, AfterStopping, Stopping, GuestEnabled
  <1>1. CASE OnEnable
    BY <1>1 DEF OnEnable
  <1>2. CASE Disable
    BY <1>2 DEF Disable, Enabled
  <1>3. CASE ServerStops
    BY <1>3 DEF ServerStops
  <1>4. CASE OnPluginDisable
    <2>1. ~field' /\ field' \in BOOLEAN
      BY <1>4, Zenon DEF OnPluginDisable, CloseArtifact
    <2> QED
      BY <1>4, <2>1 DEF OnPluginDisable, Enabled, CloseArtifact, Close
  <1>5. CASE GuestDisabled
    BY <1>5 DEF GuestDisabled, Enabled
  <1> QED
    BY <1>1, <1>2, <1>3, <1>4, <1>5

\* Custody, and with it all of IInv, is inductive: it holds when the plugin is made
\* and every step of either thread keeps it.
THEOREM Invariance == Spec => []IInv
  <1>1. Init => IInv
    <2>1. Init => ~value /\ ~field /\ ~stopping
      BY Zenon DEF Init
    <2>2. Init => /\ ticking \in BOOLEAN /\ stopping \in BOOLEAN
                  /\ value \in BOOLEAN /\ field \in BOOLEAN
      BY Zenon DEF Init
    <2>3. Init => TypeOK
      BY <2>1, <2>2 DEF Init, TypeOK, Stopping
    <2>4. Init => Custody /\ Released /\ Places
      BY <2>1 DEF Init, Custody, Released, Places, WorkerHolds, TaskHolds, AfterStopping, GuestEnabled
    <2> QED
      BY <2>3, <2>4 DEF IInv
  <1>2. IInv /\ [Next]_vars => IInv'
    <2> SUFFICES ASSUME IInv, [Next]_vars PROVE IInv'
      OBVIOUS
    <2>1. CASE UNCHANGED vars
      BY <2>1 DEF vars, IInv, TypeOK, Custody, Released, Places, WorkerHolds, TaskHolds, AfterStopping, Stopping, GuestEnabled
    <2>2. CASE Next
      BY <2>1, <2>2, OnDisableKeeps, FinishKeeps, LicenseKeeps, ServerKeeps DEF Next, Idle
    <2> QED
      BY <2>1, <2>2
  <1> QED
    BY <1>1, <1>2, PTL DEF Spec

\* release0 frees the handle at most once: Released counts the releases by the
\* handle, and close zeroes the handle in the step that releases it.
THEOREM ReleasesOnce == Spec => []ReleasedOnce
  <1>1. IInv => ReleasedOnce
    BY DEF IInv, Released, ReleasedOnce
  <1> QED
    BY <1>1, Invariance, PTL

\* No path of either thread closes the artifact of a protected plugin before the event
\* that announces its end, and none but onDisable holds it after that.
THEOREM HeldWithPlugin == Spec => []HeldWhileEnabled
  <1>1. IInv => HeldWhileEnabled
    BY DEF IInv, Custody, WorkerHolds, TaskHolds, HeldWhileEnabled
  <1> QED
    BY <1>1, Invariance, PTL

\* Once the bootstrap is off and both threads are through, an artifact that is still
\* held is in a task the host did not run: neither the license thread nor the field
\* has it any more.
THEOREM ReleasedUnlessTaskUnrun == Spec => []ReleasedUnlessUnrun
  <1>1. IInv => ReleasedUnlessUnrun
    BY DEF IInv, Custody, WorkerHolds, TaskHolds, ReleasedUnlessUnrun, Settled
  <1> QED
    BY <1>1, Invariance, PTL

\* The license array is clear only while the acquire waits or runs, or was dropped.
THEOREM LicenseIsWiped == Spec => []WipedUnlessDropped
  <1>1. IInv => WipedUnlessDropped
    BY DEF IInv, Places, WipedUnlessDropped, Settled
  <1> QED
    BY <1>1, Invariance, PTL
=============================================================================
