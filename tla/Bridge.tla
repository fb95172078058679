------------------------------- MODULE Bridge -------------------------------
(***************************************************************************)
(* A JVM that has loaded the bundled library (NativeInstall) and the       *)
(* threads in it that acquire an artifact through the JNI bridge,          *)
(* rymga_loader_jni.c, and run an application from it, as                  *)
(* ApplicationBootstrap does. The threads share curl_state of              *)
(* rymga_loader.c. What else rymga_loader_acquire does is Delivery and     *)
(* RuntimeDirectory.                                                       *)
(*                                                                         *)
(* A thread shares nothing with the other JVMs once its own has loaded the *)
(* library, so the model lets the calls begin when all JVMs are through.   *)
(***************************************************************************)
EXTENDS NativeInstall

CONSTANTS
    Threads,
    Host    \* the JVM they run in

ASSUME BridgeAssumption == Host \in Jvms

VARIABLES
    at,         \* where each thread is
    valid,      \* the arguments were converted
    pending,    \* an exception is pending in the thread
    memory,     \* what the call has allocated: "strings", "keys", "license"
    secret,     \* where the license can be read: "java" (the array), "native"
    handle,     \* the artifact: "none", "held" or "released"
    child,      \* the application: "none", "running", "killed" (destroyForcibly) or "dead"
    curl,       \* curl_state: 0 fresh, 1 in curl_global_init, 2 ready, 3 failed
    inits       \* how often curl_global_init was called

callVars == <<valid, pending, memory, secret>>
artifactVars == <<handle, child>>
curlVars == <<curl, inits>>
bridgeVars == <<at, callVars, artifactVars, curlVars>>
allVars == <<vars, bridgeVars>>

InCall == {"check", "convert", "keys", "license", "acquire", "curl", "init", "spin", "ready", "perform",
           "cleanup", "return", "path", "unwind"}
Launched == {"open", "waiting", "grace", "close"}

BridgeInit ==
    /\ Init
    /\ at = [t \in Threads |-> "idle"] /\ valid = [t \in Threads |-> TRUE]
    /\ pending = [t \in Threads |-> FALSE]
    /\ memory = [t \in Threads |-> {}] /\ secret = [t \in Threads |-> {}]
    /\ handle = [t \in Threads |-> "none"] /\ child = [t \in Threads |-> "none"]
    /\ curl = 0 /\ inits = 0

Step(t, from, to) == at[t] = from /\ at' = [at EXCEPT ![t] = to]
-----------------------------------------------------------------------------
(* acquire0 and acquireEmbedded0 *)

\* NativeLoader.acquire or acquireEmbedded: the library is loaded.
Call(t) ==
    /\ AllEnded /\ pc[Host] = "loaded" /\ Step(t, "idle", "check")
    /\ secret' = [secret EXCEPT ![t] = {"java"}]
    /\ UNCHANGED <<valid, pending, memory, artifactVars, curlVars>>

\* A missing argument, a wrong number of keys, or a library without embedded policy
CheckArguments(t) ==
    /\ \/ Step(t, "check", "convert") /\ UNCHANGED pending
       \/ Step(t, "check", "unwind") /\ pending' = [pending EXCEPT ![t] = TRUE]
    /\ UNCHANGED <<valid, memory, secret, artifactVars, curlVars>>

\* A conversion succeeds, refuses its input or finds no memory, or leaves an
\* exception of the JVM.
Converts(t) ==
    \/ UNCHANGED <<valid, pending>>
    \/ valid' = [valid EXCEPT ![t] = FALSE] /\ UNCHANGED pending
    \/ valid' = [valid EXCEPT ![t] = FALSE] /\ pending' = [pending EXCEPT ![t] = TRUE]

\* string_utf8 of every argument
ConvertStrings(t) ==
    /\ Step(t, "convert", "keys") /\ Converts(t)
    /\ memory' = [memory EXCEPT ![t] = @ \cup {"strings"}]
    /\ UNCHANGED <<secret, artifactVars, curlVars>>

\* The trusted keys, or the embedded key
ConvertKeys(t) ==
    /\ Step(t, "keys", "license") /\ Converts(t)
    /\ memory' = [memory EXCEPT ![t] = @ \cup {"keys"}]
    /\ UNCHANGED <<secret, artifactVars, curlVars>>

\* license_utf8, not called with an exception pending. One that is empty or too long
\* is left where it is; otherwise the array is wiped, and a buffer that is no UTF-8 or
\* too long with it.
ConvertLicense(t) ==
    /\ Step(t, "license", "acquire")
    /\ \/ UNCHANGED <<pending, memory, secret>>
       \/ /\ ~pending[t] /\ pending' = [pending EXCEPT ![t] = TRUE] /\ UNCHANGED <<memory, secret>>
       \/ /\ ~pending[t] /\ secret' = [secret EXCEPT ![t] = {}] /\ UNCHANGED <<pending, memory>>
       \/ /\ ~pending[t] /\ secret' = [secret EXCEPT ![t] = {"native"}]
          /\ memory' = [memory EXCEPT ![t] = @ \cup {"license"}] /\ UNCHANGED pending
    /\ UNCHANGED <<valid, artifactVars, curlVars>>

\* rymga_loader_acquire, if everything was converted, up to curl_ready
Enter(t) ==
    /\ \/ valid[t] /\ "license" \in memory[t] /\ Step(t, "acquire", "curl")
       \/ Step(t, "acquire", "cleanup")
    /\ UNCHANGED <<callVars, artifactVars, curlVars>>
-----------------------------------------------------------------------------
(* curl_ready *)

\* Mutant: the state is read and then written.
CompareExchangeLate(t) ==
    /\ IF curl \in {0, 1} THEN Step(t, "curl", "init") /\ curl' = 1
       ELSE Step(t, "curl", "spin") /\ UNCHANGED curl
    /\ UNCHANGED <<callVars, artifactVars, inits>>

CompareExchange(t) ==
    /\ IF curl = 0 THEN Step(t, "curl", "init") /\ curl' = 1
       ELSE Step(t, "curl", "spin") /\ UNCHANGED curl
    /\ UNCHANGED <<callVars, artifactVars, inits>>

\* Mutant: a failed initialization leaves the state as it is.
GlobalInitStuck(t) ==
    /\ Step(t, "init", "ready") /\ curl' \in {1, 2} /\ inits' = inits + 1
    /\ UNCHANGED <<callVars, artifactVars>>

\* curl_global_init and the store of its result
GlobalInit(t) ==
    /\ Step(t, "init", "ready") /\ curl' \in {2, 3} /\ inits' = inits + 1
    /\ UNCHANGED <<callVars, artifactVars>>

\* The loop ends when the state is no longer 1.
Spin(t) ==
    /\ curl # 1 /\ Step(t, "spin", "ready")
    /\ UNCHANGED <<callVars, artifactVars, curlVars>>

Ready(t) ==
    /\ Step(t, "ready", IF curl = 2 THEN "perform" ELSE "cleanup")
    /\ UNCHANGED <<callVars, artifactVars, curlVars>>

\* The rest of rymga_loader_acquire
Perform(t) ==
    /\ Step(t, "perform", "cleanup") /\ \E h \in {"none", "held"} : handle' = [handle EXCEPT ![t] = h]
    /\ UNCHANGED <<callVars, child, curlVars>>
-----------------------------------------------------------------------------
(* The way back *)

\* Mutant: the buffers are freed only after a success.
CleanupOnSuccess(t) ==
    /\ Step(t, "cleanup", "return")
    /\ memory' = [memory EXCEPT ![t] = IF handle[t] = "held" THEN {} ELSE @]
    /\ secret' = [secret EXCEPT ![t] = @ \ {"native"}]
    /\ UNCHANGED <<valid, pending, artifactVars, curlVars>>

Cleanup(t) ==
    /\ Step(t, "cleanup", "return")
    /\ memory' = [memory EXCEPT ![t] = {}] /\ secret' = [secret EXCEPT ![t] = @ \ {"native"}]
    /\ UNCHANGED <<valid, pending, artifactVars, curlVars>>

\* throw_io, unless an exception is pending, and 0; or the handle
Return(t) ==
    /\ IF handle[t] = "held" THEN Step(t, "return", "path") /\ UNCHANGED pending
       ELSE Step(t, "return", "unwind") /\ pending' = [pending EXCEPT ![t] = TRUE]
    /\ UNCHANGED <<valid, memory, secret, artifactVars, curlVars>>

\* NativeLoader.artifact: path0 gives a path, or null or an exception, and then the
\* handle is released. The finally block of acquire follows.
Path(t) ==
    /\ \/ /\ Step(t, "path", "open") /\ secret' = [secret EXCEPT ![t] = {}]
          /\ UNCHANGED <<pending, handle>>
       \/ /\ Step(t, "path", "unwind") /\ pending' = [pending EXCEPT ![t] = TRUE]
          /\ handle' = [handle EXCEPT ![t] = "released"] /\ UNCHANGED secret
    /\ UNCHANGED <<valid, memory, child, curlVars>>

\* The finally block of acquire, with an exception
Unwind(t) ==
    /\ Step(t, "unwind", "done") /\ secret' = [secret EXCEPT ![t] = {}]
    /\ UNCHANGED <<valid, pending, memory, artifactVars, curlVars>>
-----------------------------------------------------------------------------
(* ApplicationBootstrap.launch *)

Start(t) ==
    /\ \/ Step(t, "open", "waiting") /\ child' = [child EXCEPT ![t] = "running"]
       \/ Step(t, "open", "close") /\ UNCHANGED child
    /\ UNCHANGED <<callVars, handle, curlVars>>

WaitFor(t) ==
    /\ child[t] = "dead" /\ Step(t, "waiting", "close")
    /\ UNCHANGED <<callVars, artifactVars, curlVars>>

\* destroy; the application may take its time.
Interrupt(t) ==
    /\ Step(t, "waiting", "grace")
    /\ UNCHANGED <<callVars, artifactVars, curlVars>>

\* Mutant: the process is left to end by itself.
GraceLeaves(t) ==
    /\ Step(t, "grace", "close")
    /\ UNCHANGED <<callVars, artifactVars, curlVars>>

\* It ends within five seconds, or it is killed; also when the wait is interrupted.
Grace(t) ==
    /\ Step(t, "grace", "close")
    /\ child' = [child EXCEPT ![t] = IF @ = "dead" THEN "dead" ELSE "killed"]
    /\ UNCHANGED <<callVars, handle, curlVars>>

\* NativeArtifact.close at the end of try
Close(t) ==
    /\ Step(t, "close", "done") /\ handle' = [handle EXCEPT ![t] = "released"]
    /\ UNCHANGED <<callVars, child, curlVars>>

ApplicationEnds(t) ==
    /\ child[t] \in {"running", "killed"} /\ child' = [child EXCEPT ![t] = "dead"]
    /\ UNCHANGED <<at, callVars, handle, curlVars>>
-----------------------------------------------------------------------------
Convert(t) == CheckArguments(t) \/ ConvertStrings(t) \/ ConvertKeys(t) \/ ConvertLicense(t)
CurlReady(t) == CompareExchange(t) \/ GlobalInit(t) \/ Spin(t) \/ Ready(t)
Leave(t) == Cleanup(t) \/ Return(t) \/ Path(t) \/ Unwind(t)
Native(t) == Convert(t) \/ Enter(t) \/ CurlReady(t) \/ Perform(t) \/ Leave(t)
Launch(t) == Start(t) \/ WaitFor(t) \/ Interrupt(t) \/ Grace(t) \/ Close(t)

ThreadSteps == \E t \in Threads : Call(t) \/ Native(t) \/ Launch(t) \/ ApplicationEnds(t)

BridgeNext == (Next /\ UNCHANGED bridgeVars) \/ (ThreadSteps /\ UNCHANGED vars)

\* The system runs every thread that can go on.
BridgeSpec == BridgeInit /\ [][BridgeNext]_allVars /\ \A t \in Threads : WF_allVars(Native(t) /\ UNCHANGED vars)
-----------------------------------------------------------------------------
(* Properties *)

\* The variables have their types; a thread has a child only while it has an artifact
\* to show for it, or is done.
BridgeTypeOK ==
    /\ TypeOK
    /\ at \in [Threads -> {"idle", "done"} \cup InCall \cup Launched]
    /\ valid \in [Threads -> BOOLEAN] /\ pending \in [Threads -> BOOLEAN]
    /\ memory \in [Threads -> SUBSET {"strings", "keys", "license"}]
    /\ secret \in [Threads -> SUBSET {"java", "native"}]
    /\ handle \in [Threads -> {"none", "held", "released"}]
    /\ child \in [Threads -> {"none", "running", "killed", "dead"}]
    /\ curl \in 0..3 /\ inits \in 0..1
    /\ \A t \in Threads : child[t] # "none" => handle[t] # "none" /\ at[t] \in Launched \cup {"done"}

\* Whichever step of acquire0 or acquireEmbedded0 fails, the call leaves nothing: the
\* buffers are freed, the license can be read neither in the array nor in the buffer,
\* and there is an artifact if and only if there is no exception. Java never sees a
\* handle that is 0.
CallsLeaveNothing ==
    \A t \in Threads :
        /\ at[t] = "path" => handle[t] = "held"
        /\ at[t] \in Launched \cup {"done"} => memory[t] = {} /\ secret[t] = {}
        /\ at[t] \in Launched => handle[t] = "held" /\ ~pending[t]
        /\ at[t] = "done" => handle[t] # "held" /\ (pending[t] \/ handle[t] = "released")

\* curl_ready: curl_global_init is called once, nobody uses curl before it has
\* returned, and after a failure nobody does.
CurlInitializedOnce ==
    /\ inits <= 1
    /\ \A t \in Threads : at[t] = "perform" => curl = 2 /\ inits = 1
    /\ \A t, u \in Threads : at[t] = "init" /\ at[u] \in {"init", "ready", "perform"} => t = u

\* The jar is there while the application runs; only one that had to be killed may
\* outlast it, because launch does not wait for the end of the kill.
ApplicationHasJar == \A t \in Threads : child[t] = "running" => handle[t] = "held"

\* Every call returns, also of the threads that wait in curl_ready for another one.
CallsReturn == \A t \in Threads : at[t] \in InCall ~> at[t] \notin InCall
=============================================================================
