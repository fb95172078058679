---------------------------- MODULE BridgeProofs ----------------------------
(***************************************************************************)
(* The properties of NativeInstall for every number of JVMs, and those of  *)
(* Bridge for every number of threads.                                     *)
(***************************************************************************)
EXTENDS Bridge, TLAPS
-----------------------------------------------------------------------------
(* The invariant of the installation *)

\* p has deleted the file it found at the path, or taken over another JVM's.
Past == {"create", "write", "move", "exists", "private", "verify", "return", "load"}

\* p is going to put its library at the path, or to find one there.
Installing(p) ==
    \/ pc[p] \in {"check", "delete", "create", "write", "move"}
    \/ pc[p] = "hash" /\ target # "none"

\* p is going to load the library that is at the path.
Loading(p) == target = "good" /\ pc[p] \in {"exists", "private", "verify", "return", "load"}

\* Once a JVM has deleted an altered file, no JVM puts one there again. As long as
\* nothing fails, whoever deletes the library of another installs its own, so there is
\* always somebody to do it, and somebody to load it.
InstallInv ==
    /\ TypeOK
    /\ \A p \in Jvms :
        /\ pc[p] \in {"check", "hash", "delete", "create"} => part[p] = "none"
        /\ pc[p] \in Past => target # "bad"
        /\ pc[p] = "move" => part[p] = "good"
        /\ loaded[p] # "bad"
    /\ (\A p \in Jvms : ~faulty[p]) =>
        /\ target # "good" => \E p \in Jvms : Installing(p)
        /\ \E p \in Jvms : Installing(p) \/ Loading(p) \/ pc[p] = "loaded"
-----------------------------------------------------------------------------
(* The invariant of the calls *)

\* Each thread, wherever it is in acquire0, curl_ready or launch
CallInv(t) ==
    /\ at[t] \in {"idle", "check", "return", "path", "unwind", "done"} \cup Launched => memory[t] = {}
    /\ at[t] \in {"convert", "keys", "license"} => "license" \notin memory[t]
    /\ at[t] \in {"idle", "done"} \cup Launched => secret[t] = {}
    /\ at[t] \in {"idle", "check", "convert"} => ~pending[t]
    /\ at[t] \in {"keys", "license"} => (valid[t] => ~pending[t])
    /\ at[t] = "acquire" => (valid[t] /\ "license" \in memory[t] => ~pending[t])
    /\ at[t] \in {"curl", "init", "spin", "ready", "perform"} => ~pending[t]
    /\ at[t] \in {"cleanup", "return"} => (handle[t] = "held" => ~pending[t])
    /\ at[t] = "unwind" => pending[t]
    /\ handle[t] = "held" => at[t] \in {"cleanup", "return", "path"} \cup Launched
    /\ handle[t] = "released" => at[t] \in {"unwind", "done"}
    /\ at[t] \in {"path"} \cup Launched => handle[t] = "held"
    /\ at[t] \in {"path"} \cup Launched => ~pending[t]
    /\ at[t] = "done" => (pending[t] \/ handle[t] = "released")
    /\ child[t] # "none" => (handle[t] # "none" /\ at[t] \in {"waiting", "grace", "close", "done"})
    /\ child[t] = "running" => at[t] \in {"waiting", "grace"}

\* curl_state is 1 while a thread is in curl_global_init, and nobody gets past
\* curl_ready before it is 2 or 3.
CurlInv ==
    /\ curl \in {0, 1} => inits = 0
    /\ curl \in {2, 3} => inits = 1
    /\ \A t \in Threads : at[t] = "init" => curl = 1
    /\ \A t \in Threads : at[t] = "spin" => curl # 0
    /\ \A t \in Threads : at[t] = "ready" => curl \in {2, 3}
    /\ \A t \in Threads : at[t] = "perform" => curl = 2
    /\ \A t, u \in Threads : at[t] = "init" /\ at[u] = "init" => t = u

BridgeInv == BridgeTypeOK /\ CurlInv /\ \A t \in Threads : CallInv(t)
-----------------------------------------------------------------------------
(* The proofs for the installation *)

\* A step of p changes only p's own entries, and the file at the path only by deleting it
\* or by moving p's own library there.
LEMMA InstallKeepsTypes == ASSUME InstallInv, NEW p \in Jvms, Install(p) \/ Load(p) \/ Crash(p) PROVE TypeOK'
  <1> USE DEF InstallInv, TypeOK, Goto, Fault, Ended, Contents
  <1>1. CASE Check(p)
    BY <1>1 DEF Check
  <1>2. CASE Hash(p)
    BY <1>2 DEF Hash
  <1>3. CASE Delete(p)
    BY <1>3 DEF Delete
  <1>4. CASE CreateTempFile(p)
    BY <1>4 DEF CreateTempFile
  <1>5. CASE Write(p)
    BY <1>5 DEF Write
  <1>6. CASE Move(p)
    <2>1. CASE Fault(p, "throw")
      BY <1>6, <2>1 DEF Move
    <2>2. CASE ~Fault(p, "throw")
      BY <1>6, <2>2 DEF Move
    <2> QED
      BY <2>1, <2>2
  <1>7. CASE Exists(p)
    BY <1>7 DEF Exists
  <1>8. CASE PrivateFile(p)
    BY <1>8 DEF PrivateFile
  <1>9. CASE Verify(p)
    BY <1>9 DEF Verify
  <1>10. CASE Finally(p)
    BY <1>10 DEF Finally
  <1>11. CASE Load(p)
    <2>1. CASE Fault(p, "failed")
      BY <1>11, <2>1 DEF Load
    <2>2. CASE ~Fault(p, "failed")
      BY <1>11, <2>2 DEF Load
    <2> QED
      BY <2>1, <2>2
  <1>12. CASE Crash(p)
    BY <1>12 DEF Crash
  <1> QED
    BY <1>1, <1>2, <1>3, <1>4, <1>5, <1>6, <1>7, <1>8, <1>9, <1>10, <1>11, <1>12 DEF Install, Matches

LEMMA InstallKeepsFiles ==
  ASSUME InstallInv, NEW p \in Jvms, Install(p) \/ Load(p) \/ Crash(p), NEW q \in Jvms
  PROVE  (/\ pc[q] \in {"check", "hash", "delete", "create"} => part[q] = "none"
          /\ pc[q] \in Past => target # "bad"
          /\ pc[q] = "move" => part[q] = "good"
          /\ loaded[q] # "bad")'
  <1> USE DEF InstallInv, TypeOK, Goto, Fault, Ended, Contents, Past
  <1>1. CASE Check(p)
    BY <1>1 DEF Check
  <1>2. CASE Hash(p)
    BY <1>2 DEF Hash
  <1>3. CASE Delete(p)
    BY <1>3 DEF Delete
  <1>4. CASE CreateTempFile(p)
    BY <1>4 DEF CreateTempFile
  <1>5. CASE Write(p)
    BY <1>5 DEF Write
  <1>6. CASE Move(p)
    BY <1>6 DEF Move
  <1>7. CASE Exists(p)
    BY <1>7 DEF Exists
  <1>8. CASE PrivateFile(p)
    BY <1>8 DEF PrivateFile
  <1>9. CASE Verify(p)
    BY <1>9 DEF Verify
  <1>10. CASE Finally(p)
    BY <1>10 DEF Finally
  <1>11. CASE Load(p)
    BY <1>11 DEF Load
  <1>12. CASE Crash(p)
    BY <1>12 DEF Crash
  <1> QED
    BY <1>1, <1>2, <1>3, <1>4, <1>5, <1>6, <1>7, <1>8, <1>9, <1>10, <1>11, <1>12 DEF Install, Matches

\* What a step of p does to the JVM that is to install or to load the library: another
\* one goes on being it, unless p deletes the file at the path; then p is the one.
LEMMA InstallKeepsHope ==
  ASSUME InstallInv, NEW p \in Jvms, Install(p) \/ Load(p) \/ Crash(p), \A q \in Jvms : ~faulty'[q]
  PROVE  /\ target' # "good" => \E q \in Jvms : Installing(q)'
         /\ \E q \in Jvms : (Installing(q) \/ Loading(q) \/ pc[q] = "loaded")'
  <1> USE DEF InstallInv, TypeOK, Goto, Contents, Past, Installing, Loading
  <1>0. \A q \in Jvms : ~faulty[q]
    BY DEF Install, Matches, Check, Hash, Delete, CreateTempFile, Write, Move, Exists, PrivateFile, Verify, Finally, Load, Crash, Fault
  <1>a. PICK q \in Jvms : Installing(q) \/ Loading(q) \/ pc[q] = "loaded"
    BY <1>0
  <1>b. target # "good" => \E r \in Jvms : Installing(r)
    BY <1>0
  <1>1. CASE Check(p)
    BY <1>1, <1>0, <1>a, <1>b DEF Check, Fault
  <1>2. CASE Hash(p)
    BY <1>2, <1>0, <1>a, <1>b DEF Hash, Fault
  <1>3. CASE Delete(p)
    BY <1>3, <1>0, <1>a, <1>b DEF Delete, Fault
  <1>4. CASE CreateTempFile(p)
    BY <1>4, <1>0, <1>a, <1>b DEF CreateTempFile, Fault
  <1>5. CASE Write(p)
    BY <1>5, <1>0, <1>a, <1>b DEF Write, Fault
  <1>6. CASE Move(p)
    BY <1>6, <1>0, <1>a, <1>b DEF Move, Fault
  <1>7. CASE Exists(p)
    BY <1>7, <1>0, <1>a, <1>b DEF Exists, Fault
  <1>8. CASE PrivateFile(p)
    BY <1>8, <1>0, <1>a, <1>b DEF PrivateFile, Fault
  <1>9. CASE Verify(p)
    BY <1>9, <1>0, <1>a, <1>b DEF Verify, Fault
  <1>10. CASE Finally(p)
    BY <1>10, <1>0, <1>a, <1>b DEF Finally, Fault
  <1>11. CASE Load(p)
    BY <1>11, <1>0, <1>a, <1>b DEF Load, Fault
  <1>12. CASE Crash(p)
    BY <1>12, <1>0, <1>a, <1>b DEF Crash, Fault
  <1> QED
    BY <1>1, <1>2, <1>3, <1>4, <1>5, <1>6, <1>7, <1>8, <1>9, <1>10, <1>11, <1>12 DEF Install, Matches

\* A step of one JVM keeps the invariant of all.
LEMMA InstallInductive == InstallInv /\ [Next]_vars => InstallInv'
  <1> SUFFICES ASSUME InstallInv, [Next]_vars PROVE InstallInv'
    OBVIOUS
  <1>1. CASE \E p \in Jvms : Install(p) \/ Load(p) \/ Crash(p)
    <2>1. PICK p \in Jvms : Install(p) \/ Load(p) \/ Crash(p)
      BY <1>1
    <2>2. TypeOK'
      BY <2>1, InstallKeepsTypes
    <2> QED
      BY <2>1, <2>2, InstallKeepsFiles, InstallKeepsHope DEF InstallInv
  <1>2. CASE UNCHANGED vars
    BY <1>2 DEF vars, InstallInv, TypeOK, Installing, Loading
  <1> QED
    BY <1>1, <1>2 DEF Next
-----------------------------------------------------------------------------
(* The proofs for the calls *)

ThreadStep(t) == Call(t) \/ Native(t) \/ Launch(t) \/ ApplicationEnds(t)

\* A step of t leaves the entries of the other threads alone.
LEMMA OthersStay ==
  ASSUME BridgeInv, NEW t \in Threads, ThreadStep(t), NEW u \in Threads, u # t
  PROVE  /\ at'[u] = at[u] /\ valid'[u] = valid[u] /\ pending'[u] = pending[u] /\ memory'[u] = memory[u]
         /\ secret'[u] = secret[u] /\ handle'[u] = handle[u] /\ child'[u] = child[u]
  <1> USE DEF BridgeInv, BridgeTypeOK, Step, callVars, artifactVars, curlVars
  <1>1. CASE Call(t)
    BY <1>1 DEF Call
  <1>2. CASE CheckArguments(t)
    BY <1>2 DEF CheckArguments
  <1>3. CASE ConvertStrings(t)
    BY <1>3 DEF ConvertStrings, Converts
  <1>4. CASE ConvertKeys(t)
    BY <1>4 DEF ConvertKeys, Converts
  <1>5. CASE ConvertLicense(t)
    BY <1>5 DEF ConvertLicense
  <1>6. CASE Enter(t)
    BY <1>6 DEF Enter
  <1>7. CASE CompareExchange(t)
    BY <1>7 DEF CompareExchange
  <1>8. CASE GlobalInit(t)
    BY <1>8 DEF GlobalInit
  <1>9. CASE Spin(t)
    BY <1>9 DEF Spin
  <1>10. CASE Ready(t)
    BY <1>10 DEF Ready
  <1>11. CASE Perform(t)
    BY <1>11 DEF Perform
  <1>12. CASE Cleanup(t)
    BY <1>12 DEF Cleanup
  <1>13. CASE Return(t)
    BY <1>13 DEF Return
  <1>14. CASE Path(t)
    BY <1>14 DEF Path
  <1>15. CASE Unwind(t)
    BY <1>15 DEF Unwind
  <1>16. CASE Start(t)
    BY <1>16 DEF Start
  <1>17. CASE WaitFor(t)
    BY <1>17 DEF WaitFor
  <1>18. CASE Interrupt(t)
    BY <1>18 DEF Interrupt
  <1>19. CASE Grace(t)
    BY <1>19 DEF Grace
  <1>20. CASE Close(t)
    BY <1>20 DEF Close
  <1>21. CASE ApplicationEnds(t)
    BY <1>21 DEF ApplicationEnds
  <1> QED
    BY <1>1, <1>2, <1>3, <1>4, <1>5, <1>6, <1>7, <1>8, <1>9, <1>10, <1>11,
       <1>12, <1>13, <1>14, <1>15, <1>16, <1>17, <1>18, <1>19, <1>20, <1>21
       DEF ThreadStep, Convert, CurlReady, Leave, Native, Launch

\* The variables of the calls keep their types.
LEMMA CallTypes ==
  ASSUME BridgeInv, NEW t \in Threads, ThreadStep(t)
  PROVE  /\ at' \in [Threads -> {"idle", "done"} \cup InCall \cup Launched]
         /\ valid' \in [Threads -> BOOLEAN] /\ pending' \in [Threads -> BOOLEAN]
         /\ memory' \in [Threads -> SUBSET {"strings", "keys", "license"}]
         /\ secret' \in [Threads -> SUBSET {"java", "native"}]
         /\ handle' \in [Threads -> {"none", "held", "released"}]
         /\ child' \in [Threads -> {"none", "running", "killed", "dead"}]
  <1> USE DEF BridgeInv, BridgeTypeOK, Step, callVars, artifactVars, curlVars, InCall, Launched
  <1>1. CASE Call(t)
    BY <1>1 DEF Call
  <1>2. CASE CheckArguments(t)
    BY <1>2 DEF CheckArguments
  <1>3. CASE ConvertStrings(t)
    BY <1>3 DEF ConvertStrings, Converts
  <1>4. CASE ConvertKeys(t)
    BY <1>4 DEF ConvertKeys, Converts
  <1>5. CASE ConvertLicense(t)
    <2>1. at' \in [Threads -> {"idle", "done"} \cup InCall \cup Launched]
      BY <1>5 DEF ConvertLicense
    <2>2. pending' \in [Threads -> BOOLEAN]
      BY <1>5 DEF ConvertLicense
    <2>3. memory' \in [Threads -> SUBSET {"strings", "keys", "license"}]
      BY <1>5 DEF ConvertLicense
    <2>4. secret' \in [Threads -> SUBSET {"java", "native"}]
      BY <1>5 DEF ConvertLicense
    <2> QED
      BY <1>5, <2>1, <2>2, <2>3, <2>4 DEF ConvertLicense
  <1>6. CASE Enter(t)
    BY <1>6 DEF Enter
  <1>7. CASE CompareExchange(t)
    BY <1>7 DEF CompareExchange
  <1>8. CASE GlobalInit(t)
    BY <1>8 DEF GlobalInit
  <1>9. CASE Spin(t)
    BY <1>9 DEF Spin
  <1>10. CASE Ready(t)
    BY <1>10 DEF Ready
  <1>11. CASE Perform(t)
    BY <1>11 DEF Perform
  <1>12. CASE Cleanup(t)
    BY <1>12 DEF Cleanup
  <1>13. CASE Return(t)
    BY <1>13 DEF Return
  <1>14. CASE Path(t)
    BY <1>14 DEF Path
  <1>15. CASE Unwind(t)
    BY <1>15 DEF Unwind
  <1>16. CASE Start(t)
    BY <1>16 DEF Start
  <1>17. CASE WaitFor(t)
    BY <1>17 DEF WaitFor
  <1>18. CASE Interrupt(t)
    BY <1>18 DEF Interrupt
  <1>19. CASE Grace(t)
    BY <1>19 DEF Grace
  <1>20. CASE Close(t)
    BY <1>20 DEF Close
  <1>21. CASE ApplicationEnds(t)
    BY <1>21 DEF ApplicationEnds
  <1> QED
    BY <1>1, <1>2, <1>3, <1>4, <1>5, <1>6, <1>7, <1>8, <1>9, <1>10, <1>11,
       <1>12, <1>13, <1>14, <1>15, <1>16, <1>17, <1>18, <1>19, <1>20, <1>21
       DEF ThreadStep, Convert, CurlReady, Leave, Native, Launch

\* Wherever t goes, it keeps what the way back relies on.
LEMMA CallKeeps ==
  ASSUME BridgeInv, NEW t \in Threads, ThreadStep(t)
  PROVE  CallInv(t)'
  <1> USE DEF BridgeInv, BridgeTypeOK, CallInv, Step, callVars, artifactVars, curlVars, InCall, Launched
  <1>1. CASE Call(t)
    BY <1>1 DEF Call
  <1>2. CASE CheckArguments(t)
    BY <1>2 DEF CheckArguments
  <1>3. CASE ConvertStrings(t)
    BY <1>3 DEF ConvertStrings, Converts
  <1>4. CASE ConvertKeys(t)
    BY <1>4 DEF ConvertKeys, Converts
  <1>5. CASE ConvertLicense(t)
    BY <1>5 DEF ConvertLicense
  <1>6. CASE Enter(t)
    BY <1>6 DEF Enter
  <1>7. CASE CompareExchange(t)
    BY <1>7 DEF CompareExchange
  <1>8. CASE GlobalInit(t)
    BY <1>8 DEF GlobalInit
  <1>9. CASE Spin(t)
    BY <1>9 DEF Spin
  <1>10. CASE Ready(t)
    BY <1>10 DEF Ready
  <1>11. CASE Perform(t)
    BY <1>11 DEF Perform
  <1>12. CASE Cleanup(t)
    BY <1>12 DEF Cleanup
  <1>13. CASE Return(t)
    BY <1>13 DEF Return
  <1>14. CASE Path(t)
    BY <1>14 DEF Path
  <1>15. CASE Unwind(t)
    BY <1>15 DEF Unwind
  <1>16. CASE Start(t)
    BY <1>16 DEF Start
  <1>17. CASE WaitFor(t)
    BY <1>17 DEF WaitFor
  <1>18. CASE Interrupt(t)
    BY <1>18 DEF Interrupt
  <1>19. CASE Grace(t)
    BY <1>19 DEF Grace
  <1>20. CASE Close(t)
    BY <1>20 DEF Close
  <1>21. CASE ApplicationEnds(t)
    BY <1>21 DEF ApplicationEnds
  <1> QED
    BY <1>1, <1>2, <1>3, <1>4, <1>5, <1>6, <1>7, <1>8, <1>9, <1>10, <1>11,
       <1>12, <1>13, <1>14, <1>15, <1>16, <1>17, <1>18, <1>19, <1>20, <1>21
       DEF ThreadStep, Convert, CurlReady, Leave, Native, Launch

\* Only the thread that changed curl_state from 0 to 1 calls curl_global_init.
LEMMA CurlKeeps ==
  ASSUME BridgeInv, NEW t \in Threads, ThreadStep(t)
  PROVE  CurlInv' /\ curl' \in 0..3 /\ inits' \in 0..1
  <1> USE DEF BridgeInv, BridgeTypeOK, CurlInv, Step, callVars, artifactVars, curlVars, InCall, Launched
  <1>1. CASE Call(t)
    BY <1>1 DEF Call
  <1>2. CASE CheckArguments(t)
    BY <1>2 DEF CheckArguments
  <1>3. CASE ConvertStrings(t)
    BY <1>3 DEF ConvertStrings, Converts
  <1>4. CASE ConvertKeys(t)
    BY <1>4 DEF ConvertKeys, Converts
  <1>5. CASE ConvertLicense(t)
    BY <1>5 DEF ConvertLicense
  <1>6. CASE Enter(t)
    BY <1>6 DEF Enter
  <1>7. CASE CompareExchange(t)
    BY <1>7 DEF CompareExchange
  <1>8. CASE GlobalInit(t)
    BY <1>8 DEF GlobalInit
  <1>9. CASE Spin(t)
    BY <1>9 DEF Spin
  <1>10. CASE Ready(t)
    BY <1>10 DEF Ready
  <1>11. CASE Perform(t)
    BY <1>11 DEF Perform
  <1>12. CASE Cleanup(t)
    BY <1>12 DEF Cleanup
  <1>13. CASE Return(t)
    BY <1>13 DEF Return
  <1>14. CASE Path(t)
    BY <1>14 DEF Path
  <1>15. CASE Unwind(t)
    BY <1>15 DEF Unwind
  <1>16. CASE Start(t)
    BY <1>16 DEF Start
  <1>17. CASE WaitFor(t)
    BY <1>17 DEF WaitFor
  <1>18. CASE Interrupt(t)
    BY <1>18 DEF Interrupt
  <1>19. CASE Grace(t)
    BY <1>19 DEF Grace
  <1>20. CASE Close(t)
    BY <1>20 DEF Close
  <1>21. CASE ApplicationEnds(t)
    BY <1>21 DEF ApplicationEnds
  <1> QED
    BY <1>1, <1>2, <1>3, <1>4, <1>5, <1>6, <1>7, <1>8, <1>9, <1>10, <1>11,
       <1>12, <1>13, <1>14, <1>15, <1>16, <1>17, <1>18, <1>19, <1>20, <1>21
       DEF ThreadStep, Convert, CurlReady, Leave, Native, Launch

LEMMA BridgeInductive == BridgeInv /\ InstallInv' /\ [BridgeNext]_allVars => BridgeInv'
  <1> SUFFICES ASSUME BridgeInv, InstallInv', [BridgeNext]_allVars PROVE BridgeInv'
    OBVIOUS
  <1>1. CASE ThreadSteps
    <2>1. PICK t \in Threads : ThreadStep(t)
      BY <1>1 DEF ThreadSteps, ThreadStep
    <2>2. ASSUME NEW u \in Threads PROVE CallInv(u)'
      <3>1. CASE u = t
        BY <2>1, <3>1, CallKeeps
      <3>2. CASE u # t
        <4>1. /\ at'[u] = at[u] /\ valid'[u] = valid[u] /\ pending'[u] = pending[u] /\ memory'[u] = memory[u]
              /\ secret'[u] = secret[u] /\ handle'[u] = handle[u] /\ child'[u] = child[u]
          BY <2>1, <3>2, OthersStay
        <4>2. CallInv(u)
          BY DEF BridgeInv
        <4> QED
          BY <4>1, <4>2 DEF CallInv
      <3> QED
        BY <3>1, <3>2
    <2>3. CurlInv' /\ curl' \in 0..3 /\ inits' \in 0..1
      BY <2>1, CurlKeeps
    <2>4. \A u \in Threads : child'[u] # "none" => handle'[u] # "none" /\ at'[u] \in Launched \cup {"done"}
      BY <2>2 DEF CallInv, Launched
    <2>5. BridgeTypeOK'
      BY <2>1, <2>3, <2>4, CallTypes DEF BridgeTypeOK, InstallInv
    <2> QED
      BY <2>2, <2>3, <2>5 DEF BridgeInv
  <1>2. CASE UNCHANGED bridgeVars
    <2> USE <1>2 DEF bridgeVars, callVars, artifactVars, curlVars, BridgeInv
    <2>1. BridgeTypeOK'
      BY DEF BridgeTypeOK, InstallInv
    <2>2. CurlInv'
      BY DEF CurlInv
    <2>3. \A t \in Threads : CallInv(t)'
      BY DEF CallInv
    <2> QED
      BY <2>1, <2>2, <2>3
  <1> QED
    BY <1>1, <1>2 DEF BridgeNext, allVars

LEMMA Starts == BridgeInit => InstallInv /\ BridgeInv
  <1> SUFFICES ASSUME BridgeInit PROVE InstallInv /\ BridgeInv
    OBVIOUS
  <1> USE DEF BridgeInit, Init
  <1>1. TypeOK
    BY DEF TypeOK, Contents, Ended
  <1>2. InstallInv
    BY <1>1, BridgeAssumption DEF InstallInv, Past, Installing, Loading, Contents
  <1>3. BridgeTypeOK
    BY <1>1 DEF BridgeTypeOK
  <1>4. CurlInv
    BY DEF CurlInv
  <1>5. \A t \in Threads : CallInv(t)
    BY DEF CallInv, Launched
  <1> QED
    BY <1>2, <1>3, <1>4, <1>5 DEF BridgeInv

\* What the installing JVMs and the calling threads may rely on at every step.
THEOREM Invariants == BridgeSpec => [](InstallInv /\ BridgeInv)
  <1>1. InstallInv /\ [BridgeNext]_allVars => InstallInv'
    BY InstallInductive DEF BridgeNext, allVars
  <1> QED
    BY <1>1, Starts, BridgeInductive, PTL DEF BridgeSpec

\* No JVM loads an altered library, however many of them share the directory.
THEOREM LoadSafe == BridgeSpec => []LoadedIsVerified
  <1>1. InstallInv => LoadedIsVerified
    BY DEF InstallInv, LoadedIsVerified
  <1> QED
    BY <1>1, Invariants, PTL

\* However many JVMs delete each other's library, one of them loads it if nothing fails.
THEOREM InstallSucceeds == BridgeSpec => []SomeoneInstalls
  <1>1. InstallInv => SomeoneInstalls
    BY DEF InstallInv, SomeoneInstalls, Installing, Loading, AllEnded, Ended
  <1> QED
    BY <1>1, Invariants, PTL

\* Whichever step of acquire0 fails, in any number of threads, its cleanup leaves nothing.
THEOREM CallsSafe == BridgeSpec => []CallsLeaveNothing
  <1>1. BridgeInv => CallsLeaveNothing
    BY DEF BridgeInv, BridgeTypeOK, CallInv, CallsLeaveNothing, Launched
  <1> QED
    BY <1>1, Invariants, PTL

\* curl_ready initializes curl once for any number of threads.
THEOREM CurlSafe == BridgeSpec => []CurlInitializedOnce
  <1>1. BridgeInv => CurlInitializedOnce
    BY DEF BridgeInv, BridgeTypeOK, CurlInv, CurlInitializedOnce
  <1> QED
    BY <1>1, Invariants, PTL

\* launch keeps the jar while the application runs.
THEOREM ApplicationSafe == BridgeSpec => []ApplicationHasJar
  <1>1. BridgeInv => ApplicationHasJar
    BY DEF BridgeInv, CallInv, ApplicationHasJar, Launched
  <1> QED
    BY <1>1, Invariants, PTL
=============================================================================
