--------------------------- MODULE LauncherProofs ---------------------------
(***************************************************************************)
(* The safety properties of Launcher for every number of signals. One      *)
(* invariant carries them all: a signal may arrive between any two steps,  *)
(* so what each step may rely on has to be said of every place.            *)
(***************************************************************************)
EXTENDS Launcher, TLAPS

\* The steps of the prompt, of read_license_tty and of read_license_stdin keep IInv.
LEMMA PromptKeeps == IInv /\ Prompt => IInv'
  <1> SUFFICES ASSUME IInv, Prompt PROVE IInv'
    OBVIOUS
  <1> USE DEF IInv, TypeOK, EchoRestored, ReturnsClean, HostKeepsJar, AtPrompt, Holding, Ended, Alive, terminal, held, host
  <1>1. CASE ParseArguments
    BY <1>1 DEF ParseArguments, Goto
  <1>2. CASE ReadStdin
    BY <1>2 DEF ReadStdin, Goto
  <1>3. CASE InstallLicenseHandlers
    BY <1>3 DEF InstallLicenseHandlers, Goto
  <1>4. CASE HideEcho
    BY <1>4 DEF HideEcho, Goto
  <1>5. CASE LoopTest
    BY <1>5 DEF LoopTest, Goto
  <1>6. CASE ReadCharacter
    BY <1>6 DEF ReadCharacter, Goto
  <1>7. CASE RestoreEcho
    BY <1>7 DEF RestoreEcho, Goto
  <1>8. CASE RestoreHandlers
    BY <1>8 DEF RestoreHandlers, Goto
  <1>9. CASE Interrupted
    BY <1>9 DEF Interrupted, Goto
  <1> QED
    BY <1>1, <1>2, <1>3, <1>4, <1>5, <1>6, <1>7, <1>8, <1>9 DEF Prompt

\* The steps of main after the license keep IInv.
LEMMA RunKeeps == IInv /\ Run => IInv'
  <1> SUFFICES ASSUME IInv, Run PROVE IInv'
    OBVIOUS
  <1> USE DEF IInv, TypeOK, EchoRestored, ReturnsClean, HostKeepsJar, AtPrompt, Holding, Ended, Alive, terminal, held, host
  <1>1. CASE Acquire
    <2>1. CASE pc' = "materialize" /\ artifact' = TRUE
      BY <1>1, <2>1 DEF Acquire
    <2>2. CASE pc' = "exit" /\ UNCHANGED artifact
      BY <1>1, <2>2 DEF Acquire
    <2> QED
      BY <1>1, <2>1, <2>2 DEF Acquire
  <1>2. CASE Materialize
    <2>1. CASE pc' = "arguments" /\ plugin' = preload /\ UNCHANGED artifact
      BY <1>2, <2>1 DEF Materialize
    <2>2. CASE preload /\ pc' = "exit" /\ artifact' = FALSE /\ UNCHANGED plugin
      BY <1>2, <2>2 DEF Materialize
    <2> QED
      BY <1>2, <2>1, <2>2 DEF Materialize
  <1>3. CASE BuildArguments
    <2>1. CASE Goto("arguments", "handlers") /\ UNCHANGED held
      BY <1>3, <2>1 DEF BuildArguments, Goto
    <2>2. CASE Goto("arguments", "exit") /\ artifact' = FALSE /\ plugin' = FALSE
      BY <1>3, <2>2 DEF BuildArguments, Goto
    <2> QED
      BY <1>3, <2>1, <2>2 DEF BuildArguments
  <1>4. CASE InstallForwardHandlers
    BY <1>4 DEF InstallForwardHandlers, Goto
  <1>5. CASE Fork
    <2>1. CASE Goto("fork", "parent") /\ child' = "forked" /\ UNCHANGED held
      BY <1>5, <2>1 DEF Fork, Goto
    <2>2. CASE Goto("fork", "exit") /\ artifact' = FALSE /\ plugin' = FALSE /\ UNCHANGED child
      BY <1>5, <2>2 DEF Fork, Goto
    <2> QED
      BY <1>5, <2>1, <2>2 DEF Fork
  <1>6. CASE SetChildPid
    BY <1>6 DEF SetChildPid, Goto
  <1>7. CASE WaitAgain
    BY <1>7 DEF WaitAgain, Goto
  <1>8. CASE Reap
    BY <1>8 DEF Reap, Goto
  <1>9. CASE ReleasePlugin
    BY <1>9 DEF ReleasePlugin, Goto
  <1>10. CASE ReleaseArtifact
    BY <1>10 DEF ReleaseArtifact, Goto
  <1> QED
    BY <1>1, <1>2, <1>3, <1>4, <1>5, <1>6, <1>7, <1>8, <1>9, <1>10 DEF Run

\* So do the host and the signals, wherever they come.
LEMMA Inductive == IInv /\ [Next]_vars => IInv'
  <1> SUFFICES ASSUME IInv, [Next]_vars PROVE IInv'
    OBVIOUS
  <1> USE DEF IInv, TypeOK, EchoRestored, ReturnsClean, HostKeepsJar, AtPrompt, Holding, Ended, Alive, terminal, held, host
  <1> USE LauncherAssumption
  <1>1. CASE SetGroup
    BY <1>1 DEF SetGroup, Goto
  <1>2. CASE HostEnds
    BY <1>2 DEF HostEnds, Goto
  <1>3. CASE Killed
    BY <1>3 DEF Killed, Goto, Arrives
  <1>4. CASE InterruptLicense
    BY <1>4 DEF InterruptLicense, Goto, Arrives
  <1>5. CASE ForwardSignal
    BY <1>5 DEF ForwardSignal, Goto, Arrives
  <1>6. CASE UNCHANGED vars
    BY <1>6 DEF vars
  <1> QED
    BY <1>1, <1>2, <1>3, <1>4, <1>5, <1>6, PromptKeeps, RunKeeps DEF Next

\* What every place of main and of its signal handlers may rely on, whenever signals
\* arrive and however many.
THEOREM Invariant == Spec => []IInv
  <1>1. Init => IInv
    <2> SUFFICES ASSUME Init PROVE IInv
      OBVIOUS
    <2> USE DEF Init, AtPrompt, Holding, Ended, Alive
    <2>1. signals \in 0..MaxSignals
      BY LauncherAssumption
    <2>2. TypeOK
      BY <2>1 DEF TypeOK
    <2>3. EchoRestored /\ ReturnsClean /\ HostKeepsJar
      BY DEF EchoRestored, ReturnsClean, HostKeepsJar
    <2> QED
      BY <2>2, <2>3 DEF IInv
  <1> QED
    BY <1>1, Inductive, PTL DEF Spec

\* However main ends, the terminal echoes again unless the tcsetattr that restores the
\* echo failed, and no host starts on a terminal a signal left without echo.
THEOREM EchoSafe == Spec => []EchoRestored
  <1>1. IInv => EchoRestored
    BY DEF IInv
  <1> QED
    BY <1>1, Invariant, PTL

\* Every return of main has wiped the license and released artifact and plugin copy.
THEOREM ReturnSafe == Spec => []ReturnsClean
  <1>1. IInv => ReturnsClean
    BY DEF IInv
  <1> QED
    BY <1>1, Invariant, PTL

\* No signal makes main release the jar of a host that is alive.
THEOREM HostSafe == Spec => []HostKeepsJar
  <1>1. IInv => HostKeepsJar
    BY DEF IInv
  <1> QED
    BY <1>1, Invariant, PTL
=============================================================================
