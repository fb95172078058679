------------------------------ MODULE Launcher ------------------------------
(***************************************************************************)
(* The POSIX launcher, main of launcher/rymga_loader.c: signals may arrive *)
(* between any two steps, and the host runs as a child in a process group  *)
(* of its own. What acquire and materialize do to the file system is       *)
(* RuntimeDirectory and PluginDirectory.                                   *)
(***************************************************************************)
EXTENDS Naturals

CONSTANTS MaxSignals    \* how many signals arrive at most

ASSUME LauncherAssumption == MaxSignals \in Nat

VARIABLES
    pc,
    preload,        \* the preload mode, otherwise run
    echo,           \* the terminal echoes
    left,           \* history: why the echo was not restored: "no", "signal" or "error"
    handler,        \* handler of SIGINT and SIGTERM: "default", "license" or "forward"
    hangup,         \* handler of SIGHUP and SIGQUIT: "default" or "license"
    licenseSignal,  \* license_signal is set
    license,        \* the license buffer: "none", "clear" or "wiped"
    artifact,       \* the artifact handle is held
    plugin,         \* the plugin copy is held
    childPid,       \* child_pid is set
    child,          \* the host: "none", "forked", "running" (in its group), "signalled", "dead"
    signals         \* how many signals have arrived

terminal == <<echo, left, hangup, licenseSignal>>
held == <<artifact, plugin>>
host == <<childPid, child>>
vars == <<pc, preload, terminal, handler, license, held, host, signals>>

Ended == {"exit", "killed"}

Alive == {"forked", "running", "signalled"}

Init ==
    /\ pc = "start" /\ preload = FALSE
    /\ echo = TRUE /\ left = "no" /\ handler = "default" /\ hangup = "default" /\ licenseSignal = FALSE
    /\ license = "none" /\ artifact = FALSE /\ plugin = FALSE
    /\ childPid = FALSE /\ child = "none" /\ signals = 0

Goto(from, to) == pc = from /\ pc' = to
-----------------------------------------------------------------------------
(* The arguments, and the license from stdin or the terminal *)

\* The mode, the options, the private directories and the keys; any of them missing or
\* wrong ends the launcher with its usage.
ParseArguments ==
    /\ \/ Goto("start", "license") /\ preload' \in BOOLEAN
       \/ Goto("start", "exit") /\ UNCHANGED preload
    /\ UNCHANGED <<terminal, handler, license, held, host, signals>>

\* A license from stdin, or none: an empty, over-long or unreadable one is wiped.
ReadStdin ==
    /\ pc = "license"
    /\ \/ pc' = "acquire" /\ license' = "clear"
       \/ pc' = "exit" /\ license' = "wiped"
    /\ UNCHANGED <<preload, terminal, handler, held, host, signals>>

\* Mutant: the list of signals is too short.
InstallTwoHandlers ==
    /\ \/ Goto("license", "hide") /\ handler' = "license"
       \/ Goto("license", "exit") /\ UNCHANGED handler
    /\ UNCHANGED <<preload, terminal, license, held, host, signals>>

\* The handlers, or no terminal: NULL.
InstallLicenseHandlers ==
    /\ \/ Goto("license", "hide") /\ handler' = "license" /\ hangup' = "license"
       \/ Goto("license", "exit") /\ UNCHANGED <<handler, hangup>>
    /\ UNCHANGED <<preload, echo, left, licenseSignal, license, held, host, signals>>

\* Echo off and the buffer, or the handlers are put back: NULL.
HideEcho ==
    /\ \/ Goto("hide", "loop") /\ echo' = FALSE /\ license' = "clear" /\ UNCHANGED <<handler, hangup>>
       \/ Goto("hide", "exit") /\ handler' = "default" /\ hangup' = "default" /\ UNCHANGED <<echo, license>>
    /\ UNCHANGED <<preload, left, licenseSignal, held, host, signals>>

\* The loop condition reads license_signal and then reads a character.
LoopTest ==
    /\ pc = "loop" /\ pc' = IF licenseSignal THEN "restore" ELSE "read"
    /\ UNCHANGED <<preload, terminal, handler, license, held, host, signals>>

\* A character, the end of the line, or too many characters.
ReadCharacter ==
    /\ \/ pc = "read" /\ pc' \in {"loop", "restore"} /\ UNCHANGED license
       \/ Goto("read", "restore") /\ license' = "wiped"
    /\ UNCHANGED <<preload, terminal, handler, held, host, signals>>

\* The result of tcsetattr is ignored: if it fails, the echo stays off.
RestoreEcho ==
    /\ Goto("restore", "reset")
    /\ \/ echo' = TRUE /\ UNCHANGED left
       \/ left' = "error" /\ UNCHANGED echo
    /\ UNCHANGED <<preload, hangup, licenseSignal, handler, license, held, host, signals>>

RestoreHandlers ==
    /\ Goto("reset", "interrupted") /\ handler' = "default" /\ hangup' = "default"
    /\ UNCHANGED <<preload, echo, left, licenseSignal, license, held, host, signals>>

\* A signal taken at the prompt is raised again, after the license is wiped; it kills
\* the launcher, or stops it (SIGTSTP) and once continued there is no license. An
\* empty line is no license either.
Interrupted ==
    /\ pc = "interrupted" /\ licenseSignal' = FALSE
    /\ \/ licenseSignal /\ pc' \in Ended /\ license' = "wiped"
       \/ ~licenseSignal /\ license = "clear" /\ pc' = "acquire" /\ UNCHANGED license
       \/ ~licenseSignal /\ pc' = "exit" /\ license' = "wiped"
    /\ UNCHANGED <<preload, echo, left, hangup, handler, held, host, signals>>
-----------------------------------------------------------------------------
(* main after the license *)

\* rymga_loader_acquire; either way the license is wiped.
Acquire ==
    /\ pc = "acquire" /\ license' = "wiped"
    /\ \/ pc' = "materialize" /\ artifact' = TRUE
       \/ pc' = "exit" /\ UNCHANGED artifact
    /\ UNCHANGED <<preload, terminal, handler, plugin, host, signals>>

Materialize ==
    /\ pc = "materialize"
    /\ \/ pc' = "arguments" /\ plugin' = preload /\ UNCHANGED artifact
       \/ preload /\ pc' = "exit" /\ artifact' = FALSE /\ UNCHANGED plugin
    /\ UNCHANGED <<preload, terminal, handler, license, host, signals>>

\* The child's arguments, or no memory for them: release and return.
BuildArguments ==
    /\ \/ Goto("arguments", "handlers") /\ UNCHANGED held
       \/ Goto("arguments", "exit") /\ artifact' = FALSE /\ plugin' = FALSE
    /\ UNCHANGED <<preload, terminal, handler, license, host, signals>>

InstallForwardHandlers ==
    /\ Goto("handlers", "fork") /\ handler' = "forward"
    /\ UNCHANGED <<preload, terminal, license, held, host, signals>>

\* Mutant: a failed fork releases only the artifact.
ForkKeepsPlugin ==
    /\ \/ Goto("fork", "parent") /\ child' = "forked" /\ UNCHANGED held
       \/ Goto("fork", "exit") /\ artifact' = FALSE /\ UNCHANGED <<plugin, child>>
    /\ UNCHANGED <<preload, terminal, handler, license, childPid, signals>>

Fork ==
    /\ \/ Goto("fork", "parent") /\ child' = "forked" /\ UNCHANGED held
       \/ Goto("fork", "exit") /\ artifact' = FALSE /\ plugin' = FALSE /\ UNCHANGED child
    /\ UNCHANGED <<preload, terminal, handler, license, childPid, signals>>

SetChildPid ==
    /\ Goto("parent", "wait") /\ childPid' = TRUE
    /\ UNCHANGED <<preload, terminal, handler, license, held, child, signals>>

\* Mutant: waitpid is not tried again.
GiveUp ==
    /\ Goto("eintr", "reaped")
    /\ UNCHANGED <<preload, terminal, handler, license, held, host, signals>>

\* Mutant: waitpid is tried again only while the host is there.
WaitAgainAlive ==
    /\ \/ Goto("eintr", "wait") /\ child \in Alive
       \/ pc = "eintr" /\ child = "dead" /\ UNCHANGED pc
    /\ UNCHANGED <<preload, terminal, handler, license, held, host, signals>>

\* waitpid was interrupted by a signal: again.
WaitAgain ==
    /\ Goto("eintr", "wait")
    /\ UNCHANGED <<preload, terminal, handler, license, held, host, signals>>

Reap ==
    /\ Goto("wait", "reaped") /\ child = "dead"
    /\ UNCHANGED <<preload, terminal, handler, license, held, host, signals>>

ReleasePlugin ==
    /\ Goto("reaped", "release") /\ childPid' = FALSE /\ plugin' = FALSE
    /\ UNCHANGED <<preload, terminal, handler, license, artifact, child, signals>>

ReleaseArtifact ==
    /\ Goto("release", "exit") /\ artifact' = FALSE
    /\ UNCHANGED <<preload, terminal, handler, license, plugin, host, signals>>
-----------------------------------------------------------------------------
(* The host, and the signals *)

\* setpgid and execv in the child
SetGroup ==
    /\ child = "forked" /\ child' = "running"
    /\ UNCHANGED <<pc, preload, terminal, handler, license, held, childPid, signals>>

\* The host ends by itself, by a signal, or because it could not be executed.
HostEnds ==
    /\ child \in {"running", "signalled"} /\ child' = "dead"
    /\ UNCHANGED <<pc, preload, terminal, handler, license, held, childPid, signals>>

Arrives == pc \notin Ended /\ signals < MaxSignals /\ signals' = signals + 1

\* The default action ends the launcher where it is.
Killed ==
    /\ Arrives /\ "default" \in {handler, hangup} /\ pc' = "killed"
    /\ UNCHANGED <<preload, terminal, handler, license, held, host>>

\* interrupt_license, installed without SA_RESTART: a read or the restoring tcsetattr
\* that is waiting returns EINTR; one that has not begun still does its work.
InterruptLicense ==
    /\ Arrives /\ "license" \in {handler, hangup} /\ licenseSignal' = TRUE
    /\ \/ Goto("read", "restore") /\ UNCHANGED left
       \/ Goto("restore", "reset") /\ left' = "signal"
       \/ UNCHANGED <<pc, left>>
    /\ UNCHANGED <<preload, echo, hangup, handler, license, held, host>>

\* forward_signal: kill(-child_pid) reaches the host once it leads its own group; a
\* signal before that, or before child_pid is set, has no effect.
\* A waitpid that is waiting returns EINTR.
ForwardSignal ==
    /\ Arrives /\ handler = "forward"
    /\ child' = IF childPid /\ child = "running" THEN "signalled" ELSE child
    /\ pc' = IF pc = "wait" /\ child \in Alive THEN "eintr" ELSE pc
    /\ UNCHANGED <<preload, terminal, handler, license, held, childPid>>

Prompt ==
    \/ ParseArguments \/ ReadStdin \/ InstallLicenseHandlers \/ HideEcho \/ LoopTest \/ ReadCharacter
    \/ RestoreEcho \/ RestoreHandlers \/ Interrupted

Run ==
    \/ Acquire \/ Materialize \/ BuildArguments \/ InstallForwardHandlers \/ Fork \/ SetChildPid
    \/ WaitAgain \/ Reap \/ ReleasePlugin \/ ReleaseArtifact

Next ==
    \/ Prompt \/ Run \/ SetGroup \/ HostEnds \/ Killed \/ InterruptLicense \/ ForwardSignal
    \/ pc \in Ended /\ UNCHANGED vars

\* The launcher goes on while it is not waiting for anything.
Spec == Init /\ [][Next]_vars /\ WF_vars(Run)
-----------------------------------------------------------------------------
(* Properties *)

\* The variables have their types; child_pid is set only while there is a child.
TypeOK ==
    /\ pc \in Ended \cup {"start", "license", "hide", "loop", "read", "restore", "reset", "interrupted",
                          "acquire", "materialize", "arguments", "handlers", "fork", "parent", "wait",
                          "eintr", "reaped", "release"}
    /\ preload \in BOOLEAN /\ echo \in BOOLEAN /\ licenseSignal \in BOOLEAN
    /\ left \in {"no", "signal", "error"}
    /\ artifact \in BOOLEAN /\ plugin \in BOOLEAN /\ childPid \in BOOLEAN
    /\ handler \in {"default", "license", "forward"} /\ hangup \in {"default", "license"}
    /\ license \in {"none", "clear", "wiped"} /\ child \in Alive \cup {"none", "dead"}
    /\ signals \in 0..MaxSignals
    /\ childPid => child # "none"

\* However the launcher ends, by returning or by a signal at any step of the prompt,
\* the terminal echoes again, unless the tcsetattr that restores it failed: its result
\* is not looked at. A tcsetattr that failed because of a signal at least ends the
\* launcher: no host is started on the terminal it left without echo.
EchoRestored ==
    /\ pc \in Ended /\ ~echo => left # "no"
    /\ child # "none" /\ ~echo => left = "error"

\* Every return of main leaves nothing behind: the license is wiped, the plugin copy
\* and the artifact are released, whichever step failed or was interrupted.
ReturnsClean == pc = "exit" => license # "clear" /\ ~artifact /\ ~plugin

\* The jar is there as long as the host is: no signal makes the launcher release the
\* artifact or the plugin copy of a host that is still alive.
HostKeepsJar == child \in Alive => artifact /\ (preload => plugin)

\* Once the host is dead, the launcher ends, however often signals interrupt its wait.
LauncherEnds == child = "dead" ~> pc \in Ended

(* What the steps keep, so that the invariants above are inductive *)

AtPrompt == {"hide", "loop", "read", "restore", "reset"}
Holding == {"arguments", "handlers", "fork", "parent", "wait", "eintr", "reaped"}

\* Echo is off only where both handlers keep a signal from ending the launcher, or once
\* it was not restored, and a signal that did that is still to be raised again. The
\* license is readable only between the prompt and acquire, and from the acquire to the
\* release of the plugin copy the launcher holds what the host needs.
IInv ==
    /\ TypeOK /\ EchoRestored /\ ReturnsClean /\ HostKeepsJar
    /\ pc \in AtPrompt <=> (handler = "license" /\ pc # "killed")
    /\ handler = "license" <=> hangup = "license"
    /\ ~echo => pc \in {"loop", "read", "restore"} \/ left # "no"
    /\ left = "signal" => /\ pc \in {"reset", "interrupted"} \cup Ended
                          /\ licenseSignal \/ pc \in Ended
                          /\ child = "none"
    /\ child # "none" => pc \in {"parent", "wait", "eintr", "reaped", "release"} \cup Ended
    /\ license = "clear" => pc \in {"loop", "read", "restore", "reset", "interrupted", "acquire", "killed"}
    /\ artifact => pc \in Holding \cup {"materialize", "release", "killed"}
    /\ plugin => pc \in Holding \cup {"killed"}
    /\ pc \in Holding \cup {"materialize"} => artifact
    /\ pc \in Holding => (preload => plugin)
    /\ child \in Alive => pc \in {"parent", "wait", "eintr", "killed"}
    /\ pc \in {"parent", "wait", "eintr"} => child # "none"
    /\ childPid => pc \in {"wait", "eintr", "reaped", "killed"}
=============================================================================
