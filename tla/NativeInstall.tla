---------------------------- MODULE NativeInstall ----------------------------
(***************************************************************************)
(* BundledNativeLibrary.install and NativeLoader.load: JVMs that share a   *)
(* data directory each put the bundled library at the same path, named by  *)
(* its hash, and then load it from there.                                  *)
(***************************************************************************)
EXTENDS Naturals

CONSTANTS Jvms

VARIABLES
    pc,
    target,     \* the file at target: "none", "good" (the expected hash) or "bad"
    part,       \* each JVM's .part file
    loaded,     \* the bytes each JVM loaded, "none" before it did
    faulty      \* a file operation of this JVM failed, or it died

vars == <<pc, target, part, loaded, faulty>>

Contents == {"none", "good", "bad"}

Ended == {"loaded", "failed", "dead"}

Goto(p, l) == pc' = [pc EXCEPT ![p] = l]

\* A fresh directory, a cached library, or one that was altered or cut short.
Init ==
    /\ pc = [p \in Jvms |-> "check"] /\ target \in Contents
    /\ part = [p \in Jvms |-> "none"] /\ loaded = [p \in Jvms |-> "none"]
    /\ faulty = [p \in Jvms |-> FALSE]

\* An operation of p throws; past createTempFile the finally block still runs.
Fault(p, l) ==
    /\ faulty' = [faulty EXCEPT ![p] = TRUE] /\ Goto(p, l)
    /\ UNCHANGED <<target, part, loaded>>
-----------------------------------------------------------------------------
(* matches is two steps: is there a file, and then its hash. The file may have *)
(* gone between them, and opening it throws.                                   *)

Check(p) ==
    /\ pc[p] = "check" /\ Goto(p, IF target = "none" THEN "delete" ELSE "hash")
    /\ UNCHANGED <<target, part, loaded, faulty>>

\* Mutant: a cached file is trusted by its name.
HashTrusts(p) ==
    /\ pc[p] = "hash"
    /\ Goto(p, IF target = "none" THEN "failed" ELSE "load")
    /\ UNCHANGED <<target, part, loaded, faulty>>

Hash(p) ==
    /\ pc[p] = "hash"
    /\ \/ /\ Goto(p, CASE target = "good" -> "load" [] target = "bad" -> "delete" [] OTHER -> "failed")
          /\ UNCHANGED <<target, part, loaded, faulty>>
       \/ Fault(p, "failed")

Delete(p) ==
    /\ pc[p] = "delete"
    /\ \/ target' = "none" /\ Goto(p, "create") /\ UNCHANGED <<part, loaded, faulty>>
       \/ Fault(p, "failed")

CreateTempFile(p) ==
    /\ pc[p] = "create"
    /\ \/ part' = [part EXCEPT ![p] = "bad"] /\ Goto(p, "write") /\ UNCHANGED <<target, loaded, faulty>>
       \/ Fault(p, "failed")

Write(p) ==
    /\ pc[p] = "write"
    /\ \/ part' = [part EXCEPT ![p] = "good"] /\ Goto(p, "move") /\ UNCHANGED <<target, loaded, faulty>>
       \/ Fault(p, "throw")

\* An atomic move onto a file replaces it or throws, as the platform has it.
\* The fallback for file systems without atomic moves is never taken: both names are
\* in one directory.
Move(p) ==
    /\ pc[p] = "move"
    /\ \/ /\ target' = part[p] /\ part' = [part EXCEPT ![p] = "none"] /\ Goto(p, "private")
          /\ UNCHANGED <<loaded, faulty>>
       \/ /\ target # "none"
          /\ Goto(p, "exists") /\ UNCHANGED <<target, part, loaded, faulty>>
       \/ Fault(p, "throw")

\* FileAlreadyExistsException: another JVM's library will do if it matches.
Exists(p) ==
    /\ pc[p] = "exists"
    /\ \/ Goto(p, IF target = "good" THEN "private" ELSE "throw") /\ UNCHANGED <<target, part, loaded, faulty>>
       \/ Fault(p, "throw")

\* privateFile(target) throws when the file has gone.
PrivateFile(p) ==
    /\ pc[p] = "private"
    /\ \/ Goto(p, IF target = "none" THEN "throw" ELSE "verify") /\ UNCHANGED <<target, part, loaded, faulty>>
       \/ Fault(p, "throw")

\* The last matches; a file that is missing or does not match throws.
Verify(p) ==
    /\ pc[p] = "verify"
    /\ \/ Goto(p, IF target = "good" THEN "return" ELSE "throw") /\ UNCHANGED <<target, part, loaded, faulty>>
       \/ Fault(p, "throw")

\* Mutant: a failed install also removes the target.
FinallyUnlinks(p) ==
    /\ pc[p] \in {"return", "throw"}
    /\ Goto(p, IF pc[p] = "return" THEN "load" ELSE "failed")
    /\ part' = [part EXCEPT ![p] = "none"]
    /\ target' = IF pc[p] = "throw" THEN "none" ELSE target
    /\ UNCHANGED <<loaded, faulty>>

\* finally deletes the .part file, which is still there unless it was moved; this
\* deletion is taken to work.
Finally(p) ==
    /\ pc[p] \in {"return", "throw"}
    /\ Goto(p, IF pc[p] = "return" THEN "load" ELSE "failed")
    /\ part' = [part EXCEPT ![p] = "none"]
    /\ UNCHANGED <<target, loaded, faulty>>

\* NativeLoader.load: System.load throws for a missing file.
Load(p) ==
    /\ pc[p] = "load"
    /\ \/ /\ Goto(p, IF target = "none" THEN "failed" ELSE "loaded")
          /\ loaded' = [loaded EXCEPT ![p] = target] /\ UNCHANGED <<target, part, faulty>>
       \/ Fault(p, "failed")

Crash(p) == pc[p] \notin Ended /\ Fault(p, "dead")

Matches(p) == Check(p) \/ Hash(p) \/ Exists(p) \/ Verify(p)

Install(p) ==
    Matches(p) \/ Delete(p) \/ CreateTempFile(p) \/ Write(p) \/ Move(p) \/ PrivateFile(p) \/ Finally(p)

AllEnded == \A p \in Jvms : pc[p] \in Ended

Next == (\E p \in Jvms : Install(p) \/ Load(p) \/ Crash(p)) \/ (AllEnded /\ UNCHANGED vars)

Spec == Init /\ [][Next]_vars
-----------------------------------------------------------------------------
(* Properties *)

\* The variables have their types; a JVM that has returned from install, or
\* failed in it, holds no .part file.
TypeOK ==
    /\ pc \in [Jvms -> Ended \cup {"check", "hash", "delete", "create", "write", "move", "exists",
                                   "private", "verify", "return", "throw", "load"}]
    /\ target \in Contents /\ part \in [Jvms -> Contents] /\ loaded \in [Jvms -> Contents]
    /\ faulty \in [Jvms -> BOOLEAN]
    /\ \A p \in Jvms : pc[p] \in {"load", "loaded", "failed"} => part[p] = "none"

\* No JVM loads bytes that do not have the hash it was built with, whatever file it
\* finds at the path and whichever other JVM replaces it between check and load.
LoadedIsVerified == \A p \in Jvms : loaded[p] # "bad"

\* CODE_REFERENCE: "atomically installs, caches by SHA-256, and repairs altered files".
\* One JVM may fail on the file another deletes, but if no file operation failed and
\* no JVM died, some JVM loads the library and the path is left holding it: they
\* never all fail on the files the others delete.
SomeoneInstalls ==
    AllEnded /\ (\A p \in Jvms : ~faulty[p])
        => target = "good" /\ \E p \in Jvms : pc[p] = "loaded"
=============================================================================
