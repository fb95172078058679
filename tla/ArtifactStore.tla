---------------------------- MODULE ArtifactStore ----------------------------
(***************************************************************************)
(* What the runtime directory promises its callers, without directories,   *)
(* markers or scans: a shelf of slots, each empty or holding one intact    *)
(* artifact, and leases on them.  An artifact appears whole; a leased one  *)
(* leaves the shelf only when its holder gives it back.                    *)
(***************************************************************************)
CONSTANTS Procs, Dirs, NoDir

VARIABLES shelf, lease

Leased(d) == \E p \in Procs : lease[p] = d

Init ==
    /\ shelf = [d \in Dirs |-> "empty"]
    /\ lease = [p \in Procs |-> NoDir]

Publish(d) ==
    /\ shelf[d] = "empty" /\ ~Leased(d)
    /\ shelf' = [shelf EXCEPT ![d] = "intact"] /\ UNCHANGED lease

Take(p, d) ==
    /\ lease[p] = NoDir /\ shelf[d] = "intact" /\ ~Leased(d)
    /\ lease' = [lease EXCEPT ![p] = d] /\ UNCHANGED shelf

GiveBack(p) ==
    /\ lease[p] # NoDir
    /\ shelf' = [shelf EXCEPT ![lease[p]] = "empty"]
    /\ lease' = [lease EXCEPT ![p] = NoDir]

\* Processes die and leave their artifacts behind.
Abandon == \E S \in SUBSET Procs :
    /\ lease' = [p \in Procs |-> IF p \in S THEN NoDir ELSE lease[p]]
    /\ UNCHANGED shelf

Erase(d) ==
    /\ shelf[d] = "intact" /\ ~Leased(d)
    /\ shelf' = [shelf EXCEPT ![d] = "empty"] /\ UNCHANGED lease

Next ==
    \/ \E d \in Dirs : Publish(d) \/ Erase(d) \/ \E p \in Procs : Take(p, d)
    \/ \E p \in Procs : GiveBack(p)
    \/ Abandon

Spec == Init /\ [][Next]_<<shelf, lease>>
=============================================================================
