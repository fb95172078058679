------------------------- MODULE MCRuntimeDirectory -------------------------
(* Small instances of RuntimeDirectory for TLC. *)
EXTENDS RuntimeDirectory, TLC

\* Pids and directory names are only compared for equality.
Symmetry == Permutations(Procs) \cup Permutations(Dirs)
=============================================================================
