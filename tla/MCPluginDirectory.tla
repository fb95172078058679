-------------------------- MODULE MCPluginDirectory --------------------------
(***************************************************************************)
(* Small instances of PluginDirectory.  Pids, anchor names and inode       *)
(* numbers are interchangeable.                                            *)
(***************************************************************************)
EXTENDS PluginDirectory, TLC

Symmetry == Permutations(Procs) \cup Permutations(Copies) \cup Permutations(Inodes)
=============================================================================
