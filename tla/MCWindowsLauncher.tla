-------------------------- MODULE MCWindowsLauncher --------------------------
(***************************************************************************)
(* Small instances of WindowsLauncher.  Launchers are interchangeable.     *)
(***************************************************************************)
EXTENDS WindowsLauncher, TLC

Symmetry == Permutations(Launchers)
=============================================================================
