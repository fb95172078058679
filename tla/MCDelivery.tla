----------------------------- MODULE MCDelivery -----------------------------
(***************************************************************************)
(* Small instances of Delivery: artifacts of one or two blocks.            *)
(***************************************************************************)
EXTENDS Delivery, TLC

CONSTANTS a, b

TwoVersions == {<<a, b>>, <<b, b>>}
GrowAndShrink == {<<a>>, <<a, b>>, <<b, b>>}
Synchronous == {0}
AheadOrBehind == -2..2
Symmetry == Permutations(Nonces)
=============================================================================
