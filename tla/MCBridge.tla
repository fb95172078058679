------------------------------ MODULE MCBridge ------------------------------
EXTENDS Bridge

CONSTANTS j1, j2, j3

ThreeJvms == {j1, j2, j3}
=============================================================================
