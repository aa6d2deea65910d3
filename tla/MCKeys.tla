------------------------------- MODULE MCKeys -------------------------------
EXTENDS Deployments, TLC
CONSTANTS r1, r2, r3
Requests == Permutations(Request)
=============================================================================
