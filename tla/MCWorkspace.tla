---------------------------- MODULE MCWorkspace ----------------------------
EXTENDS Notifications, TLC
CONSTANTS r1, r2, r3, u1, u2
Symmetric == Permutations(Request) \cup Permutations(User)
=============================================================================
