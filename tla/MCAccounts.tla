---------------------------- MODULE MCAccounts ----------------------------
EXTENDS Accounts, TLC
CONSTANTS r1, r2, r3
Requests == Permutations(Request)
=============================================================================
