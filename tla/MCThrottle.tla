----------------------------- MODULE MCThrottle -----------------------------
(***************************************************************************)
(* Three workers, one client address and one project whose caps differ.    *)
(***************************************************************************)
EXTENDS WindowThrottle, TLC

CONSTANTS w1, w2, w3, ip, project

MCCap == ip :> 3 @@ project :> 2
Workers == Permutations(Client)
=============================================================================
