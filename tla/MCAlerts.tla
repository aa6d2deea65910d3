------------------------------ MODULE MCAlerts ------------------------------
(***************************************************************************)
(* Evaluations of one incident against rules with different conditions.    *)
(***************************************************************************)
EXTENDS AlertDispatch, TLC

CONSTANTS a, b, i, high, low, e1, e2, e3

\* One rule for every state with a cooldown of a minute, one for high alone.
MCCondition == a :> {high, low} @@ b :> {high}
MCCooldown == a :> 1 @@ b :> 0
Evaluations == Permutations(Evaluation)
=============================================================================
