---------------------------- MODULE MCDashboard -----------------------------
(***************************************************************************)
(* Writes of one project and readers of its dashboard.                     *)
(***************************************************************************)
EXTENDS DashboardCache, TLC

CONSTANTS p1, w1, w2, r1, r2

OneProject == [w \in Writer |-> p1]
=============================================================================
