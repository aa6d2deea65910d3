---------------------------- MODULE RequestSteps ----------------------------
(***************************************************************************)
(* Requests as lists of statements.  Each statement runs in its own        *)
(* transaction (ATOMIC_REQUESTS is off), so the statements of requests     *)
(* interleave, and a worker that is killed stops between two of them.      *)
(***************************************************************************)
EXTENDS Naturals, Sequences

VARIABLE req     \* [request -> its locals, with fields state and todo]

RequestState == {"idle", "running", "ok", "refused", "error", "killed"}
Ended == {"ok", "refused", "error", "killed"}

At(r, statement) ==
    req[r].state = "running" /\ req[r].todo # <<>> /\ Head(req[r].todo) = statement

\* r executes its statement with locals changed to l, and ends with its last.
Continue(r, l) ==
    req' = [req EXCEPT ![r] =
        [l EXCEPT !.todo = Tail(@), !.state = IF Len(l.todo) = 1 THEN "ok" ELSE @]]

End(r, state) == req' = [req EXCEPT ![r].state = state]

\* The worker dies with its request, between two statements.
Killed(r) == req[r].state = "running" /\ End(r, "killed")

\* Statement s of plan is behind r.
Behind(r, plan, s) ==
    /\ \E i \in DOMAIN plan : plan[i] = s
    /\ req[r].state \notin {"idle", "refused"}
    /\ \A i \in DOMAIN req[r].todo : req[r].todo[i] # s
=============================================================================
