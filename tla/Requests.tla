------------------------------ MODULE Requests ------------------------------
(***************************************************************************)
(* A request as a gunicorn worker runs it: the statement it executes next, *)
(* and how it ended.  A request that raises an exception answers 500 and   *)
(* stays at the statement that raised it; one whose worker is killed stops *)
(* where it was.  What it had written remains written (autocommit).        *)
(***************************************************************************)
EXTENDS TrackerStore

CONSTANT Killable   \* requests whose worker may be killed (--timeout, deploy)

ASSUME KillableAssumption == Killable \subseteq Request

VARIABLES
    pc,       \* [Request -> statement executed next]
    outcome   \* [Request -> how the request ended, if it did]

IngestPC == {"get_group", "insert_group", "reget_group", "bump",
             "find_active", "find_past", "reopen", "reopen_entry",
             "get_open", "insert_open", "reget_open", "persist"}
WorkflowPC == {"save", "entry"}
TransactionPC == {"merge", "keep", "list", "primary", "duplicates"}
RegroupPC == {"regroup"} \cup TransactionPC
Statement == {"arriving", "answered"} \cup IngestPC \cup WorkflowPC \cup RegroupPC
Outcome == {"running", "ok", "error", "killed"}

RequestsTypeOK ==
    /\ pc \in [Request -> Statement]
    /\ outcome \in [Request -> Outcome]

At(r, statement) == outcome[r] = "running" /\ pc[r] = statement

Goto(r, statement) ==
    /\ pc' = [pc EXCEPT ![r] = statement]
    /\ UNCHANGED outcome

\* The handler returns a 2xx/404 response.
Answer(r) ==
    /\ pc' = [pc EXCEPT ![r] = "answered"]
    /\ outcome' = [outcome EXCEPT ![r] = "ok"]

\* An exception no handler catches: the response is a 500.
Raise(r) ==
    /\ outcome' = [outcome EXCEPT ![r] = "error"]
    /\ UNCHANGED pc

\* The worker process dies between two statements.
WorkerKilled(r) ==
    /\ r \in Killable
    /\ outcome[r] = "running"
    /\ pc[r] # "arriving"
    /\ outcome' = [outcome EXCEPT ![r] = "killed"]
    /\ UNCHANGED pc
=============================================================================
