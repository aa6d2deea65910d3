-------------------------- MODULE IncidentWorkflow --------------------------
(***************************************************************************)
(* What users and deploy markers do to incidents: resolve, PATCH, bulk     *)
(* update/resolve/ignore, verify-fix, and the automatic verification of a  *)
(* recorded deployment.  All have one shape: load rows into memory, then   *)
(* for each of them save the changed columns and append a timeline entry.  *)
(* The save writes what the handler holds in memory, whatever happened to  *)
(* the row since it was loaded.  assigned_to is compared and saved like    *)
(* severity and is represented by it.                                      *)
(***************************************************************************)
EXTENDS Requests

CONSTANT Unset   \* a field the request body does not provide

\* The operations, one per endpoint: PATCH, the two endpoints that take any
\* fields for several incidents, and those that fix one field.
PatchOp == [kind : {"patch"}, status : Status \cup {Unset}, severity : Severity \cup {Unset}]
BulkUpdateOp == [kind : {"bulk"}, status : Status \cup {Unset}, severity : Severity \cup {Unset}]
BulkResolveOp == [kind : {"bulk"}, status : {"resolved"}, severity : {Unset}]
BulkIgnoreOp == [kind : {"bulk"}, status : {"ignored"}, severity : {Unset}]
BulkAssignOp == [kind : {"bulk"}, status : {Unset}, severity : Severity]
UpdateOp == PatchOp \cup BulkUpdateOp \cup BulkResolveOp \cup BulkIgnoreOp \cup BulkAssignOp

ResolveOp == [kind : {"resolve"}, status : {"resolved"}, severity : {Unset}]
VerifyFixOp == [kind : {"verify"}, status : {"fix_verified", "resolved"}, severity : {Unset}]
DeployOp == [kind : {"deploy"}, status : {"fix_verified", "resolved"}, severity : {Unset}]
VerifyOp == VerifyFixOp \cup DeployOp

Op == UpdateOp \cup ResolveOp \cup VerifyOp

ASSUME UnsetAssumption == Unset \notin Status \cup Severity \cup Op

\* Handlers that take one incident id in the URL.
Single == {"patch", "resolve", "verify"}

VARIABLE wf   \* [Request -> what a workflow request holds in its variables]

NoRow == [group |-> NoGroup, status |-> "unused", resolvedAt |-> FALSE,
          severity |-> CHOOSE s \in Severity : TRUE]
NoCopies == [i \in Incident |-> NoRow]

WorkflowLocals == [op   : Op \cup {Unset},
                   todo : SUBSET Incident,
                   copy : [Incident -> IncidentRow]]

WorkflowTypeOK == wf \in [Request -> WorkflowLocals]

-----------------------------------------------------------------------------
(* The in-memory change *)

\* update_incident: the provided fields, and resolved_at when the status changes.
Edited(op, row) ==
    LET status == IF op.status = Unset THEN row.status ELSE op.status
    IN  [row EXCEPT !.status = status,
                    !.severity = IF op.severity = Unset THEN @ ELSE op.severity,
                    !.resolvedAt = IF status = row.status THEN @ ELSE status = "resolved"]

\* Resolve and verify_incident_fix: the target status and its resolved_at.
Settled(op, row) ==
    [row EXCEPT !.status = op.status, !.resolvedAt = op.status = "resolved"]

\* The row as the handler changes it in memory.
Changed(op, row) == IF op \in UpdateOp THEN Edited(op, row) ELSE Settled(op, row)

\* update_incident returns early when nothing changes, resolve when the
\* incident it loaded is resolved; a verification is always written.
Effective(op, row) ==
    \/ op \in VerifyOp
    \/ op \in ResolveOp /\ row.status # "resolved"
    \/ op \in UpdateOp /\ \/ Changed(op, row).status # row.status
                          \/ Changed(op, row).severity # row.severity

\* Mutant of Saved: resolved_at is not among the columns.
Saved_StatusOnly(op, stored, memory) == [stored EXCEPT !.status = memory.status]

\* The stored row after save(update_fields=...): only update_incident lists
\* severity among its columns.
Saved(op, stored, memory) ==
    [stored EXCEPT !.status = memory.status,
                   !.resolvedAt = memory.resolvedAt,
                   !.severity = IF op \in UpdateOp THEN memory.severity ELSE @]

-----------------------------------------------------------------------------

\* The handler loads the incidents its request names: those that exist, and
\* for a deploy marker those not resolved yet.
Loadable(op, ids) ==
    {i \in ids : Live(i) /\ (op.kind = "deploy" => incidents[i].status # "resolved")}

Load(r, op, ids) ==
    LET rows == Loadable(op, ids)
    IN  /\ At(r, "arriving")
        /\ op.kind \in Single => Cardinality(ids) = 1
        /\ IF rows = {}
           THEN Answer(r) /\ UNCHANGED wf
           ELSE /\ wf' = [wf EXCEPT ![r] =
                      [op |-> op, todo |-> rows,
                       copy |-> [i \in Incident |-> IF i \in rows THEN incidents[i] ELSE NoRow]]]
                /\ Goto(r, "save")
        /\ UNCHANGED storeVars

\* The rows come newest first (Meta.ordering).
Current(r, i) == IsNewest(i, wf[r].todo)

\* The loop goes on with the next incident, or the handler answers.
Advance(r, i) ==
    /\ wf' = [wf EXCEPT ![r].todo = @ \ {i}]
    /\ IF wf[r].todo = {i} THEN Answer(r) ELSE Goto(r, "save")

\* Mutant of Refused: no handler lets an exception end its loop.
Refused_GoesOn(r, i) == Advance(r, i)

\* An exception on incident i: the deploy loop logs it and goes on, the other
\* handlers answer 500 and leave the remaining incidents as they are.
Refused(r, i) ==
    IF wf[r].op.kind = "deploy" THEN Advance(r, i) ELSE Raise(r) /\ UNCHANGED wf

SkipUnchanged(r) ==
    \E i \in Incident :
        /\ At(r, "save")
        /\ Current(r, i)
        /\ ~Effective(wf[r].op, wf[r].copy[i])
        /\ Advance(r, i)
        /\ UNCHANGED storeVars

Save(r) ==
    \E i \in Incident :
        LET op == wf[r].op
            memory == Changed(op, wf[r].copy[i])
            refused == ~Live(i) \/ OpenClash(i, incidents[i].group, memory.status)
        IN  /\ At(r, "save")
            /\ Current(r, i)
            /\ Effective(op, wf[r].copy[i])
            /\ \/ refused /\ Refused(r, i) /\ UNCHANGED incidents
               \/ /\ ~refused
                  /\ incidents' = [incidents EXCEPT ![i] = Saved(op, @, memory)]
                  /\ Goto(r, "entry")
                  /\ UNCHANGED wf
            /\ UNCHANGED <<groups, events, timeline>>

\* The status_change timeline entry that reports the change.
AppendEntry(r) ==
    \E i \in Incident :
        /\ At(r, "entry")
        /\ Current(r, i)
        /\ \/ ~Live(i) /\ Refused(r, i) /\ UNCHANGED timeline
           \/ /\ Live(i)
              /\ timeline' = [timeline EXCEPT ![i] = @ \cup {r}]
              /\ Advance(r, i)
        /\ UNCHANGED <<groups, incidents, events>>

WorkflowStep(r) == SkipUnchanged(r) \/ Save(r) \/ AppendEntry(r)
=============================================================================
