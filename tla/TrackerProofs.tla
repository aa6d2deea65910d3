--------------------------- MODULE TrackerProofs ---------------------------
(***************************************************************************)
(* Machine-checked proofs about Tracker, for every value of its constants: *)
(* type correctness, action by action; that IndInv is an inductive         *)
(* invariant, table by table; that a change of a status owes its entry;    *)
(* that Tracker implements Ledger; and what a burst of ingests ends with.  *)
(* Then about Regroup: that RegroupInv is an inductive invariant, request  *)
(* by request, and what it says of a job that has committed.               *)
(***************************************************************************)
EXTENDS Regroup, FiniteSetTheorems, TLAPS

-----------------------------------------------------------------------------
(* How the moves of a request act on the request's own variables *)

\* A request that goes on stays typed.
LEMMA GotoType ==
    ASSUME RequestsTypeOK, NEW r \in Request, NEW s \in Statement, Goto(r, s)
    PROVE  RequestsTypeOK'
BY DEF RequestsTypeOK, Goto

\* So does one that answers.
LEMMA AnswerType ==
    ASSUME RequestsTypeOK, NEW r \in Request, Answer(r)
    PROVE  RequestsTypeOK'
BY DEF RequestsTypeOK, Answer, Statement, Outcome

\* So does one that raises.
LEMMA RaiseType ==
    ASSUME RequestsTypeOK, NEW r \in Request, Raise(r)
    PROVE  RequestsTypeOK'
BY DEF RequestsTypeOK, Raise, Outcome

\* So does one that lost a race and retries, or gives up.
LEMMA RetryType ==
    ASSUME RequestsTypeOK, IngestTypeOK, NEW r \in Request, NEW s \in Statement,
           RetryFrom(r, s)
    PROVE  RequestsTypeOK' /\ IngestTypeOK'
<1>1. CASE ing[r].attempt < Attempts
  <2>1. RequestsTypeOK'
    BY <1>1, GotoType DEF RetryFrom
  <2>2. ing[r].attempt + 1 \in 0..Attempts
    BY <1>1 DEF IngestTypeOK, IngestLocals, Attempts
  <2>3. IngestTypeOK'
    BY <1>1, <2>2 DEF IngestTypeOK, IngestLocals, RetryFrom
  <2>. QED BY <2>1, <2>3
<1>2. CASE ~(ing[r].attempt < Attempts)
  BY <1>2, RaiseType DEF RetryFrom, IngestTypeOK
<1>. QED BY <1>1, <1>2

\* A count of attempts starts at none.
LEMMA ZeroAttempts == 0 \in 0..Attempts
BY DEF Attempts

\* An ingest that found its group stays typed.
LEMMA HoldGroupType ==
    ASSUME RequestsTypeOK, IngestTypeOK, NEW r \in Request, HoldGroup(r)
    PROVE  RequestsTypeOK' /\ IngestTypeOK'
<1>1. RequestsTypeOK'
  BY GotoType DEF HoldGroup, Statement, IngestPC
<1>2. PICK g \in Group : ing' = [ing EXCEPT ![r] = [@ EXCEPT !.group = g, !.attempt = 0]]
  BY DEF HoldGroup, GroupsOf
<1>3. IngestTypeOK'
  BY <1>2, ZeroAttempts DEF IngestTypeOK, IngestLocals
<1>. QED BY <1>1, <1>3

\* So does one that found its incident.
LEMMA HoldIncidentType ==
    ASSUME RequestsTypeOK, IngestTypeOK, NEW r \in Request, NEW i \in Incident,
           NEW s \in Statement, HoldIncident(r, i, s)
    PROVE  RequestsTypeOK' /\ IngestTypeOK'
<1>1. RequestsTypeOK'
  BY GotoType DEF HoldIncident
<1>2. IngestTypeOK'
  BY ZeroAttempts DEF HoldIncident, IngestTypeOK, IngestLocals
<1>. QED BY <1>1, <1>2

-----------------------------------------------------------------------------
(* Type correctness of the ingest actions *)

\* The arrival of an ingest keeps the types.
LEMMA StartIngestType ==
    ASSUME TypeOK, NEW r \in Request, NEW fp \in Arriving, NEW severity \in Severity,
           StartIngest(r, fp, severity), UNCHANGED wf
    PROVE  TypeOK'
<1>1. RequestsTypeOK'
  BY GotoType DEF StartIngest, TypeOK, Statement, IngestPC
<1>2. IngestTypeOK'
  BY TrackerAssumption DEF StartIngest, TypeOK, IngestTypeOK, IngestLocals
<1>3. StoreTypeOK' /\ WorkflowTypeOK'
  BY DEF StartIngest, TypeOK, StoreTypeOK, WorkflowTypeOK, storeVars
<1>. QED BY <1>1, <1>2, <1>3 DEF TypeOK

\* So does each statement of an ingest.
LEMMA IngestStepType ==
    ASSUME TypeOK, NEW r \in Request, IngestStep(r), UNCHANGED wf
    PROVE  TypeOK'
<1>1. RequestsTypeOK /\ IngestTypeOK /\ StoreTypeOK
  BY DEF TypeOK
<1>2. ing[r] \in IngestLocals
  BY <1>1 DEF IngestTypeOK
<1>3. WorkflowTypeOK'
  BY DEF TypeOK, WorkflowTypeOK
<1> SUFFICES RequestsTypeOK' /\ IngestTypeOK' /\ StoreTypeOK'
  BY <1>3 DEF TypeOK
<1>4. CASE GetGroup(r)
  <2>1. StoreTypeOK'
    BY <1>1, <1>4 DEF GetGroup, StoreTypeOK, storeVars
  <2>2. CASE HoldGroup(r)
    BY <1>1, <2>1, <2>2, HoldGroupType
  <2>3. CASE Goto(r, "insert_group") /\ UNCHANGED ing
    BY <1>1, <2>1, <2>3, GotoType DEF IngestTypeOK, Statement, IngestPC
  <2>. QED BY <1>4, <2>2, <2>3 DEF GetGroup
<1>5. CASE InsertGroup(r)
  <2>1. CASE /\ \E g \in GroupsOf(Unused) :
                    /\ groups' = [groups EXCEPT ![g] = [fp |-> ing[r].fp, count |-> 0]]
                    /\ ing' = [ing EXCEPT ![r] = [@ EXCEPT !.group = g, !.attempt = 0]]
             /\ Goto(r, "bump")
    <3>1. PICK g \in Group :
              /\ groups' = [groups EXCEPT ![g] = [fp |-> ing[r].fp, count |-> 0]]
              /\ ing' = [ing EXCEPT ![r] = [@ EXCEPT !.group = g, !.attempt = 0]]
      BY <2>1 DEF GroupsOf
    <3>2. [fp |-> ing[r].fp, count |-> 0] \in GroupRow
      BY <1>2 DEF IngestLocals, GroupRow
    <3>3. StoreTypeOK'
      BY <1>1, <1>5, <3>1, <3>2 DEF InsertGroup, StoreTypeOK
    <3>4. IngestTypeOK'
      BY <1>1, <3>1, ZeroAttempts DEF IngestTypeOK, IngestLocals
    <3>5. RequestsTypeOK'
      BY <1>1, <2>1, GotoType DEF Statement, IngestPC
    <3>. QED BY <3>3, <3>4, <3>5
  <2>2. CASE Goto(r, "reget_group") /\ UNCHANGED <<groups, ing>>
    BY <1>1, <1>5, <2>2, GotoType
       DEF InsertGroup, IngestTypeOK, StoreTypeOK, Statement, IngestPC
  <2>3. CASE RetryFrom(r, "get_group") /\ UNCHANGED groups
    BY <1>1, <1>5, <2>3, RetryType DEF InsertGroup, StoreTypeOK, Statement, IngestPC
  <2>. QED BY <1>5, <2>1, <2>2, <2>3 DEF InsertGroup
<1>6. CASE RegetGroup(r)
  <2>1. StoreTypeOK'
    BY <1>1, <1>6 DEF RegetGroup, StoreTypeOK, storeVars
  <2>. QED BY <1>1, <1>6, <2>1, HoldGroupType, RetryType DEF RegetGroup, Statement, IngestPC
<1>7. CASE BumpCount(r)
  <2>1. groups' \in [Group -> GroupRow]
    <3>1. CASE GroupLive(ing[r].group) /\ ing[r].group \in Group
      <4>1. groups[ing[r].group].count + 1 \in Nat
        BY <1>1, <3>1 DEF StoreTypeOK, GroupRow
      <4>. QED BY <1>1, <1>7, <3>1, <4>1 DEF BumpCount, StoreTypeOK, GroupRow
    <3>2. CASE ~(GroupLive(ing[r].group) /\ ing[r].group \in Group)
      BY <1>1, <1>7, <3>2 DEF BumpCount, StoreTypeOK
    <3>. QED BY <3>1, <3>2
  <2>2. StoreTypeOK' /\ IngestTypeOK'
    BY <1>1, <1>7, <2>1 DEF BumpCount, StoreTypeOK, IngestTypeOK
  <2>. QED BY <1>1, <1>7, <2>2, GotoType DEF BumpCount, Statement, IngestPC
<1>8. CASE FindActive(r) \/ FindPast(r) \/ GetOpen(r) \/ RegetOpen(r)
  <2>1. StoreTypeOK'
    BY <1>1, <1>8 DEF FindActive, FindPast, GetOpen, RegetOpen, StoreTypeOK, storeVars
  <2> DEFINE Typed == RequestsTypeOK' /\ IngestTypeOK'
  <2>2. ASSUME NEW i \in Incident, NEW s \in Statement, HoldIncident(r, i, s)
        PROVE  Typed
    BY <1>1, <2>2, HoldIncidentType
  <2>3. ASSUME NEW s \in Statement, Goto(r, s), UNCHANGED ing
        PROVE  Typed
    BY <1>1, <2>3, GotoType DEF IngestTypeOK
  <2>4. ASSUME NEW s \in Statement, RetryFrom(r, s)
        PROVE  Typed
    BY <1>1, <2>4, RetryType
  <2>5. \/ \E i \in Incident, s \in Statement : HoldIncident(r, i, s)
        \/ \E s \in Statement : Goto(r, s) /\ UNCHANGED ing
        \/ \E s \in Statement : RetryFrom(r, s)
    <3>1. {"persist", "reopen", "find_past", "get_open", "insert_open"} \subseteq Statement
      BY DEF Statement, IngestPC
    <3>. QED BY <1>8, <3>1 DEF FindActive, FindPast, GetOpen, RegetOpen, IncidentsIn
  <2>. QED BY <2>1, <2>2, <2>3, <2>4, <2>5
<1>9. CASE Reopen(r)
  <2>1. incidents' \in [Incident -> IncidentRow]
    <3>1. CASE ing[r].incident \in Incident
      <4>1. [incidents[ing[r].incident] EXCEPT !.status = "open", !.resolvedAt = FALSE]
              \in IncidentRow
        BY <1>1, <3>1 DEF StoreTypeOK, IncidentRow, Status
      <4>. QED BY <1>1, <1>9, <3>1, <4>1 DEF Reopen, StoreTypeOK
    <3>2. CASE ing[r].incident \notin Incident
      BY <1>1, <1>9, <3>2 DEF Reopen, StoreTypeOK
    <3>. QED BY <3>1, <3>2
  <2>2. IngestTypeOK' /\ StoreTypeOK'
    BY <1>1, <1>9, <2>1 DEF Reopen, IngestTypeOK, StoreTypeOK
  <2>. QED BY <1>1, <1>9, <2>2, GotoType, RaiseType DEF Reopen, Statement, IngestPC
<1>10. CASE ReopenEntry(r)
  <2>1. IngestTypeOK' /\ StoreTypeOK'
    BY <1>1, <1>10 DEF ReopenEntry, IngestTypeOK, StoreTypeOK
  <2>. QED BY <1>1, <1>10, <2>1, GotoType, RaiseType DEF ReopenEntry, Statement, IngestPC
<1>11. CASE InsertOpen(r)
  <2>1. CASE \E i \in Incident :
                /\ incidents' = [incidents EXCEPT ![i] =
                       [group |-> ing[r].group, status |-> "open", resolvedAt |-> FALSE,
                        severity |-> ing[r].severity]]
                /\ HoldIncident(r, i, "persist")
    <3>1. [group |-> ing[r].group, status |-> "open", resolvedAt |-> FALSE,
           severity |-> ing[r].severity] \in IncidentRow
      BY <1>2 DEF IngestLocals, IncidentRow, Status
    <3>2. StoreTypeOK'
      BY <1>1, <1>11, <2>1, <3>1 DEF InsertOpen, StoreTypeOK
    <3>. QED BY <1>1, <2>1, <3>2, HoldIncidentType DEF Statement, IngestPC
  <2>2. CASE Goto(r, "reget_open") /\ UNCHANGED <<incidents, ing>>
    BY <1>1, <1>11, <2>2, GotoType
       DEF InsertOpen, IngestTypeOK, StoreTypeOK, Statement, IngestPC
  <2>3. CASE RetryFrom(r, "get_open") /\ UNCHANGED incidents
    BY <1>1, <1>11, <2>3, RetryType DEF InsertOpen, StoreTypeOK, Statement, IngestPC
  <2>. QED BY <1>11, <2>1, <2>2, <2>3 DEF InsertOpen
<1>12. CASE PersistEvent(r)
  <2>1. IngestTypeOK' /\ StoreTypeOK'
    BY <1>1, <1>2, <1>12 DEF PersistEvent, IngestTypeOK, StoreTypeOK, IngestLocals
  <2>. QED BY <1>1, <1>12, <2>1, AnswerType, RaiseType DEF PersistEvent
<1>. QED
  BY <1>4, <1>5, <1>6, <1>7, <1>8, <1>9, <1>10, <1>11, <1>12 DEF IngestStep
-----------------------------------------------------------------------------
(* Type correctness of the workflow actions *)

\* The row of no incident is typed.
LEMMA NoRowType == NoRow \in IncidentRow
<1>1. (CHOOSE s \in Severity : TRUE) \in Severity
  BY TrackerAssumption
<1>. QED BY <1>1 DEF NoRow, IncidentRow

\* What an operation may write into a status and a severity.
LEMMA OpShape ==
    ASSUME NEW op \in Op
    PROVE  /\ op.status \in Status \cup {Unset}
           /\ op.severity \in Severity \cup {Unset}
           /\ op \notin UpdateOp => op.status \in {"fix_verified", "resolved"}
<1>1. CASE op \in UpdateOp
  BY <1>1 DEF UpdateOp, PatchOp, BulkUpdateOp, BulkResolveOp, BulkIgnoreOp, BulkAssignOp, Status
<1>2. CASE op \in ResolveOp \cup VerifyOp
  BY <1>2 DEF ResolveOp, VerifyOp, VerifyFixOp, DeployOp, Status
<1>. QED BY <1>1, <1>2 DEF Op

\* An operation turns a row into a row.
LEMMA ChangedType ==
    ASSUME NEW op \in Op, NEW row \in IncidentRow
    PROVE  Changed(op, row) \in IncidentRow
<1>1. CASE op \in UpdateOp
  <2>1. (IF op.status = Unset THEN row.status ELSE op.status) \in Status \cup {"unused", "deleted"}
    BY OpShape DEF IncidentRow, Status
  <2>2. (IF op.severity = Unset THEN row.severity ELSE op.severity) \in Severity
    BY OpShape DEF IncidentRow
  <2>3. row.resolvedAt \in BOOLEAN
    BY DEF IncidentRow
  <2>. QED BY <1>1, <2>1, <2>2, <2>3 DEF Changed, Edited, IncidentRow
<1>2. CASE op \notin UpdateOp
  BY <1>2, OpShape DEF Changed, Settled, IncidentRow, Status
<1>. QED BY <1>1, <1>2

\* What save() writes of two rows is a row.
LEMMA SavedType ==
    ASSUME NEW op, NEW stored \in IncidentRow, NEW memory \in IncidentRow
    PROVE  Saved(op, stored, memory) \in IncidentRow
BY DEF Saved, IncidentRow

\* A workflow request that goes to its next incident stays typed.
LEMMA AdvanceType ==
    ASSUME RequestsTypeOK, WorkflowTypeOK, NEW r \in Request, NEW i, Advance(r, i)
    PROVE  RequestsTypeOK' /\ WorkflowTypeOK'
<1>1. WorkflowTypeOK'
  <2>1. wf[r] \in WorkflowLocals
    BY DEF WorkflowTypeOK
  <2>2. [wf[r] EXCEPT !.todo = @ \ {i}] \in WorkflowLocals
    BY <2>1 DEF WorkflowLocals
  <2>. QED BY <2>2 DEF Advance, WorkflowTypeOK
<1>2. RequestsTypeOK'
  BY AnswerType, GotoType DEF Advance, Statement, WorkflowPC
<1>. QED BY <1>1, <1>2

\* So does one that is refused.
LEMMA RefusedType ==
    ASSUME RequestsTypeOK, WorkflowTypeOK, NEW r \in Request, NEW i, Refused(r, i)
    PROVE  RequestsTypeOK' /\ WorkflowTypeOK'
BY AdvanceType, RaiseType DEF Refused, WorkflowTypeOK

\* The arrival of a workflow request keeps the types.
LEMMA LoadType ==
    ASSUME TypeOK, NEW r \in Request, NEW op \in Op, NEW ids \in SUBSET Incident,
           Load(r, op, ids), UNCHANGED ing
    PROVE  TypeOK'
<1>1. StoreTypeOK' /\ IngestTypeOK'
  BY DEF TypeOK, Load, StoreTypeOK, IngestTypeOK, storeVars
<1> DEFINE rows == Loadable(op, ids)
           copies == [i \in Incident |-> IF i \in rows THEN incidents[i] ELSE NoRow]
<1>2. copies \in [Incident -> IncidentRow]
  BY NoRowType DEF TypeOK, StoreTypeOK
<1>3. rows \in SUBSET Incident
  BY DEF Loadable
<1>4. WorkflowTypeOK'
  <2>1. [op |-> op, todo |-> rows, copy |-> copies] \in WorkflowLocals
    BY <1>2, <1>3 DEF WorkflowLocals
  <2>2. CASE rows = {}
    BY <2>2 DEF Load, TypeOK, WorkflowTypeOK
  <2>3. CASE rows # {}
    BY <2>1, <2>3 DEF Load, TypeOK, WorkflowTypeOK
  <2>. QED BY <2>2, <2>3
<1>5. RequestsTypeOK'
  BY AnswerType, GotoType DEF Load, TypeOK, Statement, WorkflowPC
<1>. QED BY <1>1, <1>4, <1>5 DEF TypeOK

\* So does each of its statements.
LEMMA WorkflowStepType ==
    ASSUME TypeOK, NEW r \in Request, WorkflowStep(r), UNCHANGED ing
    PROVE  TypeOK'
<1>1. RequestsTypeOK /\ WorkflowTypeOK /\ StoreTypeOK /\ IngestTypeOK'
  BY DEF TypeOK, IngestTypeOK
<1> SUFFICES RequestsTypeOK' /\ WorkflowTypeOK' /\ StoreTypeOK'
  BY <1>1 DEF TypeOK
<1>2. CASE SkipUnchanged(r)
  <2>1. StoreTypeOK'
    BY <1>1, <1>2 DEF SkipUnchanged, StoreTypeOK, storeVars
  <2>. QED BY <1>1, <1>2, <2>1, AdvanceType DEF SkipUnchanged
<1>3. CASE Save(r)
  <2>1. PICK i \in Incident :
           LET op == wf[r].op
               memory == Changed(op, wf[r].copy[i])
           IN  /\ At(r, "save")
               /\ Effective(op, wf[r].copy[i])
               /\ \/ Refused(r, i) /\ UNCHANGED incidents
                  \/ /\ incidents' = [incidents EXCEPT ![i] = Saved(op, @, memory)]
                     /\ Goto(r, "entry")
                     /\ UNCHANGED wf
               /\ UNCHANGED <<groups, events, timeline>>
    BY <1>3 DEF Save
  <2>2. CASE Refused(r, i) /\ UNCHANGED incidents
    BY <1>1, <2>1, <2>2, RefusedType DEF StoreTypeOK
  <2>3. CASE /\ incidents' = [incidents EXCEPT
                     ![i] = Saved(wf[r].op, @, Changed(wf[r].op, wf[r].copy[i]))]
             /\ Goto(r, "entry")
             /\ UNCHANGED wf
    <3>1. wf[r].op \in Op
      BY <1>1, <2>1, UnsetAssumption DEF WorkflowTypeOK, WorkflowLocals, Effective, Op
    <3>2. wf[r].copy[i] \in IncidentRow /\ incidents[i] \in IncidentRow
      BY <1>1 DEF WorkflowTypeOK, WorkflowLocals, StoreTypeOK
    <3>3. StoreTypeOK'
      BY <1>1, <2>1, <2>3, <3>1, <3>2, ChangedType, SavedType DEF StoreTypeOK
    <3>. QED BY <1>1, <2>3, <3>3, GotoType DEF WorkflowTypeOK, Statement, WorkflowPC
  <2>. QED BY <2>1, <2>2, <2>3
<1>4. CASE AppendEntry(r)
  <2>1. StoreTypeOK'
    BY <1>1, <1>4 DEF AppendEntry, StoreTypeOK
  <2>. QED BY <1>1, <1>4, <2>1, AdvanceType, RefusedType DEF AppendEntry
<1>. QED BY <1>2, <1>3, <1>4 DEF WorkflowStep

-----------------------------------------------------------------------------

\* A consistent seed is typed.
LEMMA InitType ==
    ASSUME NEW s \in Seeds, InitFrom(s)
    PROVE  TypeOK
<1>1. s \in Seed /\ ConsistentSeed(s)
  BY TrackerAssumption
<1>2. StoreTypeOK
  BY <1>1 DEF InitFrom, StoreTypeOK, Seed
<1>3. RequestsTypeOK
  BY DEF InitFrom, RequestsTypeOK, Statement, Outcome
<1>4. IngestTypeOK
  <2>1. \A r \in Request : s.events[r] # NoGroup => s.groups[s.events[r]].fp \in Fingerprint
    BY <1>1 DEF ConsistentSeed
  <2>2. (CHOOSE v \in Severity : TRUE) \in Severity
    BY TrackerAssumption
  <2>. QED BY <1>1, <2>1, <2>2, ZeroAttempts DEF InitFrom, IngestTypeOK, IngestLocals, Seed
<1>5. WorkflowTypeOK
  <2>1. NoCopies \in [Incident -> IncidentRow]
    BY NoRowType DEF NoCopies
  <2>. QED BY <2>1 DEF InitFrom, WorkflowTypeOK, WorkflowLocals
<1>. QED BY <1>2, <1>3, <1>4, <1>5 DEF TypeOK

\* A killed worker leaves the types alone.
LEMMA KilledType ==
    ASSUME TypeOK, NEW r \in Request, Killed(r)
    PROVE  TypeOK'
BY DEF Killed, WorkerKilled, TypeOK, RequestsTypeOK, StoreTypeOK, IngestTypeOK,
       WorkflowTypeOK, storeVars, Outcome

\* So does a step of nobody.
LEMMA StutterType ==
    ASSUME TypeOK, UNCHANGED vars
    PROVE  TypeOK'
BY DEF vars, TypeOK, RequestsTypeOK, StoreTypeOK, IngestTypeOK, WorkflowTypeOK

\* Every step keeps the types.
LEMMA TypeStep ==
    ASSUME TypeOK, [Next]_vars
    PROVE  TypeOK'
<1>1. CASE UNCHANGED vars
  BY <1>1, StutterType
<1>2. ASSUME NEW r \in Request, Arrive(r) PROVE TypeOK'
  BY <1>2, StartIngestType, LoadType, TrackerAssumption DEF Arrive
<1>3. ASSUME NEW r \in Request, Step(r) PROVE TypeOK'
  BY <1>3, IngestStepType, WorkflowStepType DEF Step
<1>4. ASSUME NEW r \in Request, Killed(r) PROVE TypeOK'
  BY <1>4, KilledType
<1>. QED BY <1>1, <1>2, <1>3, <1>4 DEF Next

\* Type correctness: every variable keeps the type its table column or its
\* Python variable has (schema of apps/events/models.py, apps/incidents/models.py).
THEOREM TypeCorrect == Spec => []TypeOK
<1>1. Init => TypeOK
  BY InitType DEF Init
<1>2. TypeOK /\ [Next]_vars => TypeOK'
  BY TypeStep
<1>. QED BY <1>1, <1>2, PTL DEF Spec

-----------------------------------------------------------------------------
(***************************************************************************)
(* IndInv is an inductive invariant, hence each of its parts holds in      *)
(* every reachable state.  The proof goes table by table: which steps      *)
(* write it, and what they leave true.                                     *)
(***************************************************************************)

-----------------------------------------------------------------------------
(* Who writes which table *)

\* Only three statements write the incidents.
LEMMA IncidentWriters ==
    ASSUME [Next]_vars
    PROVE  \/ UNCHANGED incidents
           \/ \E r \in Request : \/ Reopen(r) /\ UNCHANGED wf
                                 \/ InsertOpen(r) /\ UNCHANGED wf
                                 \/ Save(r) /\ UNCHANGED ing
BY DEF Next, vars, Arrive, Step, Killed, IngestStep, WorkflowStep, StartIngest, Load,
       GetGroup, InsertGroup, RegetGroup, BumpCount, FindActive, FindPast, ReopenEntry,
       GetOpen, RegetOpen, PersistEvent, SkipUnchanged, AppendEntry, storeVars

\* Only two statements write the groups.
LEMMA GroupWriters ==
    ASSUME [Next]_vars
    PROVE  \/ UNCHANGED groups
           \/ \E r \in Request : \/ InsertGroup(r) /\ UNCHANGED wf
                                 \/ BumpCount(r) /\ UNCHANGED wf
BY DEF Next, vars, Arrive, Step, Killed, IngestStep, WorkflowStep, StartIngest, Load,
       GetGroup, RegetGroup, FindActive, FindPast, Reopen, ReopenEntry, InsertOpen,
       GetOpen, RegetOpen, PersistEvent, SkipUnchanged, Save, AppendEntry, storeVars

\* A save writes one row, keeps its group, and takes status and resolved_at
\* from the copy in memory.
LEMMA SaveWrites ==
    ASSUME TypeOK, NEW r \in Request, Save(r)
    PROVE  \/ UNCHANGED incidents
           \/ \E i \in wf[r].todo :
                LET memory == Changed(wf[r].op, wf[r].copy[i])
                IN  /\ wf[r].op \in Op
                    /\ Live(i)
                    /\ ~OpenClash(i, incidents[i].group, memory.status)
                    /\ incidents' = [incidents EXCEPT ![i] = Saved(wf[r].op, @, memory)]
                    /\ wf' = wf
BY UnsetAssumption
   DEF Save, Current, IsNewest, Refused, TypeOK, WorkflowTypeOK, WorkflowLocals, Effective, Op

-----------------------------------------------------------------------------
(* uniq_open_incident_per_group *)

\* Each writer of the incidents keeps one open incident per group.
LEMMA OneOpenStep ==
    ASSUME TypeOK, OneOpenPerGroup, [Next]_vars
    PROVE  OneOpenPerGroup'
<1>1. CASE UNCHANGED incidents
  BY <1>1 DEF OneOpenPerGroup
<1>2. ASSUME NEW i \in Incident, NEW row \in IncidentRow,
             incidents' = [incidents EXCEPT ![i] = row],
             row.status = "open" =>
                \A j \in Incident : j # i /\ incidents[j].status = "open"
                                    => incidents[j].group # row.group
      PROVE  OneOpenPerGroup'
  BY <1>2 DEF OneOpenPerGroup, TypeOK, StoreTypeOK
<1>3. ASSUME NEW r \in Request, Reopen(r)
      PROVE  OneOpenPerGroup'
  <2> DEFINE i == ing[r].incident
             row == [incidents[i] EXCEPT !.status = "open", !.resolvedAt = FALSE]
  <2>1. CASE UNCHANGED incidents
    BY <1>1, <2>1
  <2>2. CASE incidents' = [incidents EXCEPT ![i] = row] /\ i \in Incident
             /\ ~OpenClash(i, incidents[i].group, "open")
    <3>1. row \in IncidentRow /\ row.group = incidents[i].group
      BY <2>2 DEF TypeOK, StoreTypeOK, IncidentRow, Status
    <3>2. \A j \in Incident : j # i /\ incidents[j].status = "open"
                               => incidents[j].group # row.group
      BY <2>2, <3>1 DEF OpenClash, IncidentsIn
    <3> HIDE DEF row, i
    <3>. QED BY <1>2, <2>2, <3>1, <3>2
  <2>3. CASE incidents' = [incidents EXCEPT ![i] = row] /\ i \notin Incident
    BY <1>1, <2>3 DEF TypeOK, StoreTypeOK
  <2>4. \/ UNCHANGED incidents
        \/ /\ incidents' = [incidents EXCEPT ![i] = row]
           /\ ~OpenClash(i, incidents[i].group, "open")
    BY <1>3 DEF Reopen
  <2>. QED BY <2>1, <2>2, <2>3, <2>4
<1>4. ASSUME NEW r \in Request, InsertOpen(r)
      PROVE  OneOpenPerGroup'
  <2> DEFINE row == [group |-> ing[r].group, status |-> "open", resolvedAt |-> FALSE,
                     severity |-> ing[r].severity]
  <2>1. CASE UNCHANGED incidents
    BY <1>1, <2>1
  <2>2. ASSUME NEW i \in Incident, incidents' = [incidents EXCEPT ![i] = row],
               IncidentsIn(ing[r].group, {"open"}) = {}
        PROVE  OneOpenPerGroup'
    <3>1. row \in IncidentRow
      BY DEF TypeOK, IngestTypeOK, IngestLocals, IncidentRow, Status
    <3>. QED BY <1>2, <2>2, <3>1 DEF IncidentsIn
  <2>. QED BY <1>4, <2>1, <2>2 DEF InsertOpen
<1>5. ASSUME NEW r \in Request, Save(r)
      PROVE  OneOpenPerGroup'
  <2>1. CASE UNCHANGED incidents
    BY <1>1, <2>1
  <2>2. ASSUME NEW i \in wf[r].todo, wf[r].op \in Op,
               ~OpenClash(i, incidents[i].group, Changed(wf[r].op, wf[r].copy[i]).status),
               incidents' = [incidents EXCEPT ![i] =
                     Saved(wf[r].op, @, Changed(wf[r].op, wf[r].copy[i]))]
        PROVE  OneOpenPerGroup'
    <3> DEFINE memory == Changed(wf[r].op, wf[r].copy[i])
               row == Saved(wf[r].op, incidents[i], memory)
    <3>1. i \in Incident /\ wf[r].copy[i] \in IncidentRow /\ incidents[i] \in IncidentRow
      BY <2>2 DEF TypeOK, WorkflowTypeOK, WorkflowLocals, StoreTypeOK
    <3>2. row \in IncidentRow
      BY <2>2, <3>1, ChangedType, SavedType
    <3>3. row.group = incidents[i].group /\ row.status = memory.status
      BY <3>1 DEF Saved, IncidentRow
    <3>. QED BY <1>2, <2>2, <3>1, <3>2, <3>3 DEF OpenClash, IncidentsIn
  <2>. QED BY <1>5, <2>1, <2>2, SaveWrites
<1>. QED BY <1>1, <1>3, <1>4, <1>5, IncidentWriters

-----------------------------------------------------------------------------
(* resolved_at and the copies handlers hold *)

\* What a workflow handler computes in memory from a consistent row is
\* consistent.
LEMMA ChangedConsistent ==
    ASSUME NEW op \in Op, NEW row \in IncidentRow, row.status \in Status,
           row.resolvedAt <=> row.status = "resolved"
    PROVE  /\ Changed(op, row).status \in Status
           /\ Changed(op, row).resolvedAt <=> Changed(op, row).status = "resolved"
<1>1. CASE op \in UpdateOp
  <2> DEFINE status == IF op.status = Unset THEN row.status ELSE op.status
  <2>1. /\ Changed(op, row).status = status
        /\ Changed(op, row).resolvedAt =
              IF status = row.status THEN row.resolvedAt ELSE status = "resolved"
    BY <1>1 DEF Changed, Edited, IncidentRow
  <2>2. status \in Status
    BY OpShape
  <2>3. CASE status = row.status
    BY <2>1, <2>2, <2>3
  <2>4. CASE status # row.status
    BY <2>1, <2>2, <2>4
  <2>. QED BY <2>3, <2>4
<1>2. CASE op \notin UpdateOp
  BY <1>2, OpShape DEF Changed, Settled, IncidentRow, Status
<1>. QED BY <1>1, <1>2

\* A write to the incidents table keeps the group of a live row, keeps the row
\* live, and leaves resolved_at consistent with the status.
LEMMA IncidentKept ==
    ASSUME TypeOK, ResolvedAtMatchesStatus, CopiesConsistent, [Next]_vars
    PROVE  /\ \A i \in Incident : Live(i) =>
                 /\ Live(i)'
                 /\ incidents'[i].group = incidents[i].group
           /\ ResolvedAtMatchesStatus'
<1> DEFINE Goal == /\ \A i \in Incident : Live(i) =>
                        /\ Live(i)'
                        /\ incidents'[i].group = incidents[i].group
                  /\ ResolvedAtMatchesStatus'
<1>1. CASE UNCHANGED incidents
  BY <1>1 DEF ResolvedAtMatchesStatus, Live
<1>2. ASSUME NEW i \in Incident, NEW row \in IncidentRow,
             incidents' = [incidents EXCEPT ![i] = row],
             row.resolvedAt <=> row.status = "resolved",
             Live(i) => row.status \in Status /\ row.group = incidents[i].group
      PROVE  Goal
  BY <1>2 DEF ResolvedAtMatchesStatus, Live, TypeOK, StoreTypeOK
<1>3. ASSUME NEW r \in Request, Reopen(r)
      PROVE  Goal
  <2> DEFINE i == ing[r].incident
             row == [incidents[i] EXCEPT !.status = "open", !.resolvedAt = FALSE]
  <2>1. UNCHANGED incidents \/ incidents' = [incidents EXCEPT ![i] = row]
    BY <1>3 DEF Reopen
  <2>2. CASE incidents' = [incidents EXCEPT ![i] = row] /\ i \in Incident
    <3>1. /\ row \in IncidentRow
          /\ row.group = incidents[i].group
          /\ row.status = "open" /\ row.resolvedAt = FALSE
      BY <2>2 DEF TypeOK, StoreTypeOK, IncidentRow, Status
    <3> HIDE DEF row, i
    <3>. QED BY <1>2, <2>2, <3>1 DEF Status
  <2>3. CASE incidents' = [incidents EXCEPT ![i] = row] /\ i \notin Incident
    BY <1>1, <2>3 DEF TypeOK, StoreTypeOK
  <2>. QED BY <1>1, <2>1, <2>2, <2>3
<1>4. ASSUME NEW r \in Request, InsertOpen(r)
      PROVE  Goal
  <2> DEFINE row == [group |-> ing[r].group, status |-> "open", resolvedAt |-> FALSE,
                     severity |-> ing[r].severity]
  <2>1. ASSUME NEW i \in Incident, incidents' = [incidents EXCEPT ![i] = row],
               incidents[i].status = "unused"
        PROVE  Goal
    <3>1. row \in IncidentRow
      BY DEF TypeOK, IngestTypeOK, IngestLocals, IncidentRow, Status
    <3>2. ~Live(i)
      BY <2>1 DEF Live, Status
    <3>. QED BY <1>2, <2>1, <3>1, <3>2
  <2>. QED BY <1>1, <1>4, <2>1 DEF InsertOpen, IsNextKey
<1>5. ASSUME NEW r \in Request, Save(r)
      PROVE  Goal
  <2>1. ASSUME NEW i \in wf[r].todo, wf[r].op \in Op,
               incidents' = [incidents EXCEPT ![i] =
                     Saved(wf[r].op, @, Changed(wf[r].op, wf[r].copy[i]))]
        PROVE  Goal
    <3> DEFINE memory == Changed(wf[r].op, wf[r].copy[i])
               row == Saved(wf[r].op, incidents[i], memory)
    <3>1. i \in Incident /\ wf[r].copy[i] \in IncidentRow /\ incidents[i] \in IncidentRow
      BY <2>1 DEF TypeOK, WorkflowTypeOK, WorkflowLocals, StoreTypeOK
    <3>2. row \in IncidentRow
      BY <2>1, <3>1, ChangedType, SavedType
    <3>3. /\ row.group = incidents[i].group /\ row.status = memory.status
          /\ row.resolvedAt = memory.resolvedAt
      BY <3>1 DEF Saved, IncidentRow
    <3>4. memory.status \in Status /\ (memory.resolvedAt <=> memory.status = "resolved")
      BY <2>1, <3>1, ChangedConsistent DEF CopiesConsistent
    <3>5. incidents' = [incidents EXCEPT ![i] = row]
      BY <2>1
    <3> HIDE DEF memory, row
    <3>. QED BY <1>2, <3>1, <3>2, <3>3, <3>4, <3>5
  <2>. QED BY <1>1, <1>5, <2>1, SaveWrites
<1>. QED BY <1>1, <1>3, <1>4, <1>5, IncidentWriters

\* A handler's copies are stored rows at the time of the load, and the loop
\* only takes incidents off its list.
LEMMA CopiesStep ==
    ASSUME TypeOK, ResolvedAtMatchesStatus, CopiesConsistent, [Next]_vars
    PROVE  CopiesConsistent'
<1>1. CASE UNCHANGED wf
  BY <1>1 DEF CopiesConsistent
<1>2. ASSUME NEW r \in Request, NEW op \in Ops, NEW ids \in SUBSET Incident,
             Load(r, op, ids), wf' # wf
      PROVE  CopiesConsistent'
  <2> DEFINE rows == Loadable(op, ids)
             new == [op |-> op, todo |-> rows,
                     copy |-> [i \in Incident |-> IF i \in rows THEN incidents[i] ELSE NoRow]]
  <2>1. wf' = [wf EXCEPT ![r] = new]
    BY <1>2 DEF Load
  <2>2. \A i \in rows : /\ i \in Incident
                        /\ incidents[i].status \in Status
                        /\ incidents[i].resolvedAt <=> incidents[i].status = "resolved"
    BY DEF Loadable, Live, ResolvedAtMatchesStatus
  <2>3. \A i \in new.todo : new.copy[i] = incidents[i] /\ i \in rows
    BY <2>2
  <2> HIDE DEF new, rows
  <2>4. \A q \in Request : wf'[q] = IF q = r THEN new ELSE wf[q]
    BY <2>1 DEF TypeOK, WorkflowTypeOK
  <2>. QED BY <2>2, <2>3, <2>4 DEF CopiesConsistent
<1>3. ASSUME NEW r \in Request, NEW i \in Incident, Advance(r, i)
      PROVE  CopiesConsistent'
  <2>1. \A q \in Request : wf'[q].todo \subseteq wf[q].todo /\ wf'[q].copy = wf[q].copy
    BY <1>3 DEF Advance, TypeOK, WorkflowTypeOK, WorkflowLocals
  <2>. QED BY <2>1 DEF CopiesConsistent
<1>4. \/ UNCHANGED wf
      \/ \E r \in Request : \/ \E op \in Ops, ids \in SUBSET Incident : Load(r, op, ids)
                            \/ \E i \in Incident : Advance(r, i)
  BY DEF Next, vars, Arrive, Step, Killed, WorkflowStep, SkipUnchanged, Save, AppendEntry, Refused
<1>. QED BY <1>1, <1>2, <1>3, <1>4

-----------------------------------------------------------------------------
(* The unique (project, fingerprint) key, and the groups ingests hold *)

\* A group row, once inserted, keeps its fingerprint, and no second row takes it.
LEMMA GroupsStep ==
    ASSUME TypeOK, OneGroupPerFingerprint, [Next]_vars
    PROVE  /\ \A g \in Group : groups[g].fp # Unused => groups'[g].fp = groups[g].fp
           /\ OneGroupPerFingerprint'
<1> DEFINE Goal == /\ \A g \in Group : groups[g].fp # Unused => groups'[g].fp = groups[g].fp
                  /\ OneGroupPerFingerprint'
<1>1. ASSUME \A g \in Group : groups'[g].fp = groups[g].fp
      PROVE  Goal
  BY <1>1 DEF OneGroupPerFingerprint, GroupLive
<1>2. ASSUME NEW r \in Request, InsertGroup(r)
      PROVE  Goal
  <2>1. CASE UNCHANGED groups
    BY <1>1, <2>1
  <2>2. ASSUME NEW g \in GroupsOf(Unused), GroupsOf(ing[r].fp) = {},
               groups' = [groups EXCEPT ![g] = [fp |-> ing[r].fp, count |-> 0]]
        PROVE  Goal
    <3>1. g \in Group /\ groups[g].fp = Unused
      BY <2>2 DEF GroupsOf
    <3>2. \A h \in Group : groups[h].fp # ing[r].fp
      BY <2>2 DEF GroupsOf
    <3>3. \A h \in Group : groups'[h].fp = IF h = g THEN ing[r].fp ELSE groups[h].fp
      BY <2>2, <3>1 DEF TypeOK, StoreTypeOK
    <3>. QED BY <3>1, <3>2, <3>3 DEF OneGroupPerFingerprint, GroupLive
  <2>. QED BY <1>2, <2>1, <2>2 DEF InsertGroup
<1>3. ASSUME NEW r \in Request, BumpCount(r)
      PROVE  Goal
  <2>1. \A g \in Group : groups'[g].fp = groups[g].fp
    BY <1>3 DEF BumpCount, TypeOK, StoreTypeOK, GroupRow
  <2>. QED BY <1>1, <2>1
<1>. QED BY <1>1, <1>2, <1>3, GroupWriters

\* A step of one request leaves what the others hold, and where they are.
LEMMA OnlyActor ==
    ASSUME TypeOK, NEW r \in Request, Arrive(r) \/ Step(r) \/ Killed(r),
           NEW q \in Request, q # r
    PROVE  ing'[q] = ing[q] /\ pc'[q] = pc[q] /\ outcome'[q] = outcome[q]
<1>1. /\ ing \in [Request -> IngestLocals]
      /\ pc \in [Request -> Statement]
      /\ outcome \in [Request -> Outcome]
  BY DEF TypeOK, IngestTypeOK, RequestsTypeOK
<1>2. CASE Arrive(r)
  BY <1>1, <1>2 DEF Arrive, StartIngest, Load, Goto, Answer
<1>3. CASE IngestStep(r)
  BY <1>1, <1>3
     DEF IngestStep, GetGroup, InsertGroup, RegetGroup, BumpCount, FindActive, FindPast,
         Reopen, ReopenEntry, GetOpen, InsertOpen, RegetOpen, PersistEvent, HoldGroup,
         HoldIncident, RetryFrom, Goto, Answer, Raise
<1>4. CASE WorkflowStep(r) /\ UNCHANGED ing
  BY <1>1, <1>4
     DEF WorkflowStep, SkipUnchanged, Save, AppendEntry, Refused, Advance, Goto, Answer, Raise
<1>5. CASE Killed(r)
  BY <1>1, <1>5 DEF Killed, WorkerKilled
<1>. QED BY <1>2, <1>3, <1>4, <1>5 DEF Step

-----------------------------------------------------------------------------
(***************************************************************************)
(* The accounting: what a request may hold at each statement, and that     *)
(* every occurrence is counted exactly once and every stored Event         *)
(* counted; from these and the above, IndInv.                              *)
(***************************************************************************)

\* An ingest has counted an occurrence in group g.
Counted(r, g) == ing[r].group = g /\ pc[r] \in CountedPC

\* What the actor of a step may change about itself: it still holds the group
\* of its fingerprint, only the count update makes it one that has counted,
\* nothing unmakes it, and it ends well only with its Event stored.
ActorKeeps(r) ==
    /\ GroupHeld(r)'
    /\ BumpCount(r) \/ \A g \in Group : Counted(r, g)' <=> Counted(r, g)
    /\ pc[r] \in CountedPC => ing'[r].fp = ing[r].fp
    /\ outcome'[r] = "ok" /\ ing'[r].fp # Unused =>
          events'[r] # NoGroup \/ (outcome[r] = "ok" /\ ing[r].fp # Unused)

-----------------------------------------------------------------------------
(* Ingest steps *)

\* The statements that get or insert a group keep what an ingest holds.
LEMMA UpsertKeeps ==
    ASSUME TypeOK, OneGroupPerFingerprint, GroupsHeld, [Next]_vars, NEW r \in Request,
           GetGroup(r) \/ InsertGroup(r) \/ RegetGroup(r)
    PROVE  ActorKeeps(r)
<1>1. /\ ing \in [Request -> IngestLocals]
      /\ pc \in [Request -> Statement]
      /\ outcome \in [Request -> Outcome]
      /\ groups \in [Group -> GroupRow]
  BY DEF TypeOK, IngestTypeOK, RequestsTypeOK, StoreTypeOK
<1>2. /\ pc[r] \in BeforeGroupPC /\ outcome[r] = "running"
      /\ ing[r].fp \in Fingerprint /\ ing[r].group = NoGroup /\ ing[r].incident = NoIncident
  BY DEF GetGroup, InsertGroup, RegetGroup, At, BeforeGroupPC, GroupsHeld, GroupHeld
<1>3. CASE /\ UNCHANGED outcome /\ pc' = [pc EXCEPT ![r] = "bump"]
           /\ \E g \in Group : /\ groups'[g].fp = ing[r].fp
                               /\ ing' = [ing EXCEPT ![r] = [@ EXCEPT !.group = g, !.attempt = 0]]
  <2>1. PICK g \in Group : /\ groups'[g].fp = ing[r].fp
                           /\ ing' = [ing EXCEPT ![r] = [@ EXCEPT !.group = g, !.attempt = 0]]
    BY <1>3
  <2>2. /\ pc'[r] = "bump" /\ outcome'[r] = "running"
        /\ ing'[r].fp = ing[r].fp /\ ing'[r].group = g /\ ing'[r].incident = NoIncident
    <3>1. ing[r] \in IngestLocals /\ ing'[r] = [ing[r] EXCEPT !.group = g, !.attempt = 0]
      BY <1>1, <2>1
    <3>2. ing'[r].fp = ing[r].fp /\ ing'[r].group = g /\ ing'[r].incident = ing[r].incident
      BY <3>1 DEF IngestLocals
    <3>. QED BY <1>1, <1>2, <1>3, <3>2
  <2>. QED BY <1>2, <2>1, <2>2, StoreAssumption
           DEF ActorKeeps, GroupHeld, Counted, CountedPC, HoldingGroupPC, BeforeGroupPC, WorkflowPC
<1>4. CASE /\ pc'[r] \in BeforeGroupPC /\ outcome'[r] \in {"running", "error"}
           /\ ing'[r].fp = ing[r].fp /\ ing'[r].group = ing[r].group
           /\ ing'[r].incident = ing[r].incident
  BY <1>2, <1>4, StoreAssumption
     DEF ActorKeeps, GroupHeld, Counted, CountedPC, HoldingGroupPC, BeforeGroupPC, WorkflowPC
<1>5. ASSUME HoldGroup(r), UNCHANGED groups
      PROVE  ActorKeeps(r)
  BY <1>3, <1>5 DEF HoldGroup, GroupsOf, Goto
<1>6. ASSUME RetryFrom(r, "get_group")
      PROVE  ActorKeeps(r)
  BY <1>1, <1>2, <1>4, <1>6 DEF RetryFrom, Goto, Raise, BeforeGroupPC, IngestLocals
<1>7. CASE GetGroup(r)
  BY <1>1, <1>2, <1>4, <1>5, <1>7 DEF GetGroup, Goto, BeforeGroupPC, storeVars
<1>8. CASE RegetGroup(r)
  BY <1>5, <1>6, <1>8 DEF RegetGroup, storeVars
<1>9. CASE InsertGroup(r)
  <2>1. ASSUME NEW g \in GroupsOf(Unused),
               groups' = [groups EXCEPT ![g] = [fp |-> ing[r].fp, count |-> 0]],
               ing' = [ing EXCEPT ![r] = [@ EXCEPT !.group = g, !.attempt = 0]],
               Goto(r, "bump")
        PROVE  ActorKeeps(r)
    BY <1>1, <1>3, <2>1 DEF GroupsOf, Goto
  <2>2. CASE Goto(r, "reget_group") /\ UNCHANGED ing
    BY <1>1, <1>2, <1>4, <2>2 DEF Goto, BeforeGroupPC
  <2>. QED BY <1>6, <1>9, <2>1, <2>2 DEF InsertGroup
<1>. QED BY <1>7, <1>8, <1>9

\* So do those of an ingest that holds its group.
LEMMA HoldingKeeps ==
    ASSUME TypeOK, OneGroupPerFingerprint, GroupsHeld, [Next]_vars, NEW r \in Request,
           \/ BumpCount(r) \/ FindActive(r) \/ FindPast(r) \/ Reopen(r) \/ ReopenEntry(r)
           \/ GetOpen(r) \/ InsertOpen(r) \/ RegetOpen(r) \/ PersistEvent(r)
    PROVE  ActorKeeps(r)
<1>1. /\ ing \in [Request -> IngestLocals]
      /\ pc \in [Request -> Statement]
      /\ outcome \in [Request -> Outcome]
  BY DEF TypeOK, IngestTypeOK, RequestsTypeOK
<1>2. /\ pc[r] \in HoldingGroupPC /\ outcome[r] = "running"
      /\ ing[r].fp \in Fingerprint /\ ing[r].group # NoGroup
      /\ groups[ing[r].group].fp = ing[r].fp
  BY DEF BumpCount, FindActive, FindPast, Reopen, ReopenEntry, GetOpen, InsertOpen,
         RegetOpen, PersistEvent, At, CountedPC, HoldingGroupPC, GroupsHeld, GroupHeld
<1>3. ing[r].group \in Group
  BY <1>1, <1>2 DEF IngestLocals
<1>4. groups'[ing[r].group].fp = ing[r].fp /\ ing[r].fp # Unused
  BY <1>2, <1>3, GroupsStep, StoreAssumption
<1>5. CASE /\ ing'[r].fp = ing[r].fp /\ ing'[r].group = ing[r].group
           /\ pc'[r] \in HoldingGroupPC /\ outcome'[r] \in {"running", "error"}
           /\ BumpCount(r) \/ (pc[r] # "bump" /\ pc'[r] # "bump")
  BY <1>2, <1>3, <1>4, <1>5
     DEF ActorKeeps, GroupHeld, Counted, CountedPC, HoldingGroupPC, BeforeGroupPC, WorkflowPC
<1>6. ASSUME NEW s \in HoldingGroupPC \ {"bump"}, Goto(r, s), UNCHANGED ing,
             BumpCount(r) \/ pc[r] # "bump"
      PROVE  ActorKeeps(r)
  BY <1>1, <1>2, <1>5, <1>6 DEF Goto
<1>7. ASSUME Raise(r), UNCHANGED ing, pc[r] # "bump"
      PROVE  ActorKeeps(r)
  BY <1>1, <1>2, <1>5, <1>7 DEF Raise
<1>8. ASSUME NEW i \in Incident, NEW s \in HoldingGroupPC \ {"bump"}, HoldIncident(r, i, s),
             pc[r] # "bump"
      PROVE  ActorKeeps(r)
  <2>1. ing[r] \in IngestLocals /\ ing'[r] = [ing[r] EXCEPT !.incident = i, !.attempt = 0]
    BY <1>1, <1>8 DEF HoldIncident
  <2>2. ing'[r].fp = ing[r].fp /\ ing'[r].group = ing[r].group
    BY <2>1 DEF IngestLocals
  <2>. QED BY <1>1, <1>2, <1>5, <1>8, <2>2 DEF HoldIncident, Goto
<1>9. ASSUME RetryFrom(r, "get_open"), pc[r] # "bump"
      PROVE  ActorKeeps(r)
  <2>1. CASE Raise(r) /\ UNCHANGED ing
    BY <1>7, <1>9, <2>1
  <2>2. CASE ing' = [ing EXCEPT ![r].attempt = @ + 1] /\ Goto(r, "get_open")
    <3>1. ing'[r].fp = ing[r].fp /\ ing'[r].group = ing[r].group
      BY <1>1, <2>2 DEF IngestLocals
    <3>. QED BY <1>1, <1>2, <1>5, <1>9, <2>2, <3>1 DEF Goto, HoldingGroupPC, CountedPC
  <2>. QED BY <1>9, <2>1, <2>2 DEF RetryFrom
<1>10. {"find_active", "find_past", "reopen", "reopen_entry", "get_open", "insert_open",
        "reget_open", "persist"} \subseteq HoldingGroupPC \ {"bump"}
  BY DEF HoldingGroupPC, CountedPC
<1>11. CASE BumpCount(r)
  BY <1>6, <1>10, <1>11 DEF BumpCount
<1>12. CASE FindActive(r)
  BY <1>6, <1>8, <1>10, <1>12 DEF FindActive, At
<1>13. CASE FindPast(r)
  BY <1>6, <1>8, <1>10, <1>13 DEF FindPast, At
<1>14. CASE Reopen(r)
  BY <1>6, <1>7, <1>10, <1>14 DEF Reopen, At
<1>15. CASE ReopenEntry(r)
  BY <1>6, <1>7, <1>10, <1>15 DEF ReopenEntry, At
<1>16. CASE GetOpen(r)
  BY <1>6, <1>8, <1>10, <1>16 DEF GetOpen, At, IncidentsIn
<1>17. CASE InsertOpen(r)
  BY <1>6, <1>8, <1>9, <1>10, <1>17 DEF InsertOpen, At
<1>18. CASE RegetOpen(r)
  BY <1>8, <1>9, <1>10, <1>18 DEF RegetOpen, At, IncidentsIn
<1>19. CASE PersistEvent(r)
  <2>1. CASE Raise(r)
    BY <1>7, <1>19, <2>1 DEF PersistEvent, At
  <2>2. CASE events' = [events EXCEPT ![r] = ing[r].group] /\ Answer(r)
    <3>1. events'[r] # NoGroup
      BY <1>2, <2>2 DEF TypeOK, StoreTypeOK
    <3>2. pc'[r] = "answered" /\ outcome'[r] = "ok" /\ ing' = ing /\ pc[r] = "persist"
      BY <1>1, <1>19, <2>2 DEF Answer, PersistEvent, At
    <3>. QED BY <1>2, <1>3, <1>4, <3>1, <3>2
             DEF ActorKeeps, GroupHeld, Counted, CountedPC, HoldingGroupPC, BeforeGroupPC, WorkflowPC
  <2>. QED BY <1>19, <2>1, <2>2 DEF PersistEvent
<1>. QED BY <1>11, <1>12, <1>13, <1>14, <1>15, <1>16, <1>17, <1>18, <1>19

-----------------------------------------------------------------------------
(* Steps that are not an ingest's *)

\* So do arrivals, the workflow and killed workers.
LEMMA OthersKeep ==
    ASSUME TypeOK, OneGroupPerFingerprint, GroupsHeld, [Next]_vars, NEW r \in Request,
           Arrive(r) \/ (WorkflowStep(r) /\ UNCHANGED ing) \/ Killed(r)
    PROVE  ActorKeeps(r)
<1>1. /\ ing \in [Request -> IngestLocals]
      /\ pc \in [Request -> Statement]
      /\ outcome \in [Request -> Outcome]
  BY DEF TypeOK, IngestTypeOK, RequestsTypeOK
<1>2. GroupHeld(r)
  BY DEF GroupsHeld
<1>3. ASSUME NEW fp \in Arriving, NEW severity \in Severity, StartIngest(r, fp, severity)
      PROVE  ActorKeeps(r)
  <2>1. ing[r] \in IngestLocals /\ ing'[r] = [ing[r] EXCEPT !.fp = fp, !.severity = severity]
    BY <1>1, <1>3 DEF StartIngest
  <2>2. /\ ing'[r].fp = fp /\ ing'[r].group = ing[r].group
        /\ ing'[r].incident = ing[r].incident
    BY <2>1 DEF IngestLocals
  <2>3. /\ pc[r] = "arriving" /\ outcome[r] = "running"
        /\ pc'[r] = "get_group" /\ outcome'[r] = "running"
    BY <1>1, <1>3 DEF StartIngest, At, Goto
  <2>4. fp \in Fingerprint /\ fp # Unused
    BY TrackerAssumption, StoreAssumption
  <2>. QED BY <1>2, <2>2, <2>3, <2>4, StoreAssumption
           DEF ActorKeeps, GroupHeld, Counted, CountedPC, HoldingGroupPC, BeforeGroupPC, WorkflowPC
<1>4. CASE /\ UNCHANGED ing /\ pc[r] \in {"arriving"} \cup WorkflowPC
           /\ pc'[r] \in WorkflowPC \cup {"answered"}
           /\ outcome'[r] \in {"running", "error", "ok"}
           /\ pc'[r] = "answered" <=> outcome'[r] = "ok"
  BY <1>2, <1>4, StoreAssumption
     DEF ActorKeeps, GroupHeld, Counted, CountedPC, HoldingGroupPC, BeforeGroupPC, WorkflowPC
<1>5. ASSUME NEW op \in Ops, NEW ids \in SUBSET Incident, Load(r, op, ids), UNCHANGED ing
      PROVE  ActorKeeps(r)
  BY <1>1, <1>4, <1>5 DEF Load, At, Goto, Answer, WorkflowPC
<1>6. ASSUME WorkflowStep(r), UNCHANGED ing
      PROVE  ActorKeeps(r)
  BY <1>1, <1>4, <1>6 DEF WorkflowStep, SkipUnchanged, Save, AppendEntry, Refused, Advance,
                          At, Goto, Answer, Raise, WorkflowPC
<1>7. ASSUME Killed(r)
      PROVE  ActorKeeps(r)
  <2>1. /\ UNCHANGED <<ing, pc, groups, events>> /\ outcome'[r] = "killed"
        /\ outcome[r] = "running"
    BY <1>1, <1>7 DEF Killed, WorkerKilled, storeVars
  <2>. QED BY <1>2, <2>1 DEF ActorKeeps, GroupHeld, Counted
<1>. QED BY <1>3, <1>5, <1>6, <1>7 DEF Arrive

-----------------------------------------------------------------------------
(* The steps of Next, one request at a time *)

\* Every step has one actor, which keeps what ActorKeeps says; everything the
\* other requests hold stays.
LEMMA StepKeeps ==
    ASSUME TypeOK, OneGroupPerFingerprint, GroupsHeld, [Next]_vars
    PROVE  \/ UNCHANGED vars
           \/ \E r \in Request :
                 /\ ActorKeeps(r)
                 /\ \A q \in Request \ {r} :
                       ing'[q] = ing[q] /\ pc'[q] = pc[q] /\ outcome'[q] = outcome[q]
<1>1. ASSUME NEW r \in Request, Arrive(r) \/ Step(r) \/ Killed(r)
      PROVE  /\ ActorKeeps(r)
             /\ \A q \in Request \ {r} :
                   ing'[q] = ing[q] /\ pc'[q] = pc[q] /\ outcome'[q] = outcome[q]
  <2>1. ActorKeeps(r)
    BY <1>1, UpsertKeeps, HoldingKeeps, OthersKeep DEF Step, IngestStep
  <2>. QED BY <1>1, <2>1, OnlyActor
<1>. QED BY <1>1 DEF Next

\* Every step keeps the groups that ingests hold.
LEMMA GroupsHeldStep ==
    ASSUME TypeOK, OneGroupPerFingerprint, GroupsHeld, [Next]_vars
    PROVE  GroupsHeld'
<1>1. CASE UNCHANGED vars
  BY <1>1 DEF GroupsHeld, GroupHeld, vars
<1>2. ASSUME NEW r \in Request, ActorKeeps(r),
             \A q \in Request \ {r} :
                ing'[q] = ing[q] /\ pc'[q] = pc[q] /\ outcome'[q] = outcome[q]
      PROVE  GroupsHeld'
  <2>1. ASSUME NEW q \in Request, q # r
        PROVE  GroupHeld(q)'
    <3>1. GroupHeld(q) /\ ing[q].group \in Group \cup {NoGroup}
      BY DEF GroupsHeld, TypeOK, IngestTypeOK, IngestLocals
    <3>2. ing[q].group # NoGroup => groups'[ing[q].group].fp = groups[ing[q].group].fp
      BY <3>1, GroupsStep DEF GroupHeld
    <3>. QED BY <1>2, <2>1, <3>1, <3>2 DEF GroupHeld
  <2>2. GroupHeld(r)'
    BY <1>2 DEF ActorKeeps
  <2>. QED BY <2>1, <2>2 DEF GroupsHeld
<1>. QED BY <1>1, <1>2, StepKeeps

-----------------------------------------------------------------------------
(* The occurrence count *)

\* Every step keeps the count of a group the number of ingests that counted.
LEMMA OccurrencesStep ==
    ASSUME TypeOK, OneGroupPerFingerprint, GroupsHeld, OccurrencesCounted, [Next]_vars
    PROVE  OccurrencesCounted'
<1>1. \A g \in Group : CountedIn(g) = {q \in Request : Counted(q, g)}
      /\ CountedIn(g)' = {q \in Request : Counted(q, g)'}
  BY DEF CountedIn, Counted
<1>2. SUFFICES ASSUME NEW g \in Group, GroupLive(g)'
               PROVE  groups'[g].count = Cardinality(CountedIn(g)')
  BY DEF OccurrencesCounted
<1>3. CASE UNCHANGED vars
  BY <1>2, <1>3 DEF vars, OccurrencesCounted, GroupLive, CountedIn
<1>4. ASSUME NEW r \in Request, BumpCount(r), ing[r].group = g
      PROVE  groups'[g].count = Cardinality(CountedIn(g)')
  <2>1. GroupLive(g) /\ groups'[g].count = groups[g].count + 1
    <3>1. GroupLive(g)
      BY <1>2, <1>4 DEF BumpCount, GroupLive
    <3>. QED BY <1>4, <3>1 DEF BumpCount, TypeOK, StoreTypeOK, GroupRow
  <2>2. /\ ~Counted(r, g) /\ Counted(r, g)'
        /\ \A q \in Request \ {r} : Counted(q, g)' <=> Counted(q, g)
    BY <1>4 DEF BumpCount, At, Goto, Counted, CountedPC, TypeOK, RequestsTypeOK
  <2>3. CountedIn(g)' = CountedIn(g) \cup {r} /\ r \notin CountedIn(g)
    BY <1>1, <2>2
  <2>4. IsFiniteSet(CountedIn(g))
    BY FS_Subset, StoreAssumption DEF CountedIn
  <2>5. Cardinality(CountedIn(g)') = Cardinality(CountedIn(g)) + 1
    BY <2>3, <2>4, FS_AddElement
  <2>. QED BY <2>1, <2>5 DEF OccurrencesCounted
<1>5. ASSUME NEW r \in Request, ActorKeeps(r),
             BumpCount(r) => ing[r].group # g,
             \A q \in Request \ {r} : ing'[q] = ing[q] /\ pc'[q] = pc[q]
      PROVE  CountedIn(g)' = CountedIn(g)
  <2>1. \A q \in Request \ {r} : Counted(q, g)' <=> Counted(q, g)
    BY <1>5 DEF Counted
  <2>2. Counted(r, g)' <=> Counted(r, g)
    <3>1. CASE BumpCount(r)
      BY <1>5, <3>1 DEF BumpCount, Counted
    <3>2. CASE ~BumpCount(r)
      BY <1>5, <3>2 DEF ActorKeeps
    <3>. QED BY <3>1, <3>2
  <2>. QED BY <1>1, <2>1, <2>2
<1>6. ASSUME CountedIn(g)' = CountedIn(g),
             \A r \in Request : BumpCount(r) => ing[r].group # g
      PROVE  groups'[g].count = Cardinality(CountedIn(g)')
  <2>1. CASE groups'[g] = groups[g]
    BY <1>2, <1>6, <2>1 DEF OccurrencesCounted, GroupLive
  <2>2. CASE groups'[g] # groups[g]
    <3>1. PICK r \in Request : InsertGroup(r) \/ BumpCount(r)
      BY <2>2, GroupWriters
    <3>2. ~BumpCount(r)
      BY <1>6, <2>2 DEF BumpCount, TypeOK, StoreTypeOK
    <3>3. groups[g].fp = Unused /\ groups'[g].count = 0
      <4>1. PICK h \in GroupsOf(Unused) :
                groups' = [groups EXCEPT ![h] = [fp |-> ing[r].fp, count |-> 0]]
        BY <2>2, <3>1, <3>2 DEF InsertGroup
      <4>2. h = g
        BY <2>2, <4>1 DEF TypeOK, StoreTypeOK
      <4>. QED BY <4>1, <4>2 DEF GroupsOf, TypeOK, StoreTypeOK
    <3>4. CountedIn(g) = {}
      <4>1. \A q \in Request : ing[q].group # g
        BY <3>3, StoreAssumption DEF GroupsHeld, GroupHeld
      <4>. QED BY <4>1 DEF CountedIn
    <3>. QED BY <1>6, <3>3, <3>4, FS_EmptySet
  <2>. QED BY <2>1, <2>2
<1>7. CASE \A r \in Request : BumpCount(r) => ing[r].group # g
  BY <1>3, <1>5, <1>6, <1>7, StepKeeps
<1>. QED BY <1>4, <1>7

-----------------------------------------------------------------------------
(* Stored events *)

\* An event is stored by its own ingest, which answers.
LEMMA EventsKept ==
    ASSUME TypeOK, GroupsHeld, [Next]_vars, NEW q \in Request
    PROVE  \/ events'[q] = events[q]
           \/ PersistEvent(q) /\ Answer(q) /\ UNCHANGED <<groups, ing>>
              /\ events'[q] = ing[q].group /\ events'[q] # NoGroup
<1>1. UNCHANGED events \/ \E r \in Request : PersistEvent(r)
  BY DEF Next, vars, Arrive, Step, Killed, IngestStep, WorkflowStep, StartIngest, Load,
         GetGroup, InsertGroup, RegetGroup, BumpCount, FindActive, FindPast, Reopen,
         ReopenEntry, GetOpen, InsertOpen, RegetOpen, SkipUnchanged, Save, AppendEntry, storeVars
<1>2. ASSUME NEW r \in Request, PersistEvent(r), UNCHANGED events
      PROVE  events'[q] = events[q]
  BY <1>2
<1>3. ASSUME NEW r \in Request, PersistEvent(r), Answer(r),
             events' = [events EXCEPT ![r] = ing[r].group]
      PROVE  \/ events'[q] = events[q]
             \/ PersistEvent(q) /\ Answer(q) /\ UNCHANGED <<groups, ing>>
                /\ events'[q] = ing[q].group /\ events'[q] # NoGroup
  <2>1. CASE q # r
    BY <1>3, <2>1 DEF TypeOK, StoreTypeOK
  <2>2. CASE q = r
    <3>1. events'[q] = ing[q].group
      BY <1>3, <2>2 DEF TypeOK, StoreTypeOK
    <3>2. ing[q].group # NoGroup
      BY <1>3, <2>2 DEF PersistEvent, At, GroupsHeld, GroupHeld, HoldingGroupPC, CountedPC
    <3>. QED BY <1>3, <2>2, <3>1, <3>2 DEF PersistEvent
  <2>. QED BY <2>1, <2>2
<1>4. ASSUME NEW r \in Request, PersistEvent(r)
      PROVE  UNCHANGED events \/ (events' = [events EXCEPT ![r] = ing[r].group] /\ Answer(r))
  BY <1>4 DEF PersistEvent
<1>. QED BY <1>1, <1>2, <1>3, <1>4

\* Every step keeps stored events counted.
LEMMA StoredEventsStep ==
    ASSUME TypeOK, OneGroupPerFingerprint, GroupsHeld, StoredEventsCounted, [Next]_vars
    PROVE  StoredEventsCounted'
<1> SUFFICES ASSUME NEW q \in Request
             PROVE  /\ events'[q] # NoGroup =>
                          /\ ing'[q].group = events'[q] /\ pc'[q] \in CountedPC
                          /\ groups'[events'[q]].fp = ing'[q].fp
                    /\ outcome'[q] = "ok" /\ ing'[q].fp # Unused => events'[q] # NoGroup
  BY DEF StoredEventsCounted, CountedIn, Counted
<1>1. \/ ActorKeeps(q)
      \/ ing'[q] = ing[q] /\ pc'[q] = pc[q] /\ outcome'[q] = outcome[q]
  BY StepKeeps DEF vars
<1>2. /\ events[q] # NoGroup => Counted(q, events[q]) /\ groups[events[q]].fp = ing[q].fp
      /\ outcome[q] = "ok" /\ ing[q].fp # Unused => events[q] # NoGroup
  BY DEF StoredEventsCounted, CountedIn, Counted
<1>3. events'[q] # NoGroup =>
         /\ ing'[q].group = events'[q] /\ pc'[q] \in CountedPC
         /\ groups'[events'[q]].fp = ing'[q].fp
  <2>1. CASE events'[q] = events[q] /\ events[q] # NoGroup
    <3>1. events[q] \in Group /\ pc[q] \in CountedPC /\ ing[q].group = events[q]
      BY <1>2, <2>1 DEF Counted, TypeOK, StoreTypeOK
    <3>2. ~BumpCount(q)
      BY <3>1 DEF BumpCount, At, CountedPC
    <3>3. Counted(q, events[q])' /\ ing'[q].fp = ing[q].fp
      BY <1>1, <1>2, <2>1, <3>1, <3>2 DEF ActorKeeps, Counted
    <3>4. ing[q].fp # Unused
      BY <2>1, <3>1 DEF GroupsHeld, GroupHeld
    <3>5. groups'[events[q]].fp = groups[events[q]].fp
      BY <1>2, <2>1, <3>1, <3>4, GroupsStep
    <3>. QED BY <1>2, <2>1, <3>3, <3>5 DEF Counted
  <2>2. CASE PersistEvent(q) /\ Answer(q) /\ UNCHANGED <<groups, ing>>
             /\ events'[q] = ing[q].group /\ events'[q] # NoGroup
    <3>1. pc'[q] = "answered"
      BY <2>2 DEF Answer, TypeOK, RequestsTypeOK
    <3>. QED BY <2>2, <3>1 DEF Counted, CountedPC, GroupsHeld, GroupHeld
  <2>. QED BY <2>1, <2>2, EventsKept
<1>4. outcome'[q] = "ok" /\ ing'[q].fp # Unused => events'[q] # NoGroup
  BY <1>1, <1>2, EventsKept DEF ActorKeeps
<1>. QED BY <1>3, <1>4

-----------------------------------------------------------------------------
(* The incident an ingest reports *)

\* Every step keeps the incident that an ingest reports one of its group.
LEMMA ReportedStep ==
    ASSUME TypeOK, GroupsHeld, ResolvedAtMatchesStatus, CopiesConsistent,
           ReportedIncidentOfGroup, [Next]_vars
    PROVE  ReportedIncidentOfGroup'
<1> DEFINE Reports(q) == ing'[q].incident # NoIncident =>
                            /\ incidents'[ing'[q].incident].status \in Status
                            /\ incidents'[ing'[q].incident].group = ing'[q].group
<1>1. /\ ing \in [Request -> IngestLocals]
      /\ incidents \in [Incident -> IncidentRow]
  BY DEF TypeOK, IngestTypeOK, StoreTypeOK
<1>2. ASSUME NEW q \in Request, ing'[q].incident = ing[q].incident,
             ing'[q].group = ing[q].group
      PROVE  Reports(q)
  <2>1. ing[q].incident # NoIncident => ing[q].incident \in Incident
    BY <1>1 DEF IngestLocals
  <2>. QED BY <1>2, <2>1, IncidentKept DEF ReportedIncidentOfGroup, Live
<1>3. ASSUME NEW q \in Request, ing' = ing
      PROVE  Reports(q)
  BY <1>2, <1>3
<1>4. ASSUME NEW q \in Request, HoldGroup(q) \/ InsertGroup(q),
             pc[q] \in BeforeGroupPC
      PROVE  Reports(q)
  <2>1. ing[q].incident = NoIncident
    BY <1>4 DEF GroupsHeld, GroupHeld
  <2>2. \/ UNCHANGED ing
        \/ ing' = [ing EXCEPT ![q].attempt = @ + 1]
        \/ \E g \in Group : ing' = [ing EXCEPT ![q] = [@ EXCEPT !.group = g, !.attempt = 0]]
    BY <1>4 DEF HoldGroup, InsertGroup, RetryFrom, GroupsOf
  <2>3. ing'[q].incident = NoIncident
    BY <1>1, <2>1, <2>2 DEF IngestLocals
  <2>. QED BY <2>3
<1>5. ASSUME NEW q \in Request, NEW s \in Statement, NEW i \in Incident, HoldIncident(q, i, s),
             \/ Live(i) /\ incidents[i].group = ing[q].group
             \/ Live(i)' /\ incidents'[i].group = ing[q].group
      PROVE  Reports(q)
  <2>1. ing[q] \in IngestLocals /\ ing'[q] = [ing[q] EXCEPT !.incident = i, !.attempt = 0]
    BY <1>1, <1>5 DEF HoldIncident
  <2>2. ing'[q].incident = i /\ ing'[q].group = ing[q].group
    BY <2>1 DEF IngestLocals
  <2>. QED BY <1>5, <2>2, IncidentKept DEF Live
<1>6. ASSUME NEW q \in Request, NEW s \in Statement, RetryFrom(q, s)
      PROVE  Reports(q)
  <2>1. UNCHANGED ing \/ ing' = [ing EXCEPT ![q].attempt = @ + 1]
    BY <1>6 DEF RetryFrom
  <2>2. ing'[q].incident = ing[q].incident /\ ing'[q].group = ing[q].group
    BY <1>1, <2>1 DEF IngestLocals
  <2>. QED BY <1>2, <2>2
<1>7. ASSUME NEW q \in Request, IngestStep(q)
      PROVE  Reports(q)
  <2>1. {"get_group", "get_open", "persist", "reopen"} \subseteq Statement
    BY DEF Statement, IngestPC
  <2>2. CASE GetGroup(q)
    BY <1>3, <1>4, <2>2 DEF GetGroup, At, BeforeGroupPC
  <2>3. CASE InsertGroup(q)
    BY <1>4, <2>3 DEF InsertGroup, At, BeforeGroupPC
  <2>4. CASE RegetGroup(q)
    BY <1>4, <1>6, <2>1, <2>4 DEF RegetGroup, At, BeforeGroupPC
  <2>5. CASE BumpCount(q) \/ Reopen(q) \/ ReopenEntry(q) \/ PersistEvent(q)
    BY <1>3, <2>5 DEF BumpCount, Reopen, ReopenEntry, PersistEvent
  <2>6. CASE FindActive(q)
    BY <1>3, <1>5, <2>1, <2>6 DEF FindActive, IsNewest, IncidentsIn, Live, Active, Status
  <2>7. CASE FindPast(q)
    BY <1>3, <1>5, <2>1, <2>7 DEF FindPast, IsNewest, IncidentsIn, Live, Reopenable, Status
  <2>8. CASE GetOpen(q)
    BY <1>3, <1>5, <2>1, <2>8 DEF GetOpen, IncidentsIn, Live, Status
  <2>9. CASE RegetOpen(q)
    BY <1>5, <1>6, <2>1, <2>9 DEF RegetOpen, IncidentsIn, Live, Status
  <2>10. CASE InsertOpen(q)
    <3>1. ASSUME NEW i \in Incident, HoldIncident(q, i, "persist"),
                 incidents' = [incidents EXCEPT ![i] =
                     [group |-> ing[q].group, status |-> "open", resolvedAt |-> FALSE,
                      severity |-> ing[q].severity]]
          PROVE  Reports(q)
      <4>1. Live(i)' /\ incidents'[i].group = ing[q].group
        BY <1>1, <3>1 DEF Live, Status
      <4>. QED BY <1>5, <2>1, <3>1, <4>1
    <3>. QED BY <1>3, <1>6, <2>1, <2>10, <3>1 DEF InsertOpen
  <2>. QED BY <1>7, <2>2, <2>3, <2>4, <2>5, <2>6, <2>7, <2>8, <2>9, <2>10 DEF IngestStep
<1>8. ASSUME NEW q \in Request, NEW fp \in Arriving, NEW severity \in Severity,
             StartIngest(q, fp, severity)
      PROVE  Reports(q)
  <2>1. ing'[q].incident = ing[q].incident /\ ing'[q].group = ing[q].group
    BY <1>1, <1>8 DEF StartIngest, IngestLocals
  <2>. QED BY <1>2, <2>1
<1>9. ASSUME NEW r \in Request, NEW q \in Request, Arrive(r) \/ Step(r) \/ Killed(r)
      PROVE  Reports(q)
  <2>1. CASE q # r
    BY <1>2, <1>9, <2>1, OnlyActor
  <2>2. CASE q = r
    BY <1>3, <1>7, <1>8, <1>9, <2>2 DEF Arrive, Step, Killed
  <2>. QED BY <2>1, <2>2
<1>10. \A q \in Request : Reports(q)
  BY <1>3, <1>9 DEF Next, vars
<1>. QED BY <1>10 DEF ReportedIncidentOfGroup, Live

-----------------------------------------------------------------------------
(* The inductive invariant *)

\* A consistent seed satisfies every part of IndInv.
LEMMA InitInv == Init => IndInv
<1> SUFFICES ASSUME NEW s \in Seeds, InitFrom(s)
             PROVE  IndInv
  BY DEF Init
<1>1. ConsistentSeed(s) /\ s \in Seed
  BY TrackerAssumption
<1>2. TypeOK
  BY InitType DEF Init
<1>3. /\ groups = s.groups /\ incidents = s.incidents /\ events = s.events
      /\ groups \in [Group -> GroupRow] /\ incidents \in [Incident -> IncidentRow]
      /\ events \in [Request -> Group \cup {NoGroup}]
  BY <1>1 DEF InitFrom, Seed
<1>4. \A r \in Request :
         /\ ing[r].group = events[r] /\ ing[r].incident = NoIncident
         /\ ing[r].fp = IF events[r] # NoGroup THEN groups[events[r]].fp ELSE Unused
         /\ pc[r] = IF events[r] # NoGroup THEN "answered" ELSE "arriving"
         /\ outcome[r] = IF events[r] # NoGroup THEN "ok" ELSE "running"
         /\ wf[r].todo = {}
  BY <1>3 DEF InitFrom
<1>5. OneOpenPerGroup /\ ReportedIncidentOfGroup /\ CopiesConsistent
  BY <1>1, <1>3, <1>4 DEF ConsistentSeed, OneOpenPerGroup, ReportedIncidentOfGroup, CopiesConsistent
<1>6. OneGroupPerFingerprint
  BY <1>1, <1>3 DEF ConsistentSeed, OneGroupPerFingerprint, GroupLive
<1>7. ResolvedAtMatchesStatus
  BY <1>1, <1>3 DEF ConsistentSeed, ResolvedAtMatchesStatus
<1>8. \A r \in Request : events[r] # NoGroup => groups[events[r]].fp \in Fingerprint
  BY <1>1, <1>3 DEF ConsistentSeed
<1>9. StoredEventsCounted
  BY <1>3, <1>4 DEF StoredEventsCounted, CountedIn, CountedPC
<1>10. GroupsHeld
  BY <1>4, <1>8, StoreAssumption
     DEF GroupsHeld, GroupHeld, BeforeGroupPC, HoldingGroupPC, CountedPC, WorkflowPC
<1>11. OccurrencesCounted
  <2> SUFFICES ASSUME NEW g \in Group, GroupLive(g)
               PROVE  groups[g].count = Cardinality(CountedIn(g))
    BY DEF OccurrencesCounted
  <2>1. groups[g].count = Cardinality({r \in Request : events[r] = g})
    BY <1>1, <1>3, StoreAssumption DEF ConsistentSeed, GroupLive
  <2>2. \A r \in Request : (ing[r].group = g /\ pc[r] \in CountedPC) <=> events[r] = g
    BY <1>4, StoreAssumption DEF CountedPC
  <2>3. CountedIn(g) = {r \in Request : events[r] = g}
    BY <2>2 DEF CountedIn
  <2>. QED BY <2>1, <2>3
<1>. QED BY <1>2, <1>5, <1>6, <1>7, <1>9, <1>10, <1>11 DEF IndInv

\* The inductive invariant is kept by every step.
LEMMA IndInvStep == IndInv /\ [Next]_vars => IndInv'
<1> SUFFICES ASSUME IndInv, [Next]_vars
             PROVE  IndInv'
  OBVIOUS
<1>1. /\ TypeOK /\ OneOpenPerGroup /\ OneGroupPerFingerprint /\ ResolvedAtMatchesStatus
      /\ OccurrencesCounted /\ StoredEventsCounted /\ ReportedIncidentOfGroup
      /\ GroupsHeld /\ CopiesConsistent
  BY DEF IndInv
<1>2. TypeOK'
  BY <1>1, TypeStep
<1>3. OneOpenPerGroup'
  BY <1>1, OneOpenStep
<1>4. OneGroupPerFingerprint' /\ ResolvedAtMatchesStatus' /\ CopiesConsistent'
  BY <1>1, GroupsStep, IncidentKept, CopiesStep
<1>5. OccurrencesCounted' /\ StoredEventsCounted' /\ ReportedIncidentOfGroup' /\ GroupsHeld'
  BY <1>1, OccurrencesStep, StoredEventsStep, ReportedStep, GroupsHeldStep
<1>. QED BY <1>2, <1>3, <1>4, <1>5 DEF IndInv

\* In every reachable state of every instance, everything IndInv says holds.
THEOREM Safety == Spec => []IndInv
<1>. QED BY InitInv, IndInvStep, PTL DEF Spec

\* The database never holds two OPEN incidents of one error group, whatever
\* ingests, edits and verifications interleave.
THEOREM OneOpenIncident == Spec => []OneOpenPerGroup
<1>1. IndInv => OneOpenPerGroup
  BY DEF IndInv
<1>. QED BY <1>1, Safety, PTL

\* resolved_at is set exactly on the resolved incidents, however stale the
\* copies are that handlers save.
THEOREM ResolvedAtKept == Spec => []ResolvedAtMatchesStatus
<1>1. IndInv => ResolvedAtMatchesStatus
  BY DEF IndInv
<1>. QED BY <1>1, Safety, PTL

\* ErrorGroup.count is the number of ingests that counted an occurrence in it:
\* concurrent increments are neither lost nor repeated.
THEOREM CountExact == Spec => []OccurrencesCounted
<1>1. IndInv => OccurrencesCounted
  BY DEF IndInv
<1>. QED BY <1>1, Safety, PTL

\* Every stored Event was counted in the group of its own fingerprint, and an
\* ingest reports success only for a stored Event.
THEOREM EventsAccounted == Spec => []StoredEventsCounted
<1>1. IndInv => StoredEventsCounted
  BY DEF IndInv
<1>. QED BY <1>1, Safety, PTL

\* An ingest reports an incident of the very group its Event goes to.
THEOREM ReportedIncident == Spec => []ReportedIncidentOfGroup
<1>1. IndInv => ReportedIncidentOfGroup
  BY DEF IndInv
<1>. QED BY <1>1, Safety, PTL

-----------------------------------------------------------------------------
(***************************************************************************)
(* A change of a status owes its timeline entry: the statement that makes  *)
(* it is followed by the one that appends the entry, about the same row.   *)
(***************************************************************************)

\* The change the action property is about, of one incident.
EntryFollows ==
    \A i \in Incident :
        Live(i) /\ incidents'[i].status # incidents[i].status
        => \E r \in Request : EntryOwed(r, i)'

\* A statement leaves its request where it goes.
LEMMA GoneTo ==
    ASSUME TypeOK, NEW r \in Request, NEW here, NEW there, At(r, here), Goto(r, there)
    PROVE  pc'[r] = there /\ outcome'[r] = "running"
BY DEF TypeOK, RequestsTypeOK, At, Goto

\* Each writer of the incidents changes a status of the row its request goes on
\* to report, or stores a new row.
LEMMA EntryFollowsStep == ASSUME TypeOK, [Next]_vars PROVE EntryFollows
<1>1. SUFFICES ASSUME NEW i \in Incident, Live(i), incidents'[i].status # incidents[i].status
               PROVE  \E r \in Request : EntryOwed(r, i)'
  BY DEF EntryFollows
<1>2. incidents \in [Incident -> IncidentRow]
  BY DEF TypeOK, StoreTypeOK
<1>3. ASSUME NEW r \in Request, Reopen(r) PROVE EntryOwed(r, i)'
  <2>1. /\ At(r, "reopen") /\ Goto(r, "reopen_entry") /\ UNCHANGED ing
        /\ incidents' = [incidents EXCEPT
               ![ing[r].incident] = [@ EXCEPT !.status = "open", !.resolvedAt = FALSE]]
    BY <1>1, <1>3 DEF Reopen
  <2>2. ing[r].incident = i
    BY <1>1, <1>2, <2>1
  <2>3. pc'[r] = "reopen_entry" /\ outcome'[r] = "running" /\ ing'[r].incident = i
    BY <2>1, <2>2, GoneTo
  <2>4. QED
    BY <2>3 DEF EntryOwed, At
<1>4. ASSUME NEW r \in Request, InsertOpen(r) PROVE FALSE
  <2>1. PICK j \in Incident :
          /\ IsNextKey(j)
          /\ incidents' = [incidents EXCEPT ![j] =
                [group |-> ing[r].group, status |-> "open", resolvedAt |-> FALSE,
                 severity |-> ing[r].severity]]
    BY <1>1, <1>4 DEF InsertOpen
  <2>2. j # i
    BY <1>1, <2>1 DEF IsNextKey, Live, Status
  <2>3. QED
    BY <1>1, <1>2, <2>1, <2>2
<1>5. ASSUME NEW r \in Request, Save(r) PROVE EntryOwed(r, i)'
  <2>1. PICK j \in Incident :
          /\ At(r, "save") /\ Current(r, j) /\ Goto(r, "entry") /\ UNCHANGED wf
          /\ incidents' = [incidents EXCEPT ![j] =
                Saved(wf[r].op, @, Changed(wf[r].op, wf[r].copy[j]))]
    BY <1>1, <1>5 DEF Save
  <2>2. j = i
    BY <1>1, <1>2, <2>1
  <2>3. pc'[r] = "entry" /\ outcome'[r] = "running"
    BY <2>1, GoneTo
  <2>4. Current(r, i)'
    BY <2>1, <2>2 DEF Current, IsNewest
  <2>5. QED
    BY <2>3, <2>4 DEF EntryOwed, At
<1>6. QED
  BY <1>1, <1>3, <1>4, <1>5, IncidentWriters

\* Every status change is made by a request whose next statement appends the
\* timeline entry about that incident (incidents/services.py:3), for any
\* requests, operations and interleaving.
THEOREM StatusChangesOweEntries == Spec => StatusChangeOwesEntry
<1>1. TypeOK /\ [Next]_vars => [EntryFollows]_vars
  BY EntryFollowsStep
<1>2. QED
  BY <1>1, TypeCorrect, PTL DEF Spec, StatusChangeOwesEntry, EntryFollows

-----------------------------------------------------------------------------
(***************************************************************************)
(* Tracker implements Ledger: from IndInv, each step of a request counts   *)
(* its occurrence, stores its event, or leaves the ledger as it is.        *)
(***************************************************************************)

\* An event is the last thing an ingest writes: its request has answered.
StoredAnswered == \A r \in Request : events[r] # NoGroup => pc[r] = "answered"

\* An event is stored by the step that answers.
LEMMA StoredAnsweredStep ==
    ASSUME IndInv, StoredAnswered, [Next]_vars
    PROVE  StoredAnswered'
<1>1. TypeOK /\ GroupsHeld
  BY DEF IndInv
<1> SUFFICES ASSUME NEW q \in Request, events'[q] # NoGroup
             PROVE  pc'[q] = "answered"
  BY DEF StoredAnswered
<1>2. CASE events'[q] = events[q]
  <2>1. pc[q] = "answered" /\ outcome[q] = "ok"
    BY <1>1, <1>2 DEF StoredAnswered, GroupsHeld, GroupHeld
  <2>2. ASSUME NEW r \in Request, Arrive(r) \/ Step(r) \/ Killed(r)
        PROVE  r # q
    BY <2>1, <2>2 DEF Arrive, Step, Killed, IngestStep, WorkflowStep, StartIngest, Load, WorkerKilled,
       GetGroup, InsertGroup, RegetGroup, BumpCount, FindActive, FindPast, Reopen, ReopenEntry,
       InsertOpen, GetOpen, RegetOpen, PersistEvent, SkipUnchanged, Save, AppendEntry, At
  <2>. QED BY <1>1, <2>1, <2>2, OnlyActor DEF Next, vars
<1>3. CASE PersistEvent(q) /\ Answer(q)
  BY <1>1, <1>3 DEF Answer, TypeOK, RequestsTypeOK
<1>. QED BY <1>1, <1>2, <1>3, EventsKept

\* The tables of a consistent seed are a ledger whose events are all stored.
LEMMA InitLedger == Init => TheLedger!LedgerInit
<1> SUFFICES ASSUME NEW s \in Seeds, InitFrom(s)
             PROVE  TheLedger!LedgerInit
  BY DEF Init
<1>1. ConsistentSeed(s) /\ s \in Seed
  BY TrackerAssumption
<1>2. /\ groups = s.groups /\ events = s.events
      /\ groups \in [Group -> GroupRow] /\ events \in [Request -> Group \cup {NoGroup}]
  BY <1>1 DEF InitFrom, Seed
<1>3. \A r \in Request : ing[r].group = events[r]
                         /\ pc[r] = IF events[r] # NoGroup THEN "answered" ELSE "arriving"
  BY <1>2 DEF InitFrom
<1>4. \A r \in Request : EntryOf(r) = events[r]
  BY <1>3 DEF EntryOf, CountedPC
<1>5. events = [r \in Request |-> EntryOf(r)]
  BY <1>2, <1>4
<1>6. \A g \in Group : CountOf(g) = Cardinality({r \in Request : events[r] = g})
  <2> SUFFICES ASSUME NEW g \in Group
               PROVE  CountOf(g) = Cardinality({r \in Request : events[r] = g})
    OBVIOUS
  <2>1. CASE GroupLive(g)
    BY <1>1, <1>2, <2>1, StoreAssumption DEF ConsistentSeed, GroupLive, CountOf
  <2>2. CASE ~GroupLive(g)
    <3>1. \A r \in Request : events[r] # g
      BY <1>1, <1>2, <2>2, StoreAssumption DEF ConsistentSeed, GroupLive
    <3>2. {r \in Request : events[r] = g} = {}
      BY <3>1
    <3>. QED BY <2>2, <3>2, FS_EmptySet DEF CountOf
  <2>. QED BY <2>1, <2>2
<1>7. [g \in Group |-> CountOf(g)] =
         [g \in Group |-> Cardinality({r \in Request : [q \in Request |-> EntryOf(q)][r] = g})]
  <2>1. \A g \in Group : {r \in Request : [q \in Request |-> EntryOf(q)][r] = g}
                          = {r \in Request : events[r] = g}
    BY <1>5
  <2>. QED BY <1>6, <2>1
<1>. QED BY <1>2, <1>5, <1>7 DEF TheLedger!LedgerInit, TheLedger!Cardinality, Cardinality

\* The count update is the one step that makes an entry.
LEMMA BumpCounts ==
    ASSUME TypeOK, GroupsHeld, [Next]_vars, NEW r \in Request, BumpCount(r),
           \A q \in Request \ {r} : ing'[q] = ing[q] /\ pc'[q] = pc[q]
    PROVE  \E g \in Group : TheLedger!CountOccurrence(r, g)
<1>1. /\ ing \in [Request -> IngestLocals] /\ pc \in [Request -> Statement]
      /\ groups \in [Group -> GroupRow]
  BY DEF TypeOK, IngestTypeOK, RequestsTypeOK, StoreTypeOK
<1>2. PICK g \in Group : g = ing[r].group /\ GroupLive(g) /\ pc[r] = "bump" /\ g # NoGroup
  BY <1>1 DEF BumpCount, At, GroupsHeld, GroupHeld, HoldingGroupPC, IngestLocals, GroupLive
<1>3. /\ ing' = ing /\ pc'[r] = "find_active" /\ events' = events
      /\ groups' = [groups EXCEPT ![g].count = @ + 1]
  BY <1>1, <1>2 DEF BumpCount, Goto
<1>4. EntryOf(r) = NoGroup /\ EntryOf(r)' = g
  BY <1>2, <1>3 DEF EntryOf, CountedPC
<1>5. \A q \in Request \ {r} : EntryOf(q)' = EntryOf(q)
  BY DEF EntryOf
<1>6. CountOf(g)' = CountOf(g) + 1 /\ \A h \in Group \ {g} : CountOf(h)' = CountOf(h)
  BY <1>1, <1>2, <1>3 DEF CountOf, GroupLive, GroupRow
<1>7. [q \in Request |-> EntryOf(q)'] = [[q \in Request |-> EntryOf(q)] EXCEPT ![r] = g]
  BY <1>4, <1>5
<1>8. [h \in Group |-> CountOf(h)'] = [[h \in Group |-> CountOf(h)] EXCEPT ![g] = @ + 1]
  <2> DEFINE old == [h \in Group |-> CountOf(h)]
             new == [h \in Group |-> CountOf(h)']
  <2>1. \A h \in Group : new[h] = IF h = g THEN old[g] + 1 ELSE old[h]
    BY <1>2, <1>6
  <2>2. [old EXCEPT ![g] = @ + 1] = [h \in Group |-> IF h = g THEN old[g] + 1 ELSE old[h]]
    BY <1>2
  <2>3. new = [h \in Group |-> IF h = g THEN old[g] + 1 ELSE old[h]]
    BY <1>6
  <2>. QED BY <2>2, <2>3
<1>9. TheLedger!CountOccurrence(r, g)
  BY <1>3, <1>4, <1>7, <1>8 DEF TheLedger!CountOccurrence
<1>. QED BY <1>2, <1>9

\* What any other step does to the ledger's two derived variables: nothing.
LEMMA OthersKeepLedger ==
    ASSUME TypeOK, GroupsHeld, [Next]_vars, NEW r \in Request, ActorKeeps(r), ~BumpCount(r),
           Arrive(r) \/ Step(r) \/ Killed(r),
           \A q \in Request \ {r} : ing'[q] = ing[q] /\ pc'[q] = pc[q]
    PROVE  /\ \A q \in Request : EntryOf(q)' = EntryOf(q)
           /\ \A g \in Group : CountOf(g)' = CountOf(g)
<1>1. /\ ing \in [Request -> IngestLocals] /\ groups \in [Group -> GroupRow]
      /\ ing' \in [Request -> IngestLocals]
  BY TypeStep DEF TypeOK, IngestTypeOK, StoreTypeOK
<1>2. EntryOf(r)' = EntryOf(r)
  <2>1. \A g \in Group : Counted(r, g)' <=> Counted(r, g)
    BY DEF ActorKeeps
  <2>2. ing[r].group \in Group \cup {NoGroup} /\ ing'[r].group \in Group \cup {NoGroup}
    BY <1>1 DEF IngestLocals
  <2>. QED BY <2>1, <2>2, StoreAssumption DEF EntryOf, Counted
<1>3. \A q \in Request : EntryOf(q)' = EntryOf(q)
  BY <1>2 DEF EntryOf
<1>4. CASE UNCHANGED groups
  BY <1>3, <1>4 DEF CountOf, GroupLive
<1>5. CASE groups' # groups
  <2>1. InsertGroup(r)
    BY <1>5 DEF Arrive, Step, Killed, IngestStep, WorkflowStep, StartIngest, Load, WorkerKilled,
       GetGroup, RegetGroup, FindActive, FindPast, Reopen, ReopenEntry, InsertOpen,
       GetOpen, RegetOpen, PersistEvent, SkipUnchanged, Save, AppendEntry, storeVars
  <2>2. PICK g \in GroupsOf(Unused) :
            groups' = [groups EXCEPT ![g] = [fp |-> ing[r].fp, count |-> 0]]
    BY <1>5, <2>1 DEF InsertGroup
  <2>3. ~GroupLive(g) /\ g \in Group
    BY <2>2, StoreAssumption DEF GroupsOf, GroupLive
  <2>4. CountOf(g) = 0 /\ CountOf(g)' = 0
    BY <1>1, <2>2, <2>3 DEF CountOf
  <2>5. \A h \in Group \ {g} : CountOf(h)' = CountOf(h)
    BY <1>1, <2>2 DEF CountOf, GroupLive
  <2>. QED BY <1>3, <2>4, <2>5
<1>. QED BY <1>4, <1>5

\* A step of the tracker is a step of the ledger, or none.
LEMMA StepLedger == IndInv /\ StoredAnswered /\ [Next]_vars => [TheLedger!LedgerNext]_(TheLedger!ledgerVars)
<1> SUFFICES ASSUME IndInv, StoredAnswered, [Next]_vars
             PROVE  [TheLedger!LedgerNext]_(TheLedger!ledgerVars)
  OBVIOUS
<1>1. TypeOK /\ GroupsHeld /\ OneGroupPerFingerprint /\ StoredEventsCounted
  BY DEF IndInv
<1>2. CASE UNCHANGED vars
  BY <1>2 DEF vars, TheLedger!ledgerVars, EntryOf, CountOf, GroupLive
<1>3. ASSUME NEW r \in Request, Arrive(r) \/ Step(r) \/ Killed(r)
      PROVE  [TheLedger!LedgerNext]_(TheLedger!ledgerVars)
  <2>1. /\ ActorKeeps(r)
        /\ \A q \in Request \ {r} : ing'[q] = ing[q] /\ pc'[q] = pc[q]
    BY <1>1, <1>3, UpsertKeeps, HoldingKeeps, OthersKeep, OnlyActor DEF Step, IngestStep
  <2>2. CASE BumpCount(r)
    BY <1>1, <2>1, <2>2, BumpCounts DEF TheLedger!LedgerNext
  <2>3. CASE ~BumpCount(r)
    <3>1. /\ [q \in Request |-> EntryOf(q)'] = [q \in Request |-> EntryOf(q)]
          /\ [g \in Group |-> CountOf(g)'] = [g \in Group |-> CountOf(g)]
      BY <1>1, <1>3, <2>1, <2>3, OthersKeepLedger
    <3>2. CASE UNCHANGED events
      BY <3>1, <3>2 DEF TheLedger!ledgerVars
    <3>3. ASSUME NEW q \in Request, PersistEvent(q), events' = [events EXCEPT ![q] = ing[q].group]
          PROVE  TheLedger!StoreOccurrence(q)
      <4>1. ing[q].group # NoGroup /\ pc[q] = "persist" /\ outcome[q] = "running"
        BY <1>1, <3>3 DEF PersistEvent, At, GroupsHeld, GroupHeld, HoldingGroupPC, CountedPC
      <4>2. EntryOf(q) = ing[q].group
        BY <4>1 DEF EntryOf, CountedPC
      <4>3. events[q] = NoGroup
        BY <4>1 DEF StoredAnswered
      <4>. QED BY <3>1, <3>3, <4>1, <4>2, <4>3 DEF TheLedger!StoreOccurrence
    <3>4. UNCHANGED events \/ \E q \in Request :
             PersistEvent(q) /\ events' = [events EXCEPT ![q] = ing[q].group]
      BY <1>3 DEF Arrive, Step, Killed, IngestStep, WorkflowStep, StartIngest, Load, WorkerKilled,
         GetGroup, InsertGroup, RegetGroup, BumpCount, FindActive, FindPast, Reopen,
         ReopenEntry, GetOpen, InsertOpen, RegetOpen, PersistEvent, SkipUnchanged, Save,
         AppendEntry, storeVars
    <3>. QED BY <3>2, <3>3, <3>4 DEF TheLedger!LedgerNext
  <2>. QED BY <2>2, <2>3
<1>. QED BY <1>2, <1>3 DEF Next

\* Tracker implements Ledger: whatever interleaves, fails, is retried or killed,
\* every occurrence is counted once and its event stored after that, at most
\* once, in the group it was counted in.
THEOREM ImplementsLedger == Spec => KeepsTheLedger
<1>1. Init => StoredAnswered
  BY TrackerAssumption DEF Init, InitFrom, StoredAnswered, Seed
<1>. QED BY <1>1, InitLedger, StepLedger, StoredAnsweredStep, Safety, PTL
         DEF Spec, KeepsTheLedger, TheLedger!LedgerSpec

-----------------------------------------------------------------------------
(***************************************************************************)
(* A burst of ingests that nobody edits incidents during: every ingest     *)
(* succeeds and the incidents of a group come down to one.                 *)
(***************************************************************************)

\* The statuses in which an ingest uses an incident or reopens it.
Relevant == Active \cup Reopenable

\* The instance is a burst: requests only ingest, no worker is killed, no
\* insert deadlocks, and at most one incident of a group is active or closed
\* when it starts.
OneBurst ==
    /\ Editors = {} /\ Killable = {} /\ ~LockConflicts
    /\ \A s \in Seeds : \A i, j \in Incident :
          /\ s.incidents[i].status \in Relevant /\ s.incidents[j].status \in Relevant
          /\ s.incidents[i].group = s.incidents[j].group
          => i = j

\* No two incidents of a group are active or closed.
OneRelevant ==
    \A i, j \in Incident :
        /\ incidents[i].status \in Relevant /\ incidents[j].status \in Relevant
        /\ incidents[i].group = incidents[j].group
        => i = j

\* Statements at which an ingest holds a group and no incident yet.
SearchingPC == {"bump", "find_active", "find_past", "get_open", "insert_open", "reget_open"}

\* What a request of a burst knows at each statement: what the lookups behind
\* it did not find can only have appeared as an open incident, what they found
\* is still there, and it never fails.
BurstRequest(r) ==
    /\ pc[r] \notin WorkflowPC
    /\ outcome[r] \in {"running", "ok"}
    /\ pc[r] = "reget_group" => \E g \in Group : groups[g].fp = ing[r].fp
    /\ pc[r] = "find_past" =>
          \A i \in Incident : incidents[i].group = ing[r].group =>
             incidents[i].status # "investigating"
    /\ pc[r] \in {"get_open", "insert_open", "reget_open"} =>
          \A i \in Incident : incidents[i].group = ing[r].group =>
             incidents[i].status \notin Relevant \ {"open"}
    /\ pc[r] = "reget_open" =>
          \E i \in Incident : incidents[i].group = ing[r].group /\ incidents[i].status = "open"
    /\ pc[r] \in SearchingPC => ing[r].incident = NoIncident
    /\ pc[r] \in {"reopen", "reopen_entry", "persist"} => ing[r].incident # NoIncident
    /\ ing[r].incident # NoIncident =>
          /\ incidents[ing[r].incident].status \in Relevant
          /\ pc[r] # "reopen" => incidents[ing[r].incident].status \in Active

BurstInv == OneRelevant /\ \A r \in Request : BurstRequest(r)

\* A step stores or reopens at most open incidents, and moves none that is
\* active or closed to another group.
OnlyOpens ==
    \A i \in Incident :
        \/ incidents'[i] = incidents[i]
        \/ /\ incidents'[i].status = "open"
           /\ incidents[i].status \in Relevant => incidents'[i].group = incidents[i].group

\* A reopened incident was the relevant one of its group, and one is inserted
\* where the group has none.
LEMMA BurstIncidents ==
    ASSUME IndInv, BurstInv, [Next]_vars
    PROVE  OnlyOpens /\ OneRelevant'
<1>1. /\ incidents \in [Incident -> IncidentRow]
      /\ TypeOK /\ OneRelevant
      /\ \A r \in Request : BurstRequest(r)
  BY DEF IndInv, TypeOK, StoreTypeOK, BurstInv
<1>2. CASE UNCHANGED incidents
  BY <1>1, <1>2 DEF OnlyOpens, OneRelevant
<1>3. ASSUME NEW r \in Request, Reopen(r), ~UNCHANGED incidents
      PROVE  OnlyOpens /\ OneRelevant'
  <2> DEFINE i == ing[r].incident
  <2>1. /\ At(r, "reopen")
        /\ incidents' = [incidents EXCEPT ![i] = [@ EXCEPT !.status = "open", !.resolvedAt = FALSE]]
    BY <1>3 DEF Reopen
  <2>2. i # NoIncident /\ incidents[i].status \in Relevant
    BY <1>1, <2>1 DEF BurstRequest, At
  <2>3. i \in Incident
    BY <1>1, <2>2 DEF TypeOK, IngestTypeOK, IngestLocals
  <2>4. /\ incidents'[i].status = "open" /\ incidents'[i].group = incidents[i].group
        /\ \A j \in Incident : j # i => incidents'[j] = incidents[j]
    BY <1>1, <2>1, <2>3 DEF IncidentRow
  <2> HIDE DEF i
  <2>5. OnlyOpens
    BY <2>4 DEF OnlyOpens
  <2>6. OneRelevant'
    BY <1>1, <2>2, <2>3, <2>4 DEF OneRelevant
  <2>7. QED
    BY <2>5, <2>6
<1>4. ASSUME NEW r \in Request, InsertOpen(r), ~UNCHANGED incidents
      PROVE  OnlyOpens /\ OneRelevant'
  <2>1. At(r, "insert_open") /\ IncidentsIn(ing[r].group, {"open"}) = {}
    BY <1>4 DEF InsertOpen
  <2>2. PICK i \in Incident :
          /\ IsNextKey(i)
          /\ incidents' = [incidents EXCEPT ![i] =
                [group |-> ing[r].group, status |-> "open", resolvedAt |-> FALSE,
                 severity |-> ing[r].severity]]
    BY <1>4 DEF InsertOpen
  <2>3. /\ incidents'[i].status = "open" /\ incidents'[i].group = ing[r].group
        /\ \A j \in Incident : j # i => incidents'[j] = incidents[j]
        /\ incidents[i].status \notin Relevant
    BY <1>1, <2>2 DEF IsNextKey, Relevant, Active, Reopenable
  <2>4. \A j \in Incident :
          incidents[j].group = ing[r].group => incidents[j].status \notin Relevant
    BY <1>1, <2>1 DEF BurstRequest, At, IncidentsIn
  <2>5. OnlyOpens
    BY <2>3 DEF OnlyOpens
  <2>6. OneRelevant'
    BY <1>1, <2>3, <2>4 DEF OneRelevant
  <2>7. QED
    BY <2>5, <2>6
<1>5. ASSUME NEW r \in Request PROVE ~Save(r)
  BY <1>1 DEF BurstRequest, Save, At, WorkflowPC
<1>6. QED
  BY <1>2, <1>3, <1>4, <1>5, IncidentWriters

\* What a request of a burst knows stays true while it keeps its place and its
\* locals.
LEMMA BurstKept ==
    ASSUME IndInv, OnlyOpens, [Next]_vars, NEW q \in Request, BurstRequest(q),
           pc'[q] = pc[q], outcome'[q] = outcome[q], ing'[q] = ing[q]
    PROVE  BurstRequest(q)'
<1>1. incidents \in [Incident -> IncidentRow] /\ ing[q] \in IngestLocals /\ GroupHeld(q)
  BY DEF IndInv, TypeOK, StoreTypeOK, IngestTypeOK, GroupsHeld
<1>2. pc[q] = "reget_group" => \E g \in Group : groups'[g].fp = ing[q].fp
  <2>1. \A g \in Group : groups[g].fp # Unused => groups'[g].fp = groups[g].fp
    BY GroupsStep DEF IndInv
  <2>2. QED
    BY <1>1, <2>1, StoreAssumption DEF BurstRequest, GroupHeld, BeforeGroupPC
<1>3. /\ pc[q] = "find_past" =>
            \A i \in Incident : incidents'[i].group = ing[q].group =>
               incidents'[i].status # "investigating"
      /\ pc[q] \in {"get_open", "insert_open", "reget_open"} =>
            \A i \in Incident : incidents'[i].group = ing[q].group =>
               incidents'[i].status \notin Relevant \ {"open"}
      /\ pc[q] = "reget_open" =>
            \E i \in Incident : incidents'[i].group = ing[q].group /\ incidents'[i].status = "open"
  BY DEF OnlyOpens, BurstRequest, Relevant, Active
<1>4. ing[q].incident # NoIncident =>
          /\ incidents'[ing[q].incident].status \in Relevant
          /\ pc[q] # "reopen" => incidents'[ing[q].incident].status \in Active
  <2>1. ing[q].incident # NoIncident => ing[q].incident \in Incident
    BY <1>1 DEF IngestLocals
  <2>2. QED
    BY <2>1 DEF OnlyOpens, BurstRequest, Relevant, Active
<1>5. QED
  BY <1>2, <1>3, <1>4 DEF BurstRequest

\* What a move of r leaves: r at a statement with the locals l, running.
Moved(r, statement, l) ==
    pc'[r] = statement /\ outcome'[r] = "running" /\ ing'[r] = l

\* A handler that goes on moves, with the locals it was given.
LEMMA MovedTo ==
    ASSUME TypeOK, NEW r \in Request, NEW here, NEW there, NEW l,
           At(r, here), Goto(r, there),
           (ing' = [ing EXCEPT ![r] = l]) \/ (UNCHANGED ing /\ l = ing[r])
    PROVE  Moved(r, there, l)
<1>1. ing \in [Request -> IngestLocals]
  BY DEF TypeOK, IngestTypeOK
<1>2. QED
  BY <1>1, GoneTo DEF Moved

\* The statements of the group upsert: with no incident held, only the lookup
\* after a refused insert must find a group.
LEMMA BurstUpsert ==
    ASSUME TypeOK, NEW r \in Request, NEW statement, NEW l, Moved(r, statement, l),
           statement \in {"get_group", "insert_group", "reget_group", "bump", "find_active"},
           l.incident = NoIncident,
           statement = "reget_group" => \E g \in Group : groups'[g].fp = l.fp
    PROVE  BurstRequest(r)'
BY DEF Moved, BurstRequest, WorkflowPC

\* A held incident is active or closed, and active unless it is to be reopened.
LEMMA BurstHolds ==
    ASSUME TypeOK, NEW r \in Request, NEW statement, NEW i \in Incident, NEW here, At(r, here),
           HoldIncident(r, i, statement), statement \in {"reopen", "persist"},
           incidents'[i].status \in Relevant,
           statement = "persist" => incidents'[i].status \in Active
    PROVE  BurstRequest(r)'
<1>1. ing \in [Request -> IngestLocals]
  BY DEF TypeOK, IngestTypeOK
<1>2. pc'[r] = statement /\ outcome'[r] = "running"
  BY GoneTo DEF HoldIncident
<1>3. ing'[r] = [ing[r] EXCEPT !.incident = i, !.attempt = 0]
  BY <1>1 DEF HoldIncident
<1>4. ing'[r].incident = i
  BY <1>1, <1>3 DEF IngestLocals
<1>5. i # NoIncident
  BY StoreAssumption DEF Incident, NoIncident
<1>6. QED
  BY <1>2, <1>4, <1>5 DEF BurstRequest, WorkflowPC, SearchingPC


\* The statements that hold no group's incident yet, of the actor of a step.
LEMMA BurstActorUpserts ==
    ASSUME OneBurst, IndInv, BurstInv, [Next]_vars, NEW r \in Request,
           \/ Arrive(r)
           \/ GetGroup(r) \/ InsertGroup(r) \/ RegetGroup(r) \/ BumpCount(r)
    PROVE  BurstRequest(r)'
<1>1. TypeOK /\ GroupHeld(r) /\ BurstRequest(r) /\ ing \in [Request -> IngestLocals]
  BY DEF IndInv, BurstInv, GroupsHeld, TypeOK, IngestTypeOK
<1>2. ing[r] \in IngestLocals
  BY <1>1
<1>3. ASSUME HoldGroup(r), NEW here \in BeforeGroupPC, At(r, here)
      PROVE  BurstRequest(r)'
  <2>1. PICK g \in GroupsOf(ing[r].fp) :
          /\ ing' = [ing EXCEPT ![r] = [@ EXCEPT !.group = g, !.attempt = 0]]
          /\ Goto(r, "bump")
    BY <1>3 DEF HoldGroup
  <2> DEFINE l == [ing[r] EXCEPT !.group = g, !.attempt = 0]
  <2>2. l.incident = NoIncident
    BY <1>1, <1>2, <1>3 DEF GroupHeld, At, IngestLocals
  <2>3. ing' = [ing EXCEPT ![r] = l]
    BY <2>1
  <2> HIDE DEF l
  <2>4. QED
    BY <1>1, <1>3, <2>1, <2>2, <2>3, MovedTo, BurstUpsert
<1>4. CASE Arrive(r)
  <2>1. PICK fp \in Arriving, severity \in Severity : StartIngest(r, fp, severity)
    BY <1>4 DEF Arrive, OneBurst
  <2> DEFINE l == [ing[r] EXCEPT !.fp = fp, !.severity = severity]
  <2>2. At(r, "arriving") /\ Goto(r, "get_group") /\ ing' = [ing EXCEPT ![r] = l]
    BY <2>1 DEF StartIngest
  <2>3. l.incident = NoIncident
    BY <1>1, <1>2, <2>2 DEF GroupHeld, At, IngestLocals
  <2> HIDE DEF l
  <2>4. QED
    BY <1>1, <2>2, <2>3, MovedTo, BurstUpsert
<1>5. CASE GetGroup(r)
  <2>1. At(r, "get_group") /\ ing[r].incident = NoIncident
    BY <1>1, <1>5 DEF GetGroup, GroupHeld, At, BeforeGroupPC
  <2>2. CASE HoldGroup(r)
    BY <1>3, <2>1, <2>2 DEF BeforeGroupPC
  <2>3. CASE Goto(r, "insert_group") /\ UNCHANGED ing
    BY <1>1, <2>1, <2>3, MovedTo, BurstUpsert
  <2>4. QED
    BY <1>5, <2>2, <2>3 DEF GetGroup
<1>6. CASE InsertGroup(r)
  <2>1. At(r, "insert_group") /\ ing[r].incident = NoIncident
    BY <1>1, <1>6 DEF InsertGroup, GroupHeld, At, BeforeGroupPC
  <2>2. ASSUME NEW g \in Group, Goto(r, "bump"),
               ing' = [ing EXCEPT ![r] = [@ EXCEPT !.group = g, !.attempt = 0]]
        PROVE  BurstRequest(r)'
    <3> DEFINE l == [ing[r] EXCEPT !.group = g, !.attempt = 0]
    <3>1. l.incident = NoIncident /\ ing' = [ing EXCEPT ![r] = l]
      BY <1>2, <2>1, <2>2 DEF IngestLocals
    <3> HIDE DEF l
    <3>2. QED
      BY <1>1, <2>1, <2>2, <3>1, MovedTo, BurstUpsert
  <2>3. CASE GroupsOf(ing[r].fp) # {} /\ Goto(r, "reget_group") /\ UNCHANGED <<groups, ing>>
    <3>1. \E g \in Group : groups'[g].fp = ing[r].fp
      BY <2>3 DEF GroupsOf
    <3>2. Moved(r, "reget_group", ing[r])
      BY <1>1, <2>1, <2>3, MovedTo
    <3>3. QED
      BY <1>1, <2>1, <3>1, <3>2, BurstUpsert
  <2>4. QED
    BY <1>6, <2>2, <2>3 DEF InsertGroup, GroupsOf, OneBurst
<1>7. CASE RegetGroup(r)
  <2>1. At(r, "reget_group") /\ GroupsOf(ing[r].fp) # {}
    BY <1>1, <1>7 DEF RegetGroup, BurstRequest, At, GroupsOf
  <2>2. QED
    BY <1>3, <1>7, <2>1 DEF RegetGroup, BeforeGroupPC
<1>8. CASE BumpCount(r)
  <2>1. At(r, "bump") /\ Goto(r, "find_active") /\ UNCHANGED ing
    BY <1>8 DEF BumpCount
  <2>2. ing[r].incident = NoIncident
    BY <1>1, <2>1 DEF BurstRequest, At, SearchingPC
  <2>3. QED
    BY <1>1, <2>1, <2>2, MovedTo, BurstUpsert
<1>9. QED
  BY <1>4, <1>5, <1>6, <1>7, <1>8

\* The statements that look for the group's incident, reuse or reopen it, or
\* insert one, of the actor of a step.
LEMMA BurstActorFinds ==
    ASSUME OneBurst, IndInv, BurstInv, [Next]_vars, NEW r \in Request, IngestStep(r)
    PROVE  BurstRequest(r)'
<1>1. TypeOK /\ GroupHeld(r) /\ BurstRequest(r) /\ OneRelevant
  BY DEF IndInv, BurstInv, GroupsHeld
<1>2. OnlyOpens /\ ing \in [Request -> IngestLocals] /\ incidents \in [Incident -> IncidentRow]
  BY BurstIncidents DEF IndInv, TypeOK, IngestTypeOK, StoreTypeOK
<1>3. ~LockConflicts
  BY DEF OneBurst
<1>4. ASSUME NEW statement, NEW here \in SearchingPC, At(r, here), Goto(r, statement),
             UNCHANGED ing
      PROVE  /\ pc'[r] = statement /\ outcome'[r] = "running" /\ ing'[r] = ing[r]
             /\ ing'[r].incident = NoIncident
  <2>1. ing[r].incident = NoIncident
    BY <1>1, <1>4 DEF BurstRequest, At
  <2>2. pc'[r] = statement /\ outcome'[r] = "running"
    BY <1>1, <1>4, GoneTo
  <2>3. QED
    BY <1>4, <2>1, <2>2
<1>5. CASE GetGroup(r) \/ InsertGroup(r) \/ RegetGroup(r) \/ BumpCount(r)
  BY <1>5, BurstActorUpserts
<1>6. CASE FindActive(r)
  <2>1. At(r, "find_active") /\ UNCHANGED incidents
    BY <1>6 DEF FindActive, storeVars
  <2>2. ASSUME NEW i \in Incident, IsNewest(i, IncidentsIn(ing[r].group, Active)),
               HoldIncident(r, i, "persist")
        PROVE  BurstRequest(r)'
    <3>1. incidents'[i].status \in Active
      BY <2>1, <2>2 DEF IsNewest, IncidentsIn
    <3>2. QED
      BY <1>1, <2>1, <2>2, <3>1, BurstHolds DEF Relevant
  <2>3. ASSUME IncidentsIn(ing[r].group, Active) = {}, Goto(r, "find_past"), UNCHANGED ing
        PROVE  BurstRequest(r)'
    <3>1. \A i \in Incident : incidents'[i].group = ing[r].group =>
             incidents'[i].status # "investigating"
      BY <2>1, <2>3 DEF IncidentsIn, Active
    <3>2. QED
      BY <1>4, <2>1, <2>3, <3>1 DEF BurstRequest, WorkflowPC, SearchingPC
  <2>4. QED
    BY <1>6, <2>2, <2>3 DEF FindActive
<1>7. CASE FindPast(r)
  <2>1. At(r, "find_past") /\ UNCHANGED incidents
    BY <1>7 DEF FindPast, storeVars
  <2>2. ASSUME NEW i \in Incident, IsNewest(i, IncidentsIn(ing[r].group, Reopenable)),
               HoldIncident(r, i, "reopen")
        PROVE  BurstRequest(r)'
    <3>1. incidents'[i].status \in Relevant
      BY <2>1, <2>2 DEF IsNewest, IncidentsIn, Relevant
    <3>2. QED
      BY <1>1, <2>1, <2>2, <3>1, BurstHolds
  <2>3. ASSUME IncidentsIn(ing[r].group, Reopenable) = {}, Goto(r, "get_open"), UNCHANGED ing
        PROVE  BurstRequest(r)'
    <3>1. \A i \in Incident : incidents'[i].group = ing[r].group =>
             incidents'[i].status \notin Relevant \ {"open"}
      BY <1>1, <2>1, <2>3 DEF IncidentsIn, Active, Relevant, BurstRequest, At
    <3>2. QED
      BY <1>4, <2>1, <2>3, <3>1 DEF BurstRequest, WorkflowPC, SearchingPC
  <2>4. QED
    BY <1>7, <2>2, <2>3 DEF FindPast
<1>8. ASSUME NEW here \in {"get_open", "reget_open"}, At(r, here), UNCHANGED incidents,
             NEW i \in IncidentsIn(ing[r].group, {"open"}), HoldIncident(r, i, "persist")
      PROVE  BurstRequest(r)'
  <2>1. i \in Incident /\ incidents'[i].status \in Active
    BY <1>8 DEF IncidentsIn, Active
  <2>2. QED
    BY <1>1, <1>8, <2>1, BurstHolds DEF Relevant
<1>9. CASE GetOpen(r)
  <2>1. At(r, "get_open") /\ UNCHANGED incidents
    BY <1>9 DEF GetOpen, storeVars
  <2>2. CASE Goto(r, "insert_open") /\ UNCHANGED ing
    BY <1>1, <1>4, <2>1, <2>2 DEF BurstRequest, WorkflowPC, SearchingPC, At
  <2>3. QED
    BY <1>8, <1>9, <2>1, <2>2 DEF GetOpen
<1>10. CASE InsertOpen(r)
  <2>1. At(r, "insert_open")
    BY <1>10 DEF InsertOpen
  <2>2. ASSUME NEW i \in Incident, HoldIncident(r, i, "persist"),
               incidents' = [incidents EXCEPT ![i] =
                   [group |-> ing[r].group, status |-> "open", resolvedAt |-> FALSE,
                    severity |-> ing[r].severity]]
        PROVE  BurstRequest(r)'
    <3>1. incidents'[i].status = "open"
      BY <1>2, <2>2
    <3>2. QED
      BY <1>1, <2>1, <2>2, <3>1, BurstHolds DEF Relevant, Active
  <2>3. ASSUME ~GroupLive(ing[r].group) \/ IncidentsIn(ing[r].group, {"open"}) # {},
               Goto(r, "reget_open"), UNCHANGED <<incidents, ing>>
        PROVE  BurstRequest(r)'
    <3>1. GroupLive(ing[r].group)
      BY <1>1, <2>1 DEF GroupHeld, GroupLive, HoldingGroupPC, CountedPC, At
    <3>2. \E i \in Incident : incidents'[i].group = ing[r].group /\ incidents'[i].status = "open"
      BY <2>3, <3>1 DEF IncidentsIn
    <3>3. QED
      BY <1>1, <1>4, <2>1, <2>3, <3>2 DEF BurstRequest, WorkflowPC, SearchingPC, At
  <2>4. QED
    BY <1>3, <1>10, <2>2, <2>3 DEF InsertOpen
<1>11. CASE RegetOpen(r)
  <2>1. /\ At(r, "reget_open") /\ UNCHANGED incidents
        /\ IncidentsIn(ing[r].group, {"open"}) # {}
    BY <1>1, <1>11 DEF RegetOpen, storeVars, BurstRequest, At, IncidentsIn
  <2>2. QED
    BY <1>8, <1>11, <2>1 DEF RegetOpen
<1>12. CASE Reopen(r) \/ ReopenEntry(r) \/ PersistEvent(r)
  <2> DEFINE i == ing[r].incident
  <2>1. /\ pc[r] \in {"reopen", "reopen_entry", "persist"} /\ outcome[r] = "running"
        /\ ing' = ing
    BY <1>12 DEF Reopen, ReopenEntry, PersistEvent, At
  <2>2. i \in Incident /\ i # NoIncident /\ incidents[i].status \in Relevant
    BY <1>1, <1>2, <2>1 DEF BurstRequest, IngestLocals
  <2>3. CASE Reopen(r)
    <3>1. ~OpenClash(i, incidents[i].group, "open")
      BY <1>1, <2>2 DEF OpenClash, IncidentsIn, OneRelevant, Relevant, Active
    <3>2. Live(i)
      BY <2>2 DEF Live, Relevant, Active, Reopenable, Status
    <3>3. /\ At(r, "reopen") /\ Goto(r, "reopen_entry")
          /\ incidents' = [incidents EXCEPT ![i] = [@ EXCEPT !.status = "open", !.resolvedAt = FALSE]]
      BY <2>3, <3>1, <3>2 DEF Reopen
    <3>4. incidents'[i].status = "open"
      BY <1>2, <2>2, <3>3 DEF IncidentRow
    <3>5. pc'[r] = "reopen_entry" /\ outcome'[r] = "running"
      BY <1>1, <3>3, GoneTo
    <3>6. QED
      BY <2>1, <2>2, <3>4, <3>5 DEF BurstRequest, WorkflowPC, SearchingPC, Relevant, Active
  <2>4. incidents[i].status \in Active \/ Reopen(r)
    BY <1>1, <1>12, <2>1, <2>2 DEF BurstRequest, ReopenEntry, PersistEvent, At
  <2>5. CASE ReopenEntry(r) /\ incidents[i].status \in Active
    <3>1. At(r, "reopen_entry") /\ Goto(r, "persist") /\ incidents' = incidents
      BY <2>2, <2>5 DEF ReopenEntry, Live, Relevant, Active, Reopenable, Status
    <3>2. pc'[r] = "persist" /\ outcome'[r] = "running"
      BY <1>1, <3>1, GoneTo
    <3>3. QED
      BY <2>1, <2>2, <2>5, <3>1, <3>2 DEF BurstRequest, WorkflowPC, SearchingPC
  <2>6. CASE PersistEvent(r) /\ incidents[i].status \in Active
    <3>1. pc[r] = "persist"
      BY <2>6 DEF PersistEvent, At
    <3>2. GroupLive(ing[r].group)
      BY <1>1, <3>1 DEF GroupHeld, GroupLive, HoldingGroupPC, CountedPC
    <3>3. Answer(r) /\ incidents' = incidents
      BY <2>6, <3>2 DEF PersistEvent
    <3>4. pc'[r] = "answered" /\ outcome'[r] = "ok"
      BY <1>1, <3>3 DEF Answer, TypeOK, RequestsTypeOK
    <3>5. QED
      BY <2>1, <2>2, <2>6, <3>3, <3>4 DEF BurstRequest, WorkflowPC, SearchingPC
  <2>7. QED
    BY <1>12, <2>3, <2>4, <2>5, <2>6
<1>13. QED
  BY <1>5, <1>6, <1>7, <1>9, <1>10, <1>11, <1>12 DEF IngestStep


\* BurstInv holds of a burst's seeds.
LEMMA BurstInit == OneBurst /\ Init => BurstInv
<1> SUFFICES ASSUME OneBurst, NEW s \in Seeds, InitFrom(s)
             PROVE  BurstInv
  BY DEF Init
<1>1. OneRelevant
  BY DEF InitFrom, OneBurst, OneRelevant
<1>2. ASSUME NEW r \in Request PROVE BurstRequest(r)
  <2>1. pc[r] \in {"arriving", "answered"} /\ outcome[r] \in {"running", "ok"}
    BY DEF InitFrom
  <2>2. ing[r].incident = NoIncident
    BY DEF InitFrom
  <2>3. QED
    BY <2>1, <2>2 DEF BurstRequest, WorkflowPC
<1>3. QED
  BY <1>1, <1>2 DEF BurstInv

\* Every step of a burst keeps BurstInv.
LEMMA BurstStep ==
    ASSUME OneBurst, IndInv, BurstInv, [Next]_vars
    PROVE  BurstInv'
<1>1. TypeOK /\ \A r \in Request : BurstRequest(r)
  BY DEF IndInv, BurstInv
<1>2. OnlyOpens /\ OneRelevant'
  BY BurstIncidents
<1>3. ASSUME NEW q \in Request, UNCHANGED vars PROVE BurstRequest(q)'
  BY <1>1, <1>2, <1>3, BurstKept DEF vars
<1>4. ASSUME NEW q \in Request, NEW r \in Request, Arrive(r) \/ Step(r) \/ Killed(r)
      PROVE  BurstRequest(q)'
  <2>1. CASE q # r
    BY <1>1, <1>2, <1>4, <2>1, OnlyActor, BurstKept
  <2>2. ~WorkflowStep(r) /\ ~Killed(r)
    BY <1>1 DEF BurstRequest, WorkflowStep, SkipUnchanged, Save, AppendEntry, At, WorkflowPC,
                OneBurst, Killed, WorkerKilled
  <2>3. CASE q = r
    BY <1>4, <2>2, <2>3, BurstActorUpserts, BurstActorFinds DEF Step
  <2>4. QED
    BY <2>1, <2>3
<1>5. QED
  BY <1>2, <1>3, <1>4 DEF BurstInv, Next

\* When every request has ended, all are stored, and the incident that one of
\* them reports is the only active one of its group.
LEMMA BurstEnds == ASSUME IndInv, BurstInv PROVE BurstDeduplicated
<1>1. /\ \A r \in Request : BurstRequest(r) /\ GroupHeld(r)
      /\ OneRelevant /\ OccurrencesCounted /\ StoredEventsCounted /\ ReportedIncidentOfGroup
      /\ ing \in [Request -> IngestLocals] /\ events \in [Request -> Group \cup {NoGroup}]
  BY DEF IndInv, BurstInv, GroupsHeld, TypeOK, IngestTypeOK, StoreTypeOK
<1>2. \A r \in Ingesters : outcome[r] # "error"
  BY <1>1, TrackerAssumption DEF BurstRequest
<1>3. ASSUME \A q \in Request : outcome[q] # "running",
             NEW r \in Reporting, events[r] # NoGroup
      PROVE  /\ Cardinality(IncidentsIn(events[r], Active)) = 1
             /\ groups[events[r]].count = Cardinality({q \in Request : events[q] = events[r]})
  <2> DEFINE g == events[r]
             i == ing[r].incident
  <2>1. r \in Request /\ i # NoIncident
    BY <1>3 DEF Reporting
  <2>2. g \in Group /\ i \in Incident
    BY <1>1, <1>3, <2>1 DEF IngestLocals
  <2>3. \A q \in Request : pc[q] = "answered" /\ outcome[q] = "ok"
    BY <1>1, <1>3 DEF BurstRequest, GroupHeld
  <2>4. r \in CountedIn(g) /\ groups[g].fp = ing[r].fp
    BY <1>1, <1>3, <2>1 DEF StoredEventsCounted
  <2>5. ing[r].group = g
    BY <2>4 DEF CountedIn
  <2>6. incidents[i].group = g /\ incidents[i].status \in Active
    BY <1>1, <2>1, <2>3, <2>5 DEF BurstRequest, ReportedIncidentOfGroup
  <2>7. IncidentsIn(g, Active) = {i}
    BY <1>1, <2>2, <2>6 DEF IncidentsIn, OneRelevant, Relevant
  <2>8. GroupLive(g)
    <3>1. ing[r].fp # Unused
      BY <1>1, <1>3, <2>1, <2>2, <2>5, StoreAssumption DEF GroupHeld
    <3>2. QED
      BY <1>1, <2>1, <2>4, <3>1 DEF GroupLive, IngestLocals
  <2>9. CountedIn(g) = {q \in Request : events[q] = g}
    <3>1. ASSUME NEW q \in CountedIn(g) PROVE events[q] = g
      <4>1. q \in Request /\ ing[q].group = g /\ ing[q].group # NoGroup
        BY <2>2, StoreAssumption DEF CountedIn
      <4>2. ing[q].fp # Unused
        BY <1>1, <4>1 DEF GroupHeld
      <4>3. events[q] # NoGroup
        BY <1>1, <2>3, <4>1, <4>2 DEF StoredEventsCounted
      <4>4. q \in CountedIn(events[q])
        BY <1>1, <4>1, <4>3 DEF StoredEventsCounted
      <4>5. QED
        BY <4>1, <4>4 DEF CountedIn
    <3>2. ASSUME NEW q \in Request, events[q] = g PROVE q \in CountedIn(g)
      BY <1>1, <1>3, <3>2 DEF StoredEventsCounted
    <3>3. CountedIn(g) \subseteq Request
      BY DEF CountedIn
    <3>4. QED
      BY <3>1, <3>2, <3>3
  <2>10. Cardinality(IncidentsIn(g, Active)) = 1
    BY <2>7, FS_Singleton
  <2>11. groups[g].count = Cardinality({q \in Request : events[q] = g})
    BY <1>1, <2>2, <2>8, <2>9 DEF OccurrencesCounted
  <2>12. QED
    BY <2>10, <2>11
<1>4. OneGroupPerFingerprint
  BY DEF IndInv
<1>5. QED
  BY <1>2, <1>3, <1>4 DEF BurstDeduplicated

\* In a burst every ingest succeeds, and the group of each ends with one active
\* incident and a count equal to its stored events, for any requests, groups
\* and fingerprints and every interleaving (loadtest/burst.py:9-12).
THEOREM BurstsDeduplicate == ASSUME OneBurst PROVE Spec => []BurstDeduplicated
<1>1. Init => BurstInv
  BY BurstInit
<1>2. IndInv /\ BurstInv /\ [Next]_vars => BurstInv'
  BY BurstStep
<1>3. IndInv /\ BurstInv => BurstDeduplicated
  BY BurstEnds
<1>4. QED
  BY <1>1, <1>2, <1>3, Safety, PTL DEF Spec

-----------------------------------------------------------------------------
(* How far an edit of several incidents got *)

\* A request writes timeline entries of its own only, and its own copies.
LEMMA EntriesOwn ==
    ASSUME TypeOK, NEW r \in Request, Arrive(r) \/ Step(r) \/ Killed(r),
           NEW q \in Request, q # r
    PROVE  /\ wf'[q] = wf[q]
           /\ \A i \in Incident : q \in timeline'[i] <=> q \in timeline[i]
<1>1. wf \in [Request -> WorkflowLocals] /\ timeline \in [Incident -> SUBSET Request]
  BY DEF TypeOK, WorkflowTypeOK, StoreTypeOK
<1>2. wf'[q] = wf[q]
  <2>1. CASE Arrive(r)
    BY <1>1, <2>1 DEF Arrive, Load
  <2>2. CASE WorkflowStep(r)
    BY <1>1, <2>2 DEF WorkflowStep, SkipUnchanged, Save, AppendEntry, Refused, Advance
  <2>. QED BY <2>1, <2>2 DEF Step, Killed
<1>3. UNCHANGED timeline \/ \E i \in Incident : timeline' = [timeline EXCEPT ![i] = @ \cup {r}]
  <2>1. CASE Arrive(r)
    BY <2>1 DEF Arrive, StartIngest, Load, storeVars
  <2>2. CASE IngestStep(r)
    <3>1. CASE ReopenEntry(r)
      BY <1>1, <3>1 DEF ReopenEntry, Live
    <3>2. CASE ~ReopenEntry(r)
      BY <2>2, <3>2 DEF IngestStep, GetGroup, InsertGroup, RegetGroup, BumpCount, FindActive, FindPast,
         Reopen, GetOpen, InsertOpen, RegetOpen, PersistEvent, storeVars
    <3>. QED BY <3>1, <3>2
  <2>3. CASE WorkflowStep(r)
    BY <2>3 DEF WorkflowStep, SkipUnchanged, Save, AppendEntry, storeVars
  <2>4. CASE Killed(r)
    BY <2>4 DEF Killed, storeVars
  <2>. QED BY <2>1, <2>2, <2>3, <2>4 DEF Step
<1>. QED BY <1>1, <1>2, <1>3

\* The next incident of the loop is the newest to do; when the loop goes past
\* it, it has been reported or was not to be.
LEMMA AdvanceProgress ==
    ASSUME TypeOK, NEW r \in Request, EditProgress(r), NEW i \in Incident,
           At(r, "save") \/ At(r, "entry"), Current(r, i), Advance(r, i),
           Edits(r, i) => r \in timeline'[i],
           \A j \in Incident \ {i} : r \in timeline'[j] <=> r \in timeline[j],
           r \in timeline[i] => r \in timeline'[i]
    PROVE  EditProgress(r)'
<1>1. wf[r].todo \subseteq Incident /\ i \in wf[r].todo /\ \A j \in wf[r].todo : j <= i
  BY DEF TypeOK, WorkflowTypeOK, WorkflowLocals, Current, IsNewest
<1>2. /\ wf'[r].op = wf[r].op /\ wf'[r].copy = wf[r].copy
      /\ wf'[r].todo = wf[r].todo \ {i}
  BY DEF Advance, TypeOK, WorkflowTypeOK, WorkflowLocals
<1>3. pc'[r] = IF wf[r].todo = {i} THEN "answered" ELSE "save"
  BY DEF Advance, Answer, Goto, TypeOK, RequestsTypeOK
<1>4. wf[r].op # Unset
  BY <1>1 DEF EditProgress
<1>5. \A j \in Incident : Edits(r, j)' <=> Edits(r, j)
  BY <1>2 DEF Edits
<1>6. ASSUME NEW j \in wf'[r].todo
      PROVE  /\ r \notin timeline'[j]
             /\ \A k \in Incident : wf[r].copy[k].status \in Status /\ k < j => k \in wf'[r].todo
  <2>1. j \in wf[r].todo /\ j # i /\ j <= i /\ j \in Incident
    BY <1>1, <1>2
  <2>2. r \notin timeline[j]
    BY <2>1 DEF EditProgress
  <2>3. ASSUME NEW k \in Incident, wf[r].copy[k].status \in Status, k < j
        PROVE  k \in wf[r].todo /\ k # i
    BY <1>1, <2>1, <2>3, StoreAssumption DEF EditProgress, Incident
  <2>. QED BY <1>2, <2>1, <2>2, <2>3
<1>7. ASSUME NEW j \in Incident \ wf'[r].todo, Edits(r, j) PROVE r \in timeline'[j]
  <2>1. CASE j = i
    BY <1>7, <2>1
  <2>2. CASE j # i
    BY <1>2, <1>7, <2>2 DEF EditProgress
  <2>. QED BY <2>1, <2>2
<1>. QED BY <1>1, <1>2, <1>3, <1>4, <1>5, <1>6, <1>7 DEF EditProgress, WorkflowPC

\* Where nothing is written to the timeline, and the request holds the same.
LEMMA ProgressStays ==
    ASSUME TypeOK, NEW r \in Request, EditProgress(r), wf'[r] = wf[r],
           \A i \in Incident : r \in timeline'[i] <=> r \in timeline[i],
           \/ pc'[r] = pc[r]
           \/ pc[r] # "answered" /\ wf[r].op # Unset /\ pc'[r] \in WorkflowPC
           \/ wf[r].op = Unset /\ pc'[r] # "arriving"
    PROVE  EditProgress(r)'
<1>1. \A i \in Incident : Edits(r, i)' <=> Edits(r, i)
  BY DEF Edits
<1>2. wf[r].todo \subseteq Incident
  BY DEF TypeOK, WorkflowTypeOK, WorkflowLocals
<1>. QED BY <1>1, <1>2 DEF EditProgress, WorkflowPC

\* "Not provided" is no operation.
LEMMA UnsetIsNoOp == Unset \notin Op
BY UnsetAssumption

\* An edit starts with everything it loaded still to do.
LEMMA LoadProgress ==
    ASSUME TypeOK, NEW r \in Request, EditProgress(r),
           NEW op \in Ops, NEW ids \in SUBSET Incident, Load(r, op, ids)
    PROVE  EditProgress(r)'
<1> DEFINE rows == Loadable(op, ids)
           new == [op |-> op, todo |-> rows,
                   copy |-> [i \in Incident |-> IF i \in rows THEN incidents[i] ELSE NoRow]]
<1>1. pc[r] = "arriving" /\ wf[r].op = Unset /\ UNCHANGED timeline
  BY DEF Load, At, EditProgress, storeVars
<1>2. \A i \in Incident : r \notin timeline[i]
  BY <1>1 DEF EditProgress
<1>3. CASE rows = {}
  BY <1>1, <1>3, ProgressStays DEF Load, Answer, TypeOK, RequestsTypeOK
<1>4. CASE rows # {}
  <2>1. wf' = [wf EXCEPT ![r] = new] /\ pc' = [pc EXCEPT ![r] = "save"]
    BY <1>4 DEF Load, Goto
  <2>2. wf'[r] = new /\ pc'[r] = "save"
    BY <2>1 DEF TypeOK, WorkflowTypeOK, RequestsTypeOK
  <2>3. new.op = op /\ new.todo = rows /\ op # Unset
    BY TrackerAssumption, UnsetIsNoOp
  <2>4. \A i \in Incident : new.copy[i].status \in Status <=> i \in rows
    BY DEF NoRow, Loadable, Live, Status
  <2>5. rows \subseteq Incident
    BY DEF Loadable
  <2> HIDE DEF new, rows
  <2>6. wf'[r].op = op /\ wf'[r].todo = rows
    BY <2>2, <2>3
  <2>7. \A i \in Incident : wf'[r].copy[i].status \in Status <=> i \in rows
    BY <2>2, <2>4
  <2>8. \A i \in Incident \ rows : ~Edits(r, i)'
    BY <2>7 DEF Edits
  <2>9. pc'[r] \in WorkflowPC
    BY <2>2 DEF WorkflowPC
  <2>10. pc'[r] # "answered" /\ pc'[r] # "arriving"
    BY <2>2
  <2>. QED BY <1>1, <1>2, <2>3, <2>5, <2>6, <2>7, <2>8, <2>9, <2>10 DEF EditProgress
<1>. QED BY <1>3, <1>4

\* Each statement of an edit keeps the progress of its loop.
LEMMA WorkflowProgress ==
    ASSUME TypeOK, NEW r \in Request, EditProgress(r), WorkflowStep(r)
    PROVE  EditProgress(r)'
<1>1. /\ timeline \in [Incident -> SUBSET Request] /\ wf \in [Request -> WorkflowLocals]
      /\ pc \in [Request -> Statement]
  BY DEF TypeOK, WorkflowTypeOK, StoreTypeOK, RequestsTypeOK
<1>2. PICK i \in Incident :
         /\ At(r, "save") \/ At(r, "entry")
         /\ Current(r, i)
         /\ \/ /\ UNCHANGED timeline
               /\ \/ ~Edits(r, i) /\ Advance(r, i)
                  \/ Refused(r, i)
                  \/ Goto(r, "entry") /\ UNCHANGED wf
            \/ /\ timeline' = [timeline EXCEPT ![i] = @ \cup {r}]
               /\ Advance(r, i)
  <2>1. CASE SkipUnchanged(r)
    BY <2>1 DEF SkipUnchanged, storeVars, Edits
  <2>2. CASE Save(r)
    BY <2>2 DEF Save
  <2>3. CASE AppendEntry(r)
    BY <2>3 DEF AppendEntry
  <2>. QED BY <2>1, <2>2, <2>3 DEF WorkflowStep
<1>3. wf[r].op # Unset /\ pc[r] # "answered"
  BY <1>2 DEF EditProgress, Current, IsNewest, At
<1>4. CASE UNCHANGED timeline /\ ~Edits(r, i) /\ Advance(r, i)
  BY <1>2, <1>4, AdvanceProgress
<1>5. CASE UNCHANGED timeline /\ Refused(r, i)
  <2>1. CASE wf[r].op.kind = "deploy"
    BY <1>2, <1>5, <2>1, AdvanceProgress DEF Refused, Edits
  <2>2. CASE wf[r].op.kind # "deploy"
    BY <1>5, <2>2, ProgressStays DEF Refused, Raise
  <2>. QED BY <2>1, <2>2
<1>6. CASE UNCHANGED timeline /\ Goto(r, "entry") /\ UNCHANGED wf
  BY <1>1, <1>3, <1>6, ProgressStays DEF Goto, WorkflowPC
<1>7. CASE timeline' = [timeline EXCEPT ![i] = @ \cup {r}] /\ Advance(r, i)
  BY <1>1, <1>2, <1>7, AdvanceProgress
<1>. QED BY <1>2, <1>4, <1>5, <1>6, <1>7

\* A step of the tracker keeps the progress of every edit.
LEMMA EditsProgressStep ==
    ASSUME TypeOK, EditsProgress, [Next]_vars
    PROVE  EditsProgress'
<1> SUFFICES ASSUME NEW q \in Request PROVE EditProgress(q)'
  BY DEF EditsProgress
<1>1. EditProgress(q)
  BY DEF EditsProgress
<1>2. CASE UNCHANGED vars
  BY <1>1, <1>2, ProgressStays DEF vars
<1>3. ASSUME NEW r \in Request, r # q, Arrive(r) \/ Step(r) \/ Killed(r)
      PROVE  EditProgress(q)'
  BY <1>1, <1>3, OnlyActor, EntriesOwn, ProgressStays
<1>4. CASE Arrive(q)
  <2>1. ASSUME NEW fp \in Arriving, NEW severity \in Severity,
               StartIngest(q, fp, severity), UNCHANGED wf
        PROVE  EditProgress(q)'
    BY <1>1, <2>1, ProgressStays
       DEF StartIngest, Goto, At, storeVars, TypeOK, RequestsTypeOK, EditProgress
  <2>. QED BY <1>1, <1>4, <2>1, LoadProgress DEF Arrive
<1>5. CASE IngestStep(q) /\ UNCHANGED wf
  <2>1. pc[q] \in IngestPC
    BY <1>5 DEF IngestStep, GetGroup, InsertGroup, RegetGroup, BumpCount, FindActive, FindPast,
       Reopen, ReopenEntry, GetOpen, InsertOpen, RegetOpen, PersistEvent, At, IngestPC
  <2>2. wf[q].op = Unset
    BY <1>1, <2>1 DEF EditProgress, IngestPC, WorkflowPC
  <2>3. wf[q].todo = {}
    BY <1>1, <2>2 DEF EditProgress
  <2>4. pc'[q] # "arriving"
    BY <1>5, <2>1 DEF IngestStep, GetGroup, InsertGroup, RegetGroup, BumpCount, FindActive, FindPast,
       Reopen, ReopenEntry, GetOpen, InsertOpen, RegetOpen, PersistEvent, HoldGroup, HoldIncident,
       RetryFrom, Goto, Answer, Raise, TypeOK, RequestsTypeOK, IngestPC
  <2>. QED BY <1>5, <2>2, <2>3, <2>4 DEF EditProgress, Edits
<1>6. CASE WorkflowStep(q)
  BY <1>1, <1>6, WorkflowProgress
<1>7. CASE Killed(q)
  BY <1>1, <1>7, ProgressStays DEF Killed, WorkerKilled, storeVars
<1>. QED BY <1>2, <1>3, <1>4, <1>5, <1>6, <1>7 DEF Next, Step

\* No request edits anything at first.
LEMMA EditsProgressInit == Init => EditsProgress
<1> SUFFICES ASSUME Init, NEW r \in Request PROVE EditProgress(r)
  BY DEF EditsProgress
<1>1. wf[r].op = Unset /\ wf[r].todo = {} /\ \A i \in Incident : r \notin timeline[i]
  BY DEF Init, InitFrom
<1>. QED BY <1>1 DEF EditProgress, Edits

\* An edit of several incidents reports them newest first, whatever cuts it
\* off, and all of them when it answers 200 (incidents/services.py:107-140).
THEOREM EditsInOrder == Spec => []EditsReportedInOrder
<1>1. TypeOK /\ GroupsHeld /\ EditsProgress => EditsReportedInOrder
  <2> SUFFICES ASSUME TypeOK, GroupsHeld, EditsProgress, NEW r \in Request, NEW i \in Incident,
                      Edits(r, i)
               PROVE  /\ outcome[r] = "ok" => r \in timeline[i]
                      /\ r \in timeline[i] =>
                            \A j \in Incident : i < j /\ Edits(r, j) => r \in timeline[j]
    BY DEF EditsReportedInOrder
  <2>1. EditProgress(r) /\ GroupHeld(r)
    BY DEF EditsProgress, GroupsHeld
  <2>2. outcome[r] = "ok" => i \notin wf[r].todo
    BY <2>1 DEF EditProgress, GroupHeld
  <2>3. outcome[r] = "ok" => r \in timeline[i]
    BY <2>1, <2>2 DEF EditProgress
  <2>4. ASSUME r \in timeline[i], NEW j \in Incident, i < j, Edits(r, j)
        PROVE  r \in timeline[j]
    <3>1. i \notin wf[r].todo /\ wf[r].copy[i].status \in Status
      BY <2>1, <2>4 DEF EditProgress, Edits
    <3>2. j \notin wf[r].todo
      BY <2>1, <2>4, <3>1 DEF EditProgress
    <3>. QED BY <2>1, <2>4, <3>2 DEF EditProgress
  <2>. QED BY <2>3, <2>4
<1>2. IndInv => TypeOK /\ GroupsHeld
  BY DEF IndInv
<1>. QED BY <1>1, <1>2, Safety, EditsProgressInit, EditsProgressStep, PTL DEF Spec

-----------------------------------------------------------------------------
(* What a step of the tracker leaves to the job *)

\* What the statement that request r executes does to r.
Executed(r) ==
    /\ outcome[r] = "running"
    /\ pc'[r] \in IngestPC => ing'[r].fp # Unused
    /\ pc'[r] \in {"arriving"} \cup WorkflowPC \cup RegroupPC => ing'[r].fp = Unused
    /\ ing[r].fp # Unused => ing'[r].fp = ing[r].fp
    /\ events'[r] = events[r] \/ (outcome'[r] = "ok" /\ ing'[r].fp # Unused)
    /\ pc[r] \in RegroupPC => pc'[r] = pc[r] /\ outcome'[r] = "killed"
    /\ pc'[r] \in RegroupPC => pc[r] \in RegroupPC
    /\ \A q \in Request : q # r => events'[q] = events[q]

\* A request that arrives as an ingest has a fingerprint from then on; one that
\* arrives as an operation on incidents never has.
LEMMA ArriveExecutes ==
    ASSUME TypeOK, JobsApart, NEW r \in Request, Arrive(r)
    PROVE  Executed(r)
<1>1. /\ ing \in [Request -> IngestLocals] /\ pc \in [Request -> Statement]
      /\ outcome \in [Request -> Outcome]
  BY DEF TypeOK, IngestTypeOK, RequestsTypeOK
<1>2. At(r, "arriving") /\ UNCHANGED events
  BY DEF Arrive, StartIngest, Load, storeVars
<1>3. ing[r].fp = Unused
  BY <1>2 DEF JobsApart, At
<1>4. ASSUME NEW fp \in Arriving, NEW severity \in Severity, StartIngest(r, fp, severity)
      PROVE  Executed(r)
  <2>1. ing'[r].fp = fp /\ fp # Unused
    BY <1>1, <1>4, StoreAssumption, TrackerAssumption DEF StartIngest, IngestLocals
  <2>2. pc'[r] = "get_group"
    BY <1>1, <1>4 DEF StartIngest, Goto
  <2>. QED BY <1>2, <1>3, <2>1, <2>2 DEF Executed, At, IngestPC, WorkflowPC, RegroupPC, TransactionPC
<1>5. ASSUME NEW op \in Ops, NEW ids \in SUBSET Incident, Load(r, op, ids), UNCHANGED ing
      PROVE  Executed(r)
  <2>1. pc'[r] \in {"answered", "save"}
    BY <1>1, <1>5 DEF Load, Answer, Goto
  <2>. QED BY <1>2, <1>3, <1>5, <2>1 DEF Executed, At, IngestPC, WorkflowPC, RegroupPC, TransactionPC
<1>. QED BY <1>4, <1>5 DEF Arrive

\* An ingest keeps its fingerprint, and ends well only in the statement that
\* stores its event.
LEMMA IngestExecutes ==
    ASSUME TypeOK, JobsApart, NEW r \in Request, IngestStep(r)
    PROVE  Executed(r)
<1>1. /\ ing \in [Request -> IngestLocals] /\ pc \in [Request -> Statement]
      /\ outcome \in [Request -> Outcome] /\ events \in [Request -> Group \cup {NoGroup}]
  BY DEF TypeOK, IngestTypeOK, RequestsTypeOK, StoreTypeOK
<1>2. outcome[r] = "running" /\ pc[r] \in IngestPC
  BY DEF IngestStep, GetGroup, InsertGroup, RegetGroup, BumpCount, FindActive, FindPast, Reopen,
         ReopenEntry, GetOpen, InsertOpen, RegetOpen, PersistEvent, At, IngestPC
<1>3. ing[r].fp # Unused
  BY <1>2 DEF JobsApart
<1>4. ing'[r].fp = ing[r].fp
  BY <1>1 DEF IngestStep, GetGroup, InsertGroup, RegetGroup, BumpCount, FindActive, FindPast, Reopen,
         ReopenEntry, GetOpen, InsertOpen, RegetOpen, PersistEvent, HoldGroup, HoldIncident,
         RetryFrom, IngestLocals
<1>5. pc'[r] \in IngestPC \cup {"answered"}
  BY <1>1, <1>2 DEF IngestStep, GetGroup, InsertGroup, RegetGroup, BumpCount, FindActive, FindPast, Reopen,
         ReopenEntry, GetOpen, InsertOpen, RegetOpen, PersistEvent, HoldGroup, HoldIncident,
         RetryFrom, Goto, Answer, Raise, IngestPC
<1>6. \/ UNCHANGED events
      \/ outcome'[r] = "ok" /\ \A q \in Request : q # r => events'[q] = events[q]
  BY <1>1 DEF IngestStep, GetGroup, InsertGroup, RegetGroup, BumpCount, FindActive, FindPast, Reopen,
         ReopenEntry, GetOpen, InsertOpen, RegetOpen, PersistEvent, Answer, storeVars
<1>. QED BY <1>2, <1>3, <1>4, <1>5, <1>6 DEF Executed, IngestPC, WorkflowPC, RegroupPC, TransactionPC

\* An operation on incidents and a kill leave groups, events and ingests alone.
LEMMA OthersExecute ==
    ASSUME TypeOK, JobsApart, NEW r \in Request,
           (WorkflowStep(r) /\ UNCHANGED ing) \/ Killed(r)
    PROVE  Executed(r) /\ UNCHANGED <<groups, events, ing>>
<1>1. /\ pc \in [Request -> Statement] /\ outcome \in [Request -> Outcome]
  BY DEF TypeOK, RequestsTypeOK
<1>2. UNCHANGED <<groups, events, ing>>
  BY DEF WorkflowStep, SkipUnchanged, Save, AppendEntry, Killed, storeVars
<1>3. CASE WorkflowStep(r)
  <2>1. outcome[r] = "running" /\ pc[r] \in WorkflowPC
    BY <1>3 DEF WorkflowStep, SkipUnchanged, Save, AppendEntry, At, WorkflowPC
  <2>2. pc'[r] \in WorkflowPC \cup {"answered"}
    BY <1>1, <1>3, <2>1 DEF WorkflowStep, SkipUnchanged, Save, AppendEntry, Refused, Advance,
       Goto, Answer, Raise, WorkflowPC
  <2>. QED BY <1>2, <2>1, <2>2 DEF Executed, JobsApart, IngestPC, WorkflowPC, RegroupPC, TransactionPC
<1>4. CASE Killed(r)
  <2>1. outcome[r] = "running" /\ outcome'[r] = "killed" /\ pc' = pc
    BY <1>1, <1>4 DEF Killed, WorkerKilled
  <2>. QED BY <1>2, <2>1 DEF Executed, JobsApart
<1>. QED BY <1>2, <1>3, <1>4

\* Every step of the tracker moves one request, or none.
LEMMA OneExecutes ==
    ASSUME TypeOK, JobsApart, [Next]_vars
    PROVE  \/ UNCHANGED <<pc, outcome, ing, events>>
           \/ \E r \in Request :
                 /\ Executed(r)
                 /\ \A q \in Request : q # r =>
                       ing'[q] = ing[q] /\ pc'[q] = pc[q] /\ outcome'[q] = outcome[q]
<1>1. ASSUME NEW r \in Request, Arrive(r) \/ Step(r) \/ Killed(r)
      PROVE  Executed(r)
  BY <1>1, ArriveExecutes, IngestExecutes, OthersExecute DEF Step
<1>. QED BY <1>1, OnlyActor DEF Next, vars

\* Requests that are no job keep apart from the jobs.
LEMMA TrackerApart ==
    ASSUME TypeOK, RegroupTypeOK, JobsApart, [Next]_vars, UNCHANGED snapshot
    PROVE  JobsApart'
<1>1. CASE UNCHANGED <<pc, outcome, ing, events>>
  BY <1>1 DEF JobsApart, HasRead, Stored, At, InTransaction
<1>2. ASSUME NEW r \in Request, Executed(r),
             \A q \in Request : q # r =>
                ing'[q] = ing[q] /\ pc'[q] = pc[q] /\ outcome'[q] = outcome[q]
      PROVE  JobsApart'
  <2>1. \A e \in Request : outcome[e] = "ok" =>
           outcome'[e] = "ok" /\ ing'[e].fp = ing[e].fp /\ events'[e] = events[e]
    BY <1>2 DEF Executed
  <2> SUFFICES ASSUME NEW q \in Request
               PROVE  /\ pc'[q] \in IngestPC => ing'[q].fp # Unused
                      /\ pc'[q] \in {"arriving"} \cup WorkflowPC \cup RegroupPC => ing'[q].fp = Unused
                      /\ events'[q] # NoGroup => outcome'[q] = "ok" /\ ing'[q].fp # Unused
                      /\ \A e \in Stored(snapshot[q]) : outcome'[e] = "ok" /\ ing'[e].fp # Unused
                      /\ HasRead(q) => pc'[q] \in RegroupPC \/ outcome'[q] = "ok"
                      /\ At(q, "regroup")' \/ InTransaction(q)' => q \in Regroupers /\ HasRead(q)
    BY DEF JobsApart, HasRead, Stored
  <2>2. \A e \in Stored(snapshot[q]) : outcome'[e] = "ok" /\ ing'[e].fp # Unused
    BY <2>1 DEF JobsApart, Stored
  <2>3. CASE q # r
    <3>1. /\ ing'[q] = ing[q] /\ pc'[q] = pc[q] /\ outcome'[q] = outcome[q]
          /\ events'[q] = events[q]
      BY <1>2, <2>3 DEF Executed
    <3>. QED BY <2>2, <3>1 DEF JobsApart, At, InTransaction
  <2>4. CASE q = r
    <3>1. HasRead(q) => pc'[q] \in RegroupPC
      BY <1>2, <2>4 DEF JobsApart, Executed
    <3>2. ~At(q, "regroup")' /\ ~InTransaction(q)'
      BY <1>2, <2>4 DEF Executed, At, InTransaction, RegroupPC, TransactionPC
    <3>3. events'[q] # NoGroup => outcome'[q] = "ok" /\ ing'[q].fp # Unused
      BY <1>2, <2>4 DEF Executed, JobsApart
    <3>. QED BY <1>2, <2>2, <2>4, <3>1, <3>2, <3>3 DEF Executed
  <2>. QED BY <2>3, <2>4
<1>. QED BY <1>1, <1>2, OneExecutes

\* A row that is gone stays gone, and no statement of the tracker deletes one.
LEMMA DeletedStays ==
    ASSUME TypeOK, CopiesConsistent, [Next]_vars, NEW i \in Incident,
           incidents[i].status = "deleted" \/ incidents'[i].status = "deleted"
    PROVE  incidents'[i] = incidents[i]
<1>1. incidents \in [Incident -> IncidentRow]
  BY DEF TypeOK, StoreTypeOK
<1>2. ASSUME NEW j \in Incident, NEW row \in IncidentRow,
             incidents' = [incidents EXCEPT ![j] = row],
             incidents[j].status # "deleted", row.status # "deleted"
      PROVE  incidents'[i] = incidents[i]
  BY <1>1, <1>2
<1>3. ASSUME NEW r \in Request, Reopen(r), ~UNCHANGED incidents
      PROVE  incidents'[i] = incidents[i]
  <2> DEFINE j == ing[r].incident
             row == [incidents[j] EXCEPT !.status = "open", !.resolvedAt = FALSE]
  <2>1. incidents' = [incidents EXCEPT ![j] = row] /\ Live(j)
    BY <1>3 DEF Reopen
  <2>2. j \in Incident
    BY <1>1, <1>3, <2>1
  <2>3. row \in IncidentRow /\ row.status = "open" /\ incidents[j].status # "deleted"
    BY <1>1, <2>1, <2>2 DEF IncidentRow, Status, Live
  <2> HIDE DEF row, j
  <2>. QED BY <1>2, <2>1, <2>2, <2>3
<1>4. ASSUME NEW r \in Request, InsertOpen(r), ~UNCHANGED incidents
      PROVE  incidents'[i] = incidents[i]
  <2> DEFINE row == [group |-> ing[r].group, status |-> "open", resolvedAt |-> FALSE,
                     severity |-> ing[r].severity]
  <2>1. PICK j \in Incident : IsNextKey(j) /\ incidents' = [incidents EXCEPT ![j] = row]
    BY <1>4 DEF InsertOpen
  <2>2. row \in IncidentRow
    BY DEF TypeOK, IngestTypeOK, IngestLocals, IncidentRow, Status
  <2>. QED BY <1>2, <2>1, <2>2 DEF IsNextKey
<1>5. ASSUME NEW r \in Request, Save(r), ~UNCHANGED incidents
      PROVE  incidents'[i] = incidents[i]
  <2>1. PICK j \in wf[r].todo :
           /\ wf[r].op \in Op
           /\ Live(j)
           /\ incidents' = [incidents EXCEPT ![j] =
                  Saved(wf[r].op, @, Changed(wf[r].op, wf[r].copy[j]))]
    BY <1>5, SaveWrites
  <2> DEFINE memory == Changed(wf[r].op, wf[r].copy[j])
             row == Saved(wf[r].op, incidents[j], memory)
  <2>2. j \in Incident /\ wf[r].copy[j] \in IncidentRow /\ incidents[j] \in IncidentRow
    BY <1>1, <2>1 DEF TypeOK, WorkflowTypeOK, WorkflowLocals
  <2>3. row \in IncidentRow /\ row.status = memory.status
    BY <2>1, <2>2, ChangedType, SavedType DEF Saved, IncidentRow
  <2>4. memory.status \in Status
    BY <2>1, <2>2, ChangedConsistent DEF CopiesConsistent
  <2>5. incidents' = [incidents EXCEPT ![j] = row] /\ incidents[j].status # "deleted"
    BY <2>1 DEF Live, Status
  <2> HIDE DEF memory, row
  <2>. QED BY <1>2, <2>2, <2>3, <2>4, <2>5 DEF Status
<1>. QED BY <1>3, <1>4, <1>5, IncidentWriters

\* Only a job commits: no step of the tracker ends one well.
LEMMA CommittedStays ==
    ASSUME TypeOK, JobsApart, [Next]_vars, UNCHANGED snapshot
    PROVE  Committed' <=> Committed
<1>1. ASSUME NEW q \in Regroupers, HasRead(q)
      PROVE  outcome'[q] = "ok" <=> outcome[q] = "ok"
  <2>1. q \in Request
    BY RegroupAssumption
  <2>2. CASE UNCHANGED outcome
    BY <2>2
  <2>3. ASSUME NEW r \in Request, Executed(r),
               \A p \in Request : p # r => outcome'[p] = outcome[p]
        PROVE  outcome'[q] = "ok" <=> outcome[q] = "ok"
    BY <1>1, <2>1, <2>3 DEF JobsApart, Executed
  <2>. QED BY <2>2, <2>3, OneExecutes
<1>. QED BY <1>1 DEF Committed, HasRead, Stored

\* The rows of deleted groups stay, so do those of the incidents that went.
LEMMA TrackerDeleted ==
    ASSUME TypeOK, OneGroupPerFingerprint, CopiesConsistent, JobsApart, DeletedWithGroup,
           [Next]_vars, UNCHANGED snapshot
    PROVE  DeletedWithGroup'
<1> SUFFICES ASSUME NEW i \in Incident, incidents'[i].status = "deleted"
             PROVE  /\ Committed'
                    /\ incidents'[i].group \in Group
                    /\ groups'[incidents'[i].group].fp = Deleted
  BY DEF DeletedWithGroup
<1>1. incidents'[i] = incidents[i]
  BY DeletedStays
<1>2. Committed /\ incidents[i].group \in Group /\ groups[incidents[i].group].fp = Deleted
  BY <1>1 DEF DeletedWithGroup
<1>3. groups'[incidents[i].group].fp = Deleted
  BY <1>2, GroupsStep, StoreAssumption
<1>. QED BY <1>1, <1>2, <1>3, CommittedStays

\* After a job has read the events, only a step that makes it miss one touches
\* the groups, the events or what an ingest is about.
LEMMA NothingMissedQuiet ==
    ASSUME TypeOK, JobsApart, [Next]_vars, UNCHANGED snapshot, NothingMissed',
           NEW q \in Regroupers, HasRead(q)
    PROVE  UNCHANGED <<groups, events, ing>>
<1>1. \A e \in Request : ing'[e].fp # Unused => outcome[e] = "ok"
  <2>1. q \in Request /\ Stored(snapshot'[q]) # {}
    BY RegroupAssumption DEF HasRead
  <2>2. \A e \in Request : ing'[e].fp # Unused => e \in Stored(snapshot[q])
    BY <2>1 DEF NothingMissed, Stored
  <2>. QED BY <2>1, <2>2 DEF JobsApart
<1>2. ASSUME NEW r \in Request, Arrive(r)
      PROVE  UNCHANGED <<groups, events, ing>>
  <2>1. ASSUME NEW fp \in Arriving, NEW severity \in Severity, StartIngest(r, fp, severity)
        PROVE  FALSE
    <3>1. ing'[r].fp = fp /\ fp # Unused /\ outcome[r] = "running"
      BY <2>1, StoreAssumption, TrackerAssumption
         DEF StartIngest, IngestLocals, TypeOK, IngestTypeOK, At
    <3>. QED BY <1>1, <3>1
  <2>. QED BY <1>2, <2>1 DEF Arrive, Load, storeVars
<1>3. ASSUME NEW r \in Request, Step(r)
      PROVE  UNCHANGED <<groups, events, ing>>
  <2>1. CASE IngestStep(r)
    <3>1. outcome[r] = "running" /\ pc[r] \in IngestPC
      BY <2>1 DEF IngestStep, GetGroup, InsertGroup, RegetGroup, BumpCount, FindActive, FindPast, Reopen,
         ReopenEntry, GetOpen, InsertOpen, RegetOpen, PersistEvent, At, IngestPC
    <3>2. ing'[r].fp # Unused
      BY <2>1, <3>1, IngestExecutes DEF Executed, JobsApart
    <3>. QED BY <1>1, <3>1, <3>2
  <2>. QED BY <1>3, <2>1, OthersExecute DEF Step
<1>4. ASSUME NEW r \in Request, Killed(r)
      PROVE  UNCHANGED <<groups, events, ing>>
  BY <1>4, OthersExecute
<1>. QED BY <1>2, <1>3, <1>4 DEF Next, vars

\* The tracker keeps what holds of the stored tables while no job misses an
\* event.
LEMMA TrackerKnown ==
    ASSUME TypeOK, CopiesConsistent, JobsApart, StoredEventsKnown,
           [Next]_vars, UNCHANGED snapshot, raced \subseteq raced'
    PROVE  StoredEventsKnown'
<1> SUFFICES ASSUME NothingMissed'
             PROVE  IF Committed' THEN Consolidated' ELSE ReadAsStored'
  BY DEF StoredEventsKnown
<1>1. CASE \A q \in Regroupers : ~HasRead(q)
  <2>1. ~Committed' /\ ReadAsStored'
    BY <1>1 DEF Committed, ReadAsStored, HasRead, Stored
  <2>. QED BY <2>1
<1>2. CASE \E q \in Regroupers : HasRead(q)
  <2>1. UNCHANGED <<groups, events, ing>>
    BY <1>2, NothingMissedQuiet
  <2>2. NothingMissed
    BY <2>1 DEF NothingMissed, Stored
  <2>3. Committed' <=> Committed
    BY CommittedStays
  <2>4. ASSUME Consolidated PROVE Consolidated'
    <3>1. \A i \in Incident : incidents'[i].status = "deleted" => incidents'[i] = incidents[i]
      BY DeletedStays
    <3>. QED BY <2>1, <2>4, <3>1 DEF Consolidated, Stored, FingerprintNow, GroupLive
  <2>5. ASSUME ReadAsStored PROVE ReadAsStored'
    BY <2>1, <2>5 DEF ReadAsStored, HasRead, Stored
  <2>. QED BY <2>2, <2>3, <2>4, <2>5 DEF StoredEventsKnown
<1>. QED BY <1>1, <1>2

-----------------------------------------------------------------------------
(* What a step of the tracker leaves to the open transaction *)

\* A row of an incident that a statement changes is one it updates, which keeps
\* its group, or one it inserts.
LEMMA RowWritten ==
    ASSUME TypeOK, CopiesConsistent, NEW r \in Request, Step(r),
           NEW i \in Incident, incidents'[i] # incidents[i]
    PROVE  \/ /\ Updates(r, i, incidents'[i].status) /\ Live(i) /\ Live(i)'
              /\ incidents'[i].group = incidents[i].group
           \/ /\ At(r, "insert_open") /\ incidents[i].status = "unused"
              /\ incidents'[i].status = "open" /\ incidents'[i].group = ing[r].group
<1>1. incidents \in [Incident -> IncidentRow]
  BY DEF TypeOK, StoreTypeOK
<1>2. Reopen(r) \/ InsertOpen(r) \/ Save(r)
  BY DEF Step, IngestStep, WorkflowStep, GetGroup, InsertGroup, RegetGroup, BumpCount, FindActive,
     FindPast, ReopenEntry, GetOpen, RegetOpen, PersistEvent, SkipUnchanged, AppendEntry, storeVars
<1>3. CASE Reopen(r)
  <2> DEFINE row == [incidents[i] EXCEPT !.status = "open", !.resolvedAt = FALSE]
  <2>1. /\ At(r, "reopen") /\ Live(ing[r].incident)
        /\ incidents' = [incidents EXCEPT
              ![ing[r].incident] = [@ EXCEPT !.status = "open", !.resolvedAt = FALSE]]
    BY <1>3 DEF Reopen
  <2>2. i = ing[r].incident
    BY <1>1, <2>1
  <2>3. incidents'[i] = row /\ row.status = "open" /\ row.group = incidents[i].group
    BY <1>1, <2>1, <2>2 DEF IncidentRow
  <2>. QED BY <2>1, <2>2, <2>3 DEF Updates, Live, Status
<1>4. CASE InsertOpen(r)
  <2> DEFINE row == [group |-> ing[r].group, status |-> "open", resolvedAt |-> FALSE,
                     severity |-> ing[r].severity]
  <2>1. PICK j \in Incident : IsNextKey(j) /\ incidents' = [incidents EXCEPT ![j] = row]
    BY <1>4 DEF InsertOpen
  <2>2. i = j /\ incidents'[i] = row
    BY <1>1, <2>1
  <2>. QED BY <1>4, <2>1, <2>2 DEF InsertOpen, IsNextKey
<1>5. CASE Save(r)
  <2> DEFINE memory(k) == Changed(wf[r].op, wf[r].copy[k])
  <2>1. PICK k \in Incident :
           /\ At(r, "save") /\ Current(r, k) /\ Effective(wf[r].op, wf[r].copy[k])
           /\ Live(k)
           /\ incidents' = [incidents EXCEPT ![k] = Saved(wf[r].op, @, memory(k))]
    BY <1>5 DEF Save
  <2>2. i = k /\ incidents'[i] = Saved(wf[r].op, incidents[i], memory(i))
    BY <1>1, <2>1
  <2>3. wf[r].op \in Op /\ i \in wf[r].todo /\ wf[r].copy[i] \in IncidentRow
    BY <2>1, <2>2 DEF TypeOK, WorkflowTypeOK, WorkflowLocals, Effective, Op, Current, IsNewest
  <2>4. memory(i).status \in Status
    BY <2>3, ChangedConsistent DEF CopiesConsistent
  <2>5. /\ incidents'[i].status = memory(i).status
        /\ incidents'[i].group = incidents[i].group
    BY <1>1, <2>2 DEF Saved, IncidentRow
  <2>. QED BY <2>1, <2>2, <2>4, <2>5 DEF Updates, Live
<1>. QED BY <1>2, <1>3, <1>4, <1>5

\* A statement that leaves a changed row open opens it in that group.
LEMMA OpenedIn ==
    ASSUME TypeOK, CopiesConsistent, NEW r \in Request, Step(r),
           NEW i \in Incident, incidents'[i] # incidents[i], incidents'[i].status = "open"
    PROVE  OpensIn(r, incidents'[i].group)
BY RowWritten DEF OpensIn

\* No row that the transaction has written changes until it ends.
LEMMA LockedStay ==
    ASSUME TypeOK, CopiesConsistent, TxConsistent, NEW r \in Request, Step(r), ~Waits(r),
           NEW i \in Incident, i \in tx.locked
    PROVE  incidents'[i] = incidents[i]
<1> SUFFICES ASSUME incidents'[i] # incidents[i] PROVE FALSE
  OBVIOUS
<1>1. Live(i)
  BY DEF TxConsistent
<1>2. Updates(r, i, incidents'[i].status) /\ Live(i)'
  BY <1>1, RowWritten DEF Live, Status
<1>3. incidents'[i].status \in Status
  BY <1>2 DEF Live
<1>. QED BY <1>2, <1>3 DEF Waits

\* No incident of the tracker changes in a step that is no statement.
LEMMA ArriveLeaves ==
    ASSUME NEW r \in Request, Arrive(r) \/ Killed(r)
    PROVE  UNCHANGED storeVars
BY DEF Arrive, StartIngest, Load, Killed

\* A group row that appears takes a fingerprint no row has, that of the ingest
\* that inserts it.
LEMMA GroupWritten ==
    ASSUME TypeOK, NEW r \in Request, Step(r), NEW g \in Group, groups'[g].fp # groups[g].fp
    PROVE  /\ At(r, "insert_group") /\ groups[g].fp = Unused /\ groups'[g].fp = ing[r].fp
           /\ \A h \in Group : groups[h].fp # ing[r].fp
           /\ \A h \in Group \ {g} : groups'[h] = groups[h]
<1>1. groups \in [Group -> GroupRow]
  BY DEF TypeOK, StoreTypeOK
<1>2. InsertGroup(r) \/ BumpCount(r)
  BY DEF Step, IngestStep, WorkflowStep, GetGroup, RegetGroup, FindActive, FindPast, Reopen,
     ReopenEntry, InsertOpen, GetOpen, RegetOpen, PersistEvent, SkipUnchanged, Save, AppendEntry,
     storeVars
<1>3. CASE BumpCount(r)
  BY <1>1, <1>3 DEF BumpCount, GroupRow
<1>4. CASE InsertGroup(r)
  <2>1. /\ At(r, "insert_group")
        /\ \A h \in Group : groups[h].fp # ing[r].fp
        /\ \E h \in Group : /\ groups[h].fp = Unused
                            /\ groups' = [groups EXCEPT ![h] = [fp |-> ing[r].fp, count |-> 0]]
    BY <1>4 DEF InsertGroup, GroupsOf
  <2>2. PICK h \in Group : /\ groups[h].fp = Unused
                           /\ groups' = [groups EXCEPT ![h] = [fp |-> ing[r].fp, count |-> 0]]
    BY <2>1
  <2>3. h = g
    BY <1>1, <2>2
  <2>. QED BY <1>1, <2>1, <2>2, <2>3
<1>. QED BY <1>2, <1>3, <1>4

\* Requests elsewhere neither open a transaction nor move the one that is open.
LEMMA SameTransaction ==
    ASSUME TypeOK, JobsApart, Elsewhere, NEW x \in Request
    PROVE  /\ InTransaction(x)' <=> InTransaction(x)
           /\ InTransaction(x) => pc'[x] = pc[x]
<1>1. PICK q \in Request : ~InTransaction(q) /\ (Arrive(q) \/ Step(q) \/ Killed(q))
  BY DEF Elsewhere
<1>2. CASE x # q
  BY <1>1, <1>2, OnlyActor DEF InTransaction
<1>3. CASE x = q
  <2>1. Executed(q)
    BY <1>1, ArriveExecutes, IngestExecutes, OthersExecute DEF Step
  <2>. QED BY <1>1, <1>3, <2>1 DEF Executed, InTransaction, RegroupPC
<1>. QED BY <1>2, <1>3

\* What the step of another request makes of the tables the transaction sees:
\* it sees the rows that changed, none of which are its own.
Mirrored ==
    /\ tx' \in Tables
    /\ tx'.kept = tx.kept /\ tx'.locked = tx.locked /\ tx'.todo = tx.todo
    /\ tx'.fp = tx.fp /\ tx'.canonical = tx.canonical /\ tx'.open = tx.open
    /\ UNCHANGED snapshot
    /\ raced \subseteq raced' /\ raced' \subseteq Incident
    /\ \A i \in Incident :
          /\ i \in tx.locked =>
                incidents'[i] = incidents[i] /\ tx'.incidents[i] = tx.incidents[i]
          /\ i \notin tx.locked => tx'.incidents[i] = incidents'[i]
          /\ tx'.incidents[i].status = tx.incidents[i].status \/ i \in raced'
          /\ tx.incidents[i].status \in Status =>
                /\ tx'.incidents[i].status \in Status
                /\ tx'.incidents[i].group = tx.incidents[i].group
    /\ \A g \in Group :
          /\ g \in tx.kept => groups'[g] = groups[g] /\ tx'.groups[g] = tx.groups[g]
          /\ g \notin tx.kept => tx'.groups[g] = groups'[g]
          /\ tx.groups[g].fp \in Fingerprint => tx'.groups[g].fp = tx.groups[g].fp
    /\ \A e \in Request :
          tx'.events[e] = IF events'[e] # events[e] THEN events'[e] ELSE tx.events[e]

\* That is how it sees the step.
LEMMA ElsewhereMirrored ==
    ASSUME RegroupInv, Elsewhere, Committing, TxConsistent
    PROVE  Mirrored
<1>1. /\ TypeOK /\ RegroupTypeOK /\ OneGroupPerFingerprint /\ ResolvedAtMatchesStatus
      /\ CopiesConsistent
  BY DEF RegroupInv
<1>2. [Next]_vars
  BY DEF Elsewhere, Next
<1>3. PICK q \in Request : Arrive(q) \/ (Step(q) /\ ~Waits(q)) \/ Killed(q)
  BY DEF Elsewhere
<1>4. /\ tx \in Tables /\ raced \subseteq Incident
      /\ tx.groups \in [Group -> GroupRow] /\ tx.incidents \in [Incident -> IncidentRow]
      /\ tx.events \in [Request -> Group \cup {NoGroup}]
  BY <1>1 DEF RegroupTypeOK, Tables
<1>5. TypeOK'
  BY <1>1, <1>2, TypeStep
<1>6. /\ groups' \in [Group -> GroupRow] /\ incidents' \in [Incident -> IncidentRow]
      /\ events' \in [Request -> Group \cup {NoGroup}]
  BY <1>5 DEF TypeOK, StoreTypeOK
<1> DEFINE G == Seen(tx.groups, groups, groups')
           I == Seen(tx.incidents, incidents, incidents')
           E == Seen(tx.events, events, events')
<1>7. /\ \A g \in Group : G[g] = IF groups'[g] # groups[g] THEN groups'[g] ELSE tx.groups[g]
      /\ \A i \in Incident : I[i] = IF incidents'[i] # incidents[i] THEN incidents'[i]
                                    ELSE tx.incidents[i]
      /\ \A e \in Request : E[e] = IF events'[e] # events[e] THEN events'[e] ELSE tx.events[e]
      /\ G \in [Group -> GroupRow] /\ I \in [Incident -> IncidentRow]
      /\ E \in [Request -> Group \cup {NoGroup}]
  BY <1>4, <1>6 DEF Seen
<1>8. /\ tx' = [tx EXCEPT !.groups = G, !.incidents = I, !.events = E]
      /\ raced' = raced \cup {i \in Incident : incidents'[i].status # incidents[i].status}
      /\ UNCHANGED snapshot
      /\ \A g \in tx.kept : groups'[g] = groups[g]
  BY DEF Elsewhere
<1> HIDE DEF G, I, E
<1>9. /\ tx' \in Tables
      /\ tx'.kept = tx.kept /\ tx'.locked = tx.locked /\ tx'.todo = tx.todo
      /\ tx'.fp = tx.fp /\ tx'.canonical = tx.canonical /\ tx'.open = tx.open
      /\ tx'.groups = G /\ tx'.incidents = I /\ tx'.events = E
  BY <1>4, <1>7, <1>8 DEF Tables
<1>10. ASSUME NEW i \in Incident
       PROVE  /\ i \in tx.locked =>
                    incidents'[i] = incidents[i] /\ tx'.incidents[i] = tx.incidents[i]
              /\ i \notin tx.locked => tx'.incidents[i] = incidents'[i]
              /\ tx'.incidents[i].status = tx.incidents[i].status \/ i \in raced'
              /\ tx.incidents[i].status \in Status =>
                    /\ tx'.incidents[i].status \in Status
                    /\ tx'.incidents[i].group = tx.incidents[i].group
  <2>1. i \in tx.locked => incidents'[i] = incidents[i]
    BY <1>1, <1>3, ArriveLeaves, LockedStay DEF storeVars
  <2>2. i \notin tx.locked => tx.incidents[i] = incidents[i]
    BY DEF TxConsistent
  <2>3. Live(i) => Live(i)' /\ incidents'[i].group = incidents[i].group
    BY <1>1, <1>2, IncidentKept
  <2>4. tx'.incidents[i] = IF incidents'[i] # incidents[i] THEN incidents'[i] ELSE tx.incidents[i]
    BY <1>7, <1>9
  <2>5. tx'.incidents[i].status = tx.incidents[i].status \/ i \in raced'
    BY <1>8, <2>1, <2>2, <2>4
  <2>. QED BY <2>1, <2>2, <2>3, <2>4, <2>5 DEF Live
<1>11. ASSUME NEW g \in Group
       PROVE  /\ g \in tx.kept => groups'[g] = groups[g] /\ tx'.groups[g] = tx.groups[g]
              /\ g \notin tx.kept => tx'.groups[g] = groups'[g]
              /\ tx.groups[g].fp \in Fingerprint => tx'.groups[g].fp = tx.groups[g].fp
  <2>1. g \in tx.kept => groups'[g] = groups[g]
    BY <1>8
  <2>2. g \notin tx.kept => tx.groups[g] = groups[g]
    BY DEF TxConsistent
  <2>3. groups[g].fp \in Fingerprint => groups'[g].fp = groups[g].fp
    BY <1>1, <1>2, GroupsStep, StoreAssumption
  <2>4. tx'.groups[g] = IF groups'[g] # groups[g] THEN groups'[g] ELSE tx.groups[g]
    BY <1>7, <1>9
  <2>. QED BY <2>1, <2>2, <2>3, <2>4
<1>12. \A e \in Request :
          tx'.events[e] = IF events'[e] # events[e] THEN events'[e] ELSE tx.events[e]
  BY <1>7, <1>9
<1>13. raced \subseteq raced' /\ raced' \subseteq Incident
  BY <1>4, <1>8
<1>. QED BY <1>8, <1>9, <1>10, <1>11, <1>12, <1>13 DEF Mirrored

\* The constraints hold in what the transaction sees: a statement that would
\* break one against a row of its own waits.
LEMMA ElsewhereConsistent ==
    ASSUME RegroupInv, Elsewhere, Mirrored, TxConsistent,
           \A g \in tx.kept : tx.groups[g].fp \in Fingerprint
    PROVE  TxConsistent'
<1>1. /\ TypeOK /\ RegroupTypeOK /\ OneOpenPerGroup /\ OneGroupPerFingerprint
      /\ ResolvedAtMatchesStatus /\ CopiesConsistent /\ JobsApart
  BY DEF RegroupInv
<1>2. [Next]_vars
  BY DEF Elsewhere, Next
<1>3. PICK q \in Request : Arrive(q) \/ (Step(q) /\ ~Waits(q)) \/ Killed(q)
  BY DEF Elsewhere
<1>4. OneOpenPerGroup' /\ OneGroupPerFingerprint' /\ ResolvedAtMatchesStatus'
  BY <1>1, <1>2, OneOpenStep, GroupsStep, IncidentKept
<1>5. ASSUME NEW i \in Incident, NEW j \in Incident, i \notin tx.locked, j \in tx.locked,
             tx'.incidents[i].status = "open", tx'.incidents[j].status = "open",
             tx'.incidents[i].group = tx'.incidents[j].group
      PROVE  FALSE
  <2>1. tx'.incidents[i] = incidents'[i] /\ tx'.incidents[j] = tx.incidents[j]
    BY <1>5 DEF Mirrored
  <2>2. tx.incidents[i] = incidents[i]
    BY <1>5 DEF TxConsistent
  <2>3. CASE incidents'[i] = incidents[i]
    BY <1>5, <2>1, <2>2, <2>3 DEF TxConsistent
  <2>4. CASE incidents'[i] # incidents[i]
    <3>1. Step(q) /\ ~Waits(q)
      BY <1>3, <2>4, ArriveLeaves DEF storeVars
    <3>2. OpensIn(q, tx.incidents[j].group)
      BY <1>1, <1>5, <2>1, <2>4, <3>1, OpenedIn
    <3>. QED BY <1>5, <2>1, <3>1, <3>2 DEF Waits
  <2>. QED BY <2>3, <2>4
<1>6. ASSUME NEW i \in Incident, NEW j \in Incident,
             tx'.incidents[i].status = "open", tx'.incidents[j].status = "open",
             tx'.incidents[i].group = tx'.incidents[j].group
      PROVE  i = j
  <2>1. CASE i \in tx.locked /\ j \in tx.locked
    BY <1>6, <2>1 DEF Mirrored, TxConsistent
  <2>2. CASE i \notin tx.locked /\ j \notin tx.locked
    BY <1>4, <1>6, <2>2 DEF Mirrored, OneOpenPerGroup
  <2>. QED BY <1>5, <1>6, <2>1, <2>2
<1>7. ASSUME NEW g \in Group, NEW h \in Group, g \notin tx.kept, h \in tx.kept,
             tx'.groups[g].fp = tx'.groups[h].fp
      PROVE  FALSE
  <2>1. /\ tx'.groups[g] = groups'[g] /\ tx'.groups[h] = tx.groups[h]
        /\ tx.groups[g] = groups[g] /\ tx.groups[h].fp \in Fingerprint
    BY <1>7 DEF Mirrored, TxConsistent
  <2>2. CASE groups'[g].fp = groups[g].fp
    BY <1>7, <2>1, <2>2 DEF TxConsistent
  <2>3. CASE groups'[g].fp # groups[g].fp
    <3>1. Step(q) /\ ~Waits(q)
      BY <1>3, <2>3, ArriveLeaves DEF storeVars
    <3>2. At(q, "insert_group") /\ groups'[g].fp = ing[q].fp
      BY <1>1, <2>3, <3>1, GroupWritten
    <3>. QED BY <1>7, <2>1, <3>1, <3>2 DEF Waits
  <2>. QED BY <2>2, <2>3
<1>8. ASSUME NEW g \in Group, NEW h \in Group,
             tx'.groups[g].fp \in Fingerprint, tx'.groups[g].fp = tx'.groups[h].fp
      PROVE  g = h
  <2>1. CASE g \in tx.kept /\ h \in tx.kept
    BY <1>8, <2>1 DEF Mirrored, TxConsistent
  <2>2. CASE g \notin tx.kept /\ h \notin tx.kept
    BY <1>4, <1>8, <2>2 DEF Mirrored, OneGroupPerFingerprint, GroupLive
  <2>. QED BY <1>7, <1>8, <2>1, <2>2
<1>9. ASSUME NEW i \in Incident
      PROVE  /\ tx'.incidents[i].resolvedAt <=> tx'.incidents[i].status = "resolved"
             /\ i \notin tx'.locked => tx'.incidents[i] = incidents'[i]
             /\ i \in tx'.locked => tx'.incidents[i].status \in Status /\ Live(i)'
  <2>1. CASE i \in tx.locked
    BY <2>1 DEF Mirrored, TxConsistent, Live
  <2>2. CASE i \notin tx.locked
    BY <1>4, <2>2 DEF Mirrored, ResolvedAtMatchesStatus
  <2>. QED BY <2>1, <2>2
<1>10. \A g \in Group : /\ g \notin tx'.kept => tx'.groups[g] = groups'[g]
                        /\ g \in tx'.kept => groups'[g].fp # Deleted
  BY DEF Mirrored, TxConsistent
<1>11. \A e \in Request : tx'.events[e] # NoGroup => events'[e] # NoGroup
  BY DEF Mirrored, TxConsistent
<1>. QED BY <1>6, <1>8, <1>9, <1>10, <1>11 DEF TxConsistent

\* The fingerprint of an event that a job read is one of Fingerprint.
LEMMA ReadFingerprint ==
    ASSUME TypeOK, JobsApart, NEW r \in Request, NEW e \in Stored(snapshot[r])
    PROVE  e \in Request /\ FingerprintNow(e) \in Fingerprint
<1>1. e \in Request /\ ing[e].fp # Unused
  BY DEF JobsApart, Stored
<1>2. ing[e].fp \in Fingerprint
  BY <1>1 DEF TypeOK, IngestTypeOK, IngestLocals
<1>. QED BY <1>1, <1>2, RegroupAssumption DEF FingerprintNow

\* Requests elsewhere leave the events that a job read, and what they are of.
LEMMA SameMembers ==
    ASSUME TypeOK, JobsApart, [Next]_vars, UNCHANGED snapshot, NEW r \in Request
    PROVE  /\ Stored(snapshot[r])' = Stored(snapshot[r])
           /\ \A e \in Stored(snapshot[r]) :
                 events'[e] = events[e] /\ FingerprintNow(e)' = FingerprintNow(e)
           /\ FingerprintsOf(r)' = FingerprintsOf(r)
           /\ \A fp : Members(r, fp)' = Members(r, fp)
<1>1. \A e \in Stored(snapshot[r]) : e \in Request /\ outcome[e] = "ok"
  BY DEF JobsApart, Stored
<1>2. \A e \in Request : outcome[e] = "ok" => events'[e] = events[e] /\ ing'[e].fp = ing[e].fp
  BY OneExecutes DEF Executed
<1>3. Stored(snapshot[r])' = Stored(snapshot[r])
  BY DEF Stored
<1>4. \A e \in Stored(snapshot[r]) :
         events'[e] = events[e] /\ FingerprintNow(e)' = FingerprintNow(e)
  BY <1>1, <1>2 DEF FingerprintNow
<1>5. FingerprintsOf(r)' = FingerprintsOf(r)
  BY <1>3, <1>4 DEF FingerprintsOf
<1>6. \A fp : Members(r, fp)' = Members(r, fp)
  BY <1>3, <1>4 DEF Members
<1>. QED BY <1>3, <1>4, <1>5, <1>6

\* What was merged stays merged.
LEMMA ElsewhereMerged ==
    ASSUME TypeOK, JobsApart, [Next]_vars, NEW r \in Request, pc'[r] = pc[r], tx \in Tables,
           Mirrored, TxConsistent', TxMerged(r)
    PROVE  TxMerged(r)'
<1> DEFINE merged == FingerprintsOf(r) \ tx.todo
<1>1. /\ Stored(snapshot[r])' = Stored(snapshot[r])
      /\ \A e \in Stored(snapshot[r]) :
            events'[e] = events[e] /\ FingerprintNow(e)' = FingerprintNow(e)
      /\ FingerprintsOf(r)' = FingerprintsOf(r)
      /\ \A fp : Members(r, fp)' = Members(r, fp)
      /\ snapshot' = snapshot /\ (Moving(r)' <=> Moving(r))
  BY SameMembers DEF Mirrored, Moving
<1>2. /\ tx'.kept = tx.kept /\ tx'.todo = tx.todo /\ tx'.fp = tx.fp
      /\ \A g \in tx.kept : g \in Group /\ tx'.groups[g] = tx.groups[g]
  BY DEF Mirrored, Tables
<1>3. /\ tx.todo \subseteq FingerprintsOf(r)
      /\ tx.kept = {g \in Group : tx.groups[g].fp \in merged}
      /\ \A fp \in merged : \E g \in tx.kept : tx.groups[g].fp = fp
      /\ \A g \in tx.kept : tx.groups[g].count = Cardinality(Members(r, tx.groups[g].fp))
  BY DEF TxMerged
<1>4. \A e \in Stored(snapshot[r]) : e \in Request /\ FingerprintNow(e) \in Fingerprint
  BY ReadFingerprint
<1>5. merged \subseteq Fingerprint
  BY <1>4 DEF FingerprintsOf
<1>6. ASSUME NEW g \in Group, tx'.groups[g].fp \in merged
      PROVE  g \in tx.kept
  <2>1. PICK h \in tx.kept : tx.groups[h].fp = tx'.groups[g].fp
    BY <1>3, <1>6
  <2>. QED BY <1>2, <1>5, <1>6, <2>1 DEF TxConsistent
<1>7. tx'.kept = {g \in Group : tx'.groups[g].fp \in merged}
  BY <1>2, <1>3, <1>6
<1>8. /\ \A fp \in merged : \E g \in tx'.kept : tx'.groups[g].fp = fp
      /\ \A g \in tx'.kept : tx'.groups[g].count = Cardinality(Members(r, tx'.groups[g].fp))
  BY <1>2, <1>3
<1>9. ASSUME NEW e \in Stored(snapshot[r]), FingerprintNow(e) \in merged
      PROVE  /\ tx'.events[e] # NoGroup => tx'.groups[tx'.events[e]].fp = FingerprintNow(e)
             /\ ~(Moving(r) /\ FingerprintNow(e) = tx.fp) =>
                   \A i \in Incident \ raced' :
                      tx'.incidents[i].status \in Status /\ tx'.incidents[i].group = snapshot[r][e]
                      => snapshot[r][e] \in tx.kept
  <2>1. tx'.events[e] = tx.events[e]
    BY <1>1, <1>4 DEF Mirrored
  <2>2. tx.events[e] # NoGroup =>
           tx.groups[tx.events[e]].fp = FingerprintNow(e) /\ tx.events[e] \in tx.kept
    <3>1. tx.events[e] # NoGroup => tx.events[e] \in Group
      BY <1>4 DEF Tables
    <3>. QED BY <1>3, <1>9, <3>1 DEF TxMerged
  <2>3. \A i \in Incident \ raced' : tx'.incidents[i].status \in Status =>
           /\ i \in Incident \ raced /\ tx.incidents[i].status \in Status
           /\ tx'.incidents[i].group = tx.incidents[i].group
    BY DEF Mirrored
  <2>4. ~(Moving(r) /\ FingerprintNow(e) = tx.fp) =>
           \A i \in Incident \ raced :
              tx.incidents[i].status \in Status /\ tx.incidents[i].group = snapshot[r][e]
              => snapshot[r][e] \in tx.kept
    BY <1>9 DEF TxMerged
  <2>. QED BY <1>2, <2>1, <2>2, <2>3, <2>4
<1> HIDE DEF merged
<1>10. merged = (FingerprintsOf(r) \ tx.todo)'
  BY <1>1, <1>2 DEF merged
<1>. QED BY <1>1, <1>2, <1>3, <1>7, <1>8, <1>9, <1>10 DEF TxMerged

\* The turn goes on as it was.
LEMMA ElsewhereTurn ==
    ASSUME TypeOK, JobsApart, [Next]_vars, NEW r \in Request, pc'[r] = pc[r], tx \in Tables,
           Mirrored, TxMerged(r), TxTurn(r)
    PROVE  TxTurn(r)'
<1>1. /\ tx'.kept = tx.kept /\ tx'.locked = tx.locked /\ tx'.todo = tx.todo
      /\ tx'.fp = tx.fp /\ tx'.canonical = tx.canonical /\ tx'.open = tx.open
      /\ snapshot' = snapshot /\ raced \subseteq raced' /\ (Moving(r)' <=> Moving(r))
  BY DEF Mirrored, Moving
<1>2. \A fp : Members(r, fp)' = Members(r, fp)
  BY <1>1, SameMembers
<1>3. OldGroups(r, tx.canonical)' = OldGroups(r, tx.canonical)
  BY <1>1, <1>2 DEF OldGroups
<1>4. GroupsToMerge(r)' = GroupsToMerge(r)
  BY <1>1, <1>3 DEF GroupsToMerge
<1>5. pc[r] = "keep" =>
         /\ tx.fp \in tx.todo
         /\ tx.canonical # NoGroup => tx'.groups[tx.canonical].fp = tx.fp
  <2>1. tx.todo \subseteq Fingerprint
    BY ReadFingerprint DEF TxMerged, FingerprintsOf
  <2>. QED BY <2>1 DEF TxTurn, Mirrored, Tables
<1>6. Moving(r) => tx.canonical \in tx.kept /\ tx'.groups[tx.canonical].fp = tx.fp
  BY DEF TxTurn, Mirrored, Tables
<1>7. \A i \in Incident :
         /\ StaysOpen(i) => StaysOpen(i)'
         /\ tx'.incidents[i].status = "open" /\ i \notin raced' => tx.incidents[i].status = "open"
         /\ tx.incidents[i].status \in Status =>
               /\ tx'.incidents[i].status \in Status
               /\ tx'.incidents[i].group = tx.incidents[i].group
         /\ tx'.incidents[i].status # tx.incidents[i].status => i \in raced' /\ i \notin tx.locked
         /\ i \in tx.locked => tx'.incidents[i] = tx.incidents[i]
  BY <1>1 DEF StaysOpen, Mirrored
<1>8. tx.open \subseteq Incident /\ tx.locked \subseteq Incident
  BY DEF Tables
<1>9. pc[r] \in {"primary", "duplicates"} =>
         /\ \A i \in tx.open : /\ tx'.incidents[i].status \in Status /\ StaysOpen(i)'
                               /\ tx'.incidents[i].group \in GroupsToMerge(r)
         /\ \A i \in Incident :
               /\ tx'.incidents[i].status = "open"
               /\ tx'.incidents[i].group \in OldGroups(r, tx.canonical)
               => i \in tx.open \/ (i \in raced' /\ i \notin tx.locked)
  <2> SUFFICES ASSUME pc[r] \in {"primary", "duplicates"}
               PROVE  /\ \A i \in tx.open : /\ tx'.incidents[i].status \in Status /\ StaysOpen(i)'
                                            /\ tx'.incidents[i].group \in GroupsToMerge(r)
                      /\ \A i \in Incident :
                            /\ tx'.incidents[i].status = "open"
                            /\ tx'.incidents[i].group \in OldGroups(r, tx.canonical)
                            => i \in tx.open \/ (i \in raced' /\ i \notin tx.locked)
    OBVIOUS
  <2>1. \A i \in tx.open : /\ tx.incidents[i].status \in Status /\ StaysOpen(i)
                           /\ tx.incidents[i].group \in GroupsToMerge(r)
    BY DEF TxTurn
  <2>2. ASSUME NEW i \in Incident, tx'.incidents[i].status = "open",
               tx'.incidents[i].group \in OldGroups(r, tx.canonical)
        PROVE  i \in tx.open \/ (i \in raced' /\ i \notin tx.locked)
    <3>1. CASE tx'.incidents[i].status # tx.incidents[i].status
      BY <1>7, <3>1
    <3>2. CASE tx'.incidents[i].status = tx.incidents[i].status
      <4>1. tx.incidents[i].status = "open" /\ tx.incidents[i].group \in OldGroups(r, tx.canonical)
        BY <1>7, <2>2, <3>2 DEF Status
      <4>. QED BY <1>1, <4>1 DEF TxTurn
    <3>. QED BY <3>1, <3>2
  <2>. QED BY <1>7, <1>8, <2>1, <2>2
<1>10. pc[r] = "duplicates" /\ tx.open # {} =>
          \E p \in tx.locked \ tx.open : StaysOpen(p)' /\ tx'.incidents[p].group = tx.canonical
  BY <1>7, <1>8 DEF TxTurn
<1>. QED BY <1>1, <1>3, <1>4, <1>5, <1>6, <1>9, <1>10 DEF TxTurn

\* A step that makes no job miss an event leaves the events of this one.
LEMMA ElsewhereLosesNothing ==
    ASSUME TypeOK, JobsApart, [Next]_vars, NEW r \in Regroupers, HasRead(r), tx \in Tables,
           Mirrored, TxConsistent, TxLosesNothing(r)
    PROVE  TxLosesNothing(r)'
<1> SUFFICES ASSUME NothingMissed'
             PROVE  /\ \A e \in Stored(snapshot[r])' : tx'.events[e] # NoGroup
                    /\ Committed' => \A g \in Group : tx'.groups[g].fp \in Fingerprint =>
                                         tx'.groups[g].fp \in FingerprintsOf(r)'
  BY DEF TxLosesNothing
<1>1. r \in Request /\ UNCHANGED snapshot
  BY RegroupAssumption DEF Mirrored
<1>2. UNCHANGED <<groups, events, ing>>
  BY <1>1, NothingMissedQuiet
<1>3. NothingMissed
  BY <1>1, <1>2 DEF NothingMissed, Stored
<1>4. Committed' <=> Committed
  BY <1>1, CommittedStays
<1>5. /\ \A g \in Group : tx'.groups[g] = tx.groups[g]
      /\ \A e \in Request : tx'.events[e] = tx.events[e]
  BY <1>2 DEF Mirrored, TxConsistent
<1>6. /\ Stored(snapshot[r])' = Stored(snapshot[r]) /\ FingerprintsOf(r)' = FingerprintsOf(r)
      /\ \A e \in Stored(snapshot[r]) : e \in Request
  BY <1>1, SameMembers DEF Stored
<1>. QED BY <1>3, <1>4, <1>5, <1>6 DEF TxLosesNothing

\* The rows it has written stay, so do the tickets it keeps open.
LEMMA ElsewhereKeepsOpen ==
    ASSUME TypeOK, JobsApart, [Next]_vars, NEW r \in Request, pc'[r] = pc[r], tx \in Tables,
           Mirrored, TxKeepsOpen(r)
    PROVE  TxKeepsOpen(r)'
<1>1. /\ tx'.locked = tx.locked /\ tx'.fp = tx.fp /\ tx'.canonical = tx.canonical
      /\ snapshot' = snapshot /\ raced \subseteq raced'
      /\ \A i \in tx.locked : /\ i \in Incident
                              /\ incidents'[i] = incidents[i] /\ tx'.incidents[i] = tx.incidents[i]
  BY DEF Mirrored, Tables
<1>2. \A fp : Members(r, fp)' = Members(r, fp)
  BY <1>1, SameMembers
<1>3. GroupsToMerge(r)' = GroupsToMerge(r)
  BY <1>1, <1>2 DEF OldGroups, GroupsToMerge
<1>4. \A i, j \in tx.locked : /\ StaysOpen(j) => StaysOpen(j)'
                              /\ Together(r, i, j) => Together(r, i, j)'
  BY <1>1, <1>3 DEF StaysOpen, Together
<1>. QED BY <1>1, <1>4 DEF TxKeepsOpen

\* A step elsewhere keeps the invariant, whether or not a transaction is open.
LEMMA ElsewhereKeeps ==
    ASSUME RegroupInv, Elsewhere
    PROVE  RegroupInv'
<1>1. /\ TypeOK /\ RegroupTypeOK /\ OneOpenPerGroup /\ OneGroupPerFingerprint
      /\ ResolvedAtMatchesStatus /\ CopiesConsistent /\ JobsApart /\ DeletedWithGroup
      /\ StoredEventsKnown /\ TransactionOpen
  BY DEF RegroupInv
<1>2. [Next]_vars /\ UNCHANGED snapshot /\ raced \subseteq raced'
  BY DEF Elsewhere, Next
<1>3. TypeOK' /\ OneOpenPerGroup' /\ OneGroupPerFingerprint'
  BY <1>1, <1>2, TypeStep, OneOpenStep, GroupsStep
<1>4. ResolvedAtMatchesStatus' /\ CopiesConsistent'
  BY <1>1, <1>2, IncidentKept, CopiesStep
<1>5. JobsApart' /\ DeletedWithGroup' /\ StoredEventsKnown'
  BY <1>1, <1>2, TrackerApart, TrackerDeleted, TrackerKnown
<1>6. CASE ~Committing
  <2>1. UNCHANGED <<tx, raced>>
    BY <1>6 DEF Elsewhere
  <2>2. RegroupTypeOK'
    BY <1>1, <1>2, <2>1 DEF RegroupTypeOK
  <2>3. \A x \in Request : ~InTransaction(x)'
    BY <1>1, <1>6, SameTransaction DEF Committing
  <2>4. TransactionOpen'
    BY <2>3 DEF TransactionOpen
  <2>. QED BY <1>3, <1>4, <1>5, <2>2, <2>4 DEF RegroupInv
<1>7. ASSUME NEW r \in Request, InTransaction(r)
      PROVE  RegroupInv'
  <2>1. /\ \A q \in Request : InTransaction(q) => q = r
        /\ TxConsistent /\ TxMerged(r) /\ TxTurn(r) /\ TxLosesNothing(r) /\ TxKeepsOpen(r)
        /\ r \in Regroupers /\ HasRead(r) /\ tx \in Tables
    BY <1>1, <1>7 DEF TransactionOpen, JobsApart, RegroupTypeOK
  <2>2. Mirrored
    BY <1>7, <2>1, ElsewhereMirrored DEF Committing
  <2>3. RegroupTypeOK'
    BY <1>1, <2>2 DEF RegroupTypeOK, Mirrored
  <2>4. pc'[r] = pc[r] /\ \A x \in Request : InTransaction(x)' => x = r
    BY <1>1, <1>7, <2>1, SameTransaction
  <2>5. \A g \in tx.kept : tx.groups[g].fp \in Fingerprint
    BY <1>1, <2>1, ReadFingerprint DEF TxMerged, FingerprintsOf
  <2>6. TxConsistent'
    BY <2>1, <2>2, <2>5, ElsewhereConsistent
  <2>7. TxMerged(r)' /\ TxTurn(r)'
    BY <1>1, <1>2, <2>1, <2>2, <2>4, <2>6, ElsewhereMerged, ElsewhereTurn
  <2>8. TxLosesNothing(r)' /\ TxKeepsOpen(r)'
    BY <1>1, <1>2, <2>1, <2>2, <2>4, ElsewhereLosesNothing, ElsewhereKeepsOpen
  <2>9. TransactionOpen'
    BY <2>4, <2>6, <2>7, <2>8 DEF TransactionOpen
  <2>. QED BY <1>3, <1>4, <1>5, <2>3, <2>9 DEF RegroupInv
<1>. QED BY <1>6, <1>7 DEF Committing

-----------------------------------------------------------------------------
(* Reading the events, and opening the transaction *)

\* The tables of no transaction are typed.
LEMMA ClosedType == Closed \in Tables
BY NoRowType DEF Closed, Tables, GroupRow, NoCopies, NoEvents

\* What a request that is in no transaction does to itself leaves the one that is.
LEMMA TransactionStays ==
    ASSUME NEW x \in Request, pc'[x] = pc[x], snapshot'[x] = snapshot[x],
           UNCHANGED <<groups, incidents, events, ing, tx, raced>>,
           NothingMissed' => NothingMissed, Committed' => Committed,
           TxConsistent, TxMerged(x), TxTurn(x), TxLosesNothing(x), TxKeepsOpen(x)
    PROVE  /\ TxConsistent' /\ TxMerged(x)' /\ TxTurn(x)' /\ TxLosesNothing(x)' /\ TxKeepsOpen(x)'
<1>1. /\ Stored(snapshot[x])' = Stored(snapshot[x])
      /\ \A e \in Request : FingerprintNow(e)' = FingerprintNow(e)
      /\ \A e \in Stored(snapshot[x]) : e \in Request
  BY DEF Stored, FingerprintNow
<1>2. /\ FingerprintsOf(x)' = FingerprintsOf(x)
      /\ \A fp : Members(x, fp)' = Members(x, fp)
  BY <1>1 DEF FingerprintsOf, Members
<1>3. /\ OldGroups(x, tx.canonical)' = OldGroups(x, tx.canonical)
      /\ GroupsToMerge(x)' = GroupsToMerge(x)
  BY <1>2 DEF OldGroups, GroupsToMerge
<1>4. TxConsistent'
  BY DEF TxConsistent, Live
<1>5. TxMerged(x)'
  BY <1>1, <1>2 DEF TxMerged, Moving
<1>6. TxTurn(x)'
  BY <1>3 DEF TxTurn, Moving, StaysOpen
<1>7. TxLosesNothing(x)'
  BY <1>1, <1>2 DEF TxLosesNothing
<1>8. TxKeepsOpen(x)'
  BY <1>3 DEF TxKeepsOpen, StaysOpen, Together
<1>. QED BY <1>4, <1>5, <1>6, <1>7, <1>8

\* Reading the events changes nothing but what the job holds.
LEMMA ReadKeeps ==
    ASSUME RegroupInv, NEW r \in Regroupers, NEW dryRun \in BOOLEAN,
           ReadEvents(r, dryRun)
    PROVE  RegroupInv'
<1>1. /\ TypeOK /\ RegroupTypeOK /\ OneOpenPerGroup /\ OneGroupPerFingerprint
      /\ ResolvedAtMatchesStatus /\ CopiesConsistent /\ JobsApart /\ DeletedWithGroup
      /\ StoredEventsKnown /\ TransactionOpen
  BY DEF RegroupInv
<1>2. /\ r \in Request
      /\ pc \in [Request -> Statement] /\ outcome \in [Request -> Outcome]
      /\ events \in [Request -> Group \cup {NoGroup}]
      /\ snapshot \in [Request -> [Request -> Group \cup {NoGroup}]]
  BY <1>1, RegroupAssumption DEF TypeOK, RequestsTypeOK, StoreTypeOK, RegroupTypeOK
<1>3. /\ outcome[r] = "running" /\ pc[r] = "arriving" /\ ing[r].fp = Unused
      /\ UNCHANGED <<groups, incidents, events, timeline, ing, wf, tx, raced>>
  BY <1>1, <1>2 DEF ReadEvents, At, JobsApart, storeVars
<1>4. ~HasRead(r)
  BY <1>1, <1>2, <1>3 DEF JobsApart, RegroupPC, TransactionPC
<1>5. \A q \in Request : q # r =>
         snapshot'[q] = snapshot[q] /\ pc'[q] = pc[q] /\ outcome'[q] = outcome[q]
  BY <1>2 DEF ReadEvents, Answer, Goto
<1>6. \/ pc'[r] = "answered" /\ snapshot'[r] = snapshot[r] /\ outcome'[r] = "ok"
      \/ /\ pc'[r] = "regroup" /\ outcome'[r] = "running"
         /\ snapshot'[r] = events /\ Stored(events) # {}
  BY <1>2, <1>3 DEF ReadEvents, Answer, Goto
<1>7. TypeOK' /\ RegroupTypeOK'
  <2>1. pc' \in [Request -> Statement] /\ outcome' \in [Request -> Outcome]
    BY <1>2 DEF ReadEvents, Answer, Goto, Statement, Outcome, RegroupPC
  <2>2. snapshot' \in [Request -> [Request -> Group \cup {NoGroup}]]
    BY <1>2 DEF ReadEvents
  <2>. QED BY <1>1, <1>3, <2>1, <2>2
           DEF TypeOK, RegroupTypeOK, StoreTypeOK, RequestsTypeOK, IngestTypeOK, WorkflowTypeOK
<1>8. OneOpenPerGroup' /\ OneGroupPerFingerprint' /\ ResolvedAtMatchesStatus' /\ CopiesConsistent'
  BY <1>1, <1>3 DEF OneOpenPerGroup, OneGroupPerFingerprint, GroupLive, ResolvedAtMatchesStatus,
     CopiesConsistent
<1>9. JobsApart'
  <2> SUFFICES ASSUME NEW q \in Request
               PROVE  /\ pc'[q] \in IngestPC => ing[q].fp # Unused
                      /\ pc'[q] \in {"arriving"} \cup WorkflowPC \cup RegroupPC => ing[q].fp = Unused
                      /\ events[q] # NoGroup => outcome'[q] = "ok" /\ ing[q].fp # Unused
                      /\ \A e \in Stored(snapshot'[q]) : outcome'[e] = "ok" /\ ing[e].fp # Unused
                      /\ HasRead(q)' => pc'[q] \in RegroupPC \/ outcome'[q] = "ok"
                      /\ At(q, "regroup")' \/ InTransaction(q)' => q \in Regroupers /\ HasRead(q)'
    BY <1>3 DEF JobsApart
  <2>1. \A e \in Request : outcome[e] = "ok" => outcome'[e] = "ok"
    BY <1>3, <1>5
  <2>2. \A e \in Stored(snapshot'[q]) : outcome'[e] = "ok" /\ ing[e].fp # Unused
    BY <1>1, <1>5, <1>6, <2>1 DEF JobsApart, Stored
  <2>3. CASE q # r
    BY <1>1, <1>5, <2>2, <2>3 DEF JobsApart, HasRead, Stored, At, InTransaction
  <2>4. CASE q = r
    <3>1. events[q] = NoGroup
      BY <1>1, <1>3, <2>4 DEF JobsApart
    <3>2. pc'[q] \in {"answered", "regroup"}
      BY <1>6, <2>4
    <3>3. HasRead(q)' <=> pc'[q] = "regroup"
      BY <1>4, <1>6, <2>4 DEF HasRead, Stored
    <3>. QED BY <1>3, <1>6, <2>2, <2>4, <3>1, <3>2, <3>3
             DEF IngestPC, RegroupPC, TransactionPC, At, InTransaction
  <2>. QED BY <2>3, <2>4
<1>10. Committed' <=> Committed
  <2>1. \A q \in Regroupers : q \in Request
    BY RegroupAssumption
  <2>2. \A q \in Regroupers :
           (outcome'[q] = "ok" /\ HasRead(q)') <=> (outcome[q] = "ok" /\ HasRead(q))
    BY <1>3, <1>4, <1>5, <1>6, <2>1 DEF HasRead, Stored
  <2>. QED BY <2>2 DEF Committed
<1>11. DeletedWithGroup'
  BY <1>1, <1>3, <1>10 DEF DeletedWithGroup
<1>12. StoredEventsKnown'
  <2> SUFFICES ASSUME NothingMissed'
               PROVE  IF Committed' THEN Consolidated' ELSE ReadAsStored'
    BY DEF StoredEventsKnown
  <2>1. NothingMissed
    <3> SUFFICES ASSUME NEW q \in Regroupers, Stored(snapshot[q]) # {}
                 PROVE  \A e \in Request : ing[e].fp # Unused => snapshot[q][e] # NoGroup
      BY DEF NothingMissed
    <3>1. snapshot'[q] = snapshot[q]
      BY <1>4, <1>5, RegroupAssumption DEF HasRead
    <3>. QED BY <1>3, <3>1 DEF NothingMissed
  <2>2. \A q \in Regroupers : snapshot'[q] = snapshot[q] \/ (q = r /\ snapshot'[q] = events)
    BY <1>5, <1>6, RegroupAssumption
  <2>3. ASSUME Committed PROVE Consolidated'
    <3>1. Consolidated
      BY <1>1, <2>1, <2>3 DEF StoredEventsKnown
    <3>2. \A g \in Group : GroupLive(g)' =>
             /\ groups'[g].count = Cardinality({e \in Request : events'[e] = g})
             /\ \E e \in Request : events'[e] = g
      BY <1>3, <3>1 DEF Consolidated, GroupLive
    <3>3. ASSUME NEW q \in Regroupers, NEW e \in Stored(snapshot'[q])
          PROVE  /\ events'[e] # NoGroup /\ groups'[events'[e]].fp = FingerprintNow(e)'
                 /\ \A i \in Incident \ raced' : incidents'[i].status = "deleted" =>
                       snapshot'[q][e] # incidents'[i].group
      <4>1. CASE snapshot'[q] = snapshot[q]
        BY <1>3, <3>1, <3>3, <4>1 DEF Consolidated, FingerprintNow
      <4>2. CASE snapshot'[q] = events
        <5>1. \E p \in Regroupers : e \in Stored(snapshot[p])
          <6>1. PICK p \in Regroupers : Stored(snapshot[p]) # {}
            BY <2>3 DEF Committed, HasRead
          <6>2. e \in Request /\ ing[e].fp # Unused
            BY <1>1, <3>3, <4>2 DEF Stored, JobsApart
          <6>. QED BY <2>1, <6>1, <6>2 DEF NothingMissed, Stored
        <5>2. events[e] # NoGroup /\ groups[events[e]].fp = FingerprintNow(e)
          BY <3>1, <5>1 DEF Consolidated
        <5>3. groups[events[e]].fp \in Fingerprint
          <6>1. e \in Request /\ ing[e].fp # Unused
            BY <1>1, <5>1, RegroupAssumption DEF Stored, JobsApart
          <6>2. ing[e].fp \in Fingerprint
            BY <1>1, <6>1 DEF TypeOK, IngestTypeOK, IngestLocals
          <6>. QED BY <5>2, <6>1, <6>2, RegroupAssumption DEF FingerprintNow
        <5>4. \A i \in Incident : incidents[i].status = "deleted" => incidents[i].group # events[e]
          BY <1>1, <5>3, StoreAssumption DEF DeletedWithGroup
        <5>. QED BY <1>3, <4>2, <5>2, <5>4 DEF FingerprintNow
      <4>. QED BY <2>2, <4>1, <4>2
    <3>. QED BY <3>2, <3>3 DEF Consolidated
  <2>4. ASSUME ~Committed PROVE ReadAsStored'
    <3>1. ReadAsStored
      BY <1>1, <2>1, <2>4 DEF StoredEventsKnown
    <3>. QED BY <1>3, <2>2, <3>1 DEF ReadAsStored, HasRead, Stored
  <2>. QED BY <1>10, <2>3, <2>4
<1>13. NothingMissed' => NothingMissed
  <2> SUFFICES ASSUME NothingMissed', NEW q \in Regroupers, Stored(snapshot[q]) # {}
               PROVE  \A e \in Request : ing[e].fp # Unused => snapshot[q][e] # NoGroup
    BY DEF NothingMissed
  <2>1. snapshot'[q] = snapshot[q]
    BY <1>4, <1>5, RegroupAssumption DEF HasRead
  <2>. QED BY <1>3, <2>1 DEF NothingMissed
<1>14. TransactionOpen'
  <2>1. \A q \in Request : InTransaction(q)' <=> InTransaction(q)
    BY <1>3, <1>5, <1>6 DEF InTransaction, TransactionPC
  <2>2. ASSUME NEW q \in Request, InTransaction(q)
        PROVE  /\ \A x \in Request : InTransaction(x) => x = q
               /\ TxConsistent' /\ TxMerged(q)' /\ TxTurn(q)' /\ TxLosesNothing(q)' /\ TxKeepsOpen(q)'
    <3>1. q # r
      BY <1>3, <2>2 DEF InTransaction, TransactionPC
    <3>2. pc'[q] = pc[q] /\ snapshot'[q] = snapshot[q]
      BY <1>5, <3>1
    <3>3. /\ \A x \in Request : InTransaction(x) => x = q
          /\ TxConsistent /\ TxMerged(q) /\ TxTurn(q) /\ TxLosesNothing(q) /\ TxKeepsOpen(q)
      BY <1>1, <2>2 DEF TransactionOpen
    <3>. QED BY <1>3, <1>10, <1>13, <3>2, <3>3, TransactionStays
  <2>. QED BY <2>1, <2>2 DEF TransactionOpen
<1>. QED BY <1>7, <1>8, <1>9, <1>11, <1>12, <1>14 DEF RegroupInv

-----------------------------------------------------------------------------
(* The statements of the transaction *)

\* What a statement of a job leaves alone: all but its transaction.
LEMMA TransactionOnly ==
    ASSUME RegroupInv, NEW r \in Request, At(r, "regroup") \/ InTransaction(r), tx' \in Tables,
           \/ UNCHANGED <<pc, outcome>>
           \/ \E s \in TransactionPC : Goto(r, s)
           \/ \E status \in {"error", "killed"} :
                 pc' = pc /\ outcome' = [outcome EXCEPT ![r] = status],
           UNCHANGED <<groups, incidents, events, timeline, ing, wf, snapshot, raced>>,
           TransactionOpen'
    PROVE  RegroupInv'
<1>1. /\ TypeOK /\ RegroupTypeOK /\ OneOpenPerGroup /\ OneGroupPerFingerprint
      /\ ResolvedAtMatchesStatus /\ CopiesConsistent /\ JobsApart /\ DeletedWithGroup
      /\ StoredEventsKnown
  BY DEF RegroupInv
<1>2. /\ pc \in [Request -> Statement] /\ outcome \in [Request -> Outcome]
      /\ outcome[r] = "running" /\ pc[r] \in RegroupPC
  BY <1>1 DEF TypeOK, RequestsTypeOK, At, InTransaction, RegroupPC
<1>3. \A q \in Request :
         /\ outcome[q] = "ok" <=> outcome'[q] = "ok"
         /\ outcome'[q] = "running" => outcome[q] = "running"
         /\ q # r => pc'[q] = pc[q]
         /\ pc'[r] = pc[r] \/ pc'[r] \in TransactionPC
  BY <1>2 DEF Goto
<1>4. TypeOK' /\ RegroupTypeOK'
  <2>1. outcome' \in [Request -> Outcome] /\ pc' \in [Request -> Statement]
    BY <1>2 DEF Outcome, Goto, Statement, RegroupPC
  <2>. QED BY <1>1, <2>1
           DEF TypeOK, RegroupTypeOK, StoreTypeOK, RequestsTypeOK, IngestTypeOK, WorkflowTypeOK
<1>5. OneOpenPerGroup' /\ OneGroupPerFingerprint' /\ ResolvedAtMatchesStatus' /\ CopiesConsistent'
  BY <1>1 DEF OneOpenPerGroup, OneGroupPerFingerprint, GroupLive, ResolvedAtMatchesStatus,
     CopiesConsistent
<1>6. JobsApart'
  <2> SUFFICES ASSUME NEW q \in Request
               PROVE  /\ pc'[q] \in IngestPC => ing[q].fp # Unused
                      /\ pc'[q] \in {"arriving"} \cup WorkflowPC \cup RegroupPC => ing[q].fp = Unused
                      /\ events[q] # NoGroup => outcome'[q] = "ok" /\ ing[q].fp # Unused
                      /\ \A e \in Stored(snapshot[q]) : outcome'[e] = "ok" /\ ing[e].fp # Unused
                      /\ HasRead(q) => pc'[q] \in RegroupPC \/ outcome'[q] = "ok"
                      /\ At(q, "regroup")' \/ InTransaction(q)' => q \in Regroupers /\ HasRead(q)
    BY DEF JobsApart, HasRead, Stored
  <2>1. events[q] # NoGroup => outcome'[q] = "ok" /\ ing[q].fp # Unused
    BY <1>1, <1>3 DEF JobsApart
  <2>2. \A e \in Stored(snapshot[q]) : outcome'[e] = "ok" /\ ing[e].fp # Unused
    BY <1>1, <1>3 DEF JobsApart, Stored
  <2>3. CASE q # r
    BY <1>1, <1>3, <2>1, <2>2, <2>3 DEF JobsApart, At, InTransaction
  <2>4. CASE q = r
    <3>1. pc'[q] \in RegroupPC /\ ing[q].fp = Unused
      BY <1>1, <1>2, <1>3, <2>4 DEF JobsApart, RegroupPC
    <3>2. q \in Regroupers /\ HasRead(q)
      BY <1>1, <2>4 DEF JobsApart
    <3>. QED BY <2>1, <2>2, <3>1, <3>2 DEF IngestPC, RegroupPC, TransactionPC
  <2>. QED BY <2>3, <2>4
<1>7. (NothingMissed' <=> NothingMissed) /\ (Committed' <=> Committed)
  <2>1. NothingMissed' <=> NothingMissed
    BY DEF NothingMissed, Stored
  <2>2. \A q \in Regroupers : outcome'[q] = "ok" <=> outcome[q] = "ok"
    BY <1>3, RegroupAssumption
  <2>. QED BY <2>1, <2>2 DEF Committed, HasRead, Stored
<1>8. DeletedWithGroup'
  BY <1>1, <1>7 DEF DeletedWithGroup
<1>9. StoredEventsKnown'
  <2>1. ReadAsStored' <=> ReadAsStored
    BY DEF ReadAsStored, HasRead, Stored
  <2>2. Consolidated' <=> Consolidated
    BY DEF Consolidated, Stored, FingerprintNow, GroupLive
  <2>. QED BY <1>1, <1>7, <2>1, <2>2 DEF StoredEventsKnown
<1>. QED BY <1>4, <1>5, <1>6, <1>8, <1>9 DEF RegroupInv

\* A rollback keeps the invariant: after it no transaction is open.
LEMMA RollbackKeeps ==
    ASSUME RegroupInv, NEW r \in Request, NEW status \in {"error", "killed"},
           InTransaction(r), outcome' = [outcome EXCEPT ![r] = status],
           pc' = pc, tx' = Closed,
           UNCHANGED <<groups, incidents, events, timeline, ing, wf, snapshot, raced>>
    PROVE  RegroupInv'
<1>1. /\ \A q \in Request : InTransaction(q) => q = r
      /\ outcome \in [Request -> Outcome]
  BY DEF RegroupInv, TransactionOpen, TypeOK, RequestsTypeOK
<1>2. \A q \in Request : ~InTransaction(q)'
  BY <1>1 DEF InTransaction
<1>3. TransactionOpen'
  BY <1>2 DEF TransactionOpen
<1>. QED BY <1>3, TransactionOnly, ClosedType

\* A statement keeps the invariant if it keeps what holds of the transaction.
LEMMA StatementKeeps ==
    ASSUME RegroupInv, NEW r \in Request, InTransaction(r), tx' \in Tables,
           UNCHANGED <<pc, outcome>> \/ \E s \in TransactionPC : Goto(r, s),
           UNCHANGED <<groups, incidents, events, timeline, ing, wf, snapshot, raced>>,
           TxConsistent', TxMerged(r)', TxTurn(r)', TxLosesNothing(r)', TxKeepsOpen(r)'
    PROVE  RegroupInv'
<1>1. /\ \A q \in Request : InTransaction(q) => q = r
      /\ pc \in [Request -> Statement]
  BY DEF RegroupInv, TransactionOpen, TypeOK, RequestsTypeOK
<1>2. \A q \in Request : InTransaction(q)' => InTransaction(q) \/ q = r
  BY <1>1 DEF InTransaction, Goto
<1>3. TransactionOpen'
  BY <1>1, <1>2 DEF TransactionOpen
<1>. QED BY <1>3, TransactionOnly

\* What a job that goes on knows and holds in its transaction.
LEMMA TransactionHas ==
    ASSUME RegroupInv, NEW r \in Request, InTransaction(r)
    PROVE  /\ TypeOK /\ JobsApart /\ tx \in Tables /\ raced \subseteq Incident
           /\ r \in Regroupers /\ HasRead(r)
           /\ TxConsistent /\ TxMerged(r) /\ TxTurn(r) /\ TxLosesNothing(r) /\ TxKeepsOpen(r)
BY DEF RegroupInv, RegroupTypeOK, TransactionOpen, JobsApart

\* Its own statements leave the events it read, and what they are of.
LEMMA SameRead ==
    ASSUME NEW r, UNCHANGED <<ing, snapshot>>
    PROVE  /\ Stored(snapshot[r])' = Stored(snapshot[r])
           /\ \A e \in Request : FingerprintNow(e)' = FingerprintNow(e)
           /\ FingerprintsOf(r)' = FingerprintsOf(r)
           /\ \A fp : Members(r, fp)' = Members(r, fp)
           /\ NothingMissed' <=> NothingMissed
BY DEF Stored, FingerprintNow, FingerprintsOf, Members, NothingMissed

\* The groups of a turn, when neither its fingerprint nor its group changes.
LEMMA SameTurn ==
    ASSUME NEW r, UNCHANGED <<ing, snapshot>>, tx'.fp = tx.fp, tx'.canonical = tx.canonical
    PROVE  /\ OldGroups(r, tx.canonical)' = OldGroups(r, tx.canonical)
           /\ GroupsToMerge(r)' = GroupsToMerge(r)
BY SameRead DEF OldGroups, GroupsToMerge

\* The lookup of the group changes no table.
LEMMA FindCanonicalKeeps ==
    ASSUME RegroupInv, NEW r \in Request, NEW fp \in Fingerprint, FindCanonical(r, fp)
    PROVE  RegroupInv'
<1>1. /\ InTransaction(r) /\ pc[r] = "merge" /\ fp \in tx.todo /\ Goto(r, "keep")
      /\ UNCHANGED <<groups, incidents, events, timeline, ing, wf, snapshot, raced>>
      /\ \E canonical \in Group \cup {NoGroup} :
            /\ canonical # NoGroup => tx.groups[canonical].fp = fp
            /\ tx' = [tx EXCEPT !.fp = fp, !.canonical = canonical]
  BY DEF FindCanonical, At, InTransaction, TransactionPC, storeVars
<1>2. PICK canonical \in Group \cup {NoGroup} :
            /\ canonical # NoGroup => tx.groups[canonical].fp = fp
            /\ tx' = [tx EXCEPT !.fp = fp, !.canonical = canonical]
  BY <1>1
<1>3. /\ tx \in Tables /\ TxConsistent /\ TxMerged(r) /\ TxLosesNothing(r) /\ TxKeepsOpen(r)
      /\ pc \in [Request -> Statement]
  BY <1>1, TransactionHas DEF TypeOK, RequestsTypeOK
<1>4. /\ tx' \in Tables
      /\ tx'.groups = tx.groups /\ tx'.incidents = tx.incidents /\ tx'.events = tx.events
      /\ tx'.kept = tx.kept /\ tx'.locked = tx.locked /\ tx'.todo = tx.todo
      /\ tx'.fp = fp /\ tx'.canonical = canonical
  BY <1>2, <1>3 DEF Tables
<1>5. pc'[r] = "keep" /\ outcome' = outcome
  BY <1>1, <1>3 DEF Goto
<1>6. TxConsistent'
  BY <1>1, <1>3, <1>4 DEF TxConsistent, Live
<1>7. TxMerged(r)'
  <2>1. ~Moving(r) /\ ~Moving(r)'
    BY <1>1, <1>5 DEF Moving
  <2>2. \A e \in Stored(snapshot[r]) : e \in Request
    BY DEF Stored
  <2>. QED BY <1>1, <1>3, <1>4, <2>1, <2>2, SameRead DEF TxMerged
<1>8. TxTurn(r)'
  BY <1>1, <1>2, <1>4, <1>5 DEF TxTurn, Moving
<1>9. TxLosesNothing(r)'
  <2>1. Committed' <=> Committed
    BY <1>1, <1>5 DEF Committed, HasRead, Stored
  <2>. QED BY <1>1, <1>3, <1>4, <2>1, SameRead DEF TxLosesNothing
<1>10. TxKeepsOpen(r)'
  BY <1>1, <1>3, <1>4, <1>5 DEF TxKeepsOpen, StaysOpen, Together
<1>. QED BY <1>1, <1>4, <1>6, <1>7, <1>8, <1>9, <1>10, StatementKeeps DEF TransactionPC

\* The transaction starts with the stored tables and nothing merged, unless
\* another job is in its own.
LEMMA BeginKeeps ==
    ASSUME RegroupInv, NEW r \in Regroupers, Begin(r)
    PROVE  RegroupInv'
<1>1. /\ TypeOK /\ RegroupTypeOK /\ OneOpenPerGroup /\ OneGroupPerFingerprint
      /\ ResolvedAtMatchesStatus /\ CopiesConsistent /\ JobsApart /\ DeletedWithGroup
      /\ StoredEventsKnown /\ TransactionOpen
  BY DEF RegroupInv
<1>2. /\ r \in Request /\ tx \in Tables
      /\ pc \in [Request -> Statement] /\ outcome \in [Request -> Outcome]
      /\ groups \in [Group -> GroupRow] /\ incidents \in [Incident -> IncidentRow]
      /\ events \in [Request -> Group \cup {NoGroup}]
  BY <1>1, RegroupAssumption DEF TypeOK, RequestsTypeOK, StoreTypeOK, RegroupTypeOK
<1>3. /\ outcome[r] = "running" /\ pc[r] = "regroup" /\ HasRead(r) /\ At(r, "regroup")
      /\ UNCHANGED <<groups, incidents, events, timeline, ing, wf, snapshot, raced>>
  BY <1>1, <1>2 DEF Begin, At, JobsApart, storeVars
<1>4. CASE Raise(r) /\ UNCHANGED tx
  <2>1. pc' = pc /\ outcome' = [outcome EXCEPT ![r] = "error"]
    BY <1>4 DEF Raise
  <2>2. \A q \in Request : InTransaction(q)' <=> InTransaction(q)
    BY <1>2, <1>3, <2>1 DEF InTransaction, TransactionPC
  <2>3. (NothingMissed' => NothingMissed) /\ (Committed' => Committed)
    <3>1. \A q \in Regroupers : outcome'[q] = "ok" => outcome[q] = "ok"
      BY <1>2, <2>1, RegroupAssumption
    <3>. QED BY <1>3, <3>1 DEF NothingMissed, Committed, HasRead, Stored
  <2>4. ASSUME NEW q \in Request, InTransaction(q)
        PROVE  /\ \A x \in Request : InTransaction(x) => x = q
               /\ TxConsistent' /\ TxMerged(q)' /\ TxTurn(q)' /\ TxLosesNothing(q)' /\ TxKeepsOpen(q)'
    BY <1>1, <1>3, <1>4, <2>1, <2>3, <2>4, TransactionStays DEF TransactionOpen
  <2>5. TransactionOpen'
    BY <2>2, <2>4 DEF TransactionOpen
  <2>. QED BY <1>2, <1>3, <1>4, <2>1, <2>5, TransactionOnly
<1>5. ASSUME ~Committing, Goto(r, "merge"),
             tx' = [Closed EXCEPT !.groups = groups, !.incidents = incidents, !.events = events,
                                  !.todo = FingerprintsOf(r)]
      PROVE  RegroupInv'
  <2>1. /\ tx'.groups = groups /\ tx'.incidents = incidents /\ tx'.events = events
        /\ tx'.kept = {} /\ tx'.locked = {} /\ tx'.todo = FingerprintsOf(r)
        /\ pc' = [pc EXCEPT ![r] = "merge"] /\ outcome' = outcome
    BY <1>5 DEF Closed, Goto
  <2>2. \A e \in Stored(snapshot[r]) : e \in Request /\ FingerprintNow(e) \in Fingerprint
    BY <1>1, <1>2, ReadFingerprint
  <2>3. tx' \in Tables
    <3>1. FingerprintsOf(r) \subseteq Fingerprint
      BY <2>2 DEF FingerprintsOf
    <3>. QED BY <1>2, <1>5, <3>1, ClosedType DEF Tables
  <2>4. \A q \in Request : InTransaction(q)' => q = r
    BY <1>2, <1>5, <2>1 DEF Committing, InTransaction
  <2>5. TxConsistent'
    BY <1>1, <1>2, <1>3, <2>1 DEF TxConsistent, OneOpenPerGroup, OneGroupPerFingerprint, GroupLive,
       ResolvedAtMatchesStatus
  <2>6. TxMerged(r)'
    <3>1. (FingerprintsOf(r) \ tx.todo)' = {} /\ FingerprintsOf(r)' = FingerprintsOf(r)
      BY <1>3, <2>1, SameRead
    <3>2. \A e \in Stored(snapshot[r])' : FingerprintNow(e)' \in FingerprintsOf(r)'
      BY DEF FingerprintsOf
    <3>. QED BY <2>1, <3>1, <3>2 DEF TxMerged
  <2>7. TxTurn(r)'
    BY <1>2, <2>1 DEF TxTurn, Moving
  <2>8. TxLosesNothing(r)'
    <3> SUFFICES ASSUME NothingMissed'
                 PROVE  /\ \A e \in Stored(snapshot[r]) : events[e] # NoGroup
                        /\ Committed => \A g \in Group : groups[g].fp \in Fingerprint =>
                                             groups[g].fp \in FingerprintsOf(r)
      BY <1>3, <2>1, SameRead DEF TxLosesNothing, Committed, HasRead, Stored
    <3>1. NothingMissed
      BY <1>3, SameRead
    <3>2. CASE Committed
      <4>1. Consolidated
        BY <1>1, <3>1, <3>2 DEF StoredEventsKnown
      <4>2. \A e \in Request : events[e] # NoGroup => e \in Stored(snapshot[r])
        BY <1>1, <1>3, <3>1 DEF NothingMissed, JobsApart, HasRead, Stored
      <4>3. \A g \in Group : groups[g].fp \in Fingerprint =>
               \E e \in Request : events[e] = g
        BY <4>1 DEF Consolidated, GroupLive
      <4>4. \A g \in Group : groups[g].fp \in Fingerprint =>
               \E e \in Stored(snapshot[r]) : groups[g].fp = FingerprintNow(e)
        BY <4>1, <4>2, <4>3, StoreAssumption DEF Consolidated
      <4>. QED BY <4>1, <4>4 DEF Consolidated, FingerprintsOf
    <3>3. CASE ~Committed
      <4>1. snapshot[r] = events
        BY <1>1, <1>3, <3>1, <3>3 DEF StoredEventsKnown, ReadAsStored
      <4>. QED BY <3>3, <4>1 DEF Stored
    <3>. QED BY <3>2, <3>3
  <2>9. TxKeepsOpen(r)'
    BY <2>1 DEF TxKeepsOpen
  <2>10. TransactionOpen'
    BY <2>4, <2>5, <2>6, <2>7, <2>8, <2>9 DEF TransactionOpen
  <2>. QED BY <1>2, <1>3, <1>5, <2>3, <2>10, TransactionOnly DEF TransactionPC
<1>. QED BY <1>4, <1>5 DEF Begin

\* What keeping group g for the fingerprint of this turn does to the tables.
Kept(r, g) ==
    /\ g \in Group
    /\ \/ tx.groups[g].fp = tx.fp
       \/ tx.groups[g].fp = Unused /\ \A h \in Group : tx.groups[h].fp # tx.fp
    /\ tx'.groups[g].fp = tx.fp
    /\ tx'.groups[g].count = Cardinality(Members(r, tx.fp))
    /\ \A h \in Group : h # g => tx'.groups[h] = tx.groups[h]
    /\ \A e \in Request :
          /\ tx.events[e] = NoGroup => tx'.events[e] = NoGroup
          /\ tx.events[e] # NoGroup =>
                tx'.events[e] = IF e \in Members(r, tx.fp) THEN g ELSE tx.events[e]
    /\ tx'.incidents = tx.incidents /\ tx'.locked = tx.locked
    /\ tx'.kept = tx.kept \cup {g} /\ tx'.todo = tx.todo \ {tx.fp}
    /\ tx'.fp = tx.fp /\ tx'.canonical = g

\* KeepGroup does that.
LEMMA KeepGroupIs ==
    ASSUME RegroupInv, NEW r \in Request, KeepGroup(r)
    PROVE  /\ InTransaction(r) /\ pc[r] = "keep" /\ tx' \in Tables
           /\ UNCHANGED <<groups, incidents, events, timeline, ing, wf, snapshot, raced, outcome>>
           /\ \E g \in Group : /\ Kept(r, g)
                               /\ Goto(r, IF OldGroups(r, g) = {} THEN "merge" ELSE "list")
<1>1. /\ InTransaction(r) /\ pc[r] = "keep"
      /\ UNCHANGED <<groups, incidents, events, timeline, ing, wf, snapshot, raced>>
  BY DEF KeepGroup, At, InTransaction, TransactionPC, storeVars
<1>2. /\ tx \in Tables /\ TxTurn(r)
      /\ tx.groups \in [Group -> GroupRow] /\ tx.events \in [Request -> Group \cup {NoGroup}]
      /\ tx.canonical \in Group \cup {NoGroup} /\ tx.fp \in Fingerprint \cup {Unused}
      /\ tx.kept \in SUBSET Group /\ tx.todo \in SUBSET (Fingerprint \cup {Unused})
  BY <1>1, TransactionHas DEF Tables
<1>3. PICK g \in Group :
         /\ tx.canonical # NoGroup => g = tx.canonical
         /\ tx.canonical = NoGroup => tx.groups[g].fp = Unused
         /\ tx' = [tx EXCEPT !.groups[g] = [fp |-> tx.fp, count |-> Cardinality(Members(r, tx.fp))],
                             !.events = MovedEvents(Members(r, tx.fp), g),
                             !.kept = @ \cup {g}, !.todo = @ \ {tx.fp}, !.canonical = g]
         /\ Goto(r, IF OldGroups(r, g) = {} THEN "merge" ELSE "list")
  BY <1>2 DEF KeepGroup
<1>4. \/ tx.groups[g].fp = tx.fp
      \/ tx.groups[g].fp = Unused /\ \A h \in Group : tx.groups[h].fp # tx.fp
  BY <1>1, <1>2, <1>3 DEF KeepGroup, TxTurn
<1>5. Cardinality(Members(r, tx.fp)) \in Nat
  <2>1. Members(r, tx.fp) \subseteq Request
    BY DEF Members, Stored
  <2>. QED BY <2>1, StoreAssumption, FS_Subset, FS_CardinalityType
<1> DEFINE row == [fp |-> tx.fp, count |-> Cardinality(Members(r, tx.fp))]
<1>6. row \in GroupRow /\ row.fp = tx.fp /\ row.count = Cardinality(Members(r, tx.fp))
  BY <1>2, <1>5 DEF GroupRow
<1>7. MovedEvents(Members(r, tx.fp), g) \in [Request -> Group \cup {NoGroup}]
  BY <1>2 DEF MovedEvents
<1>8. /\ tx'.groups = [tx.groups EXCEPT ![g] = row]
      /\ tx'.events = MovedEvents(Members(r, tx.fp), g)
      /\ tx'.incidents = tx.incidents /\ tx'.locked = tx.locked
      /\ tx'.kept = tx.kept \cup {g} /\ tx'.todo = tx.todo \ {tx.fp}
      /\ tx'.fp = tx.fp /\ tx'.canonical = g /\ tx'.open = tx.open
  BY <1>2, <1>3 DEF Tables
<1> HIDE DEF row
<1>9. tx' \in Tables
  <2>1. tx'.groups \in [Group -> GroupRow]
    BY <1>2, <1>6, <1>8
  <2>. QED BY <1>2, <1>3, <1>7, <1>8, <2>1 DEF Tables
<1>10. /\ tx'.groups[g] = row
       /\ \A h \in Group : h # g => tx'.groups[h] = tx.groups[h]
  BY <1>2, <1>8
<1>11. \A e \in Request :
          /\ tx.events[e] = NoGroup => tx'.events[e] = NoGroup
          /\ tx.events[e] # NoGroup =>
                tx'.events[e] = IF e \in Members(r, tx.fp) THEN g ELSE tx.events[e]
  BY <1>8 DEF MovedEvents
<1>12. Kept(r, g)
  BY <1>4, <1>6, <1>8, <1>10, <1>11 DEF Kept
<1>. QED BY <1>1, <1>3, <1>9, <1>12 DEF Goto


\* The constraints hold with the group that was kept.
LEMMA KeptConsistent ==
    ASSUME TypeOK, JobsApart, tx \in Tables, NEW r \in Request, pc[r] = "keep",
           TxConsistent, TxMerged(r), TxTurn(r), NEW g, Kept(r, g),
           UNCHANGED <<groups, incidents, events>>
    PROVE  TxConsistent'
<1>1. tx.fp \in Fingerprint
  BY ReadFingerprint DEF TxTurn, TxMerged, FingerprintsOf
<1>2. \A h \in Group : /\ tx'.groups[h].fp = IF h = g THEN tx.fp ELSE tx.groups[h].fp
                       /\ tx.groups[h].fp = tx.fp => h = g
  BY <1>1 DEF Kept, TxConsistent
<1>3. \A h, k \in Group :
         tx'.groups[h].fp \in Fingerprint /\ tx'.groups[h].fp = tx'.groups[k].fp => h = k
  BY <1>2 DEF TxConsistent
<1>4. groups[g].fp # Deleted
  BY <1>1, StoreAssumption DEF Kept, TxConsistent
<1>5. \A h \in Group : /\ h \notin tx'.kept => tx'.groups[h] = groups[h]
                       /\ h \in tx'.kept => groups[h].fp # Deleted
  BY <1>4 DEF Kept, TxConsistent
<1>6. \A e \in Request : tx'.events[e] # NoGroup => events[e] # NoGroup
  BY DEF Kept, TxConsistent
<1>7. /\ tx'.incidents = tx.incidents /\ tx'.locked = tx.locked
  BY DEF Kept
<1>. QED BY <1>3, <1>5, <1>6, <1>7 DEF TxConsistent, Live

\* The fingerprint of the turn joins those merged before.  If its events were in
\* no other group, there is nothing to move.
LEMMA KeptMerged ==
    ASSUME TypeOK, JobsApart, tx \in Tables, NEW r \in Request, pc[r] = "keep",
           TxConsistent, TxMerged(r), TxTurn(r), NEW g, Kept(r, g),
           pc'[r] = IF OldGroups(r, g) = {} THEN "merge" ELSE "list",
           UNCHANGED <<ing, snapshot, raced>>
    PROVE  TxMerged(r)'
<1> DEFINE fp == tx.fp
           before == FingerprintsOf(r) \ tx.todo
           after == before \cup {fp}
<1>1. /\ Stored(snapshot[r])' = Stored(snapshot[r])
      /\ \A e \in Request : FingerprintNow(e)' = FingerprintNow(e)
      /\ FingerprintsOf(r)' = FingerprintsOf(r)
      /\ \A f : Members(r, f)' = Members(r, f)
  BY SameRead
<1>2. /\ tx.todo \subseteq FingerprintsOf(r) /\ fp \in tx.todo
      /\ tx.kept = {h \in Group : tx.groups[h].fp \in before}
      /\ \A f \in before : \E h \in tx.kept : tx.groups[h].fp = f
      /\ \A h \in tx.kept : tx.groups[h].count = Cardinality(Members(r, tx.groups[h].fp))
  BY DEF TxMerged, TxTurn
<1>3. FingerprintsOf(r) \subseteq Fingerprint
  BY ReadFingerprint DEF FingerprintsOf
<1>4. fp \in Fingerprint /\ fp \notin before /\ Unused \notin before /\ fp # Unused
  BY <1>2, <1>3, StoreAssumption
<1>5. /\ g \in Group /\ tx.groups[g].fp \notin before
      /\ tx'.groups[g].fp = fp /\ tx'.groups[g].count = Cardinality(Members(r, fp))
      /\ \A h \in Group : h # g => tx'.groups[h] = tx.groups[h] /\ tx.groups[h].fp # fp
      /\ tx'.kept = tx.kept \cup {g} /\ tx'.todo = tx.todo \ {fp} /\ tx'.fp = fp
      /\ tx'.incidents = tx.incidents
  BY <1>4 DEF Kept, TxConsistent
<1>6. tx'.todo \subseteq FingerprintsOf(r) /\ FingerprintsOf(r) \ tx'.todo = after
  BY <1>2, <1>5
<1>7. tx'.kept = {h \in Group : tx'.groups[h].fp \in after}
  <2> HIDE DEF before, fp
  <2>. QED BY <1>2, <1>4, <1>5
<1>8. \A f \in after : \E h \in tx'.kept : tx'.groups[h].fp = f
  <2> HIDE DEF before, fp
  <2>. QED BY <1>2, <1>5
<1>9. \A h \in tx'.kept : tx'.groups[h].count = Cardinality(Members(r, tx'.groups[h].fp))
  <2> HIDE DEF before, fp
  <2>. QED BY <1>2, <1>5
<1>10. ASSUME NEW e \in Stored(snapshot[r]), FingerprintNow(e) \in after
       PROVE  /\ tx'.events[e] # NoGroup => tx'.groups[tx'.events[e]].fp = FingerprintNow(e)
              /\ ~(Moving(r)' /\ FingerprintNow(e) = fp) =>
                    \A i \in Incident \ raced :
                       tx.incidents[i].status \in Status /\ tx.incidents[i].group = snapshot[r][e]
                       => snapshot[r][e] \in tx'.kept
  <2>1. e \in Request /\ tx.events[e] \in Group \cup {NoGroup}
    BY DEF Stored, Tables
  <2>2. /\ tx.events[e] = NoGroup => tx'.events[e] = NoGroup
        /\ tx.events[e] # NoGroup =>
              tx'.events[e] = IF e \in Members(r, fp) THEN g ELSE tx.events[e]
    BY <2>1 DEF Kept
  <2>3. CASE FingerprintNow(e) = fp
    <3>1. e \in Members(r, fp)
      BY <2>3 DEF Members
    <3>2. ~Moving(r)' => snapshot[r][e] = g
      BY <3>1 DEF Moving, OldGroups
    <3>. QED BY <1>5, <2>2, <2>3, <3>1, <3>2
  <2>4. CASE FingerprintNow(e) # fp
    <3>1. tx'.events[e] = tx.events[e]
      BY <2>2, <2>4 DEF Members
    <3>2. FingerprintNow(e) \in before /\ ~Moving(r)
      BY <1>10, <2>4 DEF Moving
    <3>3. /\ tx.events[e] # NoGroup => tx.groups[tx.events[e]].fp = FingerprintNow(e)
          /\ \A i \in Incident \ raced :
                tx.incidents[i].status \in Status /\ tx.incidents[i].group = snapshot[r][e]
                => snapshot[r][e] \in tx.kept
      BY <3>2 DEF TxMerged
    <3>4. tx.events[e] # NoGroup => tx'.groups[tx'.events[e]] = tx.groups[tx.events[e]]
      BY <1>5, <2>1, <3>1, <3>2, <3>3
    <3>. QED BY <1>5, <3>1, <3>3, <3>4
  <2>. QED BY <2>3, <2>4
<1> HIDE DEF after, before, fp
<1>11. \A e \in Stored(snapshot[r]) : e \in Request
  BY DEF Stored
<1>. QED BY <1>1, <1>5, <1>6, <1>7, <1>8, <1>9, <1>10, <1>11 DEF TxMerged

\* No event and no group is lost in it.
LEMMA KeptLosesNothing ==
    ASSUME NEW r \in Request, pc[r] = "keep", TxMerged(r), TxTurn(r), TxLosesNothing(r),
           NEW g, Kept(r, g), UNCHANGED <<ing, snapshot, outcome>>
    PROVE  TxLosesNothing(r)'
<1>1. /\ (NothingMissed' <=> NothingMissed) /\ (Committed' <=> Committed)
      /\ FingerprintsOf(r)' = FingerprintsOf(r) /\ Stored(snapshot[r])' = Stored(snapshot[r])
  BY SameRead DEF Committed, HasRead, Stored
<1>2. tx.fp \in FingerprintsOf(r)
  BY DEF TxTurn, TxMerged
<1>3. g # NoGroup /\ \A e \in Request : tx.events[e] # NoGroup => tx'.events[e] # NoGroup
  BY StoreAssumption DEF Kept
<1>4. \A h \in Group : tx'.groups[h].fp = tx.fp \/ tx'.groups[h] = tx.groups[h]
  BY DEF Kept
<1>5. \A e \in Stored(snapshot[r]) : e \in Request
  BY DEF Stored
<1>. QED BY <1>1, <1>2, <1>3, <1>4, <1>5 DEF TxLosesNothing

\* Saving or inserting the group keeps the invariant.
LEMMA KeepGroupKeeps ==
    ASSUME RegroupInv, NEW r \in Request, KeepGroup(r)
    PROVE  RegroupInv'
<1>1. /\ InTransaction(r) /\ pc[r] = "keep" /\ tx' \in Tables
      /\ UNCHANGED <<groups, incidents, events, timeline, ing, wf, snapshot, raced, outcome>>
  BY KeepGroupIs
<1>2. PICK g \in Group : /\ Kept(r, g)
                         /\ Goto(r, IF OldGroups(r, g) = {} THEN "merge" ELSE "list")
  BY KeepGroupIs
<1>3. /\ TypeOK /\ JobsApart /\ tx \in Tables /\ TxConsistent /\ TxMerged(r) /\ TxTurn(r)
      /\ TxLosesNothing(r) /\ TxKeepsOpen(r) /\ pc \in [Request -> Statement]
  BY <1>1, TransactionHas DEF TypeOK, RequestsTypeOK
<1>4. pc'[r] = IF OldGroups(r, g) = {} THEN "merge" ELSE "list"
  BY <1>2, <1>3 DEF Goto
<1>5. TxConsistent'
  BY <1>1, <1>2, <1>3, KeptConsistent
<1>6. TxMerged(r)'
  BY <1>1, <1>2, <1>3, <1>4, KeptMerged
<1>7. TxTurn(r)'
  <2>1. tx'.canonical = g /\ g \in tx'.kept /\ tx'.groups[g].fp = tx'.fp
    BY <1>2 DEF Kept
  <2>. QED BY <1>4, <2>1 DEF TxTurn, Moving
<1>8. TxLosesNothing(r)'
  BY <1>1, <1>2, <1>3, KeptLosesNothing
<1>9. TxKeepsOpen(r)'
  <2>1. tx'.incidents = tx.incidents /\ tx'.locked = tx.locked
    BY <1>2 DEF Kept
  <2>2. pc[r] \notin {"primary", "duplicates"} /\ pc'[r] \notin {"primary", "duplicates"}
    BY <1>1, <1>4
  <2>. QED BY <1>1, <1>3, <2>1, <2>2 DEF TxKeepsOpen, StaysOpen, Together
<1>10. \E s \in TransactionPC : Goto(r, s)
  BY <1>2 DEF TransactionPC
<1>. QED BY <1>1, <1>5, <1>6, <1>7, <1>8, <1>9, <1>10, StatementKeeps

\* Listing the OPEN incidents changes no table.
LEMMA ListOpenKeeps ==
    ASSUME RegroupInv, NEW r \in Request, ListOpen(r)
    PROVE  RegroupInv'
<1> DEFINE open == {i \in Incident : /\ tx.incidents[i].status = "open"
                                     /\ tx.incidents[i].group \in GroupsToMerge(r)}
<1>1. /\ InTransaction(r) /\ pc[r] = "list" /\ tx' = [tx EXCEPT !.open = open]
      /\ Goto(r, IF open = {} THEN "duplicates" ELSE "primary")
      /\ UNCHANGED <<groups, incidents, events, timeline, ing, wf, snapshot, raced>>
  BY DEF ListOpen, At, InTransaction, TransactionPC, storeVars
<1>2. /\ tx \in Tables /\ TxConsistent /\ TxMerged(r) /\ TxTurn(r) /\ TxLosesNothing(r)
      /\ TxKeepsOpen(r) /\ pc \in [Request -> Statement]
  BY <1>1, TransactionHas DEF TypeOK, RequestsTypeOK
<1>3. /\ tx' \in Tables
      /\ tx'.groups = tx.groups /\ tx'.incidents = tx.incidents /\ tx'.events = tx.events
      /\ tx'.kept = tx.kept /\ tx'.locked = tx.locked /\ tx'.todo = tx.todo
      /\ tx'.fp = tx.fp /\ tx'.canonical = tx.canonical /\ tx'.open = open
  BY <1>1, <1>2 DEF Tables
<1>4. /\ outcome' = outcome
      /\ pc'[r] = IF open = {} THEN "duplicates" ELSE "primary"
  BY <1>1, <1>2 DEF Goto
<1>5. TxConsistent'
  BY <1>1, <1>2, <1>3 DEF TxConsistent, Live
<1>6. TxMerged(r)'
  <2>1. Moving(r) /\ Moving(r)'
    BY <1>1, <1>4 DEF Moving
  <2>2. \A e \in Stored(snapshot[r]) : e \in Request
    BY DEF Stored
  <2>. QED BY <1>1, <1>2, <1>3, <2>1, <2>2, SameRead DEF TxMerged
<1>7. TxTurn(r)'
  <2>1. /\ OldGroups(r, tx.canonical)' = OldGroups(r, tx.canonical)
        /\ GroupsToMerge(r)' = GroupsToMerge(r)
    BY <1>1, <1>3, SameTurn
  <2>2. tx.canonical \in tx.kept /\ tx.groups[tx.canonical].fp = tx.fp
    BY <1>1, <1>2 DEF TxTurn, Moving
  <2>3. /\ \A i \in open : /\ tx.incidents[i].status \in Status /\ StaysOpen(i)
                           /\ tx.incidents[i].group \in GroupsToMerge(r)
        /\ \A i \in Incident :
              /\ tx.incidents[i].status = "open"
              /\ tx.incidents[i].group \in OldGroups(r, tx.canonical)
              => i \in open
    BY DEF StaysOpen, Status, GroupsToMerge
  <2>4. \A i : StaysOpen(i)' <=> StaysOpen(i)
    BY <1>1, <1>3 DEF StaysOpen
  <2> HIDE DEF open
  <2>. QED BY <1>3, <1>4, <2>1, <2>2, <2>3, <2>4 DEF TxTurn
<1>8. TxLosesNothing(r)'
  <2>1. Committed' <=> Committed
    BY <1>1, <1>4 DEF Committed, HasRead, Stored
  <2>. QED BY <1>1, <1>2, <1>3, <2>1, SameRead DEF TxLosesNothing
<1>9. TxKeepsOpen(r)'
  <2>1. \A i, j \in tx.locked : /\ StaysOpen(j) => StaysOpen(j)'
                                /\ Together(r, i, j) => Together(r, i, j)'
    BY <1>1, <1>3 DEF StaysOpen, Together
  <2>. QED BY <1>1, <1>2, <1>3, <2>1 DEF TxKeepsOpen
<1>10. \E s \in TransactionPC : Goto(r, s)
  BY <1>1 DEF TransactionPC
<1>. QED BY <1>1, <1>3, <1>5, <1>6, <1>7, <1>8, <1>9, <1>10, StatementKeeps

-----------------------------------------------------------------------------
(* Moving the incidents *)

\* What moving incident i to the canonical group does to its row.
Relocated(r, i) ==
    /\ tx.incidents[i].status \in Status /\ tx'.incidents[i].status \in Status
    /\ tx.incidents[i].group \in GroupsToMerge(r) /\ tx'.incidents[i].group = tx.canonical
    /\ i \in tx'.locked
    /\ tx'.incidents[i].resolvedAt <=> tx'.incidents[i].status = "resolved"
    /\ tx'.incidents[i].status = "open" =>
          /\ tx.incidents[i].status = "open" /\ ~MoveClash(i)
          /\ \A j \in Incident \ {i} : tx'.incidents[j] = tx.incidents[j]

\* The statements that move incidents do that to some, and leave the others.
Moves(r) ==
    /\ tx' \in Tables
    /\ tx'.groups = tx.groups /\ tx'.events = tx.events /\ tx'.kept = tx.kept
    /\ tx'.todo = tx.todo /\ tx'.fp = tx.fp /\ tx'.canonical = tx.canonical
    /\ tx.locked \subseteq tx'.locked
    /\ \A i \in Incident :
          \/ Relocated(r, i)
          \/ tx'.incidents[i] = tx.incidents[i] /\ (i \in tx'.locked => i \in tx.locked)

\* The constraints hold after them.
LEMMA MovesConsistent ==
    ASSUME NEW r, Moves(r), TxConsistent, UNCHANGED <<groups, incidents, events>>
    PROVE  TxConsistent'
<1>1. ASSUME NEW i \in Incident, NEW j \in Incident, i # j, Relocated(r, i),
             tx'.incidents[i].status = "open", tx'.incidents[j].status = "open",
             tx'.incidents[i].group = tx'.incidents[j].group
      PROVE  FALSE
  <2>1. /\ tx'.incidents[j] = tx.incidents[j] /\ ~MoveClash(i)
        /\ tx.incidents[i].status = "open" /\ tx'.incidents[i].group = tx.canonical
    BY <1>1 DEF Relocated
  <2>. QED BY <1>1, <2>1 DEF MoveClash
<1>2. ASSUME NEW i \in Incident, NEW j \in Incident,
             tx'.incidents[i].status = "open", tx'.incidents[j].status = "open",
             tx'.incidents[i].group = tx'.incidents[j].group
      PROVE  i = j
  <2>1. CASE Relocated(r, i) \/ Relocated(r, j)
    BY <1>1, <1>2, <2>1
  <2>2. CASE ~Relocated(r, i) /\ ~Relocated(r, j)
    BY <1>2, <2>2 DEF Moves, TxConsistent
  <2>. QED BY <2>1, <2>2
<1>3. ASSUME NEW i \in Incident
      PROVE  /\ tx'.incidents[i].resolvedAt <=> tx'.incidents[i].status = "resolved"
             /\ i \notin tx'.locked => tx'.incidents[i] = incidents[i]
             /\ i \in tx'.locked => tx'.incidents[i].status \in Status /\ Live(i)
  <2>1. CASE Relocated(r, i)
    <3>1. Live(i)
      BY <2>1 DEF Relocated, TxConsistent, Live
    <3>. QED BY <2>1, <3>1 DEF Relocated
  <2>2. CASE tx'.incidents[i] = tx.incidents[i] /\ (i \in tx'.locked => i \in tx.locked)
    BY <2>2 DEF Moves, TxConsistent
  <2>. QED BY <2>1, <2>2 DEF Moves
<1>4. /\ tx'.groups = tx.groups /\ tx'.events = tx.events /\ tx'.kept = tx.kept
  BY DEF Moves
<1>. QED BY <1>2, <1>3, <1>4 DEF TxConsistent, Live

\* What was merged stays merged; when the last of them ends the turn, no
\* incident that only the job has touched is left behind.
LEMMA MovesMerged ==
    ASSUME NEW r \in Request, Moving(r), Moves(r), TxMerged(r), TxTurn(r),
           UNCHANGED <<ing, snapshot, raced>>,
           ~Moving(r)' => \A i \in Incident \ raced :
              tx'.incidents[i].status \in Status
              => tx'.incidents[i].group \notin OldGroups(r, tx.canonical)
    PROVE  TxMerged(r)'
<1>1. tx.canonical \in tx.kept /\ \A e \in Stored(snapshot[r]) : e \in Request
  BY DEF TxTurn, Stored
<1>2. /\ tx'.groups = tx.groups /\ tx'.events = tx.events /\ tx'.kept = tx.kept
      /\ tx'.todo = tx.todo /\ tx'.fp = tx.fp
  BY DEF Moves
<1>3. ASSUME NEW e \in Stored(snapshot[r]), FingerprintNow(e) \in FingerprintsOf(r) \ tx.todo,
             ~(Moving(r)' /\ FingerprintNow(e) = tx.fp), NEW i \in Incident \ raced,
             tx'.incidents[i].status \in Status, tx'.incidents[i].group = snapshot[r][e]
      PROVE  snapshot[r][e] \in tx.kept
  <2>1. CASE Relocated(r, i)
    BY <1>1, <1>3, <2>1 DEF Relocated
  <2>2. CASE tx'.incidents[i] = tx.incidents[i] /\ FingerprintNow(e) # tx.fp
    BY <1>3, <2>2 DEF TxMerged
  <2>3. CASE tx'.incidents[i] = tx.incidents[i] /\ FingerprintNow(e) = tx.fp
    <3>1. snapshot[r][e] \notin OldGroups(r, tx.canonical)
      BY <1>3, <2>3
    <3>2. snapshot[r][e] = tx.canonical
      BY <2>3, <3>1 DEF OldGroups, Members
    <3>. QED BY <1>1, <3>2
  <2>. QED BY <2>1, <2>2, <2>3 DEF Moves
<1>. QED BY <1>1, <1>2, <1>3, SameRead DEF TxMerged

\* They lose no event.
LEMMA MovesLoseNothing ==
    ASSUME NEW r, Moves(r), TxLosesNothing(r), UNCHANGED <<ing, snapshot, outcome>>
    PROVE  TxLosesNothing(r)'
<1>1. Committed' <=> Committed
  BY DEF Committed, HasRead, Stored
<1>2. tx'.groups = tx.groups /\ tx'.events = tx.events
  BY DEF Moves
<1>. QED BY <1>1, <1>2, SameRead DEF TxLosesNothing

\* What holds of the open transaction whenever a job moves incidents.
LEMMA MovingHas ==
    ASSUME RegroupInv, NEW r \in Request, InTransaction(r), pc[r] \in {"primary", "duplicates"}
    PROVE  /\ tx \in Tables /\ tx.incidents \in [Incident -> IncidentRow]
           /\ tx.canonical \in Group /\ tx.canonical \in GroupsToMerge(r)
           /\ tx.canonical \notin OldGroups(r, tx.canonical)
           /\ tx.open \subseteq Incident /\ tx.locked \subseteq Incident
           /\ \A i \in tx.open : /\ tx.incidents[i].status \in Status /\ StaysOpen(i)
                                 /\ tx.incidents[i].group \in GroupsToMerge(r)
           /\ \A i \in Incident :
                 /\ tx.incidents[i].status = "open"
                 /\ tx.incidents[i].group \in OldGroups(r, tx.canonical)
                 => i \in tx.open \/ (i \in raced /\ i \notin tx.locked)
           /\ \A i \in Incident : i \in tx.locked => tx.incidents[i].status \in Status
           /\ \A i \in Incident :
                 /\ tx.incidents[i].resolvedAt <=> tx.incidents[i].status = "resolved"
                 /\ i \notin tx.locked => tx.incidents[i] = incidents[i]
<1>1. tx \in Tables /\ TxConsistent /\ TxTurn(r)
  BY TransactionHas
<1>2. /\ tx.incidents \in [Incident -> IncidentRow]
      /\ tx.open \subseteq Incident /\ tx.locked \subseteq Incident /\ tx.kept \subseteq Group
  BY <1>1 DEF Tables
<1>3. tx.canonical \in Group
  BY <1>1, <1>2 DEF TxTurn, Moving
<1>4. tx.canonical \in GroupsToMerge(r) /\ tx.canonical \notin OldGroups(r, tx.canonical)
  BY DEF GroupsToMerge, OldGroups
<1>5. /\ \A i \in tx.open : /\ tx.incidents[i].status \in Status /\ StaysOpen(i)
                            /\ tx.incidents[i].group \in GroupsToMerge(r)
      /\ \A i \in Incident :
            /\ tx.incidents[i].status = "open"
            /\ tx.incidents[i].group \in OldGroups(r, tx.canonical)
            => i \in tx.open \/ (i \in raced /\ i \notin tx.locked)
  BY <1>1 DEF TxTurn
<1>6. \A i \in Incident :
         /\ i \in tx.locked => tx.incidents[i].status \in Status
         /\ tx.incidents[i].resolvedAt <=> tx.incidents[i].status = "resolved"
         /\ i \notin tx.locked => tx.incidents[i] = incidents[i]
  BY <1>1 DEF TxConsistent
<1>. QED BY <1>1, <1>2, <1>3, <1>4, <1>5, <1>6

\* Moving one of the incidents listed, to a row of the canonical group.
LEMMA OneMoved ==
    ASSUME RegroupInv, NEW r \in Request, InTransaction(r), pc[r] \in {"primary", "duplicates"},
           NEW i \in tx.open, NEW row \in IncidentRow,
           row.group = tx.canonical, row.status \in Status,
           row.resolvedAt <=> row.status = "resolved",
           row.status = "open" => tx.incidents[i].status = "open" /\ ~MoveClash(i),
           tx' = [tx EXCEPT !.incidents[i] = row, !.locked = @ \cup {i}, !.open = @ \ {i}]
    PROVE  /\ Moves(r)
           /\ tx'.open = tx.open \ {i} /\ tx'.locked = tx.locked \cup {i}
           /\ tx'.incidents[i].group = tx.canonical /\ tx'.incidents[i].status = row.status
           /\ \A j \in Incident \ {i} : tx'.incidents[j] = tx.incidents[j]
<1>1. /\ tx \in Tables /\ tx.incidents \in [Incident -> IncidentRow]
      /\ tx.open \subseteq Incident /\ tx.locked \subseteq Incident
      /\ tx.incidents[i].status \in Status /\ tx.incidents[i].group \in GroupsToMerge(r)
      /\ i \in Incident
  BY MovingHas
<1>2. /\ tx'.incidents = [tx.incidents EXCEPT ![i] = row]
      /\ tx'.groups = tx.groups /\ tx'.events = tx.events /\ tx'.kept = tx.kept
      /\ tx'.todo = tx.todo /\ tx'.fp = tx.fp /\ tx'.canonical = tx.canonical
      /\ tx'.open = tx.open \ {i} /\ tx'.locked = tx.locked \cup {i}
  BY <1>1 DEF Tables
<1>3. tx' \in Tables
  <2>1. tx'.incidents \in [Incident -> IncidentRow]
    BY <1>1, <1>2
  <2>. QED BY <1>1, <1>2, <2>1 DEF Tables
<1>4. /\ tx'.incidents[i] = row
      /\ \A j \in Incident \ {i} : tx'.incidents[j] = tx.incidents[j]
  BY <1>1, <1>2
<1>5. Relocated(r, i)
  BY <1>1, <1>2, <1>4 DEF Relocated
<1>6. \A j \in Incident \ {i} :
         tx'.incidents[j] = tx.incidents[j] /\ (j \in tx'.locked => j \in tx.locked)
  BY <1>2, <1>4
<1>7. Moves(r)
  BY <1>2, <1>3, <1>5, <1>6 DEF Moves
<1>. QED BY <1>2, <1>4, <1>7

\* A statement that moves incidents keeps the invariant, if it leaves what the
\* next one needs.
LEMMA MovesKeep ==
    ASSUME RegroupInv, NEW r \in Request, InTransaction(r), pc[r] \in {"primary", "duplicates"},
           Moves(r), UNCHANGED <<pc, outcome>> \/ \E s \in TransactionPC : Goto(r, s),
           UNCHANGED <<groups, incidents, events, timeline, ing, wf, snapshot, raced>>,
           ~Moving(r)' => \A i \in Incident \ raced :
              tx'.incidents[i].status \in Status
              => tx'.incidents[i].group \notin OldGroups(r, tx.canonical),
           TxTurn(r)', TxKeepsOpen(r)'
    PROVE  RegroupInv'
<1>1. TxConsistent /\ TxMerged(r) /\ TxTurn(r) /\ TxLosesNothing(r)
  BY TransactionHas
<1>2. Moving(r)
  BY DEF Moving
<1>3. outcome' = outcome /\ tx' \in Tables
  BY DEF Goto, Moves
<1>4. TxConsistent'
  BY <1>1, MovesConsistent
<1>5. TxMerged(r)'
  BY <1>1, <1>2, MovesMerged
<1>6. TxLosesNothing(r)'
  BY <1>1, <1>3, MovesLoseNothing
<1>. QED BY <1>3, <1>4, <1>5, <1>6, StatementKeeps

\* What is known of the turn after one of the incidents listed was moved: the
\* groups of the turn and the incidents that are left.
LEMMA OneMovedTurn ==
    ASSUME RegroupInv, NEW r \in Request, InTransaction(r), pc[r] \in {"primary", "duplicates"},
           NEW i \in tx.open, Moves(r), UNCHANGED <<ing, snapshot, raced>>,
           tx'.open = tx.open \ {i}, tx'.locked = tx.locked \cup {i},
           tx'.incidents[i].group = tx.canonical,
           \A j \in Incident \ {i} : tx'.incidents[j] = tx.incidents[j]
    PROVE  /\ tx'.canonical \in tx'.kept /\ tx'.groups[tx'.canonical].fp = tx'.fp
           /\ OldGroups(r, tx.canonical)' = OldGroups(r, tx.canonical)
           /\ GroupsToMerge(r)' = GroupsToMerge(r)
           /\ \A k \in tx'.open : /\ tx'.incidents[k].status \in Status /\ StaysOpen(k)'
                                  /\ tx'.incidents[k].group \in GroupsToMerge(r)
           /\ \A k \in Incident :
                 /\ tx'.incidents[k].status = "open"
                 /\ tx'.incidents[k].group \in OldGroups(r, tx.canonical)
                 => k \in tx'.open \/ (k \in raced /\ k \notin tx'.locked)
<1>1. /\ tx'.groups = tx.groups /\ tx'.kept = tx.kept
      /\ tx'.fp = tx.fp /\ tx'.canonical = tx.canonical
  BY DEF Moves
<1>2. tx.canonical \in tx.kept /\ tx.groups[tx.canonical].fp = tx.fp
  BY TransactionHas DEF TxTurn, Moving
<1>3. /\ OldGroups(r, tx.canonical)' = OldGroups(r, tx.canonical)
      /\ GroupsToMerge(r)' = GroupsToMerge(r)
  BY <1>1, SameTurn
<1>4. /\ tx.open \subseteq Incident
      /\ tx.canonical \notin OldGroups(r, tx.canonical)
      /\ \A k \in tx.open : /\ tx.incidents[k].status \in Status /\ StaysOpen(k)
                            /\ tx.incidents[k].group \in GroupsToMerge(r)
      /\ \A k \in Incident :
            /\ tx.incidents[k].status = "open"
            /\ tx.incidents[k].group \in OldGroups(r, tx.canonical)
            => k \in tx.open \/ (k \in raced /\ k \notin tx.locked)
  BY MovingHas
<1>5. \A k \in tx'.open : /\ tx'.incidents[k].status \in Status /\ StaysOpen(k)'
                          /\ tx'.incidents[k].group \in GroupsToMerge(r)
  BY <1>4 DEF StaysOpen
<1>6. ASSUME NEW k \in Incident, tx'.incidents[k].status = "open",
             tx'.incidents[k].group \in OldGroups(r, tx.canonical)
      PROVE  k \in tx'.open \/ (k \in raced /\ k \notin tx'.locked)
  <2>1. k # i
    BY <1>4, <1>6
  <2>. QED BY <1>4, <1>6, <2>1
<1>. QED BY <1>1, <1>2, <1>3, <1>5, <1>6

\* The primary is moved as it is, and stays open unless it was closed meanwhile.
LEMMA MovePrimaryKeeps ==
    ASSUME RegroupInv, NEW r \in Request, MovePrimary(r)
    PROVE  RegroupInv'
<1>1. /\ InTransaction(r) /\ pc[r] = "primary"
      /\ UNCHANGED <<groups, incidents, events, timeline, ing, wf, snapshot, raced>>
  BY DEF MovePrimary, At, InTransaction, TransactionPC, storeVars
<1>2. PICK i \in Incident :
         /\ IsFirst(i, tx.open)
         /\ \/ MoveClash(i) /\ Raise(r) /\ tx' = Closed
            \/ /\ ~MoveClash(i)
               /\ tx' = [tx EXCEPT !.incidents[i].group = tx.canonical, !.locked = @ \cup {i},
                                   !.open = LeftToResolve(i)]
               /\ Goto(r, "duplicates")
  BY DEF MovePrimary
<1>3. CASE Raise(r) /\ tx' = Closed
  BY <1>1, <1>3, RollbackKeeps DEF Raise
<1>4. ASSUME ~MoveClash(i), Goto(r, "duplicates"),
             tx' = [tx EXCEPT !.incidents[i].group = tx.canonical, !.locked = @ \cup {i},
                              !.open = LeftToResolve(i)]
      PROVE  RegroupInv'
  <2> DEFINE row == [tx.incidents[i] EXCEPT !.group = tx.canonical]
  <2>1. i \in tx.open
    BY <1>2 DEF IsFirst
  <2>2. /\ tx \in Tables /\ tx.incidents \in [Incident -> IncidentRow] /\ tx.canonical \in Group
        /\ tx.incidents[i].status \in Status /\ StaysOpen(i)
        /\ tx.incidents[i].group \in GroupsToMerge(r)
        /\ tx.canonical \in GroupsToMerge(r) /\ tx.locked \subseteq Incident
        /\ tx.incidents[i].resolvedAt <=> tx.incidents[i].status = "resolved"
        /\ i \notin tx.locked => tx.incidents[i] = incidents[i]
    BY <1>1, <2>1, MovingHas
  <2>3. /\ row \in IncidentRow /\ row.group = tx.canonical /\ row.status = tx.incidents[i].status
        /\ row.status \in Status /\ (row.resolvedAt <=> row.status = "resolved")
        /\ row.status = "open" => tx.incidents[i].status = "open" /\ ~MoveClash(i)
    BY <1>4, <2>2 DEF IncidentRow
  <2>4. tx' = [tx EXCEPT !.incidents[i] = row, !.locked = @ \cup {i}, !.open = @ \ {i}]
    BY <1>4, <2>2 DEF LeftToResolve, Tables
  <2> HIDE DEF row
  <2>5. /\ Moves(r)
        /\ tx'.open = tx.open \ {i} /\ tx'.locked = tx.locked \cup {i}
        /\ tx'.incidents[i].group = tx.canonical
        /\ tx'.incidents[i].status = tx.incidents[i].status
        /\ \A j \in Incident \ {i} : tx'.incidents[j] = tx.incidents[j]
    BY <1>1, <2>1, <2>3, <2>4, OneMoved
  <2>6. pc'[r] = "duplicates"
    BY <1>1, <1>4, TransactionHas DEF Goto, TypeOK, RequestsTypeOK
  <2>7. /\ tx'.canonical \in tx'.kept /\ tx'.groups[tx'.canonical].fp = tx'.fp
        /\ OldGroups(r, tx.canonical)' = OldGroups(r, tx.canonical)
        /\ GroupsToMerge(r)' = GroupsToMerge(r)
        /\ \A k \in tx'.open : /\ tx'.incidents[k].status \in Status /\ StaysOpen(k)'
                               /\ tx'.incidents[k].group \in GroupsToMerge(r)
        /\ \A k \in Incident :
              /\ tx'.incidents[k].status = "open"
              /\ tx'.incidents[k].group \in OldGroups(r, tx.canonical)
              => k \in tx'.open \/ (k \in raced /\ k \notin tx'.locked)
    BY <1>1, <2>1, <2>5, OneMovedTurn
  <2>8. tx'.canonical = tx.canonical
    BY <2>5 DEF Moves
  <2>9. \A k \in Incident : StaysOpen(k)' <=> StaysOpen(k)
    BY <1>1, <2>5 DEF StaysOpen
  <2>10. TxTurn(r)'
    <3>1. i \in tx'.locked \ tx'.open /\ StaysOpen(i)' /\ tx'.incidents[i].group = tx'.canonical
      BY <2>2, <2>5, <2>8, <2>9
    <3>. QED BY <1>1, <2>6, <2>7, <2>8, <3>1 DEF TxTurn
  <2>11. TxKeepsOpen(r)'
    <3> SUFFICES ASSUME NEW k \in tx'.locked, incidents[k].status = "open",
                        tx'.incidents[k].status # "open"
                 PROVE  \E j \in tx'.locked : StaysOpen(j)' /\ Together(r, k, j)'
      BY <1>1 DEF TxKeepsOpen
    <3>1. CASE k = i
      BY <2>2, <2>5, <2>9, <3>1 DEF Together
    <3>2. CASE k # i
      <4>1. k \in tx.locked /\ k \in Incident /\ tx'.incidents[k] = tx.incidents[k]
        BY <2>2, <2>5, <3>2
      <4>2. PICK j \in tx.locked : StaysOpen(j) /\ Together(r, k, j)
        BY <4>1, TransactionHas, <1>1 DEF TxKeepsOpen
      <4>3. j \in Incident /\ j \in tx'.locked /\ StaysOpen(j)'
        BY <2>2, <2>5, <2>9, <4>2
      <4>4. Together(r, k, j)'
        <5>1. CASE {tx.incidents[k].group, tx.incidents[j].group} \subseteq GroupsToMerge(r)
          <6>1. tx'.incidents[j].group \in GroupsToMerge(r)
            BY <2>2, <2>5, <4>3, <5>1
          <6>. QED BY <2>6, <2>7, <4>1, <5>1, <6>1 DEF Together
        <5>2. CASE tx.incidents[j].group = tx.incidents[k].group /\ j # i
          BY <2>5, <4>1, <4>3, <5>2 DEF Together
        <5>3. CASE tx.incidents[j].group = tx.incidents[k].group /\ j = i
          BY <2>2, <2>5, <2>6, <2>7, <4>1, <5>3 DEF Together
        <5>. QED BY <4>2, <5>1, <5>2, <5>3 DEF Together
      <4>. QED BY <4>3, <4>4
    <3>. QED BY <3>1, <3>2
  <2>12. Moving(r)'
    BY <2>6 DEF Moving
  <2>13. \E s \in TransactionPC : Goto(r, s)
    BY <1>4 DEF TransactionPC
  <2>. QED BY <1>1, <2>5, <2>10, <2>11, <2>12, <2>13, MovesKeep
<1>. QED BY <1>2, <1>3, <1>4

\* A duplicate is resolved: the primary stays open in its place.
LEMMA ResolveDuplicateKeeps ==
    ASSUME RegroupInv, NEW r \in Request, ResolveDuplicate(r)
    PROVE  RegroupInv'
<1>1. /\ InTransaction(r) /\ pc[r] = "duplicates" /\ UNCHANGED <<pc, outcome>>
      /\ UNCHANGED <<groups, incidents, events, timeline, ing, wf, snapshot, raced>>
  BY DEF ResolveDuplicate, At, InTransaction, TransactionPC, storeVars
<1>2. PICK i \in Incident :
         /\ IsFirst(i, tx.open)
         /\ tx' = [tx EXCEPT !.incidents[i] = AsDuplicate(@), !.locked = @ \cup {i},
                             !.open = @ \ {i}]
  BY DEF ResolveDuplicate
<1> DEFINE row == AsDuplicate(tx.incidents[i])
<1>3. i \in tx.open
  BY <1>2 DEF IsFirst
<1>4. /\ tx \in Tables /\ tx.incidents \in [Incident -> IncidentRow] /\ tx.canonical \in Group
      /\ tx.incidents[i].group \in GroupsToMerge(r)
      /\ tx.canonical \in GroupsToMerge(r) /\ tx.locked \subseteq Incident
  BY <1>1, <1>3, MovingHas
<1>5. /\ row \in IncidentRow /\ row.group = tx.canonical /\ row.status = "resolved"
      /\ row.resolvedAt = TRUE
  BY <1>4 DEF AsDuplicate, IncidentRow, Status
<1>6. tx' = [tx EXCEPT !.incidents[i] = row, !.locked = @ \cup {i}, !.open = @ \ {i}]
  BY <1>2, <1>4 DEF Tables
<1> HIDE DEF row
<1>7. /\ Moves(r)
      /\ tx'.open = tx.open \ {i} /\ tx'.locked = tx.locked \cup {i}
      /\ tx'.incidents[i].group = tx.canonical
      /\ \A j \in Incident \ {i} : tx'.incidents[j] = tx.incidents[j]
  <2>1. row.status \in Status /\ row.status # "open"
    BY <1>5 DEF Status
  <2>. QED BY <1>1, <1>3, <1>5, <1>6, <2>1, OneMoved
<1>8. /\ tx'.canonical \in tx'.kept /\ tx'.groups[tx'.canonical].fp = tx'.fp
      /\ OldGroups(r, tx.canonical)' = OldGroups(r, tx.canonical)
      /\ GroupsToMerge(r)' = GroupsToMerge(r)
      /\ \A k \in tx'.open : /\ tx'.incidents[k].status \in Status /\ StaysOpen(k)'
                             /\ tx'.incidents[k].group \in GroupsToMerge(r)
      /\ \A k \in Incident :
            /\ tx'.incidents[k].status = "open"
            /\ tx'.incidents[k].group \in OldGroups(r, tx.canonical)
            => k \in tx'.open \/ (k \in raced /\ k \notin tx'.locked)
  BY <1>1, <1>3, <1>7, OneMovedTurn
<1>9. tx'.canonical = tx.canonical
  BY <1>7 DEF Moves
<1>10. PICK p \in tx.locked \ tx.open : StaysOpen(p) /\ tx.incidents[p].group = tx.canonical
  BY <1>1, <1>3, TransactionHas DEF TxTurn
<1>11. /\ p \in Incident /\ p # i /\ p \in tx'.locked \ tx'.open
       /\ StaysOpen(p)' /\ tx'.incidents[p].group = tx'.canonical
  <2>1. p \in Incident /\ p # i
    BY <1>3, <1>4, <1>10
  <2>. QED BY <1>1, <1>7, <1>9, <1>10, <2>1 DEF StaysOpen
<1>12. TxTurn(r)'
  BY <1>1, <1>8, <1>9, <1>11 DEF TxTurn
<1>13. TxKeepsOpen(r)'
  <2> SUFFICES ASSUME NEW k \in tx'.locked, incidents[k].status = "open",
                      tx'.incidents[k].status # "open"
               PROVE  \E j \in tx'.locked : StaysOpen(j)' /\ Together(r, k, j)'
    BY <1>1 DEF TxKeepsOpen
  <2>1. CASE k = i
    BY <1>7, <1>9, <1>11, <2>1 DEF Together
  <2>2. CASE k # i
    <3>1. k \in tx.locked /\ k \in Incident /\ tx'.incidents[k] = tx.incidents[k]
      BY <1>4, <1>7, <2>2
    <3>2. PICK j \in tx.locked : StaysOpen(j) /\ Together(r, k, j)
      BY <1>1, <3>1, TransactionHas DEF TxKeepsOpen
    <3>3. j \in Incident /\ j \in tx'.locked
      BY <1>4, <1>7, <3>2
    <3>4. CASE j # i
      <4>1. tx'.incidents[j] = tx.incidents[j]
        BY <1>7, <3>3, <3>4
      <4>2. StaysOpen(j)'
        BY <1>1, <3>2, <4>1 DEF StaysOpen
      <4>3. Together(r, k, j)'
        BY <1>1, <1>8, <3>1, <3>2, <4>1 DEF Together
      <4>. QED BY <3>3, <4>2, <4>3
    <3>5. CASE j = i
      <4>1. tx.incidents[k].group \in GroupsToMerge(r)
        BY <1>4, <3>2, <3>5 DEF Together
      <4>2. {tx'.incidents[k].group, tx'.incidents[p].group} \subseteq GroupsToMerge(r)
        BY <1>4, <1>9, <1>11, <3>1, <4>1
      <4>. QED BY <1>1, <1>8, <1>11, <4>2 DEF Together
    <3>. QED BY <3>4, <3>5
  <2>. QED BY <2>1, <2>2
<1>14. Moving(r)'
  BY <1>1 DEF Moving
<1>. QED BY <1>1, <1>7, <1>12, <1>13, <1>14, MovesKeep

\* The rows after the update of the incidents that are not OPEN.
LEMMA OthersMoved ==
    ASSUME RegroupInv, NEW r \in Request, MoveOthers(r)
    PROVE  /\ Moves(r)
           /\ \A i \in Incident :
                 /\ tx'.incidents[i].status = tx.incidents[i].status
                 /\ Follows(r, i) => tx'.incidents[i].group = tx.canonical
                 /\ ~Follows(r, i) => tx'.incidents[i] = tx.incidents[i]
                 /\ i \in tx'.locked <=> i \in tx.locked \/ Follows(r, i)
<1>1. InTransaction(r) /\ pc[r] = "duplicates"
  BY DEF MoveOthers, At, InTransaction, TransactionPC
<1>2. /\ tx \in Tables /\ tx.incidents \in [Incident -> IncidentRow] /\ tx.canonical \in Group
      /\ tx.locked \subseteq Incident
      /\ \A i \in Incident : tx.incidents[i].resolvedAt <=> tx.incidents[i].status = "resolved"
  BY <1>1, MovingHas
<1> DEFINE moved(i) == [tx.incidents[i] EXCEPT !.group = tx.canonical]
           rows == [i \in Incident |-> IF Follows(r, i) THEN moved(i) ELSE tx.incidents[i]]
<1>3. ASSUME NEW i \in Incident
      PROVE  /\ moved(i) \in IncidentRow /\ moved(i).group = tx.canonical
             /\ moved(i).status = tx.incidents[i].status
             /\ moved(i).resolvedAt = tx.incidents[i].resolvedAt
  BY <1>2 DEF IncidentRow
<1>4. tx' = [tx EXCEPT !.incidents = rows, !.locked = @ \cup {i \in Incident : Follows(r, i)}]
  BY <1>2 DEF MoveOthers, Tables
<1> HIDE DEF moved
<1>5. rows \in [Incident -> IncidentRow]
  BY <1>2, <1>3
<1>6. \A i \in Incident : rows[i] = IF Follows(r, i) THEN moved(i) ELSE tx.incidents[i]
  OBVIOUS
<1> HIDE DEF rows
<1>7. /\ tx'.incidents = rows
      /\ tx'.groups = tx.groups /\ tx'.events = tx.events /\ tx'.kept = tx.kept
      /\ tx'.todo = tx.todo /\ tx'.fp = tx.fp /\ tx'.canonical = tx.canonical
      /\ tx'.locked = tx.locked \cup {i \in Incident : Follows(r, i)}
      /\ tx' \in Tables
  BY <1>2, <1>4, <1>5 DEF Tables
<1>8. ASSUME NEW i \in Incident
      PROVE  /\ tx'.incidents[i].status = tx.incidents[i].status
             /\ Follows(r, i) => tx'.incidents[i].group = tx.canonical
             /\ ~Follows(r, i) => tx'.incidents[i] = tx.incidents[i]
             /\ i \in tx'.locked <=> i \in tx.locked \/ Follows(r, i)
  BY <1>3, <1>6, <1>7
<1>9. ASSUME NEW i \in Incident, Follows(r, i)
      PROVE  Relocated(r, i)
  <2>1. /\ tx.incidents[i].status \in Status /\ tx.incidents[i].status # "open"
        /\ tx.incidents[i].group \in GroupsToMerge(r)
    BY <1>9 DEF Follows, GroupsToMerge
  <2>2. tx'.incidents[i].resolvedAt = tx.incidents[i].resolvedAt
    BY <1>3, <1>6, <1>7, <1>9
  <2>. QED BY <1>2, <1>8, <1>9, <2>1, <2>2 DEF Relocated
<1>10. Moves(r)
  BY <1>7, <1>8, <1>9 DEF Moves
<1>. QED BY <1>8, <1>10

\* With the incidents that are not OPEN the turn ends: those of the old groups
\* that the job holds have all joined the canonical one.
LEMMA MoveOthersKeeps ==
    ASSUME RegroupInv, NEW r \in Request, MoveOthers(r)
    PROVE  RegroupInv'
<1>1. /\ InTransaction(r) /\ pc[r] = "duplicates" /\ tx.open = {} /\ Goto(r, "merge")
      /\ UNCHANGED <<groups, incidents, events, timeline, ing, wf, snapshot, raced>>
  BY DEF MoveOthers, At, InTransaction, TransactionPC, storeVars
<1>2. /\ tx.canonical \in GroupsToMerge(r) /\ tx.canonical \notin OldGroups(r, tx.canonical)
      /\ tx.locked \subseteq Incident
      /\ \A i \in Incident :
            /\ tx.incidents[i].status = "open"
            /\ tx.incidents[i].group \in OldGroups(r, tx.canonical)
            => i \in raced /\ i \notin tx.locked
      /\ \A i \in Incident : i \in tx.locked => tx.incidents[i].status \in Status
      /\ \A i \in Incident : i \notin tx.locked => tx.incidents[i] = incidents[i]
  BY <1>1, MovingHas
<1>3. /\ Moves(r)
      /\ \A i \in Incident :
            /\ tx'.incidents[i].status = tx.incidents[i].status
            /\ Follows(r, i) => tx'.incidents[i].group = tx.canonical
            /\ ~Follows(r, i) => tx'.incidents[i] = tx.incidents[i]
            /\ i \in tx'.locked <=> i \in tx.locked \/ Follows(r, i)
  BY OthersMoved
<1>4. /\ pc'[r] = "merge" /\ ~Moving(r)'
      /\ \E s \in TransactionPC : Goto(r, s)
  BY <1>1, TransactionHas DEF Goto, TypeOK, RequestsTypeOK, Moving, TransactionPC
<1>5. \A i \in Incident \ raced :
         tx'.incidents[i].status \in Status
         => tx'.incidents[i].group \notin OldGroups(r, tx.canonical)
  BY <1>2, <1>3 DEF Follows
<1>6. TxTurn(r)'
  BY <1>4 DEF TxTurn
<1>7. TxKeepsOpen(r)'
  <2> SUFFICES ASSUME NEW k \in tx'.locked, incidents[k].status = "open",
                      tx'.incidents[k].status # "open"
               PROVE  \E j \in tx'.locked : StaysOpen(j)' /\ Together(r, k, j)'
    BY <1>1 DEF TxKeepsOpen
  <2>1. tx'.locked \subseteq Incident
    BY <1>3 DEF Moves, Tables
  <2>2. k \in Incident /\ tx.incidents[k].status # "open"
    BY <1>3, <2>1
  <2>3. k \in tx.locked
    BY <1>2, <2>2
  <2>4. PICK j \in tx.locked : StaysOpen(j) /\ Together(r, k, j)
    BY <1>1, <2>2, <2>3, TransactionHas DEF TxKeepsOpen
  <2>5. ASSUME NEW i \in tx.locked
        PROVE  tx'.incidents[i].group =
                  IF tx.incidents[i].group \in GroupsToMerge(r) THEN tx.canonical
                  ELSE tx.incidents[i].group
    <3>1. i \in Incident /\ tx.incidents[i].status \in Status
      BY <1>2
    <3>2. CASE tx.incidents[i].group \in OldGroups(r, tx.canonical)
      <4>1. Follows(r, i)
        BY <1>2, <3>1, <3>2 DEF Follows
      <4>. QED BY <1>3, <3>1, <3>2, <4>1 DEF GroupsToMerge
    <3>3. CASE tx.incidents[i].group \notin OldGroups(r, tx.canonical)
      <4>1. ~Follows(r, i)
        BY <3>3 DEF Follows
      <4>. QED BY <1>3, <3>1, <3>3, <4>1 DEF GroupsToMerge
    <3>. QED BY <3>2, <3>3
  <2>6. Together(r, k, j)'
    <3>1. tx'.incidents[j].group = tx'.incidents[k].group
      BY <2>3, <2>4, <2>5 DEF Together
    <3>. QED BY <3>1 DEF Together
  <2>7. j \in tx'.locked /\ StaysOpen(j)'
    BY <1>1, <1>2, <1>3, <2>4 DEF StaysOpen
  <2>. QED BY <2>6, <2>7
<1>. QED BY <1>1, <1>3, <1>4, <1>5, <1>6, <1>7, MovesKeep

\* An insert that the database refuses, and a worker that dies, roll back.
LEMMA InsertRefusedKeeps ==
    ASSUME RegroupInv, NEW r \in Request, InsertRefused(r) \/ RolledBack(r)
    PROVE  RegroupInv'
<1>1. CASE InsertRefused(r)
  <2>1. InTransaction(r)
    BY <1>1 DEF InsertRefused, At, InTransaction, TransactionPC
  <2>. QED BY <1>1, <2>1, RollbackKeeps DEF InsertRefused, Raise, storeVars
<1>2. CASE RolledBack(r)
  BY <1>2, RollbackKeeps DEF RolledBack, WorkerKilled, storeVars
<1>. QED BY <1>1, <1>2

-----------------------------------------------------------------------------
(* The commit *)

\* The stored tables after a commit, row by row.
LEMMA CommitIs ==
    ASSUME tx \in Tables, NEW r, Commit(r)
    PROVE  /\ \A g \in Group :
                 /\ g \in Obsolete => groups'[g] = [fp |-> Deleted, count |-> 0]
                 /\ g \notin Obsolete => groups'[g] = tx.groups[g]
           /\ \A i \in Incident :
                 \/ incidents'[i] = tx.incidents[i]
                    /\ ~(tx.incidents[i].status \in Status /\ tx.incidents[i].group \in Obsolete)
                 \/ /\ tx.incidents[i].status \in Status /\ tx.incidents[i].group \in Obsolete
                    /\ incidents'[i].status = "deleted" /\ incidents'[i].resolvedAt = FALSE
                    /\ incidents'[i].group = tx.incidents[i].group
                    /\ incidents'[i] \in IncidentRow
           /\ \A e \in Request :
                 \/ events'[e] = tx.events[e] /\ tx.events[e] \notin Obsolete
                 \/ events'[e] = NoGroup /\ tx.events[e] \in Obsolete
           /\ groups' \in [Group -> GroupRow]
           /\ incidents' \in [Incident -> IncidentRow]
           /\ events' \in [Request -> Group \cup {NoGroup}]
<1>1. /\ tx.groups \in [Group -> GroupRow] /\ tx.incidents \in [Incident -> IncidentRow]
      /\ tx.events \in [Request -> Group \cup {NoGroup}]
  BY DEF Tables
<1>2. /\ groups' = [g \in Group |->
            IF g \in Obsolete THEN [fp |-> Deleted, count |-> 0] ELSE tx.groups[g]]
      /\ incidents' = [i \in Incident |->
            IF tx.incidents[i].status \in Status /\ tx.incidents[i].group \in Obsolete
            THEN [tx.incidents[i] EXCEPT !.status = "deleted", !.resolvedAt = FALSE]
            ELSE tx.incidents[i]]
      /\ events' = [e \in Request |->
            IF tx.events[e] \in Obsolete THEN NoGroup ELSE tx.events[e]]
  BY DEF Commit
<1>3. \A g \in Group :
         /\ g \in Obsolete => groups'[g] = [fp |-> Deleted, count |-> 0]
         /\ g \notin Obsolete => groups'[g] = tx.groups[g]
  BY <1>2
<1>4. groups' \in [Group -> GroupRow]
  <2>1. [fp |-> Deleted, count |-> 0] \in GroupRow
    BY DEF GroupRow
  <2>. QED BY <1>1, <1>2, <2>1
<1>5. ASSUME NEW i \in Incident
      PROVE  \/ incidents'[i] = tx.incidents[i]
                /\ ~(tx.incidents[i].status \in Status /\ tx.incidents[i].group \in Obsolete)
             \/ /\ tx.incidents[i].status \in Status /\ tx.incidents[i].group \in Obsolete
                /\ incidents'[i].status = "deleted" /\ incidents'[i].resolvedAt = FALSE
                /\ incidents'[i].group = tx.incidents[i].group
                /\ incidents'[i] \in IncidentRow
  <2> DEFINE gone == [tx.incidents[i] EXCEPT !.status = "deleted", !.resolvedAt = FALSE]
  <2>1. /\ gone \in IncidentRow /\ gone.status = "deleted" /\ gone.resolvedAt = FALSE
        /\ gone.group = tx.incidents[i].group
    BY <1>1 DEF IncidentRow
  <2>2. incidents'[i] =
           IF tx.incidents[i].status \in Status /\ tx.incidents[i].group \in Obsolete
           THEN gone ELSE tx.incidents[i]
    BY <1>2
  <2> HIDE DEF gone
  <2>. QED BY <2>1, <2>2
<1>6. incidents' \in [Incident -> IncidentRow]
  <2>1. \A i \in Incident : incidents'[i] \in IncidentRow
    BY <1>1, <1>5
  <2>2. incidents' = [i \in Incident |-> incidents'[i]]
    BY <1>2
  <2>. QED BY <2>1, <2>2
<1>7. /\ \A e \in Request :
            \/ events'[e] = tx.events[e] /\ tx.events[e] \notin Obsolete
            \/ events'[e] = NoGroup /\ tx.events[e] \in Obsolete
      /\ events' \in [Request -> Group \cup {NoGroup}]
  BY <1>1, <1>2
<1>. QED BY <1>3, <1>4, <1>5, <1>6, <1>7

\* When every fingerprint is merged, the groups that remain are those of the
\* events the job read, and hold exactly them.
LEMMA CommitConsolidates ==
    ASSUME RegroupInv, NEW r \in Regroupers, Commit(r), NothingMissed'
    PROVE  Consolidated'
<1>1. /\ TypeOK /\ RegroupTypeOK /\ JobsApart /\ DeletedWithGroup /\ StoredEventsKnown
      /\ TransactionOpen /\ r \in Request /\ tx \in Tables
  BY RegroupAssumption DEF RegroupInv, RegroupTypeOK
<1>2. At(r, "merge") /\ tx.todo = {} /\ UNCHANGED <<ing, snapshot, raced>>
  BY DEF Commit
<1>3. TxConsistent /\ TxMerged(r) /\ TxLosesNothing(r) /\ HasRead(r) /\ ~Moving(r)
  BY <1>1, <1>2, TransactionHas DEF At, InTransaction, TransactionPC, Moving
<1>4. NothingMissed
  BY <1>2 DEF NothingMissed, Stored
<1>5. /\ \A q \in Regroupers : \A e \in Stored(snapshot[q]) : e \in Stored(snapshot[r])
      /\ \A e \in Request : tx.events[e] # NoGroup => e \in Stored(snapshot[r])
  <2>1. ASSUME NEW e \in Request, ing[e].fp # Unused PROVE e \in Stored(snapshot[r])
    BY <1>3, <1>4, <2>1 DEF NothingMissed, HasRead, Stored
  <2>2. \A q \in Regroupers : \A e \in Stored(snapshot[q]) : e \in Request /\ ing[e].fp # Unused
    BY <1>1, RegroupAssumption DEF JobsApart, Stored
  <2>3. \A e \in Request : tx.events[e] # NoGroup => ing[e].fp # Unused
    BY <1>1, <1>3 DEF TxConsistent, JobsApart
  <2>. QED BY <2>1, <2>2, <2>3
<1>6. \A e \in Stored(snapshot[r]) : e \in Request /\ FingerprintNow(e) \in FingerprintsOf(r)
  BY DEF Stored, FingerprintsOf
<1>7. \A e \in Stored(snapshot[r]) :
         /\ tx.events[e] \in Group /\ tx.groups[tx.events[e]].fp = FingerprintNow(e)
         /\ tx.events[e] \in tx.kept
         /\ events'[e] = tx.events[e]
         /\ groups'[tx.events[e]] = tx.groups[tx.events[e]]
  <2> SUFFICES ASSUME NEW e \in Stored(snapshot[r])
               PROVE  /\ tx.events[e] \in Group /\ tx.groups[tx.events[e]].fp = FingerprintNow(e)
                      /\ tx.events[e] \in tx.kept
                      /\ events'[e] = tx.events[e]
                      /\ groups'[tx.events[e]] = tx.groups[tx.events[e]]
    OBVIOUS
  <2>1. tx.events[e] # NoGroup
    BY <1>3, <1>4 DEF TxLosesNothing
  <2>2. tx.events[e] \in Group
    BY <1>1, <1>6, <2>1 DEF Tables
  <2>3. tx.groups[tx.events[e]].fp = FingerprintNow(e)
    BY <1>2, <1>3, <1>6, <2>1 DEF TxMerged
  <2>4. tx.events[e] \in tx.kept
    BY <1>2, <1>3, <1>6, <2>2, <2>3 DEF TxMerged
  <2>5. tx.events[e] \notin Obsolete
    BY <2>4 DEF Obsolete
  <2>6. events'[e] = tx.events[e] /\ groups'[tx.events[e]] = tx.groups[tx.events[e]]
    BY <1>1, <1>6, <2>2, <2>5, CommitIs
  <2>. QED BY <2>2, <2>3, <2>4, <2>6
<1>8. ASSUME NEW g \in Group, groups'[g].fp \in Fingerprint
      PROVE  /\ groups'[g].count = Cardinality({e \in Request : events'[e] = g})
             /\ \E e \in Request : events'[e] = g
  <2>1. g \notin Obsolete
    <3> SUFFICES ASSUME g \in Obsolete PROVE FALSE
      OBVIOUS
    <3>1. groups'[g] = [fp |-> Deleted, count |-> 0]
      BY <1>1, CommitIs
    <3>2. groups'[g].fp = Deleted
      BY <3>1
    <3>. QED BY <1>8, <3>2, StoreAssumption
  <2>2. groups'[g] = tx.groups[g]
    BY <1>1, <2>1, CommitIs
  <2>3. g \in tx.kept
    BY <1>8, <2>1, <2>2 DEF Obsolete
  <2>4. /\ tx.groups[g].fp \in FingerprintsOf(r)
        /\ tx.groups[g].count = Cardinality(Members(r, tx.groups[g].fp))
    BY <1>3, <2>3 DEF TxMerged
  <2>5. ASSUME NEW e \in Request
        PROVE  events'[e] = g <=> e \in Members(r, tx.groups[g].fp)
    <3>1. ASSUME events'[e] = g PROVE e \in Members(r, tx.groups[g].fp)
      <4>1. tx.events[e] = g /\ g # NoGroup
        BY <1>1, <3>1, CommitIs, StoreAssumption
      <4>2. e \in Stored(snapshot[r])
        BY <1>5, <4>1
      <4>. QED BY <1>7, <4>1, <4>2 DEF Members
    <3>2. ASSUME e \in Members(r, tx.groups[g].fp) PROVE events'[e] = g
      <4>1. e \in Stored(snapshot[r]) /\ FingerprintNow(e) = tx.groups[g].fp
        BY <3>2 DEF Members
      <4>2. tx.events[e] = g
        BY <1>3, <1>7, <1>8, <2>2, <4>1 DEF TxConsistent
      <4>. QED BY <1>7, <4>1, <4>2
    <3>. QED BY <3>1, <3>2
  <2>6. {e \in Request : events'[e] = g} = Members(r, tx.groups[g].fp)
    <3>1. Members(r, tx.groups[g].fp) \subseteq Request
      BY DEF Members, Stored
    <3>. QED BY <2>5, <3>1
  <2>7. \E e \in Request : e \in Members(r, tx.groups[g].fp)
    BY <1>6, <2>4 DEF FingerprintsOf, Members
  <2>. QED BY <2>2, <2>4, <2>5, <2>6, <2>7
<1>9. ASSUME NEW q \in Regroupers, NEW e \in Stored(snapshot[q]),
             NEW i \in Incident \ raced, incidents'[i].status = "deleted"
      PROVE  snapshot[q][e] # incidents'[i].group
  <2>1. e \in Stored(snapshot[r]) /\ e \in Request
    BY <1>5, <1>6
  <2>2. CASE Committed
    <3>1. Obsolete = {}
      <4> SUFFICES ASSUME NEW g \in Group, tx.groups[g].fp \in Fingerprint
                   PROVE  g \in tx.kept
        BY DEF Obsolete
      <4>1. tx.groups[g].fp \in FingerprintsOf(r)
        BY <1>3, <1>4, <2>2 DEF TxLosesNothing
      <4>. QED BY <1>2, <1>3, <4>1 DEF TxMerged
    <3>2. incidents'[i] = tx.incidents[i]
      BY <1>1, <3>1, CommitIs
    <3>3. incidents[i] = tx.incidents[i]
      BY <1>3, <1>9, <3>2 DEF TxConsistent, Status
    <3>4. Consolidated
      BY <1>1, <1>4, <2>2 DEF StoredEventsKnown
    <3>. QED BY <1>9, <3>2, <3>3, <3>4 DEF Consolidated
  <2>3. CASE ~Committed
    <3>1. snapshot[q] = events /\ snapshot[r] = events
      BY <1>1, <1>3, <1>4, <1>9, <2>3 DEF StoredEventsKnown, ReadAsStored, HasRead
    <3>2. incidents[i].status # "deleted"
      BY <1>1, <2>3 DEF DeletedWithGroup
    <3>3. tx.incidents[i].status # "deleted"
      BY <1>3, <3>2 DEF TxConsistent, Status
    <3>4. /\ tx.incidents[i].status \in Status /\ tx.incidents[i].group \in Obsolete
          /\ incidents'[i].group = tx.incidents[i].group
      BY <1>1, <1>9, <3>3, CommitIs
    <3>5. FingerprintNow(e) \in FingerprintsOf(r) \ tx.todo
      BY <1>2, <1>6, <2>1
    <3>6. tx.incidents[i].group = snapshot[r][e] => snapshot[r][e] \in tx.kept
      BY <1>3, <2>1, <3>4, <3>5 DEF TxMerged
    <3>. QED BY <3>1, <3>4, <3>6 DEF Obsolete
  <2>. QED BY <2>2, <2>3
<1>10. ASSUME NEW q \in Regroupers, NEW e \in Stored(snapshot[q])
       PROVE  /\ events'[e] # NoGroup /\ groups'[events'[e]].fp = FingerprintNow(e)'
  <2>1. e \in Stored(snapshot[r])
    BY <1>5
  <2>2. FingerprintNow(e)' = FingerprintNow(e)
    BY <1>2 DEF FingerprintNow
  <2>. QED BY <1>7, <2>1, <2>2, StoreAssumption
<1>. QED BY <1>2, <1>8, <1>9, <1>10 DEF Consolidated, Stored, GroupLive

\* The commit ends the job and makes its tables the stored ones.
LEMMA CommitKeeps ==
    ASSUME RegroupInv, NEW r \in Regroupers, Commit(r)
    PROVE  RegroupInv'
<1>1. /\ TypeOK /\ RegroupTypeOK /\ OneOpenPerGroup /\ OneGroupPerFingerprint
      /\ ResolvedAtMatchesStatus /\ CopiesConsistent /\ JobsApart /\ DeletedWithGroup
      /\ StoredEventsKnown /\ TransactionOpen
  BY DEF RegroupInv
<1>2. /\ r \in Request /\ tx \in Tables
      /\ pc \in [Request -> Statement] /\ outcome \in [Request -> Outcome]
  BY <1>1, RegroupAssumption DEF TypeOK, RegroupTypeOK, RequestsTypeOK
<1>3. /\ outcome[r] = "running" /\ pc[r] = "merge" /\ tx.todo = {} /\ tx' = Closed
      /\ UNCHANGED <<timeline, ing, wf, snapshot, raced>>
      /\ pc' = [pc EXCEPT ![r] = "answered"] /\ outcome' = [outcome EXCEPT ![r] = "ok"]
  BY DEF Commit, At, Answer
<1>4. /\ \A q \in Request : InTransaction(q) => q = r
      /\ TxConsistent /\ HasRead(r) /\ ing[r].fp = Unused
  <2>1. InTransaction(r)
    BY <1>3 DEF InTransaction, TransactionPC
  <2>. QED BY <1>1, <1>2, <1>3, <2>1 DEF TransactionOpen, JobsApart, RegroupPC, TransactionPC
<1>5. /\ \A g \in Group :
            \/ g \in Obsolete /\ groups'[g] = [fp |-> Deleted, count |-> 0]
            \/ g \notin Obsolete /\ groups'[g] = tx.groups[g]
      /\ \A i \in Incident :
            \/ incidents'[i] = tx.incidents[i]
            \/ /\ tx.incidents[i].group \in Obsolete
               /\ incidents'[i].status = "deleted" /\ incidents'[i].resolvedAt = FALSE
               /\ incidents'[i].group = tx.incidents[i].group
      /\ \A e \in Request : events'[e] = tx.events[e] \/ events'[e] = NoGroup
      /\ groups' \in [Group -> GroupRow]
      /\ incidents' \in [Incident -> IncidentRow]
      /\ events' \in [Request -> Group \cup {NoGroup}]
  BY <1>2, CommitIs
<1>6. \A g \in Group : /\ g \in Obsolete => groups'[g].fp = Deleted
                       /\ g \notin Obsolete => groups'[g].fp = tx.groups[g].fp
  BY <1>5
<1>7. TypeOK' /\ RegroupTypeOK'
  <2>1. outcome' \in [Request -> Outcome] /\ pc' \in [Request -> Statement]
    BY <1>2, <1>3 DEF Outcome, Statement
  <2>. QED BY <1>1, <1>3, <1>5, <2>1, ClosedType
           DEF TypeOK, RegroupTypeOK, StoreTypeOK, RequestsTypeOK, IngestTypeOK, WorkflowTypeOK
<1>8. OneOpenPerGroup'
  <2>1. \A i \in Incident : incidents'[i].status = "open" => incidents'[i] = tx.incidents[i]
    BY <1>5
  <2>. QED BY <1>4, <2>1 DEF OneOpenPerGroup, TxConsistent
<1>9. OneGroupPerFingerprint'
  BY <1>4, <1>6, StoreAssumption DEF OneGroupPerFingerprint, GroupLive, TxConsistent
<1>10. ResolvedAtMatchesStatus' /\ CopiesConsistent'
  BY <1>1, <1>3, <1>4, <1>5 DEF ResolvedAtMatchesStatus, CopiesConsistent, TxConsistent
<1>11. JobsApart'
  <2>1. /\ pc'[r] = "answered" /\ outcome'[r] = "ok"
        /\ \A q \in Request : q # r => pc'[q] = pc[q] /\ outcome'[q] = outcome[q]
    BY <1>2, <1>3
  <2>2. \A e \in Request : events'[e] # NoGroup => events[e] # NoGroup
    BY <1>4, <1>5 DEF TxConsistent
  <2>3. \A e \in Request : outcome[e] = "ok" => outcome'[e] = "ok"
    BY <2>1
  <2> SUFFICES ASSUME NEW q \in Request
               PROVE  /\ pc'[q] \in IngestPC => ing[q].fp # Unused
                      /\ pc'[q] \in {"arriving"} \cup WorkflowPC \cup RegroupPC => ing[q].fp = Unused
                      /\ events'[q] # NoGroup => outcome'[q] = "ok" /\ ing[q].fp # Unused
                      /\ \A e \in Stored(snapshot[q]) : outcome'[e] = "ok" /\ ing[e].fp # Unused
                      /\ HasRead(q) => pc'[q] \in RegroupPC \/ outcome'[q] = "ok"
                      /\ At(q, "regroup")' \/ InTransaction(q)' => q \in Regroupers /\ HasRead(q)
    BY <1>3 DEF JobsApart, HasRead, Stored
  <2>4. events'[q] # NoGroup => outcome'[q] = "ok" /\ ing[q].fp # Unused
    BY <1>1, <2>2, <2>3 DEF JobsApart
  <2>5. \A e \in Stored(snapshot[q]) : outcome'[e] = "ok" /\ ing[e].fp # Unused
    BY <1>1, <2>3 DEF JobsApart, Stored
  <2>6. CASE q = r
    BY <1>4, <2>1, <2>4, <2>5, <2>6 DEF At, InTransaction, IngestPC, WorkflowPC, RegroupPC, TransactionPC
  <2>7. CASE q # r
    BY <1>1, <2>1, <2>4, <2>5, <2>7 DEF JobsApart, At, InTransaction
  <2>. QED BY <2>6, <2>7
<1>12. Committed'
  <2>1. outcome'[r] = "ok" /\ HasRead(r)'
    BY <1>2, <1>3, <1>4 DEF HasRead, Stored
  <2>. QED BY <2>1 DEF Committed
<1>13. DeletedWithGroup'
  <2> SUFFICES ASSUME NEW i \in Incident, incidents'[i].status = "deleted"
               PROVE  /\ incidents'[i].group \in Group
                      /\ groups'[incidents'[i].group].fp = Deleted
    BY <1>12 DEF DeletedWithGroup
  <2>1. CASE tx.incidents[i].group \in Obsolete /\ incidents'[i].group = tx.incidents[i].group
    BY <1>6, <2>1 DEF Obsolete
  <2>2. CASE incidents'[i] = tx.incidents[i]
    <3>1. incidents'[i] = incidents[i]
      BY <1>4, <2>2 DEF TxConsistent, Status
    <3>2. incidents[i].group \in Group /\ groups[incidents[i].group].fp = Deleted
      BY <1>1, <3>1 DEF DeletedWithGroup
    <3>3. tx.groups[incidents[i].group].fp = Deleted
      BY <1>4, <3>2 DEF TxConsistent
    <3>. QED BY <1>6, <3>1, <3>2, <3>3
  <2>. QED BY <1>5, <2>1, <2>2
<1>14. StoredEventsKnown'
  BY <1>12, CommitConsolidates DEF StoredEventsKnown
<1>15. TransactionOpen'
  <2>1. \A q \in Request : ~InTransaction(q)'
    BY <1>2, <1>3, <1>4 DEF InTransaction
  <2>. QED BY <2>1 DEF TransactionOpen
<1>. QED BY <1>7, <1>8, <1>9, <1>10, <1>11, <1>13, <1>14, <1>15 DEF RegroupInv

-----------------------------------------------------------------------------
(* The theorems *)

\* It holds before anything ran: no job has read or committed.
LEMMA RegroupInitInv == RegroupInit => RegroupInv
<1> SUFFICES ASSUME RegroupInit
             PROVE  RegroupInv
  OBVIOUS
<1>1. IndInv
  BY InitInv DEF RegroupInit
<1>2. PICK s \in Seeds : InitFrom(s)
  BY DEF RegroupInit, Init
<1>3. ConsistentSeed(s) /\ s \in Seed
  BY TrackerAssumption
<1>4. /\ groups = s.groups /\ incidents = s.incidents /\ events = s.events
      /\ \A q \in Request :
            /\ ing[q].fp = IF events[q] # NoGroup THEN groups[events[q]].fp ELSE Unused
            /\ pc[q] = IF events[q] # NoGroup THEN "answered" ELSE "arriving"
            /\ outcome[q] = IF events[q] # NoGroup THEN "ok" ELSE "running"
  BY <1>2 DEF InitFrom
<1>5. \A q \in Request : ~HasRead(q) /\ Stored(snapshot[q]) = {}
  BY DEF RegroupInit, NoEvents, HasRead, Stored
<1>6. RegroupTypeOK
  BY ClosedType DEF RegroupTypeOK, RegroupInit, NoEvents
<1>7. \A q \in Request : events[q] # NoGroup => groups[events[q]].fp \in Fingerprint
  BY <1>3, <1>4 DEF ConsistentSeed
<1>8. JobsApart
  BY <1>4, <1>5, <1>7, StoreAssumption DEF JobsApart, At, InTransaction, IngestPC, WorkflowPC, RegroupPC, TransactionPC
<1>9. DeletedWithGroup
  BY <1>3, <1>4 DEF DeletedWithGroup, ConsistentSeed
<1>10. StoredEventsKnown
  <2>1. ~Committed /\ ReadAsStored
    BY <1>5, RegroupAssumption DEF Committed, ReadAsStored
  <2>. QED BY <2>1 DEF StoredEventsKnown
<1>11. TransactionOpen
  BY <1>4 DEF TransactionOpen, InTransaction, TransactionPC
<1>. QED BY <1>1, <1>6, <1>8, <1>9, <1>10, <1>11 DEF RegroupInv, IndInv

\* It holds of states that agree on every variable.
LEMMA RegroupStutter ==
    ASSUME RegroupInv, UNCHANGED regroupVars
    PROVE  RegroupInv'
<1>1. UNCHANGED <<groups, incidents, events, timeline, pc, outcome, ing, wf, snapshot, tx, raced>>
  BY DEF regroupVars, vars
<1>2. /\ TypeOK' /\ RegroupTypeOK' /\ OneOpenPerGroup' /\ OneGroupPerFingerprint'
      /\ ResolvedAtMatchesStatus' /\ CopiesConsistent'
  BY <1>1 DEF RegroupInv, TypeOK, StoreTypeOK, RequestsTypeOK, IngestTypeOK, WorkflowTypeOK,
     RegroupTypeOK, OneOpenPerGroup, OneGroupPerFingerprint, GroupLive, ResolvedAtMatchesStatus,
     CopiesConsistent
<1>3. (Committed' <=> Committed) /\ (NothingMissed' <=> NothingMissed)
  BY <1>1 DEF Committed, NothingMissed, HasRead, Stored
<1>4. JobsApart' /\ DeletedWithGroup'
  BY <1>1, <1>3 DEF RegroupInv, JobsApart, DeletedWithGroup, HasRead, Stored, At, InTransaction
<1>5. StoredEventsKnown'
  BY <1>1, <1>3 DEF RegroupInv, StoredEventsKnown, Consolidated, ReadAsStored, HasRead, Stored,
     FingerprintNow, GroupLive
<1>6. \A q \in Request : InTransaction(q)' <=> InTransaction(q)
  BY <1>1 DEF InTransaction
<1>7. ASSUME NEW q \in Request, InTransaction(q)
      PROVE  /\ \A x \in Request : InTransaction(x) => x = q
             /\ TxConsistent' /\ TxMerged(q)' /\ TxTurn(q)' /\ TxLosesNothing(q)' /\ TxKeepsOpen(q)'
  <2>1. /\ \A x \in Request : InTransaction(x) => x = q
        /\ TxConsistent /\ TxMerged(q) /\ TxTurn(q) /\ TxLosesNothing(q) /\ TxKeepsOpen(q)
    BY <1>7 DEF RegroupInv, TransactionOpen
  <2>. QED BY <1>1, <1>3, <2>1, TransactionStays
<1>8. TransactionOpen'
  BY <1>6, <1>7 DEF TransactionOpen
<1>. QED BY <1>2, <1>4, <1>5, <1>8 DEF RegroupInv

\* Every step of every job, beside everything else, keeps the invariant.
LEMMA RegroupInvStep == RegroupInv /\ [RegroupNext]_regroupVars => RegroupInv'
<1> SUFFICES ASSUME RegroupInv, [RegroupNext]_regroupVars
             PROVE  RegroupInv'
  OBVIOUS
<1>1. CASE UNCHANGED regroupVars
  BY <1>1, RegroupStutter
<1>2. CASE Elsewhere
  BY <1>2, ElsewhereKeeps
<1>3. ASSUME NEW r \in Regroupers, Begin(r)
      PROVE  RegroupInv'
  BY <1>3, BeginKeeps
<1>4. ASSUME NEW r \in Regroupers, NEW dryRun \in BOOLEAN, ReadEvents(r, dryRun)
      PROVE  RegroupInv'
  BY <1>4, ReadKeeps
<1>5. ASSUME NEW r \in Regroupers, Transaction(r)
      PROVE  RegroupInv'
  <2>1. r \in Request
    BY RegroupAssumption
  <2>2. ASSUME NEW fp \in Fingerprint, FindCanonical(r, fp) PROVE RegroupInv'
    BY <2>1, <2>2, FindCanonicalKeeps
  <2>3. CASE KeepGroup(r)
    BY <2>1, <2>3, KeepGroupKeeps
  <2>4. CASE InsertRefused(r) \/ RolledBack(r)
    BY <2>1, <2>4, InsertRefusedKeeps
  <2>5. CASE ListOpen(r)
    BY <2>1, <2>5, ListOpenKeeps
  <2>6. CASE MovePrimary(r)
    BY <2>1, <2>6, MovePrimaryKeeps
  <2>7. CASE ResolveDuplicate(r)
    BY <2>1, <2>7, ResolveDuplicateKeeps
  <2>8. CASE MoveOthers(r)
    BY <2>1, <2>8, MoveOthersKeeps
  <2>9. CASE Commit(r)
    BY <2>9, CommitKeeps
  <2>. QED BY <1>5, <2>2, <2>3, <2>4, <2>5, <2>6, <2>7, <2>8, <2>9 DEF Transaction
<1>. QED BY <1>1, <1>2, <1>3, <1>4, <1>5 DEF RegroupNext

\* In every reachable state of every instance with regroup jobs, whatever other
\* requests do between the statements of their transactions, everything
\* RegroupInv says holds (events/services.py:318-417).
THEOREM RegroupSafety == RegroupSpec => []RegroupInv
<1>. QED BY RegroupInitInv, RegroupInvStep, PTL DEF RegroupSpec

\* With regroup jobs beside ingests and edits, the stored incidents still have
\* one OPEN row per group at most: the merge resolves the duplicates it moves
\* (events/services.py:369-401).
THEOREM RegroupKeepsOneOpen == RegroupSpec => []OneOpenPerGroup
<1>1. RegroupInv => OneOpenPerGroup
  BY DEF RegroupInv
<1>. QED BY <1>1, RegroupSafety, PTL

\* If no job missed an ingest, a regroup that succeeded has left every event it
\* read stored in the group of its current fingerprint, exact counts, and no
\* incident of those groups gone but those that another request edited while a
\* transaction was open (events/services.py:318-417).
THEOREM RegroupConsolidates == RegroupSpec => []Consolidates
<1>1. RegroupInv => Consolidates
  <2> SUFFICES ASSUME RegroupInv, NothingMissed,
                      NEW r \in Regroupers, outcome[r] = "ok", HasRead(r)
               PROVE  /\ \A e \in Stored(snapshot[r]) :
                            events[e] # NoGroup /\ groups[events[e]].fp = FingerprintNow(e)
                      /\ \A g \in Group : GroupLive(g) =>
                            groups[g].count = Cardinality({e \in Request : events[e] = g})
                      /\ \A i \in Incident \ raced : incidents[i].status = "deleted" =>
                            \A e \in Stored(snapshot[r]) : snapshot[r][e] # incidents[i].group
    BY DEF Consolidates, HasRead
  <2>1. Consolidated
    BY DEF RegroupInv, StoredEventsKnown, Committed
  <2>. QED BY <2>1 DEF Consolidated
<1>. QED BY <1>1, RegroupSafety, PTL

\* Only its commit ends a job that is in its transaction well.
LEMMA OnlyCommitAnswers ==
    ASSUME RegroupInv, [RegroupNext]_regroupVars,
           NEW r \in Regroupers, At(r, "merge"), pc'[r] = "answered"
    PROVE  Commit(r)
<1>1. /\ r \in Request /\ InTransaction(r) /\ pc[r] = "merge" /\ pc'[r] # pc[r]
      /\ pc \in [Request -> Statement] /\ TypeOK /\ JobsApart
      /\ \A q \in Request : InTransaction(q) => q = r
  BY RegroupAssumption DEF At, InTransaction, TransactionPC, RegroupInv, TransactionOpen, TypeOK,
     RequestsTypeOK
<1>2. ASSUME NEW q \in Regroupers, NEW dryRun \in BOOLEAN, ReadEvents(q, dryRun) PROVE FALSE
  <2>1. q # r
    BY <1>1, <1>2 DEF ReadEvents, At
  <2>. QED BY <1>1, <1>2, <2>1 DEF ReadEvents, Answer, Goto
<1>3. ASSUME NEW q \in Regroupers, Begin(q) PROVE FALSE
  <2>1. q # r
    BY <1>1, <1>3 DEF Begin, At
  <2>. QED BY <1>1, <1>3, <2>1 DEF Begin, Raise, Goto
<1>4. ASSUME NEW q \in Regroupers, Transaction(q) PROVE Commit(r)
  <2>1. q = r
    BY <1>1, <1>4, RegroupAssumption DEF Transaction, FindCanonical, KeepGroup, InsertRefused, ListOpen,
       MovePrimary, ResolveDuplicate, MoveOthers, Commit, RolledBack, At, InTransaction, TransactionPC
  <2>2. ASSUME NEW fp \in Fingerprint, FindCanonical(r, fp) PROVE FALSE
    BY <1>1, <2>2 DEF FindCanonical, Goto
  <2>3. ~RolledBack(r)
    BY <1>1 DEF RolledBack, WorkerKilled
  <2>. QED BY <1>1, <1>4, <2>1, <2>2, <2>3 DEF Transaction, KeepGroup, InsertRefused, ListOpen,
           MovePrimary, ResolveDuplicate, MoveOthers, At
<1>5. ~Elsewhere
  BY <1>1, SameTransaction
<1>6. RegroupNext
  BY <1>1 DEF regroupVars, vars
<1>. QED BY <1>2, <1>3, <1>4, <1>5, <1>6 DEF RegroupNext

\* An open incident that a commit does not delete stays open, or has one beside
\* it that does unless another request closed it.
LEMMA KeepsOpenStep ==
    ASSUME RegroupInv, [RegroupNext]_regroupVars,
           NEW r \in Regroupers, At(r, "merge"), pc'[r] = "answered",
           NEW i \in Incident, incidents[i].status = "open", incidents'[i].status # "deleted"
    PROVE  \E j \in Incident : /\ incidents'[j].status = "open" \/ j \in raced
                               /\ incidents'[j].group = incidents'[i].group
<1>1. /\ Commit(r) /\ r \in Request /\ pc[r] = "merge" /\ InTransaction(r)
  BY OnlyCommitAnswers, RegroupAssumption DEF At, InTransaction, TransactionPC
<1>2. tx \in Tables /\ TxConsistent /\ TxKeepsOpen(r)
  BY <1>1, TransactionHas
<1>3. \A k \in Incident :
         \/ incidents'[k] = tx.incidents[k]
            /\ ~(tx.incidents[k].status \in Status /\ tx.incidents[k].group \in Obsolete)
         \/ tx.incidents[k].group \in Obsolete /\ incidents'[k].status = "deleted"
  BY <1>1, <1>2, CommitIs
<1>4. /\ incidents'[i] = tx.incidents[i]
      /\ tx.incidents[i].status \in Status => tx.incidents[i].group \notin Obsolete
  BY <1>3
<1>5. CASE tx.incidents[i].status = "open"
  BY <1>4, <1>5
<1>6. CASE tx.incidents[i].status # "open"
  <2>1. i \in tx.locked /\ tx.incidents[i].status \in Status
    BY <1>2, <1>6 DEF TxConsistent
  <2>2. PICK j \in tx.locked : StaysOpen(j) /\ Together(r, i, j)
    BY <1>2, <1>6, <2>1 DEF TxKeepsOpen
  <2>3. j \in Incident /\ tx.incidents[j].group = tx.incidents[i].group
    BY <1>1, <1>2, <2>2 DEF Together, Tables
  <2>4. incidents'[j] = tx.incidents[j]
    BY <1>3, <1>4, <2>1, <2>3
  <2>. QED BY <1>4, <2>2, <2>3, <2>4 DEF StaysOpen
<1>. QED BY <1>5, <1>6

\* A job may resolve duplicates of an error's open ticket, never the last one
\* in a group it keeps, unless another request closed the one it took for the
\* primary while the transaction was open (events/services.py:369-401).
THEOREM RegroupKeepsOpen == RegroupSpec => MergedGroupStaysOpen
<1>1. RegroupInv /\ [RegroupNext]_regroupVars =>
         [\A r \in Regroupers : At(r, "merge") /\ pc'[r] = "answered" =>
             \A i \in Incident :
                incidents[i].status = "open" /\ incidents'[i].status # "deleted" =>
                   \E j \in Incident : /\ incidents'[j].status = "open" \/ j \in raced
                                       /\ incidents'[j].group = incidents'[i].group]_regroupVars
  BY KeepsOpenStep
<1>. QED BY <1>1, RegroupSafety, PTL DEF RegroupSpec, MergedGroupStaysOpen
=============================================================================
