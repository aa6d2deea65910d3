----------------------------- MODULE KeysProofs -----------------------------
(***************************************************************************)
(* Keys die only on request, uses of a key are counted, accepted keys are  *)
(* listed and the metadata of a deploy marker is kept, for any requests,   *)
(* scopes and metadata columns.                                            *)
(***************************************************************************)
EXTENDS Deployments, RequestStepsProofs, FiniteSetTheorems

-----------------------------------------------------------------------------
(* The plans *)

\* Which kinds of request execute a statement, and in which order.
Planned(kind, plan) ==
    /\ plan \in Seq(Statement) /\ plan # <<>> /\ Distinct(plan)
    /\ Has(plan, "find") => kind = "rotate_primary"
    /\ Has(plan, "retire") => kind \in {"revoke", "rotate", "rotate_primary"}
    /\ Has(plan, "insert") <=> kind \in Issuing
    /\ Has(plan, "sync") => kind = "rotate"
    /\ Has(plan, "promote") => kind \in {"rotate_primary", "new_project"}
    /\ Has(plan, "check") \/ Has(plan, "count") => kind = "ingest"
    /\ Has(plan, "resolve") => kind = "deploy"
    /\ kind = "ingest" => (Has(plan, "count") /\ ~ Before(plan, "count", "check"))
    /\ ~ Before(plan, "retire", "find") /\ ~ Before(plan, "insert", "promote")
    /\ Has(plan, "sync") => Before(plan, "insert", "sync")

\* The endpoints execute their statements as planned.
LEMMA PlansPlanned == \A kind \in Kind : Planned(kind, Plan[kind])
<1>1. Planned("create", CreateKey)
  <2>1. Len(CreateKey) = 2 /\ DOMAIN CreateKey = 1..2
    BY DEF CreateKey
  <2>2. CreateKey[1] = "insert" /\ CreateKey[2] = "audit"
    BY DEF CreateKey
  <2>3. Plan["create"] = CreateKey /\ "create" \in Kind
    BY DEF Plan, Kind
  <2>4. \A i \in 1..2 : i = 1 \/ i = 2
    OBVIOUS
  <2>5. \A i \in 1..2 : CreateKey[i] \in Statement
    BY <2>1, <2>3 DEF Statement
  <2>6. CreateKey \in Seq(Statement) /\ CreateKey # <<>>
    BY <2>1, <2>5, IsASeq DEF CreateKey
  <2>7. Distinct(CreateKey)
    BY <2>1, <2>2, <2>4 DEF Distinct
  <2>8. QED
    BY <2>1, <2>2, <2>4, <2>6, <2>7 DEF Planned, Has, Before, Issuing
<1>2. Planned("revoke", RevokeKey)
  <2>1. Len(RevokeKey) = 2 /\ DOMAIN RevokeKey = 1..2
    BY DEF RevokeKey
  <2>2. RevokeKey[1] = "retire" /\ RevokeKey[2] = "audit"
    BY DEF RevokeKey
  <2>3. Plan["revoke"] = RevokeKey /\ "revoke" \in Kind
    BY DEF Plan, Kind
  <2>4. \A i \in 1..2 : i = 1 \/ i = 2
    OBVIOUS
  <2>5. \A i \in 1..2 : RevokeKey[i] \in Statement
    BY <2>1, <2>3 DEF Statement
  <2>6. RevokeKey \in Seq(Statement) /\ RevokeKey # <<>>
    BY <2>1, <2>5, IsASeq DEF RevokeKey
  <2>7. Distinct(RevokeKey)
    BY <2>1, <2>2, <2>4 DEF Distinct
  <2>8. QED
    BY <2>1, <2>2, <2>4, <2>6, <2>7 DEF Planned, Has, Before, Issuing
<1>3. Planned("rotate", RotateKey)
  <2>1. Len(RotateKey) = 4 /\ DOMAIN RotateKey = 1..4
    BY DEF RotateKey
  <2>2. RotateKey[1] = "retire" /\ RotateKey[2] = "insert" /\ RotateKey[3] = "sync" /\ RotateKey[4] = "audit"
    BY DEF RotateKey
  <2>3. Plan["rotate"] = RotateKey /\ "rotate" \in Kind
    BY DEF Plan, Kind
  <2>4. \A i \in 1..4 : i = 1 \/ i = 2 \/ i = 3 \/ i = 4
    OBVIOUS
  <2>5. \A i \in 1..4 : RotateKey[i] \in Statement
    BY <2>1, <2>3 DEF Statement
  <2>6. RotateKey \in Seq(Statement) /\ RotateKey # <<>>
    BY <2>1, <2>5, IsASeq DEF RotateKey
  <2>7. Distinct(RotateKey)
    BY <2>1, <2>2, <2>4 DEF Distinct
  <2>8. QED
    BY <2>1, <2>2, <2>4, <2>6, <2>7 DEF Planned, Has, Before, Issuing
<1>4. Planned("rotate_primary", RotatePrimary)
  <2>1. Len(RotatePrimary) = 5 /\ DOMAIN RotatePrimary = 1..5
    BY DEF RotatePrimary
  <2>2. RotatePrimary[1] = "find" /\ RotatePrimary[2] = "retire" /\ RotatePrimary[3] = "promote" /\ RotatePrimary[4] = "insert" /\ RotatePrimary[5] = "audit"
    BY DEF RotatePrimary
  <2>3. Plan["rotate_primary"] = RotatePrimary /\ "rotate_primary" \in Kind
    BY DEF Plan, Kind
  <2>4. \A i \in 1..5 : i = 1 \/ i = 2 \/ i = 3 \/ i = 4 \/ i = 5
    OBVIOUS
  <2>5. \A i \in 1..5 : RotatePrimary[i] \in Statement
    BY <2>1, <2>3 DEF Statement
  <2>6. RotatePrimary \in Seq(Statement) /\ RotatePrimary # <<>>
    BY <2>1, <2>5, IsASeq DEF RotatePrimary
  <2>7. Distinct(RotatePrimary)
    BY <2>1, <2>2, <2>4 DEF Distinct
  <2>8. QED
    BY <2>1, <2>2, <2>4, <2>6, <2>7 DEF Planned, Has, Before, Issuing
<1>5. Planned("new_project", NewProject)
  <2>1. Len(NewProject) = 2 /\ DOMAIN NewProject = 1..2
    BY DEF NewProject
  <2>2. NewProject[1] = "promote" /\ NewProject[2] = "insert"
    BY DEF NewProject
  <2>3. Plan["new_project"] = NewProject /\ "new_project" \in Kind
    BY DEF Plan, Kind
  <2>4. \A i \in 1..2 : i = 1 \/ i = 2
    OBVIOUS
  <2>5. \A i \in 1..2 : NewProject[i] \in Statement
    BY <2>1, <2>3 DEF Statement
  <2>6. NewProject \in Seq(Statement) /\ NewProject # <<>>
    BY <2>1, <2>5, IsASeq DEF NewProject
  <2>7. Distinct(NewProject)
    BY <2>1, <2>2, <2>4 DEF Distinct
  <2>8. QED
    BY <2>1, <2>2, <2>4, <2>6, <2>7 DEF Planned, Has, Before, Issuing
<1>6. Planned("delete", RemoveProject)
  <2>1. Len(RemoveProject) = 1 /\ DOMAIN RemoveProject = 1..1
    BY DEF RemoveProject
  <2>2. RemoveProject[1] = "delete"
    BY DEF RemoveProject
  <2>3. Plan["delete"] = RemoveProject /\ "delete" \in Kind
    BY DEF Plan, Kind
  <2>4. \A i \in 1..1 : i = 1
    OBVIOUS
  <2>5. \A i \in 1..1 : RemoveProject[i] \in Statement
    BY <2>1, <2>3 DEF Statement
  <2>6. RemoveProject \in Seq(Statement) /\ RemoveProject # <<>>
    BY <2>1, <2>5, IsASeq DEF RemoveProject
  <2>7. Distinct(RemoveProject)
    BY <2>1, <2>2, <2>4 DEF Distinct
  <2>8. QED
    BY <2>1, <2>2, <2>4, <2>6, <2>7 DEF Planned, Has, Before, Issuing
<1>7. Planned("ingest", IngestEvent)
  <2>1. Len(IngestEvent) = 2 /\ DOMAIN IngestEvent = 1..2
    BY DEF IngestEvent
  <2>2. IngestEvent[1] = "check" /\ IngestEvent[2] = "count"
    BY DEF IngestEvent
  <2>3. Plan["ingest"] = IngestEvent /\ "ingest" \in Kind
    BY DEF Plan, Kind
  <2>4. \A i \in 1..2 : i = 1 \/ i = 2
    OBVIOUS
  <2>5. \A i \in 1..2 : IngestEvent[i] \in Statement
    BY <2>1, <2>3 DEF Statement
  <2>6. IngestEvent \in Seq(Statement) /\ IngestEvent # <<>>
    BY <2>1, <2>5, IsASeq DEF IngestEvent
  <2>7. Distinct(IngestEvent)
    BY <2>1, <2>2, <2>4 DEF Distinct
  <2>8. QED
    BY <2>1, <2>2, <2>4, <2>6, <2>7 DEF Planned, Has, Before, Issuing
<1>8. Planned("deploy", MarkDeploy)
  <2>1. Len(MarkDeploy) = 1 /\ DOMAIN MarkDeploy = 1..1
    BY DEF MarkDeploy
  <2>2. MarkDeploy[1] = "resolve"
    BY DEF MarkDeploy
  <2>3. Plan["deploy"] = MarkDeploy /\ "deploy" \in Kind
    BY DEF Plan, Kind
  <2>4. \A i \in 1..1 : i = 1
    OBVIOUS
  <2>5. \A i \in 1..1 : MarkDeploy[i] \in Statement
    BY <2>1, <2>3 DEF Statement
  <2>6. MarkDeploy \in Seq(Statement) /\ MarkDeploy # <<>>
    BY <2>1, <2>5, IsASeq DEF MarkDeploy
  <2>7. Distinct(MarkDeploy)
    BY <2>1, <2>2, <2>4 DEF Distinct
  <2>8. QED
    BY <2>1, <2>2, <2>4, <2>6, <2>7 DEF Planned, Has, Before, Issuing
<1>9. QED
  BY <1>1, <1>2, <1>3, <1>4, <1>5, <1>6, <1>7, <1>8 DEF Plan, Kind

-----------------------------------------------------------------------------
(* Requests on their plans *)

OnPlan(r) ==
    /\ Remaining(req[r].todo, Plan[req[r].kind])
    /\ req[r].state = "idle" => req[r].todo = <<>> /\ req[r].kind = "deploy"
    /\ req[r].state = "running" => req[r].todo # <<>>
    /\ req[r].state = "ok" => req[r].todo = <<>> \/ req[r].kind = "ingest"

Progress == KeysTypeOK /\ \A r \in Request : OnPlan(r)

\* A signed-in member's deploy marker needs no key.
SignedIn(r) ==
    /\ req[r].state = "idle" /\ ProjectStored
    /\ req' = [req EXCEPT ![r].state = "ok"]
    /\ UNCHANGED <<primary, keys>>

\* What a step does to the project and its keys.
KeysMove ==
    \/ KeysNext
    \/ \E r \in Request : SignedIn(r)
    \/ UNCHANGED keyVars

\* A step of the deployments is one of the keys, as far as the keys see.
LEMMA NextMovesKeys == [DeploymentsNext]_allVars => KeysMove
BY DEF DeploymentsNext, allVars, KeysMove, StartMarker, SignedIn, keyVars

\* r executes the statement it is at, or stops at it: refused when its key is
\* not good, answered when an ingest needs no row, or with an error.
Moves(r) ==
    /\ req[r].state = "running" /\ req[r].todo # <<>>
    /\ req' \in [Request -> Locals]
    /\ \A q \in Request \ {r} : req'[q] = req[q]
    /\ req'[r].kind = req[r].kind /\ req'[r].grace = req[r].grace
    /\ req'[r].scopes = req[r].scopes
    /\ req'[r].key # req[r].key => Head(req[r].todo) = "find"
    /\ \/ /\ req'[r].todo = Tail(req[r].todo)
          /\ req'[r].state = IF Len(req[r].todo) = 1 THEN "ok" ELSE "running"
       \/ /\ req'[r].todo = req[r].todo
          /\ \/ req'[r].state \in {"error", "killed"}
             \/ req'[r].state = "refused" /\ Head(req[r].todo) \in {"check", "resolve"}
             \/ req'[r].state = "ok" /\ Head(req[r].todo) = "check"

\* A statement continues its request, with the key that it found.
LEMMA ContinueMoves ==
    ASSUME KeysTypeOK, NEW r \in Request, req[r].state = "running", req[r].todo # <<>>,
           NEW k \in Key \cup {NotCreated}, Head(req[r].todo) = "find" \/ k = req[r].key,
           NEW l, l = [req[r] EXCEPT !.key = k], Continue(r, l)
    PROVE  Moves(r) /\ req'[r].key = k /\ req'[r].todo = Tail(req[r].todo)
           /\ req'[r].state = IF Len(req[r].todo) = 1 THEN "ok" ELSE "running"
<1> DEFINE l2 == [l EXCEPT !.todo = Tail(@), !.state = IF Len(l.todo) = 1 THEN "ok" ELSE @]
<1>1. req \in [Request -> Locals] /\ req[r] \in Locals
  BY DEF KeysTypeOK
<1>2. Tail(req[r].todo) \in Seq(Statement)
  BY <1>1, TailOf DEF Locals
<1>3. l2 \in Locals /\ l2.key = k /\ l2.todo = Tail(req[r].todo)
      /\ l2.state = (IF Len(req[r].todo) = 1 THEN "ok" ELSE "running")
      /\ l2.kind = req[r].kind /\ l2.grace = req[r].grace /\ l2.scopes = req[r].scopes
  BY <1>1, <1>2 DEF Locals, RequestState
<1>4. req' = [req EXCEPT ![r] = l2]
  BY DEF Continue
<1> HIDE DEF l2
<1>5. QED
  BY <1>1, <1>3, <1>4 DEF Moves

\* A statement stops its request.
LEMMA EndMoves ==
    ASSUME KeysTypeOK, NEW r \in Request, req[r].state = "running", req[r].todo # <<>>,
           NEW state, End(r, state),
           \/ state \in {"error", "killed"}
           \/ state = "refused" /\ Head(req[r].todo) \in {"check", "resolve"}
           \/ state = "ok" /\ Head(req[r].todo) = "check"
    PROVE  Moves(r) /\ req'[r].todo = req[r].todo /\ req'[r].state = state
           /\ req'[r].key = req[r].key
<1>1. req \in [Request -> Locals] /\ req[r] \in Locals
  BY DEF KeysTypeOK
<1>2. state \in RequestState
  BY DEF RequestState
<1>3. req'[r] = [req[r] EXCEPT !.state = state] /\ req'[r] \in Locals
      /\ req' = [req EXCEPT ![r] = req'[r]]
  BY <1>1, <1>2 DEF End, Locals
<1>4. QED
  BY <1>1, <1>3 DEF Moves, Locals

\* Every statement of a request moves it.
LEMMA StatementMoves ==
    ASSUME Progress, NEW r \in Request, Statements(r) \/ Kill(r)
    PROVE  Moves(r)
<1>1. KeysTypeOK /\ OnPlan(r) /\ req[r] \in Locals
  BY DEF Progress, KeysTypeOK
<1>2. ASSUME NEW s, At(r, s)
      PROVE  req[r].state = "running" /\ req[r].todo # <<>> /\ Head(req[r].todo) = s
  BY <1>2 DEF At
<1>3. ASSUME Continue(r, req[r]), req[r].state = "running", req[r].todo # <<>> PROVE Moves(r)
  <2>1. req[r] = [req[r] EXCEPT !.key = req[r].key] /\ req[r].key \in Key \cup {NotCreated}
    BY <1>1 DEF Locals
  <2>2. QED
    BY <1>1, <1>3, <2>1, ContinueMoves
<1>4. CASE FindOld(r)
  <2> DEFINE k == IF req[r].hash \in Key /\ keys[req[r].hash].status = "active"
                  THEN req[r].hash ELSE NotCreated
  <2>1. At(r, "find") /\ Continue(r, [req[r] EXCEPT !.key = k]) /\ k \in Key \cup {NotCreated}
    BY <1>4 DEF FindOld
  <2> HIDE DEF k
  <2>2. QED
    BY <1>1, <1>2, <2>1, ContinueMoves
<1>5. CASE Retire(r)
  BY <1>1, <1>2, <1>3, <1>5, EndMoves DEF Retire
<1>6. CASE Insert(r)
  BY <1>1, <1>2, <1>3, <1>6, EndMoves DEF Insert
<1>7. CASE Promote(r)
  BY <1>1, <1>2, <1>3, <1>7, EndMoves DEF Promote
<1>8. CASE Sync(r)
  BY <1>1, <1>2, <1>3, <1>8, EndMoves DEF Sync
<1>9. CASE DeleteProject(r)
  BY <1>1, <1>2, <1>3, <1>9 DEF DeleteProject
<1>10. CASE Audit(r)
  BY <1>1, <1>2, <1>3, <1>10 DEF Audit
<1>11. CASE Check(r)
  BY <1>1, <1>2, <1>3, <1>11, EndMoves DEF Check
<1>12. CASE Count(r)
  BY <1>1, <1>2, <1>3, <1>12 DEF Count
<1>13. CASE ResolveKey(r)
  BY <1>1, <1>2, <1>3, <1>13, EndMoves DEF ResolveKey
<1>14. CASE Kill(r)
  BY <1>1, <1>14, EndMoves DEF Kill, Killed, OnPlan
<1>15. QED
  BY <1>4, <1>5, <1>6, <1>7, <1>8, <1>9, <1>10, <1>11, <1>12, <1>13, <1>14 DEF Statements

-----------------------------------------------------------------------------
(* Type correctness, and requests stay on their plans *)

\* What the invariant says of one request.
LEMMA PlanOf ==
    ASSUME Progress, NEW r \in Request
    PROVE  /\ req[r] \in Locals /\ req[r].kind \in Kind
           /\ Plan[req[r].kind] \in Seq(Statement)
           /\ Planned(req[r].kind, Plan[req[r].kind])
           /\ Remaining(req[r].todo, Plan[req[r].kind])
BY PlansPlanned DEF Progress, KeysTypeOK, OnPlan, Locals, Planned

\* What is left of a plan is in the plan.
LEMMA LeftOfPlan ==
    ASSUME Progress, NEW r \in Request, NEW s, Has(req[r].todo, s)
    PROVE  Has(Plan[req[r].kind], s)
<1> DEFINE todo == req[r].todo
           plan == Plan[req[r].kind]
<1>1. todo \in Seq(Statement) /\ plan \in Seq(Statement) /\ Remaining(todo, plan)
  BY PlanOf DEF Locals
<1>2. PICK i \in DOMAIN todo : todo[i] = s
  BY DEF Has
<1> HIDE DEF todo, plan
<1>3. Len(todo) \in Nat /\ Len(plan) \in Nat /\ i \in 1..Len(todo)
      /\ DOMAIN plan = 1..Len(plan)
  BY <1>1, <1>2
<1>4. Len(plan) - Len(todo) + i \in DOMAIN plan /\ plan[Len(plan) - Len(todo) + i] = s
  BY <1>1, <1>2, <1>3 DEF Remaining
<1>5. Has(plan, s)
  BY <1>4 DEF Has
<1>6. QED
  BY <1>5 DEF plan

\* A running request is at a statement of its plan.
LEMMA NextStatement ==
    ASSUME Progress, NEW r \in Request, req[r].todo # <<>>
    PROVE  /\ Has(Plan[req[r].kind], Head(req[r].todo)) /\ Has(req[r].todo, Head(req[r].todo))
           /\ \A t : Has(Tail(req[r].todo), t) <=> Has(req[r].todo, t) /\ t # Head(req[r].todo)
           /\ \A t : Has(Plan[req[r].kind], t) =>
                 (~ Has(req[r].todo, t) <=> Before(Plan[req[r].kind], t, Head(req[r].todo)))
<1> DEFINE todo == req[r].todo
           plan == Plan[req[r].kind]
<1>1. todo \in Seq(Statement) /\ plan \in Seq(Statement) /\ Remaining(todo, plan)
      /\ Distinct(plan) /\ todo # <<>>
  BY PlanOf DEF Locals, Planned
<1> HIDE DEF todo, plan
<1>2. Has(todo, Head(todo))
  BY <1>1, TailOf DEF Has
<1>3. Has(plan, Head(todo))
  BY <1>2, LeftOfPlan DEF plan, todo
<1>4. ASSUME NEW t PROVE Has(Tail(todo), t) <=> Has(todo, t) /\ t # Head(todo)
  BY <1>1, LeftAfter
<1>5. ASSUME NEW t, Has(plan, t) PROVE ~ Has(todo, t) <=> Before(plan, t, Head(todo))
  BY <1>1, <1>5, LeftAt
<1>6. QED
  BY <1>2, <1>3, <1>4, <1>5 DEF plan, todo

\* An ingest is at its first or at its last statement.
LEMMA IngestAt ==
    ASSUME Progress, NEW r \in Request, req[r].todo # <<>>, req[r].kind = "ingest"
    PROVE  \/ Head(req[r].todo) = "check" /\ Len(req[r].todo) = 2
           \/ Head(req[r].todo) = "count" /\ Len(req[r].todo) = 1
<1> DEFINE todo == req[r].todo
<1>1. todo \in Seq(Statement) /\ Remaining(todo, IngestEvent) /\ todo # <<>>
  BY PlanOf DEF Locals, Plan
<1> HIDE DEF todo
<1>2. Len(todo) \in Nat \ {0} /\ Len(todo) <= 2 /\ Head(todo) = todo[1]
      /\ todo[1] = IngestEvent[2 - Len(todo) + 1]
  BY <1>1, TailOf DEF Remaining, IngestEvent
<1>3. IngestEvent[1] = "check" /\ IngestEvent[2] = "count"
  BY DEF IngestEvent
<1>4. \A n \in Nat \ {0} : n <= 2 => n = 1 \/ n = 2
  OBVIOUS
<1>5. Len(todo) = 1 \/ Len(todo) = 2
  BY <1>2, <1>4
<1>6. \A n \in Nat : (n = 1 => 2 - n + 1 = 2) /\ (n = 2 => 2 - n + 1 = 1)
  OBVIOUS
<1>7. \/ Head(todo) = "check" /\ Len(todo) = 2
      \/ Head(todo) = "count" /\ Len(todo) = 1
  BY <1>2, <1>3, <1>5, <1>6
<1>8. QED
  BY <1>7 DEF todo

\* A move leaves the requests on their plans.
LEMMA MovesProgress ==
    ASSUME Progress, NEW r \in Request, Moves(r)
    PROVE  \A q \in Request : OnPlan(q)'
<1>1. ASSUME NEW q \in Request, q # r PROVE OnPlan(q)'
  BY <1>1 DEF Moves, OnPlan, Progress
<1>2. OnPlan(r) /\ req[r].todo \in Seq(Statement) /\ Plan[req[r].kind] \in Seq(Statement)
      /\ Remaining(req[r].todo, Plan[req[r].kind])
  BY PlanOf DEF Progress, Locals
<1>3. req[r].todo # <<>> /\ req'[r].kind = req[r].kind
  BY DEF Moves
<1>4. Remaining(Tail(req[r].todo), Plan[req[r].kind])
      /\ (Len(req[r].todo) = 1 <=> Tail(req[r].todo) = <<>>)
  BY <1>2, <1>3, RemainingTail, TailOf
<1>5. Head(req[r].todo) = "check" => req[r].kind = "ingest"
  BY <1>3, NextStatement, PlanOf DEF Planned
<1>6. OnPlan(r)'
  BY <1>2, <1>3, <1>4, <1>5 DEF Moves, OnPlan
<1>7. QED
  BY <1>1, <1>6

\* What the statements and requests write to the keys is rows of keys.
LEMMA KeysStayTyped ==
    ASSUME KeysTypeOK, KeysMove
    PROVE  keys' \in [Key -> KeyRow] /\ primary' \in Key \cup {NotCreated, Deleted}
<1>1. /\ keys \in [Key -> KeyRow] /\ primary \in Key \cup {NotCreated, Deleted}
      /\ req \in [Request -> Locals] /\ Request \subseteq Key
  BY DEF KeysTypeOK, Key
<1>2. ASSUME NEW r \in Request, Arrive(r) \/ Statements(r) \/ Kill(r)
      PROVE  keys' \in [Key -> KeyRow] /\ primary' \in Key \cup {NotCreated, Deleted}
  <2>1. req[r].key \in Key \cup {NotCreated} /\ req[r].scopes \in SUBSET Scope
    BY <1>1 DEF Locals
  <2>2. CASE Retire(r)
    <3>1. ASSUME NEW k \in Key, NEW status \in {"grace", "revoked"}, NEW e \in BOOLEAN
          PROVE  [keys EXCEPT ![k].status = status, ![k].expired = e] \in [Key -> KeyRow]
      BY <1>1 DEF KeyRow
    <3>2. CASE UNCHANGED keys
      BY <1>1, <2>2, <3>2 DEF Retire
    <3>3. CASE ~ UNCHANGED keys
      <4> DEFINE k == req[r].key
                 status == IF req[r].grace THEN "grace" ELSE "revoked"
                 e == IF req[r].grace THEN FALSE ELSE keys[k].expired
      <4>1. k \in Key /\ keys' = [keys EXCEPT ![k].status = status, ![k].expired = e]
        BY <2>1, <2>2, <3>3 DEF Retire
      <4>2. status \in {"grace", "revoked"} /\ e \in BOOLEAN
        BY <1>1, <4>1 DEF KeyRow
      <4> HIDE DEF k, status, e
      <4>3. QED
        BY <1>1, <2>2, <3>1, <4>1, <4>2 DEF Retire
    <3>4. QED
      BY <3>2, <3>3
  <2>3. CASE Insert(r)
    <3> DEFINE row == [status |-> "active", expired |-> FALSE,
                       scopes |-> req[r].scopes, uses |-> 0]
    <3>1. row \in KeyRow /\ r \in Key
      BY <1>1, <2>1 DEF KeyRow
    <3>2. (UNCHANGED keys \/ keys' = [keys EXCEPT ![r] = row]) /\ UNCHANGED primary
      BY <2>3 DEF Insert
    <3> HIDE DEF row
    <3>3. QED
      BY <1>1, <3>1, <3>2
  <2>4. CASE DeleteProject(r)
    BY <1>1, <2>4 DEF DeleteProject, KeyRow, NoRow
  <2>5. CASE Count(r)
    <3>1. CASE UNCHANGED keys
      BY <1>1, <2>5, <3>1 DEF Count
    <3>2. CASE ~ UNCHANGED keys
      <4> DEFINE k == req[r].key
                 n == keys[k].uses + 1
      <4>1. Stored(k) /\ keys' = [keys EXCEPT ![k].uses = n]
        BY <2>5, <3>2 DEF Count
      <4>2. CASE k \in Key
        <5>1. n \in Nat
          BY <1>1, <4>2 DEF KeyRow
        <5> HIDE DEF k, n
        <5>2. QED
          BY <1>1, <2>5, <4>1, <4>2, <5>1 DEF Count, KeyRow
      <4>3. CASE k \notin Key
        <5> HIDE DEF k, n
        <5>1. keys' = keys
          BY <1>1, <4>1, <4>3
        <5>2. QED
          BY <3>2, <5>1
      <4>4. QED
        BY <4>2, <4>3
    <3>3. QED
      BY <3>1, <3>2
  <2>6. QED
    BY <1>1, <1>2, <2>2, <2>3, <2>4, <2>5
       DEF Statements, Arrive, Kill, FindOld, Promote, Sync, Audit, Check, ResolveKey
<1>3. ASSUME NEW k \in Key, Expire(k)
      PROVE  keys' \in [Key -> KeyRow] /\ primary' \in Key \cup {NotCreated, Deleted}
  BY <1>1, <1>3 DEF Expire, KeyRow
<1>4. QED
  BY <1>1, <1>2, <1>3 DEF KeysMove, KeysNext, SignedIn, keyVars

\* A request arrives with what it needs, or is refused.
LEMMA ArrivalOnPlan ==
    ASSUME Progress, NEW r \in Request, Arrive(r)
    PROVE  /\ req' \in [Request -> Locals]
           /\ \A q \in Request \ {r} : req'[q] = req[q]
           /\ req'[r].kind \in Kind /\ req'[r].todo = Plan[req'[r].kind]
           /\ req'[r].state \in {"running", "refused"}
           /\ req'[r].kind \in Presenting => Issued(req'[r].key)
<1>1. /\ req \in [Request -> Locals] /\ keys \in [Key -> KeyRow]
      /\ primary \in Key \cup {NotCreated, Deleted}
  BY DEF Progress, KeysTypeOK
<1> DEFINE Arrives(kind, grace, k, scopes) ==
             /\ kind \in Presenting => Issued(k)
             /\ kind = "new_project" => \A q \in Request : req[q].kind # "new_project"
             /\ kind \notin {"rotate", "rotate_primary"} => ~ grace
             /\ req' = [req EXCEPT ![r] =
                   [kind |-> kind, todo |-> Plan[kind], key |-> k,
                    hash |-> IF kind \in {"rotate", "rotate_primary"} THEN primary ELSE NotCreated,
                    grace |-> grace,
                    scopes |-> IF kind = "rotate" THEN keys[k].scopes
                               ELSE IF scopes = {} THEN {Ingest} ELSE scopes,
                    state |-> IF Found(kind, k) THEN "running" ELSE "refused"]]
<1>2. PICK kind \in Kinds, grace \in BOOLEAN :
      \E k \in (IF kind \in Naming \cup Presenting THEN Key ELSE {NotCreated}) :
      \E scopes \in (IF kind = "create" THEN SUBSET Scope ELSE {{Ingest}}) :
          Arrives(kind, grace, k, scopes)
  BY Zenon DEF Arrive
<1>3. PICK k \in (IF kind \in Naming \cup Presenting THEN Key ELSE {NotCreated}) :
      \E scopes \in (IF kind = "create" THEN SUBSET Scope ELSE {{Ingest}}) :
          Arrives(kind, grace, k, scopes)
  BY Zenon, <1>2
<1>4. PICK scopes \in (IF kind = "create" THEN SUBSET Scope ELSE {{Ingest}}) :
          Arrives(kind, grace, k, scopes)
  BY Zenon, <1>3
<1> DEFINE hash == IF kind \in {"rotate", "rotate_primary"} THEN primary ELSE NotCreated
           given == IF kind = "rotate" THEN keys[k].scopes
                    ELSE IF scopes = {} THEN {Ingest} ELSE scopes
           state == IF Found(kind, k) THEN "running" ELSE "refused"
           plan == Plan[kind]
           l == [kind |-> kind, todo |-> plan, key |-> k, hash |-> hash, grace |-> grace,
                 scopes |-> given, state |-> state]
<1>5. kind \in Kind /\ plan \in Seq(Statement)
  BY PlansPlanned, KeysAssumption DEF Planned
<1>6. hash \in Key \cup {NotCreated, Deleted}
  BY <1>1
<1>7. given \in SUBSET Scope
  <2>1. kind = "rotate" => k \in Key
    BY <1>3 DEF Naming
  <2>2. scopes \in SUBSET Scope
    BY <1>4, KeysAssumption
  <2>3. QED
    BY <1>1, <2>1, <2>2, KeysAssumption DEF KeyRow
<1>8. k \in Key \cup {NotCreated}
  BY <1>3
<1>9. state \in {"running", "refused"}
  OBVIOUS
<1>10. req' = [req EXCEPT ![r] = l] /\ (kind \in Presenting => Issued(k))
  BY Zenon, <1>4
<1> HIDE DEF Arrives, hash, given, state, plan
<1>11. l \in Locals
  BY <1>5, <1>6, <1>7, <1>8, <1>9 DEF Locals, RequestState
<1>12. req'[r] = l /\ req' \in [Request -> Locals] /\ \A q \in Request \ {r} : req'[q] = req[q]
  BY <1>1, <1>10, <1>11
<1>13. QED
  BY <1>5, <1>9, <1>10, <1>12 DEF plan

\* The ways in which a step changes the requests.
LEMMA RequestsMove ==
    ASSUME Progress, KeysMove
    PROVE  \/ \E r \in Request : Arrive(r)
           \/ \E r \in Request : Moves(r) /\ (Statements(r) \/ Kill(r))
           \/ \E r \in Request : SignedIn(r)
           \/ UNCHANGED <<primary, req>> /\ \E k \in Key : Expire(k)
           \/ UNCHANGED keyVars
BY StatementMoves DEF KeysMove, KeysNext, Expire

\* Every step leaves the requests on their plans.
LEMMA ProgressKept ==
    ASSUME Progress, KeysMove
    PROVE  Progress'
<1>1. keys' \in [Key -> KeyRow] /\ primary' \in Key \cup {NotCreated, Deleted}
  BY KeysStayTyped DEF Progress
<1>2. ASSUME NEW r \in Request, Arrive(r)
      PROVE  req' \in [Request -> Locals] /\ \A q \in Request : OnPlan(q)'
  <2>1. OnPlan(r)'
    <3>1. req'[r].todo = Plan[req'[r].kind] /\ req'[r].state \in {"running", "refused"}
      BY <1>2, ArrivalOnPlan
    <3>2. Plan[req'[r].kind] \in Seq(Statement) /\ Plan[req'[r].kind] # <<>>
      BY <1>2, ArrivalOnPlan, PlansPlanned DEF Planned
    <3>3. \A plan \in Seq(Statement) : Remaining(plan, plan)
      BY DEF Remaining
    <3>4. QED
      BY <3>1, <3>2, <3>3 DEF OnPlan
  <2>2. QED
    BY <1>2, <2>1, ArrivalOnPlan DEF Progress, OnPlan
<1>3. ASSUME NEW r \in Request, Moves(r)
      PROVE  req' \in [Request -> Locals] /\ \A q \in Request : OnPlan(q)'
  BY <1>3, MovesProgress DEF Moves
<1>4. ASSUME NEW r \in Request, SignedIn(r)
      PROVE  req' \in [Request -> Locals] /\ \A q \in Request : OnPlan(q)'
  BY <1>4 DEF SignedIn, Progress, KeysTypeOK, OnPlan, Locals, RequestState
<1>5. ASSUME UNCHANGED req
      PROVE  req' \in [Request -> Locals] /\ \A q \in Request : OnPlan(q)'
  BY <1>5 DEF Progress, KeysTypeOK, OnPlan
<1>6. QED
  BY <1>1, <1>2, <1>3, <1>4, <1>5, RequestsMove DEF Progress, KeysTypeOK, keyVars

\* Every state of the keys of a project is of its type, and every request has
\* left the end of its plan to execute.
THEOREM RequestsProgress == DeploymentsSpec => []Progress
<1>1. DeploymentsInit => Progress
  <2> SUFFICES ASSUME DeploymentsInit PROVE Progress
    OBVIOUS
  <2>1. keys \in [Key -> KeyRow] /\ primary \in Key \cup {NotCreated, Deleted}
    <3>1. NoRow \in KeyRow /\ [NoRow EXCEPT !.status = "active", !.scopes = {Ingest}] \in KeyRow
      BY KeysAssumption DEF KeyRow, NoRow
    <3>2. QED
      BY <3>1 DEF DeploymentsInit, KeysInit, Key
  <2>2. "deploy" \in Kind
    BY DEF Kind, Plan
  <2>3. <<>> \in Seq(Statement) /\ Len(<<>>) = 0
    OBVIOUS
  <2>4. req \in [Request -> Locals]
    BY <2>2, <2>3 DEF DeploymentsInit, KeysInit, Locals, RequestState
  <2>5. Plan["deploy"] \in Seq(Statement)
    BY <2>2, PlansPlanned DEF Planned
  <2>6. Remaining(<<>>, Plan["deploy"])
    BY <2>3, <2>5 DEF Remaining
  <2>7. QED
    BY <2>1, <2>4, <2>6 DEF DeploymentsInit, KeysInit, Progress, KeysTypeOK, OnPlan
<1>2. Progress /\ [DeploymentsNext]_allVars => Progress'
  BY NextMovesKeys, ProgressKept
<1>3. QED
  BY <1>1, <1>2, PTL DEF DeploymentsSpec

-----------------------------------------------------------------------------
(* What a request has executed stays executed *)

\* Executed, by what is left.
LEMMA ExecutedIs ==
    ASSUME NEW r, NEW s
    PROVE  Executed(r, s) <=> /\ Has(Plan[req[r].kind], s) /\ ~ Has(req[r].todo, s)
                              /\ req[r].state \notin {"idle", "refused"}
BY DEF Executed, Behind, Has

\* The same in the next state.
LEMMA ExecutedIsNext ==
    ASSUME NEW r, NEW s
    PROVE  Executed(r, s)' <=> /\ Has(Plan[req'[r].kind], s) /\ ~ Has(req'[r].todo, s)
                               /\ req'[r].state \notin {"idle", "refused"}
BY DEF Executed, Behind, Has

\* A request that executed a retirement or an insertion has done so for good,
\* and keeps the key and the grace period it did it with.
LEMMA ExecutedStays ==
    ASSUME Progress, KeysMove, NEW r \in Request, NEW s \in {"retire", "insert"}, Executed(r, s)
    PROVE  /\ Executed(r, s)' /\ req'[r].kind = req[r].kind
           /\ s = "retire" => req'[r].key = req[r].key /\ req'[r].grace = req[r].grace
<1>1. /\ Has(Plan[req[r].kind], s) /\ ~ Has(req[r].todo, s)
      /\ req[r].state \notin {"idle", "refused"}
  BY ExecutedIs
<1>2. CASE req'[r] = req[r]
  BY <1>1, <1>2, ExecutedIsNext
<1>3. ASSUME NEW q \in Request, Arrive(q) PROVE req'[r] = req[r]
  BY <1>1, <1>3, ArrivalOnPlan DEF Arrive
<1>4. ASSUME NEW q \in Request, SignedIn(q) PROVE req'[r] = req[r]
  BY <1>1, <1>4 DEF SignedIn, Progress, KeysTypeOK
<1>5. ASSUME NEW q \in Request, Moves(q), q # r PROVE req'[r] = req[r]
  BY <1>5 DEF Moves
<1>6. CASE Moves(r)
  <2>1. req[r].todo # <<>> /\ Planned(req[r].kind, Plan[req[r].kind])
    BY <1>6, PlanOf DEF Moves
  <2>2. ~ Has(Tail(req[r].todo), s) /\ Has(Plan[req[r].kind], Head(req[r].todo))
        /\ Before(Plan[req[r].kind], s, Head(req[r].todo))
    BY <1>1, <2>1, NextStatement
  <2>3. ~ (s = "retire" /\ Head(req[r].todo) = "find")
    BY <2>1, <2>2 DEF Planned
  <2>4. Head(req[r].todo) \notin {"check", "resolve"}
    BY <1>1, <2>1, <2>2 DEF Planned, Issuing
  <2>5. req'[r].kind = req[r].kind /\ ~ Has(req'[r].todo, s)
        /\ req'[r].state \notin {"idle", "refused"}
    BY <1>1, <1>6, <2>2, <2>4 DEF Moves
  <2>6. QED
    BY <1>1, <1>6, <2>3, <2>5, ExecutedIsNext DEF Moves
<1>7. QED
  BY <1>2, <1>3, <1>4, <1>5, <1>6, RequestsMove DEF keyVars

\* A request that continues has executed the statement it was at.
LEMMA ExecutesNow ==
    ASSUME Progress, NEW r \in Request, Moves(r), req'[r].todo = Tail(req[r].todo),
           NEW s, Head(req[r].todo) = s
    PROVE  Executed(r, s)'
<1>1. Has(Plan[req[r].kind], s) /\ ~ Has(Tail(req[r].todo), s)
  BY NextStatement DEF Moves
<1>2. req'[r].kind = req[r].kind /\ req'[r].state \notin {"idle", "refused"}
  <2>1. Tail(req[r].todo) # req[r].todo
    <3>1. req[r].todo \in Seq(Statement) /\ req[r].todo # <<>>
      BY PlanOf DEF Moves, Locals
    <3>2. Len(Tail(req[r].todo)) # Len(req[r].todo)
      BY <3>1, TailOf
    <3>3. QED
      BY <3>2
  <2>2. QED
    BY <2>1 DEF Moves
<1>3. QED
  BY <1>1, <1>2, ExecutedIsNext

-----------------------------------------------------------------------------
(* Keys die only on request *)

\* Only a request retires a key, and has done so for good.
LEMMA RetirementKept ==
    ASSUME Progress, KeysMove, RetiredOnRequest
    PROVE  RetiredOnRequest'
<1>1. /\ keys \in [Key -> KeyRow] /\ req \in [Request -> Locals] /\ Request \subseteq Key
  BY DEF Progress, KeysTypeOK, Key
<1>2. SUFFICES ASSUME NEW k \in Key, keys'[k].status \in {"grace", "revoked"}
               PROVE  \E r \in Request : /\ req'[r].key = k /\ Executed(r, "retire")'
                                         /\ req'[r].grace <=> keys'[k].status = "grace"
  BY DEF RetiredOnRequest
<1>3. CASE keys'[k].status = keys[k].status
  <2>1. PICK r \in Request : /\ req[r].key = k /\ Executed(r, "retire")
                             /\ req[r].grace <=> keys[k].status = "grace"
    BY <1>2, <1>3 DEF RetiredOnRequest
  <2>2. Executed(r, "retire")' /\ req'[r].key = k /\ req'[r].grace = req[r].grace
    BY <2>1, ExecutedStays
  <2>3. QED
    BY <1>3, <2>1, <2>2
<1>4. CASE keys'[k].status # keys[k].status
  <2>1. PICK r \in Request : Retire(r) /\ req[r].key = k /\ keys' # keys
    <3>1. ASSUME NEW r \in Request, Statements(r) PROVE Retire(r) /\ req[r].key = k
      <4>1. CASE Insert(r)
        BY <1>1, <1>2, <1>4, <4>1 DEF Insert
      <4>2. CASE DeleteProject(r)
        BY <1>1, <1>2, <1>4, <4>2 DEF DeleteProject, NoRow
      <4>3. CASE Count(r)
        BY <1>1, <1>4, <4>3 DEF Count, KeyRow
      <4>4. CASE Retire(r)
        BY <1>1, <1>4, <4>4 DEF Retire, KeyRow
      <4>5. QED
        BY <1>4, <3>1, <4>1, <4>2, <4>3, <4>4
           DEF Statements, FindOld, Promote, Sync, Audit, Check, ResolveKey
    <3>2. ASSUME NEW e \in Key, Expire(e) PROVE FALSE
      BY <1>1, <1>4, <3>2 DEF Expire, KeyRow
    <3>3. QED
      BY <1>4, <3>1, <3>2 DEF KeysMove, KeysNext, Arrive, Kill, SignedIn, keyVars
  <2>2. Moves(r)
    BY <2>1, StatementMoves DEF Statements
  <2>3. Head(req[r].todo) = "retire" /\ Continue(r, req[r])
        /\ keys' = [keys EXCEPT ![k].status = IF req[r].grace THEN "grace" ELSE "revoked",
                                ![k].expired = IF req[r].grace THEN FALSE ELSE @]
    BY <2>1 DEF Retire, At
  <2>4. req'[r].todo = Tail(req[r].todo)
    BY <1>1, <2>3 DEF Continue, Locals
  <2>5. Executed(r, "retire")' /\ req'[r].key = k /\ req'[r].grace = req[r].grace
    <3>1. Executed(r, "retire")'
      BY <2>2, <2>3, <2>4, ExecutesNow
    <3>2. QED
      BY <2>1, <2>2, <2>3, <3>1 DEF Moves
  <2>6. keys'[k].status = IF req[r].grace THEN "grace" ELSE "revoked"
    BY <1>1, <2>3 DEF KeyRow
  <2>7. req[r].grace \in BOOLEAN
    BY <1>1 DEF Locals
  <2>8. QED
    BY <2>5, <2>6, <2>7
<1>5. QED
  BY <1>3, <1>4

\* A key is retired only by a request for it, and revoked only by one that
\* granted no grace period: no interleaving of rotations, revocations, other
\* statements and deletions retires another key, or one with the wrong status.
THEOREM KeysDieOnRequest == DeploymentsSpec => []RetiredOnRequest
<1>1. DeploymentsInit => RetiredOnRequest
  <2>1. ASSUME DeploymentsInit, NEW k \in Key PROVE keys[k].status \in {"none", "active"}
    <3>1. NoRow.status = "none"
          /\ [NoRow EXCEPT !.status = "active", !.scopes = {Ingest}].status = "active"
      BY DEF NoRow
    <3>2. QED
      BY <2>1, <3>1 DEF DeploymentsInit, KeysInit
  <2>2. QED
    BY <2>1 DEF RetiredOnRequest
<1>2. Progress /\ RetiredOnRequest /\ [DeploymentsNext]_allVars => RetiredOnRequest'
  BY NextMovesKeys, RetirementKept
<1>3. QED
  BY <1>1, <1>2, RequestsProgress, PTL DEF DeploymentsSpec

-----------------------------------------------------------------------------
(* Uses of a key are counted *)

\* The ingests that were accepted with key k.
Users(k) == {r \in Request : req[r].key = k /\ req[r].state = "ok" /\ req[r].kind = "ingest"}

\* Clients send keys they were shown.
IngestKnown ==
    \A r \in Request : req[r].kind = "ingest" /\ req[r].state # "idle" => Issued(req[r].key)

\* A key that was shown has been shown for good.
LEMMA IssuedStays ==
    ASSUME Progress, KeysMove, NEW k \in Key, Issued(k)
    PROVE  Issued(k)'
<1>1. CASE k = FirstKey
  BY <1>1 DEF Issued
<1>2. CASE k \in Request
  <2>1. k # FirstKey /\ req[k].state = "ok" /\ req[k].kind \in Issuing /\ k \in Request
    BY <1>2, KeysAssumption DEF Issued
  <2>2. ASSUME NEW r \in Request, Arrive(r) PROVE req'[k] = req[k]
    BY <2>1, <2>2, ArrivalOnPlan DEF Arrive
  <2>3. ASSUME NEW r \in Request, Moves(r) PROVE req'[k] = req[k]
    BY <2>1, <2>3 DEF Moves
  <2>4. ASSUME NEW r \in Request, SignedIn(r) PROVE req'[k] = req[k]
    BY <2>1, <2>4 DEF SignedIn, Progress, KeysTypeOK
  <2>5. req'[k] = req[k]
    BY <2>2, <2>3, <2>4, RequestsMove DEF keyVars
  <2>6. QED
    BY <2>1, <2>5 DEF Issued
<1>3. QED
  BY <1>1, <1>2 DEF Key

\* An ingest comes with a key that was shown, and keeps it.
LEMMA IngestKnownKept ==
    ASSUME Progress, KeysMove, IngestKnown
    PROVE  IngestKnown'
<1> SUFFICES ASSUME NEW r \in Request, NEW k, k = req'[r].key,
                    req'[r].kind = "ingest", req'[r].state # "idle"
             PROVE  Issued(k)'
  BY DEF IngestKnown, Issued
<1>1. ASSUME Issued(k) PROVE Issued(k)'
  BY <1>1, IssuedStays DEF Issued, Key
<1>2. CASE req'[r] = req[r]
  BY <1>1, <1>2 DEF IngestKnown
<1>3. CASE Arrive(r)
  BY <1>1, <1>3, ArrivalOnPlan DEF Presenting
<1>4. CASE Moves(r)
  <2>1. req[r].todo # <<>> /\ req[r].kind = "ingest" /\ req[r].state # "idle"
    BY <1>4 DEF Moves
  <2>2. Head(req[r].todo) # "find"
    BY <2>1, IngestAt
  <2>3. QED
    BY <1>1, <1>4, <2>1, <2>2 DEF Moves, IngestKnown
<1>5. CASE SignedIn(r)
  BY <1>5 DEF SignedIn, Progress, OnPlan, KeysTypeOK
<1>6. ASSUME NEW q \in Request, q # r, Arrive(q) \/ Moves(q) \/ SignedIn(q) PROVE req'[r] = req[r]
  BY <1>6, ArrivalOnPlan DEF Moves, SignedIn, Progress, KeysTypeOK
<1>7. QED
  BY <1>2, <1>3, <1>4, <1>5, <1>6, RequestsMove DEF keyVars

\* Only an ingest that ends well changes who used a key.
LEMMA UsersChange ==
    ASSUME Progress, KeysMove, NEW k,
           ~ \E r \in Request : Moves(r) /\ req[r].kind = "ingest" /\ req'[r].state = "ok"
                                /\ req[r].key = k
    PROVE  Users(k)' = Users(k)
<1> SUFFICES ASSUME NEW r \in Request
             PROVE  (req'[r].key = k /\ req'[r].state = "ok" /\ req'[r].kind = "ingest") <=>
                    (req[r].key = k /\ req[r].state = "ok" /\ req[r].kind = "ingest")
  BY DEF Users
<1>1. CASE req'[r] = req[r]
  BY <1>1
<1>2. CASE Arrive(r)
  BY <1>2, ArrivalOnPlan DEF Arrive
<1>3. CASE Moves(r)
  <2>1. req[r].state # "ok" /\ req'[r].kind = req[r].kind /\ req[r].todo # <<>>
    BY <1>3 DEF Moves
  <2>2. req[r].kind = "ingest" => req'[r].key = req[r].key
    BY <1>3, <2>1, IngestAt DEF Moves
  <2>3. QED
    BY <1>3, <2>1, <2>2
<1>4. CASE SignedIn(r)
  BY <1>4 DEF SignedIn, Progress, OnPlan, KeysTypeOK
<1>5. ASSUME NEW q \in Request, q # r, Arrive(q) \/ Moves(q) \/ SignedIn(q) PROVE req'[r] = req[r]
  BY <1>5, ArrivalOnPlan DEF Moves, SignedIn, Progress, KeysTypeOK
<1>6. QED
  BY <1>1, <1>2, <1>3, <1>4, <1>5, RequestsMove DEF keyVars

\* A use is counted by the statement that makes the request a user.
LEMMA UsesKept ==
    ASSUME Progress, KeysMove, IngestKnown, UsesCounted
    PROVE  UsesCounted'
<1>1. /\ keys \in [Key -> KeyRow] /\ req \in [Request -> Locals] /\ Request \subseteq Key
      /\ IsFiniteSet(Request)
  BY KeysAssumption DEF Progress, KeysTypeOK, Key
<1>2. ASSUME NEW k \in Key, Stored(k) PROVE keys[k].uses = Cardinality(Users(k))
  BY <1>2 DEF UsesCounted, Users
<1>3. SUFFICES ASSUME NEW k \in Key, keys'[k].status # "none"
               PROVE  keys'[k].uses = Cardinality(Users(k)')
  BY DEF UsesCounted, Users, Stored
<1>4. ASSUME NEW r \in Request, Moves(r), req[r].kind = "ingest", req'[r].state = "ok",
             req[r].key = k, Statements(r) \/ Kill(r)
      PROVE  keys'[k].uses = Cardinality(Users(k)')
  <2>1. req[r].todo # <<>> /\ req[r] \in Locals
    BY <1>1, <1>4 DEF Moves
  <2>2. CASE Head(req[r].todo) = "check"
    <3>1. Check(r) /\ Len(req[r].todo) = 2
      <4>1. Len(req[r].todo) = 2
        BY <1>4, <2>1, <2>2, IngestAt
      <4>2. ~ Kill(r)
        BY <1>1, <1>4 DEF Kill, Killed, End, Locals
      <4>3. QED
        BY <1>4, <2>2, <4>1, <4>2 DEF Statements, FindOld, Retire, Insert, Promote, Sync,
           DeleteProject, Audit, Count, ResolveKey, At
    <3>2. ~ Continue(r, req[r])
      <4>1. ASSUME Continue(r, req[r]) PROVE req'[r].state = req[r].state
        BY <1>1, <3>1, <4>1 DEF Continue, Locals
      <4>2. QED
        BY <1>4, <4>1 DEF Moves
    <3>3. UNCHANGED keys /\ (~ Stored(k) \/ req'[r].state = "refused")
      BY <1>1, <1>4, <3>1, <3>2 DEF Check, End, Locals
    <3>4. QED
      BY <1>3, <1>4, <3>3 DEF Stored
  <2>3. CASE Head(req[r].todo) = "count"
    <3>1. Count(r)
      <4>1. ~ Kill(r)
        BY <1>1, <1>4 DEF Kill, Killed, End, Locals
      <4>2. QED
        BY <1>4, <2>3, <4>1 DEF Statements, FindOld, Retire, Insert, Promote, Sync,
           DeleteProject, Audit, Check, ResolveKey, At
    <3>2. Stored(k) /\ keys' = [keys EXCEPT ![k].uses = @ + 1]
      BY <1>3, <1>4, <3>1 DEF Count, Stored
    <3>3. keys'[k].uses = keys[k].uses + 1
      BY <1>1, <3>2 DEF KeyRow
    <3>4. Users(k)' = Users(k) \cup {r} /\ r \notin Users(k)
      <4>1. req'[r].key = k /\ req'[r].kind = "ingest" /\ req[r].state # "ok"
        BY <1>4, <2>3 DEF Moves
      <4>2. \A q \in Request \ {r} : req'[q] = req[q]
        BY <1>4 DEF Moves
      <4>3. QED
        BY <1>4, <4>1, <4>2 DEF Users
    <3>5. IsFiniteSet(Users(k))
      BY <1>1, FS_Subset DEF Users
    <3>6. Cardinality(Users(k) \cup {r}) = Cardinality(Users(k)) + 1
      BY <3>4, <3>5, FS_AddElement
    <3>7. QED
      BY <1>2, <3>2, <3>3, <3>4, <3>6
  <2>4. QED
    BY <1>4, <2>1, <2>2, <2>3, IngestAt
<1>5. ASSUME ~ \E r \in Request : Moves(r) /\ req[r].kind = "ingest" /\ req'[r].state = "ok"
                                  /\ req[r].key = k
      PROVE  keys'[k].uses = Cardinality(Users(k)')
  <2>1. Users(k)' = Users(k)
    BY <1>5, UsersChange
  <2>2. CASE keys'[k].uses = keys[k].uses /\ Stored(k)
    BY <1>2, <2>1, <2>2
  <2>3. ASSUME NEW r \in Request, Statements(r), Moves(r) PROVE keys'[k].uses = Cardinality(Users(k)')
    <3>1. CASE Insert(r) /\ keys' # keys /\ k = r
      <4>1. keys'[k].uses = 0
        BY <1>1, <3>1 DEF Insert
      <4>2. req[r].state = "running" /\ r # FirstKey
        BY <3>1, KeysAssumption DEF Insert, At
      <4>3. ~ Issued(r)
        BY <4>2 DEF Issued
      <4>4. Users(k) = {}
        BY <3>1, <4>3 DEF Users, IngestKnown
      <4>5. QED
        BY <2>1, <4>1, <4>4, FS_EmptySet
    <3>2. CASE Insert(r) /\ ~ (keys' # keys /\ k = r)
      BY <1>1, <1>3, <2>2, <3>2 DEF Insert, Stored
    <3>3. CASE Retire(r)
      BY <1>1, <1>3, <2>2, <3>3 DEF Retire, Stored, KeyRow
    <3>4. CASE DeleteProject(r)
      BY <1>3, <3>4 DEF DeleteProject, NoRow
    <3>5. CASE Count(r)
      <4>1. Head(req[r].todo) = "count" /\ req[r].todo # <<>>
        BY <3>5 DEF Count, At
      <4>2. req[r].kind = "ingest"
        BY <4>1, NextStatement, PlanOf DEF Planned
      <4>3. req'[r].state = "ok"
        <5>1. Len(req[r].todo) = 1 /\ req[r] \in Locals
          BY <1>1, <4>1, <4>2, IngestAt
        <5>2. QED
          BY <1>1, <3>5, <5>1 DEF Count, Continue, Locals
      <4>4. req[r].key # k
        BY <1>5, <2>3, <4>2, <4>3
      <4>5. keys'[k] = keys[k]
        BY <1>1, <3>5, <4>4 DEF Count
      <4>6. QED
        BY <1>3, <2>2, <4>5 DEF Stored
    <3>6. QED
      BY <1>3, <2>2, <2>3, <3>1, <3>2, <3>3, <3>4, <3>5
         DEF Statements, FindOld, Promote, Sync, Audit, Check, ResolveKey, Stored
  <2>4. ASSUME NEW e \in Key, Expire(e) PROVE keys'[k].uses = Cardinality(Users(k)')
    BY <1>1, <1>3, <2>2, <2>4 DEF Expire, KeyRow, Stored
  <2>5. ASSUME UNCHANGED keys PROVE keys'[k].uses = Cardinality(Users(k)')
    BY <1>3, <2>2, <2>5 DEF Stored
  <2>6. QED
    BY <2>3, <2>4, <2>5, RequestsMove DEF Arrive, SignedIn, Kill, keyVars
<1>6. QED
  BY <1>4, <1>5, RequestsMove, StatementMoves DEF KeysMove, KeysNext, Moves, Arrive, SignedIn, Expire, keyVars

\* A key's request_count is the number of ingests accepted with it while it has
\* a row: concurrent ingests, retirement and expiry lose and invent no use.
THEOREM UsesAreCounted == DeploymentsSpec => []UsesCounted
<1> DEFINE Inv == IngestKnown /\ UsesCounted
<1>1. DeploymentsInit => Inv
  <2> SUFFICES ASSUME DeploymentsInit PROVE Inv
    OBVIOUS
  <2>1. IngestKnown
    BY DEF DeploymentsInit, KeysInit, IngestKnown
  <2>2. ASSUME NEW k \in Key PROVE keys[k].uses = 0
    <3>1. NoRow.uses = 0 /\ [NoRow EXCEPT !.status = "active", !.scopes = {Ingest}].uses = 0
      BY DEF NoRow
    <3>2. QED
      BY <3>1 DEF DeploymentsInit, KeysInit
  <2>3. ASSUME NEW k \in Key PROVE Users(k) = {}
    BY DEF DeploymentsInit, KeysInit, Users
  <2>4. UsesCounted
    BY <2>2, <2>3, FS_EmptySet DEF UsesCounted, Users
  <2>5. QED
    BY <2>1, <2>4
<1>2. Progress /\ Inv /\ [DeploymentsNext]_allVars => Inv'
  BY NextMovesKeys, IngestKnownKept, UsesKept
<1>3. Inv => UsesCounted
  OBVIOUS
<1>4. QED
  BY <1>1, <1>2, <1>3, RequestsProgress, PTL DEF DeploymentsSpec

-----------------------------------------------------------------------------
(* Accepted keys are listed *)

\* While the project is not deleted, an inserted key has its row, and so has
\* its first key; the project's key is stored, or will be by the request that
\* promoted it.
PrimaryOwed ==
    /\ primary # Deleted => \A r \in Request : Executed(r, "insert") => Stored(r)
    /\ primary = FirstKey => Stored(FirstKey)
    /\ primary \in Request /\ ~ Stored(primary) =>
          req[primary].state \notin {"idle", "ok"} /\ Has(req[primary].todo, "insert")

\* A primary key without a row is of a creation under way.
LEMMA OwedIsListed == Progress /\ PrimaryOwed => AcceptedIsListed
<1> SUFFICES ASSUME Progress, PrimaryOwed, NEW k \in Key, IngestAccepts(k), ~ Stored(k)
             PROVE  k \in Request /\ req[k].state # "ok" /\ ~ Executed(k, "insert")
  BY DEF AcceptedIsListed
<1>1. primary = k
  BY DEF IngestAccepts
<1>2. k \in Request
  BY <1>1 DEF PrimaryOwed, Key
<1>3. primary # Deleted
  BY <1>1, KeysAssumption
<1>4. QED
  BY <1>1, <1>2, <1>3 DEF PrimaryOwed

\* Statements but an insertion leave what is inserted, and what is owed.
LEMMA OwedByOthers ==
    ASSUME Progress, PrimaryOwed, NEW r \in Request, Moves(r), Head(req[r].todo) # "insert"
    PROVE  /\ \A q \in Request : Executed(q, "insert")' => Executed(q, "insert")
           /\ \A q \in Request : req[q].state \notin {"idle", "ok"} /\ Has(req[q].todo, "insert")
                  => req'[q].state \notin {"idle", "ok"} /\ Has(req'[q].todo, "insert")
<1>1. ASSUME NEW q \in Request, q # r
      PROVE  req'[q] = req[q]
  BY <1>1 DEF Moves
<1>2. req[r].todo # <<>> /\ req'[r].kind = req[r].kind /\ req[r].todo \in Seq(Statement)
      /\ req[r].state = "running"
  BY PlanOf DEF Moves, Locals
<1>3. Has(Tail(req[r].todo), "insert") <=> Has(req[r].todo, "insert")
  BY <1>2, NextStatement
<1>4. Executed(r, "insert")' => Executed(r, "insert")
  BY <1>2, <1>3, ExecutedIs, ExecutedIsNext DEF Moves
<1>5. ASSUME Has(req[r].todo, "insert")
      PROVE  req'[r].state \notin {"idle", "ok"} /\ Has(req'[r].todo, "insert")
  <2>1. Has(Plan[req[r].kind], "insert") /\ Has(Plan[req[r].kind], Head(req[r].todo))
    BY <1>2, <1>5, LeftOfPlan, NextStatement
  <2>2. Head(req[r].todo) \notin {"check", "resolve"}
    BY <2>1, PlanOf DEF Planned, Issuing
  <2>3. Tail(req[r].todo) # <<>>
    <3>1. DOMAIN Tail(req[r].todo) # {}
      BY <1>3, <1>5 DEF Has
    <3>2. DOMAIN <<>> = {}
      OBVIOUS
    <3>3. QED
      BY <3>1, <3>2
  <2>4. Len(req[r].todo) # 1
    BY <1>2, <2>3, TailOf
  <2>5. QED
    BY <1>2, <1>3, <1>5, <2>2, <2>4 DEF Moves
<1>6. QED
  BY <1>1, <1>4, <1>5, ExecutedIs, ExecutedIsNext

\* A creation is owed its row until it inserts it.
LEMMA OwedKept ==
    ASSUME Progress, KeysMove, PrimaryOwed
    PROVE  PrimaryOwed'
<1>1. /\ keys \in [Key -> KeyRow] /\ req \in [Request -> Locals] /\ Request \subseteq Key
      /\ FirstKey \in Key /\ primary \in Key \cup {NotCreated, Deleted}
      /\ Deleted \notin Key /\ NotCreated \notin Key /\ NotCreated # Deleted
      /\ FirstKey \notin Request
  BY KeysAssumption DEF Progress, KeysTypeOK, Key
\* A step that stores and removes no row, sets no primary and inserts nothing.
<1>2. ASSUME UNCHANGED primary, \A k \in Key : Stored(k)' <=> Stored(k),
             \A q \in Request : Executed(q, "insert")' => Executed(q, "insert"),
             \A q \in Request : req[q].state \notin {"idle", "ok"} /\ Has(req[q].todo, "insert")
                  => req'[q].state \notin {"idle", "ok"} /\ Has(req'[q].todo, "insert")
      PROVE  PrimaryOwed'
  <2>1. primary' # Deleted => \A r \in Request : Executed(r, "insert")' => Stored(r)'
    BY <1>1, <1>2 DEF PrimaryOwed
  <2>2. primary' = FirstKey => Stored(FirstKey)'
    BY <1>1, <1>2 DEF PrimaryOwed
  <2>3. ASSUME primary' \in Request, ~ keys'[primary'].status # "none"
        PROVE  req'[primary'].state \notin {"idle", "ok"} /\ Has(req'[primary'].todo, "insert")
    BY <1>1, <1>2, <2>3 DEF PrimaryOwed, Stored
  <2>4. QED
    BY <2>1, <2>2, <2>3 DEF PrimaryOwed, Stored, Has
<1>3. ASSUME NEW r \in Request, Arrive(r) PROVE PrimaryOwed'
  <2>1. UNCHANGED <<primary, keys>> /\ req[r].state = "idle"
    BY <1>3 DEF Arrive
  <2>2. ~ Executed(r, "insert")'
    BY <1>3, ArrivalOnPlan, ExecutedIsNext
  <2>3. \A q \in Request : Executed(q, "insert")' => Executed(q, "insert")
    BY <1>3, <2>2, ArrivalOnPlan, ExecutedIs, ExecutedIsNext
  <2>4. QED
    BY <1>2, <1>3, <2>1, <2>3, ArrivalOnPlan DEF Stored
<1>4. ASSUME NEW r \in Request, SignedIn(r) PROVE PrimaryOwed'
  <2>1. /\ req[r].state = "idle" /\ req[r].kind = "deploy" /\ req'[r].kind = "deploy"
        /\ \A q \in Request \ {r} : req'[q] = req[q]
        /\ UNCHANGED <<primary, keys>>
    BY <1>1, <1>4 DEF SignedIn, Progress, OnPlan, Locals
  <2>2. ~ Has(Plan["deploy"], "insert")
    BY PlansPlanned DEF Planned, Kind, Plan, Issuing
  <2>3. \A q \in Request : Executed(q, "insert")' => Executed(q, "insert")
    BY <2>1, <2>2, ExecutedIs, ExecutedIsNext
  <2>4. QED
    BY <1>2, <2>1, <2>3 DEF Stored
<1>5. ASSUME NEW r \in Request, Moves(r), Statements(r) \/ Kill(r) PROVE PrimaryOwed'
  <2>1. CASE Kill(r)
    <3>1. req'[r].todo = req[r].todo /\ req'[r].state = "killed" /\ UNCHANGED <<primary, keys>>
      BY <1>1, <2>1 DEF Kill, Killed, End, Locals
    <3>2. \A q \in Request : Executed(q, "insert")' => Executed(q, "insert")
      BY <1>5, <3>1, ExecutedIs, ExecutedIsNext DEF Moves
    <3>3. QED
      BY <1>2, <1>5, <3>1, <3>2 DEF Moves, Stored
  <2>2. CASE Insert(r)
    <3>1. CASE ProjectStored
      <4>1. Stored(r)' /\ UNCHANGED primary /\ \A k \in Key \ {r} : keys'[k] = keys[k]
        BY <1>1, <2>2, <3>1 DEF Insert, Stored
      <4>2. \A q \in Request \ {r} : req'[q] = req[q]
        BY <1>5 DEF Moves
      <4>3. \A q \in Request \ {r} : Executed(q, "insert")' => Executed(q, "insert")
        BY <4>2, ExecutedIs, ExecutedIsNext
      <4>4. \A q \in Request : primary # Deleted /\ Executed(q, "insert")' => Stored(q)'
        BY <1>1, <4>1, <4>3 DEF PrimaryOwed, Stored
      <4>5. primary = FirstKey => Stored(FirstKey)'
        BY <1>1, <4>1 DEF PrimaryOwed, Stored
      <4>6. ASSUME primary \in Request, keys'[primary].status = "none"
            PROVE  req'[primary].state \notin {"idle", "ok"} /\ Has(req'[primary].todo, "insert")
        BY <1>1, <4>1, <4>2, <4>6 DEF PrimaryOwed, Stored
      <4>7. QED
        BY <4>1, <4>4, <4>5, <4>6 DEF PrimaryOwed, Stored, Has
    <3>2. CASE ~ ProjectStored
      <4>1. req'[r].todo = req[r].todo /\ UNCHANGED <<primary, keys>>
            /\ primary \notin Request /\ primary # FirstKey
        BY <1>1, <2>2, <3>2 DEF Insert, ProjectStored, End, Locals
      <4>2. Has(req[r].todo, "insert")
        BY <1>5, <2>2, NextStatement DEF Insert, At
      <4>3. \A q \in Request : Executed(q, "insert")' => Executed(q, "insert")
        BY <1>5, <4>1, <4>2, ExecutedIs, ExecutedIsNext DEF Moves
      <4>4. QED
        BY <1>1, <4>1, <4>3 DEF PrimaryOwed, Stored
    <3>3. QED
      BY <3>1, <3>2
  <2>3. ASSUME Statements(r), ~ Insert(r)
        PROVE  /\ \A q \in Request : Executed(q, "insert")' => Executed(q, "insert")
               /\ \A q \in Request : req[q].state \notin {"idle", "ok"} /\ Has(req[q].todo, "insert")
                      => req'[q].state \notin {"idle", "ok"} /\ Has(req'[q].todo, "insert")
    <3>1. Head(req[r].todo) # "insert"
      BY <2>3 DEF Statements, FindOld, Retire, Promote, Sync, DeleteProject, Audit, Check, Count,
         ResolveKey, At
    <3>2. QED
      BY <1>5, <3>1, OwedByOthers
  <2>4. CASE Promote(r)
    <3>1. Head(req[r].todo) = "promote" /\ req[r].todo # <<>> /\ req[r].state = "running"
      BY <2>4 DEF Promote, At
    <3>2. Has(Plan[req[r].kind], "insert") /\ Has(req[r].todo, "insert")
      <4>1. Has(Plan[req[r].kind], "promote")
        BY <3>1, NextStatement
      <4>2. Has(Plan[req[r].kind], "insert")
            /\ ~ Before(Plan[req[r].kind], "insert", "promote")
        BY <4>1, PlanOf DEF Planned, Issuing
      <4>3. QED
        BY <3>1, <4>2, NextStatement
    <3>3. CASE primary = Deleted
      <4>1. UNCHANGED <<primary, keys>>
        BY <2>4, <3>3 DEF Promote
      <4>2. ~ Insert(r)
        BY <3>1 DEF Insert, At
      <4>3. QED
        BY <1>2, <2>3, <2>4, <4>1, <4>2 DEF Statements, Stored
    <3>4. CASE primary # Deleted
      <4>1. primary' = r /\ UNCHANGED keys
        BY <1>1, <2>4, <3>4 DEF Promote, Continue, Locals
      <4>2. ~ Insert(r)
        BY <3>1 DEF Insert, At
      <4>3. req'[r].state \notin {"idle", "ok"} /\ Has(req'[r].todo, "insert")
        BY <2>3, <2>4, <3>1, <3>2, <4>2 DEF Statements
      <4>4. \A q \in Request : Executed(q, "insert")' => Stored(q)'
        BY <2>3, <2>4, <3>4, <4>1, <4>2 DEF Statements, PrimaryOwed, Stored
      <4>5. QED
        BY <1>1, <4>1, <4>3, <4>4 DEF PrimaryOwed, Has
    <3>5. QED
      BY <3>3, <3>4
  <2>5. CASE Sync(r)
    <3>1. Head(req[r].todo) = "sync" /\ req[r].todo # <<>> /\ req[r].state = "running"
      BY <2>5 DEF Sync, At
    <3>2. Executed(r, "insert")
      <4>1. Has(Plan[req[r].kind], "sync")
        BY <3>1, NextStatement
      <4>2. Has(Plan[req[r].kind], "insert") /\ Before(Plan[req[r].kind], "insert", "sync")
        BY <4>1, PlanOf DEF Planned, Issuing
      <4>3. QED
        BY <3>1, <4>2, NextStatement, ExecutedIs
    <3>3. ~ Insert(r) /\ UNCHANGED keys
      BY <2>5, <3>1 DEF Insert, At, Sync
    <3>4. CASE UNCHANGED primary
      BY <1>2, <2>3, <2>5, <3>3, <3>4 DEF Statements, Stored
    <3>5. CASE ~ UNCHANGED primary
      <4>1. primary' = r /\ primary # Deleted
        BY <1>1, <2>5, <3>5 DEF Sync, ProjectStored
      <4>2. Stored(r)'
        BY <3>2, <3>3, <4>1 DEF PrimaryOwed, Stored
      <4>3. \A q \in Request : Executed(q, "insert")' => Stored(q)'
        BY <2>3, <2>5, <3>3, <4>1 DEF Statements, PrimaryOwed, Stored
      <4>4. QED
        BY <1>1, <4>1, <4>2, <4>3 DEF PrimaryOwed, Stored
    <3>6. QED
      BY <3>4, <3>5
  <2>6. CASE DeleteProject(r)
    BY <1>1, <2>6 DEF DeleteProject, PrimaryOwed
  <2>7. CASE Retire(r)
    <3>1. UNCHANGED primary /\ \A k \in Key : Stored(k)' <=> Stored(k)
      BY <1>1, <2>7 DEF Retire, Stored, KeyRow
    <3>2. ~ Insert(r)
      BY <2>7 DEF Insert, Retire, At
    <3>3. QED
      BY <1>2, <2>3, <2>7, <3>1, <3>2 DEF Statements
  <2>8. CASE Count(r)
    <3>1. UNCHANGED primary /\ \A k \in Key : Stored(k)' <=> Stored(k)
      BY <1>1, <2>8 DEF Count, Stored, KeyRow
    <3>2. ~ Insert(r)
      BY <2>8 DEF Insert, Count, At
    <3>3. QED
      BY <1>2, <2>3, <2>8, <3>1, <3>2 DEF Statements
  <2>9. CASE FindOld(r) \/ Audit(r) \/ Check(r) \/ ResolveKey(r)
    <3>1. UNCHANGED <<primary, keys>> /\ ~ Insert(r)
      BY <2>9 DEF FindOld, Audit, Check, ResolveKey, Insert, At
    <3>2. QED
      BY <1>2, <2>3, <2>9, <3>1 DEF Statements, Stored
  <2>10. QED
    BY <1>5, <2>1, <2>2, <2>4, <2>5, <2>6, <2>7, <2>8, <2>9 DEF Statements
<1>6. ASSUME NEW e \in Key, Expire(e), UNCHANGED <<primary, req>> PROVE PrimaryOwed'
  <2>1. \A k \in Key : Stored(k)' <=> Stored(k)
    BY <1>1, <1>6 DEF Expire, Stored, KeyRow
  <2>2. QED
    BY <1>2, <1>6, <2>1, ExecutedIs, ExecutedIsNext
<1>7. ASSUME UNCHANGED keyVars PROVE PrimaryOwed'
  BY <1>2, <1>7, ExecutedIs, ExecutedIsNext DEF keyVars, Stored
<1>8. QED
  BY <1>3, <1>4, <1>5, <1>6, <1>7, RequestsMove

\* A key that an ingest is accepted with can be listed and revoked: it has its
\* row, or the request that issues it has not stored it and has not answered.
THEOREM AcceptedKeysAreListed == DeploymentsSpec => []AcceptedIsListed
<1>1. DeploymentsInit => PrimaryOwed
  <2> SUFFICES ASSUME DeploymentsInit PROVE PrimaryOwed
    OBVIOUS
  <2>1. \A r \in Request : ~ Executed(r, "insert")
    BY ExecutedIs DEF DeploymentsInit, KeysInit
  <2>2. primary = FirstKey => Stored(FirstKey)
    <3>1. [NoRow EXCEPT !.status = "active", !.scopes = {Ingest}].status = "active"
      BY DEF NoRow
    <3>2. QED
      BY <3>1, KeysAssumption DEF DeploymentsInit, KeysInit, Stored, Key
  <2>3. primary \notin Request
    BY KeysAssumption DEF DeploymentsInit, KeysInit, Key
  <2>4. QED
    BY <2>1, <2>2, <2>3 DEF PrimaryOwed
<1>2. Progress /\ PrimaryOwed /\ [DeploymentsNext]_allVars => PrimaryOwed'
  BY NextMovesKeys, OwedKept
<1>3. QED
  BY <1>1, <1>2, OwedIsListed, RequestsProgress, PTL DEF DeploymentsSpec

-----------------------------------------------------------------------------
(* The metadata of a deploy marker is kept *)

\* A marker that works with the release it loaded works with the one that is
\* stored, unless the project was deleted, which ends every release for good;
\* what it loaded is still set, and so is, once it filled in what was missing,
\* everything it was given.
MetadataOwed ==
    /\ primary = Deleted => ~ release.stored
    /\ \A r \in Request : dep[r].at \in {"fill", "record"} /\ primary # Deleted => release.stored
    /\ \A r \in deployments : dep[r].at = "done" /\ release.stored
    /\ release.stored => \A r \in Request, f \in Field :
          dep[r].at \in {"fill", "record"} /\ dep[r].copy[f] # Blank => release.meta[f] # Blank
    /\ release.stored => \A r \in Request : dep[r].at = "record" \/ r \in deployments =>
          \A f \in dep[r].given : release.meta[f] # Blank

MarkersTyped == DeploymentsTypeOK /\ primary \in Key \cup {NotCreated, Deleted}

\* A deleted project stays deleted.
LEMMA DeletedForGood ==
    ASSUME KeysMove, primary = Deleted
    PROVE  primary' = Deleted
<1>1. \A r \in Request : Statements(r) => primary' = Deleted
  BY KeysAssumption DEF Statements, FindOld, Retire, Insert, Promote, Sync, DeleteProject, Audit,
     Check, Count, ResolveKey, ProjectStored
<1>2. QED
  BY <1>1 DEF KeysMove, KeysNext, Arrive, Kill, Expire, SignedIn, keyVars

\* Markers stay typed.
LEMMA MarkersStayTyped ==
    ASSUME Progress, MarkersTyped, [DeploymentsNext]_allVars
    PROVE  MarkersTyped'
<1> DEFINE R == [stored : BOOLEAN, meta : Meta]
           D == [Request -> [at : {"idle", "get", "insert", "fill", "record", "done", "error",
                                   "killed"}, given : SUBSET Field, copy : Meta]]
<1>1. primary' \in Key \cup {NotCreated, Deleted}
  BY NextMovesKeys, KeysStayTyped DEF Progress
<1>2. release \in R /\ deployments \subseteq Request /\ dep \in D
  BY DEF MarkersTyped, DeploymentsTypeOK
<1>3. /\ NoMeta \in Meta /\ \A r \in Request : Given(r) \in Meta
      /\ \A m \in Meta, s \in BOOLEAN : [stored |-> s, meta |-> m] \in R
  BY DEF NoMeta, Meta, Given
<1>4. CASE UNCHANGED allVars \/ Cascade
  <2>1. release' \in R /\ deployments' \subseteq Request /\ dep' \in D
    <3> HIDE DEF R, D
    <3>1. QED
      BY <1>2, <1>3, <1>4 DEF Cascade, allVars, depVars
  <2>2. QED
    BY <1>1, <2>1 DEF MarkersTyped, DeploymentsTypeOK
<1>5. ASSUME NEW r \in Request, StartMarker(r) PROVE MarkersTyped'
  <2>1. PICK given \in SUBSET Field : dep' = [dep EXCEPT ![r].at = "get", ![r].given = given]
    BY <1>5 DEF StartMarker
  <2>2. dep' \in D
    BY <1>2, <2>1
  <2>3. release' \in R /\ deployments' \subseteq Request
    <3> HIDE DEF R, D
    <3>1. QED
      BY <1>2, <1>5 DEF StartMarker
  <2>4. QED
    BY <1>1, <2>2, <2>3 DEF MarkersTyped, DeploymentsTypeOK
<1>6. ASSUME NEW r \in Request, GetRelease(r) PROVE MarkersTyped'
  BY <1>1, <1>2, <1>6 DEF MarkersTyped, DeploymentsTypeOK, GetRelease, Goto, Holding
<1>7. ASSUME NEW r \in Request, InsertRelease(r) PROVE MarkersTyped'
  <2>1. release' \in R
    <3> HIDE DEF R
    <3>1. QED
      BY <1>2, <1>3, <1>7 DEF InsertRelease
  <2>2. release'.meta \in Meta /\ deployments' = deployments
        /\ (Goto(r, "error") \/ Holding(r, release.meta) \/ Holding(r, Given(r)))
    BY <1>7, <2>1 DEF InsertRelease
  <2>3. QED
    BY <1>1, <1>2, <1>3, <2>1, <2>2 DEF MarkersTyped, DeploymentsTypeOK, Goto, Holding
<1>8. ASSUME NEW r \in Request, FillMissing(r) PROVE MarkersTyped'
  <2> DEFINE filled == [f \in Field |-> IF f \in Missing(r) THEN r ELSE release.meta[f]]
  <2>1. filled \in Meta
    BY <1>2 DEF Meta
  <2>2. (UNCHANGED release \/ release' = [release EXCEPT !.meta = filled])
        /\ (Goto(r, "error") \/ Goto(r, "record")) /\ UNCHANGED deployments
    BY <1>8 DEF FillMissing
  <2> HIDE DEF filled
  <2>3. QED
    BY <1>1, <1>2, <2>1, <2>2 DEF MarkersTyped, DeploymentsTypeOK, Goto
<1>9. ASSUME NEW r \in Request, RecordDeployment(r) PROVE MarkersTyped'
  BY <1>1, <1>2, <1>9 DEF MarkersTyped, DeploymentsTypeOK, RecordDeployment, Goto
<1>10. ASSUME NEW r \in Request, KillMarker(r) PROVE MarkersTyped'
  BY <1>1, <1>2, <1>10 DEF MarkersTyped, DeploymentsTypeOK, KillMarker, Goto
<1>11. QED
  BY <1>4, <1>5, <1>6, <1>7, <1>8, <1>9, <1>10 DEF DeploymentsNext, MarkerStep

\* A marker fills what is blank, and records after it filled.
LEMMA MetadataKept ==
    ASSUME Progress, MarkersTyped, MetadataOwed, [DeploymentsNext]_allVars
    PROVE  MetadataOwed'
<1>1. /\ release \in [stored : BOOLEAN, meta : Meta] /\ deployments \subseteq Request
      /\ dep \in [Request -> [at : {"idle", "get", "insert", "fill", "record", "done", "error",
                                    "killed"}, given : SUBSET Field, copy : Meta]]
      /\ Deleted \notin Key /\ Blank \notin Request
  BY KeysAssumption, DeploymentsAssumption DEF MarkersTyped, DeploymentsTypeOK
<1>2. CASE UNCHANGED allVars
  BY <1>2 DEF MetadataOwed, allVars, depVars, keyVars
<1>3. CASE KeysNext /\ Cascade
  <2>1. CASE primary' = Deleted
    BY <1>3, <2>1 DEF MetadataOwed, Cascade
  <2>2. CASE primary' # Deleted
    <3>1. primary # Deleted
      BY <1>3, <2>2, DeletedForGood DEF KeysMove
    <3>2. UNCHANGED depVars
      BY <1>3, <2>2 DEF Cascade
    <3>3. QED
      BY <2>2, <3>1, <3>2 DEF MetadataOwed, depVars
  <2>3. QED
    BY <2>1, <2>2
<1>4. ASSUME NEW r \in Request, StartMarker(r) PROVE MetadataOwed'
  BY <1>1, <1>4 DEF MetadataOwed, StartMarker
<1>5. ASSUME NEW r \in Request, GetRelease(r), UNCHANGED keyVars PROVE MetadataOwed'
  <2>1. UNCHANGED <<primary, release, deployments>> /\ dep[r].at = "get"
        /\ \A q \in Request \ {r} : dep'[q] = dep[q]
    BY <1>1, <1>5 DEF GetRelease, Goto, Holding, keyVars
  <2>2. \/ dep'[r].at = "insert"
        \/ release.stored /\ dep'[r].at = "fill" /\ dep'[r].copy = release.meta
    BY <1>1, <1>5 DEF GetRelease, Goto, Holding
  <2>3. r \notin deployments
    BY <2>1 DEF MetadataOwed
  <2>4. QED
    BY <1>1, <2>1, <2>2, <2>3 DEF MetadataOwed
<1>6. ASSUME NEW r \in Request, InsertRelease(r), UNCHANGED keyVars PROVE MetadataOwed'
  <2>1. UNCHANGED <<primary, deployments>> /\ dep[r].at = "insert"
        /\ \A q \in Request \ {r} : dep'[q] = dep[q]
    BY <1>1, <1>6 DEF InsertRelease, Goto, Holding, keyVars
  <2>2. r \notin deployments
    BY <2>1 DEF MetadataOwed
  <2>3. CASE release.stored \/ ~ ProjectStored
    <3>1. UNCHANGED release
          /\ \/ dep'[r].at = "error"
             \/ release.stored /\ dep'[r].at = "fill" /\ dep'[r].copy = release.meta
      BY <1>1, <1>6, <2>3 DEF InsertRelease, Goto, Holding
    <3>2. QED
      BY <1>1, <2>1, <2>2, <3>1 DEF MetadataOwed
  <2>4. CASE ~ release.stored /\ ProjectStored
    <3>1. release' = [stored |-> TRUE, meta |-> Given(r)]
          /\ dep'[r].at = "fill" /\ dep'[r].copy = Given(r) /\ primary # Deleted
      BY <1>1, <1>6, <2>4 DEF InsertRelease, Holding, ProjectStored
    <3>2. \A q \in Request : dep[q].at \notin {"fill", "record"} /\ q \notin deployments
      BY <2>4, <3>1 DEF MetadataOwed
    <3>3. release'.stored /\ release'.meta = Given(r)
      BY <3>1
    <3>4. QED
      BY <1>1, <2>1, <3>1, <3>2, <3>3 DEF MetadataOwed
  <2>5. QED
    BY <2>3, <2>4
<1>7. ASSUME NEW r \in Request, FillMissing(r), UNCHANGED keyVars PROVE MetadataOwed'
  <2>1. UNCHANGED <<primary, deployments>> /\ dep[r].at = "fill"
        /\ (\A q \in Request \ {r} : dep'[q] = dep[q])
        /\ dep'[r].given = dep[r].given /\ dep'[r].copy = dep[r].copy
        /\ dep'[r].at \in {"error", "record"}
    BY <1>1, <1>7 DEF FillMissing, Goto, keyVars
  <2>2. r \notin deployments
    BY <2>1 DEF MetadataOwed
  <2>3. CASE Missing(r) # {} /\ ~ release.stored
    BY <1>1, <1>7, <2>1, <2>2, <2>3 DEF MetadataOwed, FillMissing, Goto
  <2>4. CASE Missing(r) = {} \/ release.stored
    <3>1. release'.stored = release.stored
          /\ \A f \in Field : release'.meta[f] = IF f \in Missing(r) THEN r ELSE release.meta[f]
      BY <1>1, <1>7, <2>4 DEF FillMissing
    <3>2. \A f \in Field : release.meta[f] # Blank => release'.meta[f] # Blank
      BY <1>1, <3>1
    <3>3. release.stored => \A f \in dep[r].given : release'.meta[f] # Blank
      BY <1>1, <2>1, <3>1, <3>2 DEF MetadataOwed, Missing
    <3>4. \A q \in Request : dep[q].given \subseteq Field
      BY <1>1
    <3>5. primary' = Deleted => ~ release'.stored
      BY <2>1, <3>1 DEF MetadataOwed
    <3>6. \A q \in Request : dep'[q].at \in {"fill", "record"} /\ primary' # Deleted
              => release'.stored
      BY <2>1, <3>1 DEF MetadataOwed
    <3>7. \A q \in deployments' : dep'[q].at = "done" /\ release'.stored
      BY <1>1, <2>1, <2>2, <3>1 DEF MetadataOwed
    <3>8. release'.stored => \A q \in Request, f \in Field :
              dep'[q].at \in {"fill", "record"} /\ dep'[q].copy[f] # Blank
                  => release'.meta[f] # Blank
      BY <2>1, <3>1, <3>2 DEF MetadataOwed
    <3>9. release'.stored => \A q \in Request : dep'[q].at = "record" \/ q \in deployments' =>
              \A f \in dep'[q].given : release'.meta[f] # Blank
      BY <2>1, <2>2, <3>1, <3>2, <3>3, <3>4 DEF MetadataOwed
    <3>10. QED
      BY <3>5, <3>6, <3>7, <3>8, <3>9 DEF MetadataOwed
  <2>5. QED
    BY <2>3, <2>4
<1>8. ASSUME NEW r \in Request, RecordDeployment(r), UNCHANGED keyVars PROVE MetadataOwed'
  BY <1>1, <1>8 DEF MetadataOwed, RecordDeployment, Goto, keyVars
<1>9. ASSUME NEW r \in Request, KillMarker(r), UNCHANGED keyVars PROVE MetadataOwed'
  BY <1>1, <1>9 DEF MetadataOwed, KillMarker, Goto, keyVars
<1>10. QED
  BY <1>2, <1>3, <1>4, <1>5, <1>6, <1>7, <1>8, <1>9 DEF DeploymentsNext, MarkerStep

\* Every metadata column that a recorded marker supplied is set on its release,
\* and stays set, however markers of the version and the deletion of the
\* project interleave.
THEOREM MetadataIsKept == DeploymentsSpec => []SuppliedMetadataKept
<1> DEFINE Inv == MarkersTyped /\ MetadataOwed
<1>1. DeploymentsInit => Inv
  BY KeysAssumption DEF DeploymentsInit, KeysInit, MarkersTyped, DeploymentsTypeOK, MetadataOwed,
     Meta, NoMeta, Key
<1>2. Progress /\ Inv /\ [DeploymentsNext]_allVars => Inv'
  BY MarkersStayTyped, MetadataKept
<1>3. Inv => SuppliedMetadataKept
  BY DEF MarkersTyped, DeploymentsTypeOK, MetadataOwed, SuppliedMetadataKept
<1>4. QED
  BY <1>1, <1>2, <1>3, RequestsProgress, PTL DEF DeploymentsSpec

=============================================================================
