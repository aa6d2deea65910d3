--------------------------- MODULE WorkspaceProofs ---------------------------
(***************************************************************************)
(* Invites admit whom they address, once, managers manage, and preferences *)
(* hold, for any users, roles, requests and notices.                       *)
(***************************************************************************)
EXTENDS Notifications, RequestStepsProofs

-----------------------------------------------------------------------------
(* The plans *)

PartKind == DOMAIN OrgPlan \cup DOMAIN InboxPlan
PlanFor(kind) == IF kind \in DOMAIN OrgPlan THEN OrgPlan[kind] ELSE InboxPlan[kind]
Statement == UNION {{PlanFor(kind)[i] : i \in DOMAIN PlanFor(kind)} : kind \in PartKind}

\* Statements that may stop a request, and those after which nothing does.
Stopping == {"permit", "load", "is_member", "find", "claim", "join"}
Lasting == {"void", "issue", "join", "delete", "materialize", "preferences"}

\* Which kinds of request execute a statement, and in which order.
Planned(kind, plan) ==
    /\ plan \in Seq(Statement) /\ plan # <<>> /\ Distinct(plan)
    /\ Has(plan, "permit") <=> kind \in Managing
    /\ Has(plan, "load") <=> kind \in Managing
    /\ kind \in Managing => Before(plan, "permit", "load")
    /\ Has(plan, "is_member") => kind \in {"invite", "accept"}
    /\ Has(plan, "void") <=> kind = "invite"
    /\ Has(plan, "issue") <=> kind = "invite"
    /\ kind = "invite" => Before(plan, "void", "issue")
    /\ Has(plan, "list") => kind = "pending"
    /\ Has(plan, "find") \/ Has(plan, "delete") \/ Has(plan, "audit") => kind = "remove"
    /\ Has(plan, "claim") <=> kind = "accept"
    /\ Has(plan, "join") <=> kind = "accept"
    /\ Has(plan, "use") => kind = "accept"
    /\ kind = "accept" => Before(plan, "claim", "join") /\ Before(plan, "claim", "use")
    /\ Has(plan, "audience") <=> kind = "notify"
    /\ Has(plan, "preferences") <=> kind = "notify"
    /\ Has(plan, "deliver") <=> kind = "notify"
    /\ kind = "notify" =>
           Before(plan, "audience", "deliver") /\ Before(plan, "preferences", "deliver")
    /\ Has(plan, "materialize") <=> kind = "patch"
    /\ Has(plan, "save") <=> kind = "patch"
    /\ kind = "patch" => Before(plan, "materialize", "save")
    /\ Has(plan, "mark") => kind = "read"
    /\ \A s \in Lasting, t \in Stopping : ~ Before(plan, s, t)

\* The endpoints and the notices execute their statements as planned.
LEMMA PlansPlanned == \A kind \in PartKind : Planned(kind, PlanFor(kind))
<1>1. Planned("invite", InviteMember)
  <2>1. Len(InviteMember) = 5 /\ DOMAIN InviteMember = 1..5
    BY DEF InviteMember
  <2>2. InviteMember[1] = "permit" /\ InviteMember[2] = "load" /\ InviteMember[3] = "is_member" /\ InviteMember[4] = "void" /\ InviteMember[5] = "issue"
    BY DEF InviteMember
  <2>3. PlanFor("invite") = InviteMember /\ "invite" \in PartKind
    BY DEF PlanFor, OrgPlan, InboxPlan, PartKind
  <2>4. \A i \in 1..5 : i = 1 \/ i = 2 \/ i = 3 \/ i = 4 \/ i = 5
    OBVIOUS
  <2>5. \A i \in 1..5 : InviteMember[i] \in Statement
    BY <2>1, <2>3 DEF Statement
  <2>6. InviteMember \in Seq(Statement) /\ InviteMember # <<>>
    BY <2>1, <2>5, IsASeq DEF InviteMember
  <2>7. Distinct(InviteMember)
    BY <2>1, <2>2, <2>4 DEF Distinct
  <2>8. QED
    BY <2>1, <2>2, <2>4, <2>6, <2>7 DEF Planned, Has, Before, Managing, Stopping, Lasting
<1>2. Planned("pending", PendingInvites)
  <2>1. Len(PendingInvites) = 3 /\ DOMAIN PendingInvites = 1..3
    BY DEF PendingInvites
  <2>2. PendingInvites[1] = "permit" /\ PendingInvites[2] = "load" /\ PendingInvites[3] = "list"
    BY DEF PendingInvites
  <2>3. PlanFor("pending") = PendingInvites /\ "pending" \in PartKind
    BY DEF PlanFor, OrgPlan, InboxPlan, PartKind
  <2>4. \A i \in 1..3 : i = 1 \/ i = 2 \/ i = 3
    OBVIOUS
  <2>5. \A i \in 1..3 : PendingInvites[i] \in Statement
    BY <2>1, <2>3 DEF Statement
  <2>6. PendingInvites \in Seq(Statement) /\ PendingInvites # <<>>
    BY <2>1, <2>5, IsASeq DEF PendingInvites
  <2>7. Distinct(PendingInvites)
    BY <2>1, <2>2, <2>4 DEF Distinct
  <2>8. QED
    BY <2>1, <2>2, <2>4, <2>6, <2>7 DEF Planned, Has, Before, Managing, Stopping, Lasting
<1>3. Planned("remove", RemoveMember)
  <2>1. Len(RemoveMember) = 5 /\ DOMAIN RemoveMember = 1..5
    BY DEF RemoveMember
  <2>2. RemoveMember[1] = "permit" /\ RemoveMember[2] = "load" /\ RemoveMember[3] = "find" /\ RemoveMember[4] = "delete" /\ RemoveMember[5] = "audit"
    BY DEF RemoveMember
  <2>3. PlanFor("remove") = RemoveMember /\ "remove" \in PartKind
    BY DEF PlanFor, OrgPlan, InboxPlan, PartKind
  <2>4. \A i \in 1..5 : i = 1 \/ i = 2 \/ i = 3 \/ i = 4 \/ i = 5
    OBVIOUS
  <2>5. \A i \in 1..5 : RemoveMember[i] \in Statement
    BY <2>1, <2>3 DEF Statement
  <2>6. RemoveMember \in Seq(Statement) /\ RemoveMember # <<>>
    BY <2>1, <2>5, IsASeq DEF RemoveMember
  <2>7. Distinct(RemoveMember)
    BY <2>1, <2>2, <2>4 DEF Distinct
  <2>8. QED
    BY <2>1, <2>2, <2>4, <2>6, <2>7 DEF Planned, Has, Before, Managing, Stopping, Lasting
<1>4. Planned("accept", AcceptInvite)
  <2>1. Len(AcceptInvite) = 4 /\ DOMAIN AcceptInvite = 1..4
    BY DEF AcceptInvite
  <2>2. AcceptInvite[1] = "claim" /\ AcceptInvite[2] = "is_member" /\ AcceptInvite[3] = "join" /\ AcceptInvite[4] = "use"
    BY DEF AcceptInvite
  <2>3. PlanFor("accept") = AcceptInvite /\ "accept" \in PartKind
    BY DEF PlanFor, OrgPlan, InboxPlan, PartKind
  <2>4. \A i \in 1..4 : i = 1 \/ i = 2 \/ i = 3 \/ i = 4
    OBVIOUS
  <2>5. \A i \in 1..4 : AcceptInvite[i] \in Statement
    BY <2>1, <2>3 DEF Statement
  <2>6. AcceptInvite \in Seq(Statement) /\ AcceptInvite # <<>>
    BY <2>1, <2>5, IsASeq DEF AcceptInvite
  <2>7. Distinct(AcceptInvite)
    BY <2>1, <2>2, <2>4 DEF Distinct
  <2>8. QED
    BY <2>1, <2>2, <2>4, <2>6, <2>7 DEF Planned, Has, Before, Managing, Stopping, Lasting
<1>5. Planned("notify", Notify)
  <2>1. Len(Notify) = 3 /\ DOMAIN Notify = 1..3
    BY DEF Notify
  <2>2. Notify[1] = "audience" /\ Notify[2] = "preferences" /\ Notify[3] = "deliver"
    BY DEF Notify
  <2>3. PlanFor("notify") = Notify /\ "notify" \in PartKind
    BY DEF PlanFor, OrgPlan, InboxPlan, PartKind
  <2>4. \A i \in 1..3 : i = 1 \/ i = 2 \/ i = 3
    OBVIOUS
  <2>5. \A i \in 1..3 : Notify[i] \in Statement
    BY <2>1, <2>3 DEF Statement
  <2>6. Notify \in Seq(Statement) /\ Notify # <<>>
    BY <2>1, <2>5, IsASeq DEF Notify
  <2>7. Distinct(Notify)
    BY <2>1, <2>2, <2>4 DEF Distinct
  <2>8. QED
    BY <2>1, <2>2, <2>4, <2>6, <2>7 DEF Planned, Has, Before, Managing, Stopping, Lasting
<1>6. Planned("patch", PatchPreferences)
  <2>1. Len(PatchPreferences) = 2 /\ DOMAIN PatchPreferences = 1..2
    BY DEF PatchPreferences
  <2>2. PatchPreferences[1] = "materialize" /\ PatchPreferences[2] = "save"
    BY DEF PatchPreferences
  <2>3. PlanFor("patch") = PatchPreferences /\ "patch" \in PartKind
    BY DEF PlanFor, OrgPlan, InboxPlan, PartKind
  <2>4. \A i \in 1..2 : i = 1 \/ i = 2
    OBVIOUS
  <2>5. \A i \in 1..2 : PatchPreferences[i] \in Statement
    BY <2>1, <2>3 DEF Statement
  <2>6. PatchPreferences \in Seq(Statement) /\ PatchPreferences # <<>>
    BY <2>1, <2>5, IsASeq DEF PatchPreferences
  <2>7. Distinct(PatchPreferences)
    BY <2>1, <2>2, <2>4 DEF Distinct
  <2>8. QED
    BY <2>1, <2>2, <2>4, <2>6, <2>7 DEF Planned, Has, Before, Managing, Stopping, Lasting
<1>7. Planned("read", ReadNotices)
  <2>1. Len(ReadNotices) = 1 /\ DOMAIN ReadNotices = 1..1
    BY DEF ReadNotices
  <2>2. ReadNotices[1] = "mark"
    BY DEF ReadNotices
  <2>3. PlanFor("read") = ReadNotices /\ "read" \in PartKind
    BY DEF PlanFor, OrgPlan, InboxPlan, PartKind
  <2>4. \A i \in 1..1 : i = 1
    OBVIOUS
  <2>5. \A i \in 1..1 : ReadNotices[i] \in Statement
    BY <2>1, <2>3 DEF Statement
  <2>6. ReadNotices \in Seq(Statement) /\ ReadNotices # <<>>
    BY <2>1, <2>5, IsASeq DEF ReadNotices
  <2>7. Distinct(ReadNotices)
    BY <2>1, <2>2, <2>4 DEF Distinct
  <2>8. QED
    BY <2>1, <2>2, <2>4, <2>6, <2>7 DEF Planned, Has, Before, Managing, Stopping, Lasting
<1>8. QED
  BY <1>1, <1>2, <1>3, <1>4, <1>5, <1>6, <1>7 DEF PlanFor, OrgPlan, InboxPlan, PartKind

-----------------------------------------------------------------------------
(* Requests on their plans *)

Preference == [stored : BOOLEAN, on : SUBSET Toggle]
NoticeRow == {"none", "unread", "read"}

Locals == [kind : PartKind, state : RequestState, todo : Seq(Statement), before : SUBSET Request,
           by : User \cup {Nobody}, user : User \cup {Nobody}, given : Role, invite : Origin,
           role : Role, origin : Origin, shown : SUBSET Origin, notice : NoticeKind,
           assignee : User \cup {Nobody}, audience : SUBSET (User \cup {Nobody}),
           prefs : [User -> Preference], on : SUBSET Toggle, off : SUBSET Toggle,
           copy : SUBSET Toggle, ids : SUBSET Request]

TypeOK == OrganizationsTypeOK /\ NotificationsTypeOK /\ req \in [Request -> Locals]

\* A request has the end of its plan left; what it was given fits its kind.
OnPlan(r) ==
    /\ Remaining(req[r].todo, PlanFor(req[r].kind))
    /\ req[r].state = "idle" => req[r].todo = <<>> /\ req[r].kind = "pending"
    /\ req[r].state \in {"running", "refused", "error"} => req[r].todo # <<>>
    /\ req[r].state # "idle" /\ req[r].kind # "notify" => req[r].by \in User
    /\ req[r].state = "ok" => req[r].todo = <<>>
    /\ req[r].on \cap req[r].off = {}
    /\ req[r].kind = "accept" => req[r].user = req[r].by
    /\ req[r].kind = "invite" => req[r].given \in Invitable
    /\ req[r].kind \in {"invite", "accept", "remove"} => req[r].user \in User
    /\ \A q \in req[r].before : req[q].state \in Ended

Progress == TypeOK /\ \A r \in Request : OnPlan(r)

\* A request comes with its arguments.
Comes(r) ==
    /\ req[r].state = "idle" /\ req' \in [Request -> Locals]
    /\ \A q \in Request \ {r} : req'[q] = req[q]
    /\ req'[r].state = "running" /\ req'[r].todo = PlanFor(req'[r].kind)
    /\ req'[r].on \cap req'[r].off = {}
    /\ req'[r].kind # "notify" => req'[r].by \in User
    /\ req'[r].kind = "accept" => req'[r].user = req'[r].by
    /\ req'[r].kind = "invite" => req'[r].given \in Invitable
    /\ req'[r].kind \in {"invite", "accept", "remove"} => req'[r].user \in User
    /\ \A q \in req'[r].before : req[q].state \in Ended
    /\ UNCHANGED <<orgVars, inboxVars>>

\* l is m but for what a statement reads and for its progress.
SameArguments(l, m) ==
    /\ l.kind = m.kind /\ l.before = m.before /\ l.by = m.by /\ l.user = m.user
    /\ l.invite = m.invite /\ l.notice = m.notice /\ l.assignee = m.assignee
    /\ l.on = m.on /\ l.off = m.off /\ l.ids = m.ids

\* l has read the same as m, but for what statement s reads.
SameBut(l, m, s) ==
    /\ l.role # m.role => s = "permit"
    /\ l.origin # m.origin => s = "find"
    /\ l.given # m.given => s = "claim"
    /\ l.audience # m.audience => s \in {"audience", "deliver"}
    /\ l.prefs # m.prefs => s \in {"preferences", "deliver"}
    /\ l.copy # m.copy => s \in {"materialize", "save"}

\* r executes the statement it is at, or stops at it.
Moves(r) ==
    /\ req[r].state = "running" /\ req[r].todo # <<>> /\ req' \in [Request -> Locals]
    /\ \A q \in Request \ {r} : req'[q] = req[q]
    /\ SameArguments(req'[r], req[r])
    /\ SameBut(req'[r], req[r], Head(req[r].todo))
    /\ \/ /\ req'[r].todo = Tail(req[r].todo)
          /\ req'[r].state = IF Len(req[r].todo) = 1 THEN "ok" ELSE "running"
       \/ /\ req'[r].todo = req[r].todo
          /\ \/ req'[r].state = "refused"
                /\ Head(req[r].todo) \in {"permit", "load", "is_member", "find", "claim"}
             \/ req'[r].state = "error" /\ Head(req[r].todo) = "join"

\* A statement continues its request with locals that it has read.
LEMMA ContinueMoves ==
    ASSUME TypeOK, NEW r \in Request, NEW s, At(r, s), NEW l \in Locals, Continue(r, l),
           SameArguments(l, req[r]), SameBut(l, req[r], s),
           l.state = req[r].state, l.todo = req[r].todo
    PROVE  /\ Moves(r) /\ req'[r].todo = Tail(req[r].todo) /\ Head(req[r].todo) = s
           /\ req'[r].role = l.role /\ req'[r].origin = l.origin /\ req'[r].given = l.given
           /\ req'[r].audience = l.audience /\ req'[r].prefs = l.prefs
           /\ req'[r].copy = l.copy
<1> DEFINE l2 == [l EXCEPT !.todo = Tail(@), !.state = IF Len(l.todo) = 1 THEN "ok" ELSE @]
<1>1. req \in [Request -> Locals] /\ req[r] \in Locals /\ req[r].state = "running"
      /\ req[r].todo # <<>> /\ Head(req[r].todo) = s /\ req[r].todo \in Seq(Statement)
  BY DEF TypeOK, At, Locals
<1>2. Tail(req[r].todo) \in Seq(Statement)
  BY <1>1, TailOf
<1>3. l2.todo = Tail(req[r].todo)
      /\ l2.state = (IF Len(req[r].todo) = 1 THEN "ok" ELSE "running")
      /\ SameArguments(l2, l) /\ l2.role = l.role /\ l2.origin = l.origin /\ l2.given = l.given
      /\ l2.audience = l.audience /\ l2.prefs = l.prefs /\ l2.copy = l.copy
  BY <1>1 DEF Locals, SameArguments
<1>4. l2 \in Locals
  <2>1. \A m \in Locals, todo \in Seq(Statement), state \in RequestState :
            [m EXCEPT !.todo = todo, !.state = state] \in Locals
    BY DEF Locals
  <2>2. (IF Len(l.todo) = 1 THEN "ok" ELSE l.state) \in RequestState
    BY DEF Locals, RequestState
  <2>3. QED
    BY <1>1, <1>2, <2>1, <2>2
<1>5. req' = [req EXCEPT ![r] = l2]
  BY DEF Continue
<1> HIDE DEF l2
<1>6. req'[r] = l2 /\ req' \in [Request -> Locals] /\ \A q \in Request \ {r} : req'[q] = req[q]
  BY <1>1, <1>4, <1>5
<1>7. SameArguments(l2, req[r]) /\ SameBut(l2, req[r], s)
  BY <1>3 DEF SameArguments, SameBut
<1>8. QED
  BY <1>1, <1>3, <1>6, <1>7 DEF Moves

\* A statement stops its request.
LEMMA EndMoves ==
    ASSUME TypeOK, NEW r \in Request, NEW s, At(r, s), NEW state, End(r, state),
           \/ state = "refused" /\ s \in {"permit", "load", "is_member", "find", "claim"}
           \/ state = "error" /\ s = "join"
    PROVE  Moves(r) /\ req'[r].todo = req[r].todo /\ req'[r].state = state
<1>1. req \in [Request -> Locals] /\ req[r] \in Locals /\ req[r].state = "running"
      /\ req[r].todo # <<>> /\ Head(req[r].todo) = s
  BY DEF TypeOK, At
<1>2. state \in RequestState
  BY DEF RequestState
<1> DEFINE l2 == [req[r] EXCEPT !.state = state]
<1>3. l2 \in Locals /\ l2.state = state /\ l2.todo = req[r].todo /\ SameArguments(l2, req[r])
      /\ SameBut(l2, req[r], s)
  BY <1>1, <1>2 DEF Locals, SameArguments, SameBut
<1>4. req' = [req EXCEPT ![r] = l2]
  BY DEF End
<1> HIDE DEF l2
<1>5. req'[r] = l2 /\ req' \in [Request -> Locals] /\ \A q \in Request \ {r} : req'[q] = req[q]
  BY <1>1, <1>3, <1>4
<1>6. QED
  BY <1>1, <1>3, <1>5 DEF Moves

-----------------------------------------------------------------------------
(* What each statement does to its request *)

Continues(r, s) == At(r, s) /\ Moves(r) /\ req'[r].todo = Tail(req[r].todo)
Stops(r, s, state) ==
    At(r, s) /\ Moves(r) /\ req'[r].todo = req[r].todo /\ req'[r].state = state

\* A statement that reads nothing into its locals continues its request.
LEMMA PlainStatement ==
    ASSUME TypeOK, NEW r \in Request, NEW s, At(r, s), Continue(r, req[r])
    PROVE  Continues(r, s)
<1>1. req[r] \in Locals /\ SameArguments(req[r], req[r]) /\ SameBut(req[r], req[r], s)
  BY DEF TypeOK, SameArguments, SameBut
<1>2. QED
  BY <1>1, ContinueMoves DEF Continues

\* A request that is at a statement is of a kind that executes it.
LEMMA AtPlan ==
    ASSUME Progress, NEW r \in Request, NEW s, At(r, s)
    PROVE  /\ req[r].kind \in PartKind /\ req[r] \in Locals /\ req[r].todo \in Seq(Statement)
           /\ Planned(req[r].kind, PlanFor(req[r].kind)) /\ Has(PlanFor(req[r].kind), s)
           /\ Has(req[r].todo, s)
           /\ \A t : Has(Tail(req[r].todo), t) <=> Has(req[r].todo, t) /\ t # s
           /\ \A t : Has(PlanFor(req[r].kind), t) =>
                 (~ Has(req[r].todo, t) <=> Before(PlanFor(req[r].kind), t, s))
<1> DEFINE todo == req[r].todo
           plan == PlanFor(req[r].kind)
<1>1. req[r] \in Locals /\ OnPlan(r)
  BY DEF Progress, TypeOK
<1>2. req[r].kind \in PartKind
  BY <1>1 DEF Locals
<1>3. Planned(req[r].kind, plan)
  BY <1>2, PlansPlanned
<1>4. todo \in Seq(Statement) /\ plan \in Seq(Statement) /\ Remaining(todo, plan)
      /\ Distinct(plan) /\ todo # <<>> /\ Head(todo) = s
  BY <1>1, <1>3 DEF Locals, OnPlan, Planned, At
<1> HIDE DEF todo, plan
<1>5. Len(todo) \in Nat \ {0} /\ Len(plan) \in Nat /\ Head(todo) = todo[1]
      /\ todo[1] = plan[Len(plan) - Len(todo) + 1] /\ Len(todo) <= Len(plan)
      /\ DOMAIN plan = 1..Len(plan) /\ DOMAIN todo = 1..Len(todo)
  BY <1>4, TailOf DEF Remaining
<1>6. Has(plan, s) /\ Has(todo, s)
  BY <1>4, <1>5 DEF Has
<1>7. ASSUME NEW t PROVE Has(Tail(todo), t) <=> Has(todo, t) /\ t # s
  BY <1>4, LeftAfter
<1>8. ASSUME NEW t, Has(plan, t) PROVE ~ Has(todo, t) <=> Before(plan, t, s)
  BY <1>4, <1>8, LeftAt
<1>9. QED
  BY <1>1, <1>2, <1>3, <1>4, <1>6, <1>7, <1>8 DEF todo, plan

\* The role that the permission class saw is the role the user had.
LEMMA PermitMoves ==
    ASSUME Progress, NEW r \in Request, Permit(r)
    PROVE  \/ Continues(r, "permit") /\ Permitted(req[r].by) /\ req'[r].role = members[req[r].by].role
           \/ Stops(r, "permit", "refused")
<1> DEFINE l == [req[r] EXCEPT !.role = members[req[r].by].role]
<1>1. TypeOK /\ OnPlan(r) /\ req[r] \in Locals /\ At(r, "permit")
  BY DEF Progress, TypeOK, Permit
<1>2. \/ Permitted(req[r].by) /\ Continue(r, l)
      \/ End(r, "refused")
  BY DEF Permit
<1>3. ASSUME Continue(r, l) PROVE Continues(r, "permit") /\ req'[r].role = members[req[r].by].role
  <2>1. members[req[r].by].role \in Role
    BY <1>1, AtPlan DEF OnPlan, Planned, Managing, At, Progress, TypeOK, OrganizationsTypeOK
  <2>2. l \in Locals
    BY <1>1, <2>1 DEF Locals
  <2>3. l.role = members[req[r].by].role /\ l.state = req[r].state /\ l.todo = req[r].todo
        /\ SameArguments(l, req[r]) /\ SameBut(l, req[r], "permit")
    BY <1>1 DEF Locals, SameArguments, SameBut
  <2> HIDE DEF l
  <2>4. QED
    BY <1>1, <1>3, <2>2, <2>3, ContinueMoves DEF Continues
<1>4. QED
  BY <1>1, <1>2, <1>3, EndMoves DEF Stops

\* The row to remove is the row the user had.
LEMMA FindMoves ==
    ASSUME Progress, NEW r \in Request, FindMember(r)
    PROVE  \/ Continues(r, "find") /\ Member(req[r].user) /\ req'[r].origin = members[req[r].user].origin
           \/ Stops(r, "find", "refused")
<1> DEFINE l == [req[r] EXCEPT !.origin = members[req[r].user].origin]
<1>1. TypeOK /\ OnPlan(r) /\ req[r] \in Locals /\ At(r, "find")
  BY DEF Progress, TypeOK, FindMember
<1>2. \/ Member(req[r].user) /\ Continue(r, l)
      \/ End(r, "refused")
  BY DEF FindMember
<1>3. ASSUME Continue(r, l) PROVE Continues(r, "find") /\ req'[r].origin = members[req[r].user].origin
  <2>1. members[req[r].user].origin \in Origin
    BY <1>1, AtPlan DEF OnPlan, Planned, At, Progress, TypeOK, OrganizationsTypeOK
  <2>2. l \in Locals
    BY <1>1, <2>1 DEF Locals
  <2>3. l.origin = members[req[r].user].origin /\ l.state = req[r].state /\ l.todo = req[r].todo
        /\ SameArguments(l, req[r]) /\ SameBut(l, req[r], "find")
    BY <1>1 DEF Locals, SameArguments, SameBut
  <2> HIDE DEF l
  <2>4. QED
    BY <1>1, <1>3, <2>2, <2>3, ContinueMoves DEF Continues
<1>4. QED
  BY <1>1, <1>2, <1>3, EndMoves DEF Stops

\* A claimed invite is usable and addressed to its claimer, who takes its role.
LEMMA ClaimMoves ==
    ASSUME Progress, NEW r \in Request, ClaimInvite(r)
    PROVE  \/ Continues(r, "claim") /\ Claimable(r, req[r].invite) /\ req'[r].given = invites[req[r].invite].role
           \/ Stops(r, "claim", "refused")
<1> DEFINE l == [req[r] EXCEPT !.given = invites[req[r].invite].role]
<1>1. TypeOK /\ OnPlan(r) /\ req[r] \in Locals /\ At(r, "claim")
  BY DEF Progress, TypeOK, ClaimInvite
<1>2. \/ Claimable(r, req[r].invite) /\ Continue(r, l)
      \/ End(r, "refused")
  BY DEF ClaimInvite
<1>3. ASSUME Continue(r, l) PROVE Continues(r, "claim") /\ req'[r].given = invites[req[r].invite].role
  <2>1. invites[req[r].invite].role \in Role
    BY <1>1 DEF Locals, Progress, TypeOK, OrganizationsTypeOK
  <2>2. l \in Locals
    BY <1>1, <2>1 DEF Locals
  <2>3. l.given = invites[req[r].invite].role /\ l.state = req[r].state /\ l.todo = req[r].todo
        /\ SameArguments(l, req[r]) /\ SameBut(l, req[r], "claim")
    BY <1>1 DEF Locals, SameArguments, SameBut
  <2> HIDE DEF l
  <2>4. QED
    BY <1>1, <1>3, <2>2, <2>3, ContinueMoves DEF Continues
<1>4. QED
  BY <1>1, <1>2, <1>3, EndMoves DEF Stops

\* A patch copies the row it loads.
LEMMA MaterializeMoves ==
    ASSUME Progress, NEW r \in Request, Materialize(r)
    PROVE  Continues(r, "materialize") /\ req'[r].copy = preferences[req[r].by].on
<1> DEFINE l == [req[r] EXCEPT !.copy = preferences[req[r].by].on]
<1>1. TypeOK /\ OnPlan(r) /\ req[r] \in Locals /\ At(r, "materialize")
  BY DEF Progress, TypeOK, Materialize
<1>2. Continue(r, l)
  BY DEF Materialize
<1>3. ASSUME Continue(r, l) PROVE Continues(r, "materialize") /\ req'[r].copy = preferences[req[r].by].on
  <2>1. preferences[req[r].by].on \in SUBSET Toggle
    BY <1>1, AtPlan DEF OnPlan, Planned, At, Progress, TypeOK, NotificationsTypeOK, Preference
  <2>2. l \in Locals
    BY <1>1, <2>1 DEF Locals
  <2>3. l.copy = preferences[req[r].by].on /\ l.state = req[r].state /\ l.todo = req[r].todo
        /\ SameArguments(l, req[r]) /\ SameBut(l, req[r], "materialize")
    BY <1>1 DEF Locals, SameArguments, SameBut
  <2> HIDE DEF l
  <2>4. QED
    BY <1>1, <1>3, <2>2, <2>3, ContinueMoves DEF Continues
<1>4. QED
  BY <1>1, <1>2, <1>3

\* A notice reads the preferences that are stored.
LEMMA PreferencesMoves ==
    ASSUME Progress, NEW r \in Request, ReadPreferences(r)
    PROVE  Continues(r, "preferences") /\ req'[r].prefs = preferences
<1> DEFINE l == [req[r] EXCEPT !.prefs = preferences]
<1>1. TypeOK /\ OnPlan(r) /\ req[r] \in Locals /\ At(r, "preferences")
  BY DEF Progress, TypeOK, ReadPreferences
<1>2. Continue(r, l)
  BY DEF ReadPreferences
<1>3. ASSUME Continue(r, l) PROVE Continues(r, "preferences") /\ req'[r].prefs = preferences
  <2>1. preferences \in [User -> Preference]
    BY <1>1 DEF Progress, TypeOK, NotificationsTypeOK, Preference
  <2>2. l \in Locals
    BY <1>1, <2>1 DEF Locals
  <2>3. l.prefs = preferences /\ l.state = req[r].state /\ l.todo = req[r].todo
        /\ SameArguments(l, req[r]) /\ SameBut(l, req[r], "preferences")
    BY <1>1 DEF Locals, SameArguments, SameBut
  <2> HIDE DEF l
  <2>4. QED
    BY <1>1, <1>3, <2>2, <2>3, ContinueMoves DEF Continues
<1>4. QED
  BY <1>1, <1>2, <1>3

\* A notice of an assignment is for the assignee.
LEMMA AudienceMoves ==
    ASSUME Progress, NEW r \in Request, ReadAudience(r)
    PROVE  Continues(r, "audience") /\ req'[r].audience = (IF req[r].notice = "incident_assigned" THEN {req[r].assignee} ELSE {u \in User : Member(u)})
<1> DEFINE l == [req[r] EXCEPT !.audience = (IF req[r].notice = "incident_assigned" THEN {req[r].assignee} ELSE {u \in User : Member(u)})]
<1>1. TypeOK /\ OnPlan(r) /\ req[r] \in Locals /\ At(r, "audience")
  BY DEF Progress, TypeOK, ReadAudience
<1>2. Continue(r, l)
  BY DEF ReadAudience
<1>3. ASSUME Continue(r, l) PROVE Continues(r, "audience") /\ req'[r].audience = (IF req[r].notice = "incident_assigned" THEN {req[r].assignee} ELSE {u \in User : Member(u)})
  <2>1. (IF req[r].notice = "incident_assigned" THEN {req[r].assignee} ELSE {u \in User : Member(u)}) \in SUBSET (User \cup {Nobody})
    BY <1>1 DEF Locals
  <2>2. l \in Locals
    BY <1>1, <2>1 DEF Locals
  <2>3. l.audience = (IF req[r].notice = "incident_assigned" THEN {req[r].assignee} ELSE {u \in User : Member(u)}) /\ l.state = req[r].state /\ l.todo = req[r].todo
        /\ SameArguments(l, req[r]) /\ SameBut(l, req[r], "audience")
    BY <1>1 DEF Locals, SameArguments, SameBut
  <2> HIDE DEF l
  <2>4. QED
    BY <1>1, <1>3, <2>2, <2>3, ContinueMoves DEF Continues
<1>4. QED
  BY <1>1, <1>2, <1>3

\* A patch forgets its copy when it is saved.
LEMMA SaveMoves ==
    ASSUME Progress, NEW r \in Request, SavePreferences(r)
    PROVE  Continues(r, "save") /\ req'[r].copy = {}
<1> DEFINE l == [req[r] EXCEPT !.copy = {}]
<1>1. TypeOK /\ OnPlan(r) /\ req[r] \in Locals /\ At(r, "save")
  BY DEF Progress, TypeOK, SavePreferences
<1>2. Continue(r, l)
  BY DEF SavePreferences
<1>3. ASSUME Continue(r, l) PROVE Continues(r, "save") /\ req'[r].copy = {}
  <2>1. {} \in SUBSET Toggle
    BY <1>1
  <2>2. l \in Locals
    BY <1>1, <2>1 DEF Locals
  <2>3. l.copy = {} /\ l.state = req[r].state /\ l.todo = req[r].todo
        /\ SameArguments(l, req[r]) /\ SameBut(l, req[r], "save")
    BY <1>1 DEF Locals, SameArguments, SameBut
  <2> HIDE DEF l
  <2>4. QED
    BY <1>1, <1>3, <2>2, <2>3, ContinueMoves DEF Continues
<1>4. QED
  BY <1>1, <1>2, <1>3

\* A pending list shows invites.
LEMMA ListMoves ==
    ASSUME Progress, NEW r \in Request, ListPending(r)
    PROVE  Continues(r, "list")
<1>1. TypeOK /\ req[r] \in Locals /\ At(r, "list")
  BY DEF Progress, TypeOK, ListPending
<1>2. PICK shown \in SUBSET {i \in Origin : Usable(i)} :
          Continue(r, [req[r] EXCEPT !.shown = shown])
  BY DEF ListPending
<1> DEFINE l == [req[r] EXCEPT !.shown = shown]
<1>3. l \in Locals
  BY <1>1 DEF Locals
<1>4. l.state = req[r].state /\ l.todo = req[r].todo
      /\ SameArguments(l, req[r]) /\ SameBut(l, req[r], "list")
  BY <1>1 DEF Locals, SameArguments, SameBut
<1>5. Continue(r, l)
  BY <1>2
<1> HIDE DEF l
<1>6. QED
  BY <1>1, <1>3, <1>4, <1>5, ContinueMoves DEF Continues

\* A delivered notice forgets what it read.
LEMMA DeliverMoves ==
    ASSUME Progress, NEW r \in Request, Deliver(r)
    PROVE  Continues(r, "deliver")
<1> DEFINE l == [req[r] EXCEPT !.audience = {}, !.prefs = NoPrefs]
<1>1. TypeOK /\ req[r] \in Locals /\ At(r, "deliver") /\ Continue(r, l)
  BY DEF Progress, TypeOK, Deliver
<1>2. NoPrefs \in [User -> Preference]
  BY DEF NoPrefs, NoPreference, Preference, DefaultOn
<1>3. l \in Locals
  BY <1>1, <1>2 DEF Locals
<1>4. l.state = req[r].state /\ l.todo = req[r].todo
      /\ SameArguments(l, req[r]) /\ SameBut(l, req[r], "deliver")
  BY <1>1 DEF Locals, SameArguments, SameBut
<1> HIDE DEF l
<1>5. QED
  BY <1>1, <1>3, <1>4, ContinueMoves DEF Continues

\* The other statements read nothing into the locals of their request.
LEMMA OtherMoves ==
    ASSUME Progress, NEW r \in Request
    PROVE  /\ LoadOrganization(r) =>
                 \/ Continues(r, "load") /\ Member(req[r].by)
                 \/ Stops(r, "load", "refused")
           /\ IsMember(r) => Continues(r, "is_member") \/ Stops(r, "is_member", "refused")
           /\ VoidPending(r) => Continues(r, "void")
           /\ IssueInvite(r) => Continues(r, "issue")
           /\ DeleteMember(r) => Continues(r, "delete")
           /\ RecordRemoval(r) => Continues(r, "audit")
           /\ Join(r) =>
                 \/ Continues(r, "join") /\ ~ Member(req[r].user)
                    /\ members' = [members EXCEPT ![req[r].user] = [role |-> req[r].given, origin |-> r]]
                 \/ Stops(r, "join", "error") /\ UNCHANGED members
           /\ UseInvite(r) => Continues(r, "use")
           /\ MarkRead(r) => Continues(r, "mark")
<1>1. TypeOK
  BY DEF Progress
<1>2. ASSUME NEW s, At(r, s), Continue(r, req[r]) PROVE Continues(r, s)
  BY <1>1, <1>2, PlainStatement
<1>3. ASSUME NEW s \in {"load", "is_member"}, At(r, s), End(r, "refused") PROVE Stops(r, s, "refused")
  BY <1>1, <1>3, EndMoves DEF Stops
<1>4. ASSUME At(r, "join"), End(r, "error") PROVE Stops(r, "join", "error")
  BY <1>1, <1>4, EndMoves DEF Stops
<1>5. Join(r) =>
          \/ Continues(r, "join") /\ ~ Member(req[r].user)
             /\ members' = [members EXCEPT ![req[r].user] = [role |-> req[r].given, origin |-> r]]
          \/ Stops(r, "join", "error") /\ UNCHANGED members
  BY <1>2, <1>4 DEF Join
<1>6. QED
  BY <1>2, <1>3, <1>5 DEF LoadOrganization, IsMember, VoidPending, IssueInvite, DeleteMember,
     RecordRemoval, UseInvite, MarkRead

\* Every statement moves its request.
LEMMA StatementMoves ==
    ASSUME Progress, NEW r \in Request, OrgStatement(r) \/ InboxStatement(r)
    PROVE  Moves(r)
BY PermitMoves, FindMoves, ClaimMoves, MaterializeMoves, PreferencesMoves, AudienceMoves, SaveMoves,
   ListMoves, DeliverMoves, OtherMoves DEF OrgStatement, InboxStatement, Continues, Stops

-----------------------------------------------------------------------------
(* Arrivals *)

\* A request arrives with the arguments that it was given.
LEMMA ArrivesComes ==
    ASSUME Progress, NEW r \in Request, NEW l \in Locals, NEW kind, NEW plans,
           UNCHANGED <<orgVars, inboxVars>>, Arrives(r, kind, plans, l),
           \/ kind \in DOMAIN OrgPlan /\ plans = OrgPlan
           \/ kind \in DOMAIN InboxPlan /\ plans = InboxPlan,
           l.on \cap l.off = {},
           kind # "notify" => l.by \in User,
           kind = "accept" => l.user = l.by,
           kind = "invite" => l.given \in Invitable,
           kind \in {"invite", "accept", "remove"} => l.user \in User
    PROVE  Comes(r)
<1> DEFINE before == {q \in Request : req[q].state \in Ended /\ req[q].kind \in DOMAIN plans}
           l2 == [l EXCEPT !.kind = kind, !.state = "running", !.todo = plans[kind],
                           !.before = before]
<1>1. req \in [Request -> Locals] /\ req[r].state = "idle"
  BY DEF Progress, TypeOK, Arrives
<1>2. kind \in PartKind /\ plans[kind] = PlanFor(kind)
  <2>1. \A k \in DOMAIN InboxPlan : k \notin DOMAIN OrgPlan
    BY DEF InboxPlan, OrgPlan
  <2>2. QED
    BY <2>1 DEF PartKind, PlanFor
<1>3. PlanFor(kind) \in Seq(Statement)
  BY <1>2, PlansPlanned DEF Planned
<1>4. l2.kind = kind /\ l2.state = "running" /\ l2.todo = PlanFor(kind) /\ l2.before = before
      /\ l2.on = l.on /\ l2.off = l.off /\ l2.by = l.by /\ l2.user = l.user /\ l2.given = l.given
  BY <1>2 DEF Locals
<1>5. l2 \in Locals
  <2>1. "running" \in RequestState /\ before \in SUBSET Request
    BY DEF RequestState
  <2>2. \A todo \in Seq(Statement), b \in SUBSET Request, k \in PartKind, s \in RequestState :
            [l EXCEPT !.kind = k, !.state = s, !.todo = todo, !.before = b] \in Locals
    BY DEF Locals
  <2> HIDE DEF before
  <2>3. QED
    BY <1>2, <1>3, <2>1, <2>2
<1>6. req' = [req EXCEPT ![r] = l2]
  BY Zenon DEF Arrives
<1> HIDE DEF l2
<1>7. req'[r] = l2 /\ req' \in [Request -> Locals] /\ \A q \in Request \ {r} : req'[q] = req[q]
  BY <1>1, <1>5, <1>6
<1>8. QED
  BY <1>1, <1>4, <1>7 DEF Comes

\* A request that comes to an organization.
LEMMA OrganizationArrivals ==
    ASSUME Progress, NEW r \in Request, ArriveAtOrganization(r), UNCHANGED inboxVars
    PROVE  Comes(r)
<1>1. req[r] \in Locals /\ req[r].on \cap req[r].off = {}
  BY DEF Progress, TypeOK, OnPlan
<1>2. PICK kind \in DOMAIN OrgPlan, by \in User :
        /\ \/ kind = "pending" /\ Arrives(r, kind, OrgPlan, [req[r] EXCEPT !.by = by])
           \/ /\ kind = "remove"
              /\ \E u \in User : Arrives(r, kind, OrgPlan,
                     [req[r] EXCEPT !.by = by, !.user = u])
           \/ /\ kind = "invite"
              /\ \E u \in User, role \in Invitable : Arrives(r, kind, OrgPlan,
                     [req[r] EXCEPT !.by = by, !.user = u, !.given = role])
           \/ /\ kind = "accept"
              /\ \E i \in Origin : Issued(i) /\ Arrives(r, kind, OrgPlan,
                     [req[r] EXCEPT !.by = by, !.user = by, !.invite = i])
        /\ UNCHANGED orgVars
  BY Zenon DEF ArriveAtOrganization
<1>3. Invitable \subseteq Role
  BY OrganizationsAssumption
<1>4. CASE kind = "pending"
  <2> DEFINE l == [req[r] EXCEPT !.by = by]
  <2>1. l \in Locals /\ l.on = req[r].on /\ l.off = req[r].off /\ l.by = by
    BY <1>1 DEF Locals
  <2>2. Arrives(r, kind, OrgPlan, l)
    BY <1>2, <1>4
  <2> HIDE DEF l
  <2>3. QED
    BY <1>1, <1>2, <1>4, <2>1, <2>2, ArrivesComes
<1>5. CASE kind = "remove"
  <2>1. PICK u \in User : Arrives(r, kind, OrgPlan, [req[r] EXCEPT !.by = by, !.user = u])
    BY <1>2, <1>5
  <2> DEFINE l == [req[r] EXCEPT !.by = by, !.user = u]
  <2>2. l \in Locals /\ l.on = req[r].on /\ l.off = req[r].off /\ l.by = by /\ l.user = u
    BY <1>1 DEF Locals
  <2>3. Arrives(r, kind, OrgPlan, l)
    BY <2>1
  <2> HIDE DEF l
  <2>4. QED
    BY <1>1, <1>2, <1>5, <2>2, <2>3, ArrivesComes
<1>6. CASE kind = "invite"
  <2>1. PICK u \in User, role \in Invitable : Arrives(r, kind, OrgPlan,
            [req[r] EXCEPT !.by = by, !.user = u, !.given = role])
    BY <1>2, <1>6
  <2> DEFINE l == [req[r] EXCEPT !.by = by, !.user = u, !.given = role]
  <2>2. l \in Locals /\ l.on = req[r].on /\ l.off = req[r].off /\ l.by = by /\ l.user = u
        /\ l.given = role
    BY <1>1, <1>3 DEF Locals
  <2>3. Arrives(r, kind, OrgPlan, l)
    BY <2>1
  <2> HIDE DEF l
  <2>4. QED
    BY <1>1, <1>2, <1>6, <2>2, <2>3, ArrivesComes
<1>7. CASE kind = "accept"
  <2>1. PICK i \in Origin : Arrives(r, kind, OrgPlan,
            [req[r] EXCEPT !.by = by, !.user = by, !.invite = i])
    BY <1>2, <1>7
  <2> DEFINE l == [req[r] EXCEPT !.by = by, !.user = by, !.invite = i]
  <2>2. l \in Locals /\ l.on = req[r].on /\ l.off = req[r].off /\ l.by = by /\ l.user = by
    BY <1>1 DEF Locals
  <2>3. Arrives(r, kind, OrgPlan, l)
    BY <2>1
  <2> HIDE DEF l
  <2>4. QED
    BY <1>1, <1>2, <1>7, <2>2, <2>3, ArrivesComes
<1>8. QED
  BY <1>2, <1>4, <1>5, <1>6, <1>7

\* A notice, a patch or a request to mark notices read.
LEMMA InboxArrivals ==
    ASSUME Progress, NEW r \in Request, ArriveAtInbox(r)
    PROVE  Comes(r)
<1>1. req[r] \in Locals /\ req[r].on \cap req[r].off = {}
  BY DEF Progress, TypeOK, OnPlan
<1>2. /\ UNCHANGED <<orgVars, inboxVars>>
      /\ \/ \E notice \in Notices, assignee \in User \cup {Nobody}, actor \in User \cup {Nobody} :
                Arrives(r, "notify", InboxPlan,
                     [req[r] EXCEPT !.notice = notice, !.assignee = assignee, !.by = actor])
         \/ \E u \in User, on, off \in SUBSET Toggle :
                /\ on \cap off = {}
                /\ Arrives(r, "patch", InboxPlan, [req[r] EXCEPT !.by = u, !.on = on, !.off = off])
         \/ \E u \in User : \E ids \in SUBSET {n \in Request : inbox[u][n] # "none"} :
                Arrives(r, "read", InboxPlan, [req[r] EXCEPT !.by = u, !.ids = ids])
  BY DEF ArriveAtInbox
<1>3. ASSUME NEW notice \in Notices, NEW assignee \in User \cup {Nobody},
             NEW actor \in User \cup {Nobody},
             Arrives(r, "notify", InboxPlan,
                 [req[r] EXCEPT !.notice = notice, !.assignee = assignee, !.by = actor])
      PROVE  Comes(r)
  <2> DEFINE l == [req[r] EXCEPT !.notice = notice, !.assignee = assignee, !.by = actor]
  <2>1. notice \in NoticeKind
    BY NotificationsAssumption
  <2>2. l \in Locals /\ l.on = req[r].on /\ l.off = req[r].off
    BY <1>1, <2>1 DEF Locals
  <2>3. Arrives(r, "notify", InboxPlan, l) /\ "notify" \in DOMAIN InboxPlan
    BY <1>3 DEF InboxPlan
  <2> HIDE DEF l
  <2>4. QED
    BY <1>1, <1>2, <2>2, <2>3, ArrivesComes
<1>4. ASSUME NEW u \in User, NEW on \in SUBSET Toggle, NEW off \in SUBSET Toggle, on \cap off = {},
             Arrives(r, "patch", InboxPlan, [req[r] EXCEPT !.by = u, !.on = on, !.off = off])
      PROVE  Comes(r)
  <2> DEFINE l == [req[r] EXCEPT !.by = u, !.on = on, !.off = off]
  <2>1. l \in Locals /\ l.on = on /\ l.off = off /\ l.by = u
    BY <1>1 DEF Locals
  <2>2. Arrives(r, "patch", InboxPlan, l) /\ "patch" \in DOMAIN InboxPlan
    BY <1>4 DEF InboxPlan
  <2> HIDE DEF l
  <2>3. QED
    BY <1>2, <1>4, <2>1, <2>2, ArrivesComes
<1>5. ASSUME NEW u \in User, NEW ids \in SUBSET {n \in Request : inbox[u][n] # "none"},
             Arrives(r, "read", InboxPlan, [req[r] EXCEPT !.by = u, !.ids = ids])
      PROVE  Comes(r)
  <2> DEFINE l == [req[r] EXCEPT !.by = u, !.ids = ids]
  <2>1. l \in Locals /\ l.on = req[r].on /\ l.off = req[r].off /\ l.by = u
    BY <1>1 DEF Locals
  <2>2. Arrives(r, "read", InboxPlan, l) /\ "read" \in DOMAIN InboxPlan
    BY <1>5 DEF InboxPlan
  <2> HIDE DEF l
  <2>3. QED
    BY <1>1, <1>2, <2>1, <2>2, ArrivesComes
<1>6. QED
  BY <1>2, <1>3, <1>4, <1>5

-----------------------------------------------------------------------------
(* Type correctness, and requests stay on their plans *)

OrgMove(r) == OrgStatement(r) /\ UNCHANGED inboxVars
InboxMove(r) == InboxStatement(r) /\ UNCHANGED orgVars
Founds(u) == CreateOrganization(u) /\ UNCHANGED inboxVars

\* The ways in which a step changes the workspace.
LEMMA WorkspaceMoves ==
    ASSUME Progress, [WorkspaceNext]_workspaceVars
    PROVE  \/ \E r \in Request : Comes(r)
           \/ \E r \in Request : Moves(r) /\ (OrgMove(r) \/ InboxMove(r))
           \/ \E u \in User : Founds(u)
           \/ UNCHANGED workspaceVars
<1>1. ASSUME NEW r \in Request,
             \/ ArriveAtOrganization(r) /\ UNCHANGED inboxVars
             \/ ArriveAtInbox(r)
      PROVE  Comes(r)
  BY <1>1, OrganizationArrivals, InboxArrivals
<1>2. ASSUME NEW r \in Request, OrgMove(r) \/ InboxMove(r) PROVE Moves(r)
  BY <1>2, StatementMoves DEF OrgMove, InboxMove
<1>3. QED
  BY <1>1, <1>2 DEF WorkspaceNext, OrgMove, InboxMove, Founds

\* The rows of the organization are of their types.
LEMMA OrganizationStaysTyped ==
    ASSUME Progress, NEW r \in Request, OrgMove(r)
    PROVE  OrganizationsTypeOK'
<1>1. /\ members \in [User -> [role : Role, origin : Origin]]
      /\ invites \in [Origin -> [email : User \cup {Nobody}, role : Role, used : BOOLEAN]]
      /\ audit \subseteq Request /\ req[r] \in Locals /\ OnPlan(r)
  BY DEF Progress, TypeOK, OrganizationsTypeOK
<1>2. req[r].user \in User \cup {Nobody} /\ req[r].given \in Role /\ r \in Origin
      /\ req[r].invite \in Origin
  BY <1>1 DEF Locals, Origin
<1>3. CASE VoidPending(r)
  BY <1>1, <1>2, <1>3 DEF VoidPending, OrganizationsTypeOK
<1>4. CASE IssueInvite(r)
  <2> DEFINE row == [email |-> req[r].user, role |-> req[r].given, used |-> FALSE]
  <2>1. row \in [email : User \cup {Nobody}, role : Role, used : BOOLEAN]
    BY <1>2
  <2>2. invites' = [invites EXCEPT ![r] = row] /\ UNCHANGED <<members, audit>>
    BY <1>4 DEF IssueInvite
  <2> HIDE DEF row
  <2>3. QED
    BY <1>1, <1>2, <2>1, <2>2 DEF OrganizationsTypeOK
<1>5. CASE DeleteMember(r)
  <2>1. NoMember \in [role : Role, origin : Origin]
    BY DEF NoMember, Role, Rank, Origin
  <2>2. UNCHANGED members \/ members' = [members EXCEPT ![req[r].user] = NoMember]
    BY <1>5 DEF DeleteMember
  <2>3. QED
    BY <1>1, <1>5, <2>1, <2>2 DEF DeleteMember, OrganizationsTypeOK
<1>6. CASE Join(r)
  <2> DEFINE row == [role |-> req[r].given, origin |-> r]
  <2>1. row \in [role : Role, origin : Origin]
    BY <1>2
  <2>2. UNCHANGED members \/ members' = [members EXCEPT ![req[r].user] = row]
    BY <1>6 DEF Join
  <2> HIDE DEF row
  <2>3. QED
    BY <1>1, <1>6, <2>1, <2>2 DEF Join, OrganizationsTypeOK
<1>7. CASE UseInvite(r)
  BY <1>1, <1>2, <1>7 DEF UseInvite, OrganizationsTypeOK
<1>8. CASE RecordRemoval(r)
  BY <1>1, <1>8 DEF RecordRemoval, OrganizationsTypeOK
<1>9. QED
  BY <1>1, <1>3, <1>4, <1>5, <1>6, <1>7, <1>8
     DEF OrgMove, OrgStatement, Permit, LoadOrganization, IsMember, ListPending, FindMember,
         ClaimInvite, orgVars, OrganizationsTypeOK

\* The rows of the inbox are of their types.
LEMMA InboxStaysTyped ==
    ASSUME Progress, NEW r \in Request, InboxMove(r)
    PROVE  NotificationsTypeOK'
<1>1. /\ preferences \in [User -> Preference]
      /\ inbox \in [User -> [Request -> NoticeRow]]
      /\ req[r] \in Locals
  BY DEF Progress, TypeOK, NotificationsTypeOK, Preference, NoticeRow
<1>2. SUFFICES /\ preferences' \in [User -> Preference]
               /\ inbox' \in [User -> [Request -> NoticeRow]]
  BY DEF NotificationsTypeOK, Preference, NoticeRow
<1>3. CASE Deliver(r)
  <2>1. \A u \in User : inbox[u] \in [Request -> NoticeRow]
                        /\ [inbox[u] EXCEPT ![r] = "unread"] \in [Request -> NoticeRow]
    BY <1>1 DEF NoticeRow
  <2>2. QED
    BY <1>1, <1>3, <2>1 DEF Deliver
<1>4. CASE Materialize(r)
  BY <1>1, <1>4 DEF Materialize, Preference
<1>5. CASE SavePreferences(r)
  <2> DEFINE on == (req[r].copy \cup req[r].on) \ req[r].off
  <2>1. on \in SUBSET Toggle
    BY <1>1 DEF Locals
  <2>2. preferences' = [preferences EXCEPT ![req[r].by].on = on] /\ UNCHANGED inbox
    BY <1>5 DEF SavePreferences
  <2> HIDE DEF on
  <2>3. QED
    BY <1>1, <2>1, <2>2 DEF Preference
<1>6. CASE MarkRead(r)
  <2> DEFINE u == req[r].by
             row == [n \in Request |-> IF inbox[u][n] = "unread" /\ (req[r].ids = {} \/ n \in req[r].ids)
                                       THEN "read" ELSE inbox[u][n]]
  <2>1. u \in User => row \in [Request -> NoticeRow]
    BY <1>1 DEF NoticeRow
  <2>2. inbox' = [inbox EXCEPT ![u] = row] /\ UNCHANGED preferences
    BY <1>6 DEF MarkRead
  <2> HIDE DEF u, row
  <2>3. QED
    BY <1>1, <2>1, <2>2
<1>7. QED
  BY <1>1, <1>3, <1>4, <1>5, <1>6 DEF InboxMove, InboxStatement, ReadAudience, ReadPreferences, inboxVars

\* A request that moves stays on its plan, and so do the others.
LEMMA MovesProgress ==
    ASSUME Progress, NEW r \in Request, Moves(r)
    PROVE  \A q \in Request : OnPlan(q)'
<1>1. \A q \in Request \ {r} : req'[q] = req[q]
  BY DEF Moves
<1>2. /\ OnPlan(r) /\ req[r].todo \in Seq(Statement) /\ req[r].todo # <<>>
      /\ PlanFor(req[r].kind) \in Seq(Statement)
  <2>1. OnPlan(r) /\ req[r] \in Locals /\ req[r].kind \in PartKind
    BY DEF Progress, TypeOK, Locals
  <2>2. QED
    BY <2>1, PlansPlanned DEF Locals, Planned, Moves
<1>3. SameArguments(req'[r], req[r]) /\ req[r].state = "running"
      /\ (req[r].kind # "accept" => req'[r].given = req[r].given)
  <2>1. req[r].kind # "accept" => Head(req[r].todo) # "claim"
    <3>1. ASSUME Head(req[r].todo) = "claim" PROVE At(r, "claim")
      BY <3>1 DEF Moves, At
    <3>2. QED
      BY <3>1, AtPlan DEF Planned
  <2>2. QED
    BY <2>1 DEF Moves, SameBut
<1>4. Remaining(Tail(req[r].todo), PlanFor(req[r].kind))
      /\ (Len(req[r].todo) = 1 <=> Tail(req[r].todo) = <<>>)
  BY <1>2, RemainingTail, TailOf DEF OnPlan
<1>5. \A q \in Request : \A p \in req[q].before : req'[p].state \in Ended
  <2>1. req[r].state \notin Ended
    BY <1>3 DEF Ended
  <2>2. \A q \in Request : req[q].before \subseteq Request
    BY DEF Progress, TypeOK, Locals
  <2>3. QED
    BY <1>1, <2>1, <2>2 DEF Progress, OnPlan
<1>6. ASSUME NEW q \in Request, q # r PROVE OnPlan(q)'
  BY <1>1, <1>5, <1>6 DEF Progress, OnPlan
<1>7. OnPlan(r)'
  <2>1. Remaining(req'[r].todo, PlanFor(req'[r].kind))
    BY <1>2, <1>3, <1>4 DEF Moves, OnPlan, SameArguments
  <2>2. /\ req'[r].state # "idle"
        /\ req'[r].state \in {"running", "refused", "error"} => req'[r].todo # <<>>
        /\ req'[r].state = "ok" => req'[r].todo = <<>>
    BY <1>2, <1>4 DEF Moves
  <2>3. QED
    BY <1>2, <1>3, <1>5, <2>1, <2>2 DEF OnPlan, SameArguments
<1>8. QED
  BY <1>6, <1>7

\* A request comes on its plan.
LEMMA ComesProgress ==
    ASSUME Progress, NEW r \in Request, Comes(r)
    PROVE  \A q \in Request : OnPlan(q)'
<1>1. /\ \A q \in Request \ {r} : req'[q] = req[q]
      /\ req' \in [Request -> Locals] /\ req[r].state = "idle"
  BY DEF Comes
<1>2. req'[r].kind \in PartKind /\ PlanFor(req'[r].kind) \in Seq(Statement)
      /\ PlanFor(req'[r].kind) # <<>>
  BY <1>1, PlansPlanned DEF Locals, Planned
<1>3. \A plan \in Seq(Statement) : Remaining(plan, plan)
  BY DEF Remaining
<1>4. \A p \in Request : req[p].state \in Ended => req'[p] = req[p]
  BY <1>1 DEF Ended
<1>5. \A q \in Request : req[q].before \subseteq Request /\ req'[q].before \subseteq Request
  BY <1>1 DEF Progress, TypeOK, Locals
<1>6. ASSUME NEW q \in Request, q # r PROVE OnPlan(q)'
  <2>1. req'[q] = req[q] /\ OnPlan(q)
    BY <1>1, <1>6 DEF Progress
  <2>2. \A p \in req[q].before : req'[p].state \in Ended
    BY <1>4, <1>5, <2>1 DEF OnPlan
  <2>3. QED
    BY <2>1, <2>2 DEF OnPlan
<1>7. OnPlan(r)'
  <2>1. \A p \in req'[r].before : req'[p].state \in Ended
    BY <1>4, <1>5 DEF Comes
  <2>2. Remaining(req'[r].todo, PlanFor(req'[r].kind)) /\ req'[r].todo # <<>>
        /\ req'[r].state = "running"
    BY <1>2, <1>3 DEF Comes
  <2>3. QED
    BY <2>1, <2>2 DEF Comes, OnPlan
<1>8. QED
  BY <1>6, <1>7

\* Steps keep types and plans.
LEMMA ProgressKept == Progress /\ [WorkspaceNext]_workspaceVars => Progress'
<1> SUFFICES ASSUME Progress, [WorkspaceNext]_workspaceVars PROVE Progress'
  OBVIOUS
<1>1. OrganizationsTypeOK /\ NotificationsTypeOK /\ req \in [Request -> Locals]
      /\ \A r \in Request : OnPlan(r)
  BY DEF Progress, TypeOK
<1>2. ASSUME NEW r \in Request, Comes(r) PROVE Progress'
  <2>1. OrganizationsTypeOK' /\ NotificationsTypeOK' /\ req' \in [Request -> Locals]
    BY <1>1, <1>2 DEF Comes, OrganizationsTypeOK, NotificationsTypeOK, orgVars, inboxVars
  <2>2. QED
    BY <1>2, <2>1, ComesProgress DEF Progress, TypeOK
<1>3. ASSUME NEW r \in Request, Moves(r), OrgMove(r) PROVE Progress'
  <2>1. NotificationsTypeOK'
    BY <1>1, <1>3 DEF OrgMove, NotificationsTypeOK, inboxVars
  <2>2. req' \in [Request -> Locals]
    BY <1>3 DEF Moves
  <2>3. QED
    BY <1>3, <2>1, <2>2, OrganizationStaysTyped, MovesProgress DEF Progress, TypeOK
<1>4. ASSUME NEW r \in Request, Moves(r), InboxMove(r) PROVE Progress'
  <2>1. OrganizationsTypeOK'
    BY <1>1, <1>4 DEF InboxMove, OrganizationsTypeOK, orgVars
  <2>2. req' \in [Request -> Locals]
    BY <1>4 DEF Moves
  <2>3. QED
    BY <1>4, <2>1, <2>2, InboxStaysTyped, MovesProgress DEF Progress, TypeOK
<1>5. ASSUME NEW u \in User, Founds(u) PROVE Progress'
  <2>1. [role |-> "owner", origin |-> Earlier] \in [role : Role, origin : Origin]
    BY DEF Role, Rank, Origin
  <2>2. OrganizationsTypeOK'
    BY <1>1, <1>5, <2>1 DEF Founds, CreateOrganization, Founded, OrganizationsTypeOK
  <2>3. UNCHANGED <<req, inboxVars>>
    BY <1>5 DEF Founds, CreateOrganization
  <2>4. QED
    BY <1>1, <2>2, <2>3 DEF Progress, TypeOK, NotificationsTypeOK, OnPlan, inboxVars
<1>6. CASE UNCHANGED workspaceVars
  BY <1>1, <1>6 DEF Progress, TypeOK, OrganizationsTypeOK, NotificationsTypeOK, OnPlan,
     workspaceVars, orgVars, inboxVars
<1>7. QED
  BY <1>2, <1>3, <1>4, <1>5, <1>6, WorkspaceMoves

\* Every state of the workspace is of its type, and every request has the end
\* of its plan left to execute, came after what it saw ended, and keeps the
\* arguments it came with.
THEOREM WorkspaceProgress == WorkspaceSpec => []Progress
<1>1. WorkspaceInit => Progress
  <2> SUFFICES ASSUME WorkspaceInit PROVE Progress
    OBVIOUS
  <2>1. "pending" \in PartKind /\ "none" \in Role /\ "owner" \in Role /\ Earlier \in Origin
        /\ "idle" \in RequestState /\ "incident_assigned" \in NoticeKind /\ <<>> \in Seq(Statement)
    BY DEF PartKind, OrgPlan, Role, Rank, Origin, RequestState, NoticeKind
  <2>2. NoPrefs \in [User -> Preference]
    BY DEF NoPrefs, NoPreference, Preference, DefaultOn
  <2>3. Unset \in Locals
    BY <2>1, <2>2 DEF Unset, Locals
  <2>4. OrganizationsTypeOK
    <3> DEFINE M == [role : Role, origin : Origin]
               I == [email : User \cup {Nobody}, role : Role, used : BOOLEAN]
               Owner == [role |-> "owner", origin |-> Earlier]
               Invite(u, role) == [NoInvite EXCEPT !.email = u, !.role = role]
    <3>1. NoMember \in M /\ Owner \in M
      BY <2>1 DEF NoMember
    <3>2. NoInvite \in I /\ \A u \in User, role \in Invitable : Invite(u, role) \in I
      BY <2>1, OrganizationsAssumption DEF NoInvite
    <3>3. audit = {}
          /\ \/ /\ members = [u \in User |-> NoMember]
                /\ invites = [i \in Origin |-> NoInvite]
             \/ \E owner, u \in User, role \in Invitable :
                   /\ owner # u
                   /\ members = [v \in User |-> IF v = owner THEN Owner ELSE NoMember]
                   /\ invites = [i \in Origin |-> IF i # Earlier THEN NoInvite ELSE Invite(u, role)]
      BY Zenon DEF WorkspaceInit, OrganizationsInit
    <3>4. audit \subseteq Request /\ members \in [User -> M] /\ invites \in [Origin -> I]
      <4> HIDE DEF M, I, Owner, Invite
      <4>1. QED
        BY <3>1, <3>2, <3>3
    <3>5. QED
      BY <3>4 DEF OrganizationsTypeOK
  <2>5. NotificationsTypeOK
    BY <2>2 DEF WorkspaceInit, NotificationsTypeOK, Preference
  <2>6. req \in [Request -> Locals] /\ \A r \in Request : req[r] = Unset
    BY <2>3 DEF WorkspaceInit
  <2>7. /\ Unset.todo = <<>> /\ Unset.state = "idle" /\ Unset.kind = "pending"
        /\ Unset.on = {} /\ Unset.before = {}
    BY DEF Unset
  <2>8. Remaining(<<>>, PlanFor("pending"))
    <3>1. PlanFor("pending") \in Seq(Statement)
      BY <2>1, PlansPlanned DEF Planned
    <3>2. Len(<<>>) = 0
      OBVIOUS
    <3>3. QED
      BY <3>1, <3>2 DEF Remaining
  <2>9. \A r \in Request : OnPlan(r)
    BY <2>6, <2>7, <2>8 DEF OnPlan
  <2>10. QED
    BY <2>4, <2>5, <2>6, <2>9 DEF Progress, TypeOK
<1>2. QED
  BY <1>1, ProgressKept, PTL DEF WorkspaceSpec

-----------------------------------------------------------------------------
(* What a request has executed stays executed *)

Past(r, s) ==
    /\ Has(PlanFor(req[r].kind), s) /\ ~ Has(req[r].todo, s)
    /\ req[r].state \notin {"idle", "refused"}

\* Carried, by what is left.
LEMMA CarriedIs ==
    ASSUME NEW r, NEW s
    PROVE  /\ req[r].kind \in DOMAIN OrgPlan => (Carried(r, s) <=> Past(r, s))
           /\ req'[r].kind \in DOMAIN OrgPlan => (Carried(r, s)' <=> Past(r, s)')
<1>1. req[r].kind \in DOMAIN OrgPlan => (Carried(r, s) <=> Past(r, s))
  BY DEF Carried, Behind, Past, Has, PlanFor
<1>2. req'[r].kind \in DOMAIN OrgPlan => (Carried(r, s)' <=> Past(r, s)')
  BY DEF Carried, Behind, Past, Has, PlanFor
<1>3. QED
  BY <1>1, <1>2

\* What comes before an executed statement was executed.
LEMMA PastInOrder ==
    ASSUME Progress, NEW r \in Request, NEW s, NEW t, Past(r, t),
           Before(PlanFor(req[r].kind), s, t)
    PROVE  Past(r, s)
<1> DEFINE todo == req[r].todo
           plan == PlanFor(req[r].kind)
<1>1. req[r] \in Locals /\ req[r].kind \in PartKind /\ OnPlan(r)
  BY DEF Progress, TypeOK, Locals
<1>2. todo \in Seq(Statement) /\ plan \in Seq(Statement) /\ Remaining(todo, plan) /\ Distinct(plan)
  BY <1>1, PlansPlanned DEF OnPlan, Planned, Locals
<1>3. Before(plan, s, t) /\ ~ Has(todo, t)
  BY DEF Past
<1> HIDE DEF todo, plan
<1>4. ~ Has(todo, s)
  BY <1>2, <1>3, LeftInOrder
<1>5. Has(plan, s)
  BY <1>2, <1>3 DEF Before, Has
<1>6. QED
  BY <1>4, <1>5 DEF Past, todo, plan

\* A moving request is at the first of what it has left.
LEMMA MovesAt ==
    ASSUME NEW r, Moves(r)
    PROVE  At(r, Head(req[r].todo))
BY DEF Moves, At

\* A moving request executed what it had executed, and its statement when it
\* continues.
LEMMA PastNext ==
    ASSUME Progress, NEW r \in Request, Moves(r), NEW s, Past(r, s)'
    PROVE  Past(r, s) \/ Continues(r, s)
<1>1. At(r, Head(req[r].todo)) /\ req'[r].kind = req[r].kind /\ req[r].state = "running"
  BY MovesAt DEF Moves, SameArguments
<1>2. \A t : Has(Tail(req[r].todo), t) <=> Has(req[r].todo, t) /\ t # Head(req[r].todo)
  BY <1>1, AtPlan
<1>3. QED
  BY <1>1, <1>2 DEF Past, Moves, Continues

\* A request that continues has executed its statement.
LEMMA ContinuesPast ==
    ASSUME Progress, NEW r \in Request, NEW s, Continues(r, s)
    PROVE  Past(r, s)' /\ SameArguments(req'[r], req[r])
<1>1. Has(PlanFor(req[r].kind), s) /\ ~ Has(Tail(req[r].todo), s) /\ Has(req[r].todo, s)
  BY AtPlan DEF Continues
<1>2. QED
  BY <1>1 DEF Past, Continues, Moves, SameArguments

\* A request keeps its arguments; when it has ended, it keeps everything.
LEMMA RequestStays ==
    ASSUME Progress, [WorkspaceNext]_workspaceVars, NEW r \in Request, req[r].state # "idle"
    PROVE  /\ SameArguments(req'[r], req[r]) /\ req'[r].state # "idle"
           /\ req[r].state \in Ended => req'[r] = req[r]
           /\ ~ Moves(r) => req'[r] = req[r]
<1>1. CASE req'[r] = req[r]
  BY <1>1 DEF SameArguments
<1>2. CASE Moves(r)
  BY <1>2 DEF Moves, Ended
<1>3. ASSUME NEW q \in Request, Comes(q) PROVE req'[r] = req[r]
  BY <1>3 DEF Comes
<1>4. ASSUME NEW q \in Request, Moves(q), q # r PROVE req'[r] = req[r]
  BY <1>4 DEF Moves
<1>5. QED
  BY <1>1, <1>2, <1>3, <1>4, WorkspaceMoves DEF Founds, CreateOrganization, workspaceVars

\* What lasts is executed for good, and nothing is claimed after it.
LEMMA PastStays ==
    ASSUME Progress, [WorkspaceNext]_workspaceVars, NEW r \in Request, NEW s \in Lasting, Past(r, s)
    PROVE  Past(r, s)' /\ SameArguments(req'[r], req[r]) /\ req'[r].given = req[r].given
<1>1. req[r].state # "idle" /\ SameArguments(req'[r], req[r])
  BY RequestStays DEF Past
<1>2. CASE ~ Moves(r)
  BY <1>1, <1>2, RequestStays DEF Past
<1>3. CASE Moves(r)
  <2> DEFINE t == Head(req[r].todo)
  <2>1. At(r, t)
    BY <1>3, MovesAt
  <2> HIDE DEF t
  <2>2. Before(PlanFor(req[r].kind), s, t) /\ ~ Has(Tail(req[r].todo), s)
        /\ Planned(req[r].kind, PlanFor(req[r].kind))
    BY <2>1, AtPlan DEF Past
  <2>3. t \notin Stopping
    BY <2>2 DEF Planned
  <2>4. req'[r].todo = Tail(req[r].todo) /\ req'[r].given = req[r].given
        /\ req'[r].state \notin {"idle", "refused"}
    BY <1>3, <2>3 DEF Moves, SameBut, Stopping, t
  <2>5. QED
    BY <1>1, <2>2, <2>4 DEF Past, SameArguments
<1>4. QED
  BY <1>2, <1>3

\* A request that came has executed nothing.
LEMMA ComesFresh ==
    ASSUME NEW r, Comes(r), NEW s
    PROVE  ~ Past(r, s)'
BY DEF Comes, Past

\* How a step makes a request's statement past.
LEMMA PastFrom ==
    ASSUME Progress, [WorkspaceNext]_workspaceVars, NEW r \in Request, NEW s, Past(r, s)'
    PROVE  Past(r, s) \/ Continues(r, s)
<1>1. CASE Moves(r)
  BY <1>1, PastNext
<1>2. CASE req'[r] = req[r]
  BY <1>2 DEF Past
<1>3. ASSUME NEW q \in Request, Comes(q) PROVE req'[r] = req[r]
  <2>1. q # r
    BY <1>3, ComesFresh
  <2>2. QED
    BY <1>3, <2>1 DEF Comes
<1>4. ASSUME NEW q \in Request, Moves(q), q # r PROVE req'[r] = req[r]
  BY <1>4 DEF Moves
<1>5. QED
  BY <1>1, <1>2, <1>3, <1>4, WorkspaceMoves DEF Founds, CreateOrganization, workspaceVars

\* A request that moves is not what it was.
LEMMA MovesChange ==
    ASSUME Progress, NEW r \in Request, Moves(r)
    PROVE  req'[r] # req[r]
<1>1. req[r].todo \in Seq(Statement) /\ req[r].todo # <<>>
  BY DEF Progress, TypeOK, Locals, Moves
<1>2. Len(Tail(req[r].todo)) # Len(req[r].todo)
  BY <1>1, TailOf
<1>3. QED
  BY <1>2 DEF Moves

\* A request that continues does not stop.
LEMMA ContinuesOrStops ==
    ASSUME Progress, NEW r \in Request, NEW s, Continues(r, s), NEW t, NEW state
    PROVE  ~ Stops(r, t, state)
<1>1. req[r].todo \in Seq(Statement) /\ req[r].todo # <<>>
  BY DEF Progress, TypeOK, Locals, Moves, Continues
<1>2. Len(Tail(req[r].todo)) # Len(req[r].todo)
  BY <1>1, TailOf
<1>3. QED
  BY <1>2 DEF Continues, Stops

\* A request at a statement executes that statement when it moves.
LEMMA MovesByStatement ==
    ASSUME Progress, [WorkspaceNext]_workspaceVars, NEW r \in Request, Moves(r)
    PROVE  /\ At(r, "permit") => Permit(r)
           /\ At(r, "load") => LoadOrganization(r)
           /\ At(r, "void") => VoidPending(r)
           /\ At(r, "claim") => ClaimInvite(r)
           /\ At(r, "join") => Join(r)
           /\ At(r, "audience") => ReadAudience(r) /\ UNCHANGED orgVars
           /\ At(r, "preferences") => ReadPreferences(r) /\ UNCHANGED orgVars
           /\ At(r, "materialize") => Materialize(r) /\ UNCHANGED orgVars
           /\ At(r, "save") => SavePreferences(r) /\ UNCHANGED orgVars
<1>1. OrgStatement(r) \/ (InboxStatement(r) /\ UNCHANGED orgVars)
  <2>1. req'[r] # req[r] /\ req[r].state = "running"
    BY MovesChange DEF Moves
  <2>2. ASSUME NEW q \in Request, Comes(q) PROVE FALSE
    BY <2>1, <2>2 DEF Comes
  <2>3. ASSUME NEW q \in Request, q # r, Moves(q) PROVE FALSE
    BY <2>1, <2>3 DEF Moves
  <2>4. QED
    BY <2>1, <2>2, <2>3, WorkspaceMoves DEF OrgMove, InboxMove, Founds, CreateOrganization, workspaceVars
<1>2. QED
  BY <1>1 DEF OrgStatement, InboxStatement, At, Permit, LoadOrganization, IsMember, VoidPending,
     IssueInvite, ListPending, FindMember, DeleteMember, RecordRemoval, ClaimInvite, Join, UseInvite,
     ReadAudience, ReadPreferences, Deliver, Materialize, SavePreferences, MarkRead

-----------------------------------------------------------------------------
(* Memberships and invites *)

OwnerRow == [role |-> "owner", origin |-> Earlier]

\* How a membership changes.
LEMMA MembersChange ==
    ASSUME Progress, [WorkspaceNext]_workspaceVars, NEW u \in User, members'[u] # members[u]
    PROVE  \/ \E r \in Request : /\ Continues(r, "join") /\ req[r].user = u /\ ~ Member(u)
                                 /\ members'[u] = [role |-> req[r].given, origin |-> r]
           \/ \E r \in Request : /\ Continues(r, "delete") /\ req[r].user = u
                                 /\ members'[u] = NoMember
           \/ NothingYet /\ members'[u] = OwnerRow /\ UNCHANGED req
<1>1. members \in [User -> [role : Role, origin : Origin]]
  BY DEF Progress, TypeOK, OrganizationsTypeOK
<1>2. ASSUME NEW r \in Request, OrgStatement(r)
      PROVE  \/ /\ Continues(r, "join") /\ req[r].user = u /\ ~ Member(u)
                /\ members'[u] = [role |-> req[r].given, origin |-> r]
             \/ /\ Continues(r, "delete") /\ req[r].user = u
                /\ members'[u] = NoMember
  <2>1. CASE Join(r)
    <3>1. Continues(r, "join") /\ ~ Member(req[r].user)
          /\ members' = [members EXCEPT ![req[r].user] = [role |-> req[r].given, origin |-> r]]
      BY <2>1, OtherMoves
    <3>2. req[r].user = u
      BY <1>1, <3>1
    <3>3. QED
      BY <1>1, <3>1, <3>2
  <2>2. CASE DeleteMember(r)
    <3>1. Continues(r, "delete")
      BY <2>2, OtherMoves
    <3>2. members' = [members EXCEPT ![req[r].user] = NoMember]
      BY <2>2 DEF DeleteMember
    <3>3. req[r].user = u
      BY <1>1, <3>2
    <3>4. QED
      BY <1>1, <3>1, <3>2, <3>3
  <2>3. QED
    BY <1>2, <2>1, <2>2
       DEF OrgStatement, Permit, LoadOrganization, IsMember, VoidPending, IssueInvite, ListPending,
           FindMember, RecordRemoval, ClaimInvite, UseInvite, orgVars
<1>3. ASSUME NEW v \in User, Founds(v)
      PROVE  NothingYet /\ members'[u] = OwnerRow /\ UNCHANGED req
  BY <1>1, <1>3 DEF Founds, CreateOrganization, Founded, OwnerRow
<1>4. ASSUME NEW r \in Request, Comes(r) \/ InboxMove(r) PROVE FALSE
  BY <1>4 DEF Comes, InboxMove, orgVars
<1>5. QED
  BY <1>2, <1>3, <1>4, WorkspaceMoves DEF OrgMove, workspaceVars, orgVars

\* How an invite changes.
LEMMA InvitesChange ==
    ASSUME Progress, [WorkspaceNext]_workspaceVars, NEW i \in Origin
    PROVE  \/ /\ i \in Request /\ Continues(i, "issue")
              /\ invites'[i] = [email |-> req[i].user, role |-> req[i].given, used |-> FALSE]
           \/ /\ invites'[i].email = invites[i].email /\ invites'[i].role = invites[i].role
              /\ invites[i].used => invites'[i].used
<1>1. invites \in [Origin -> [email : User \cup {Nobody}, role : Role, used : BOOLEAN]]
  BY DEF Progress, TypeOK, OrganizationsTypeOK
<1> DEFINE Kept == /\ invites'[i].email = invites[i].email /\ invites'[i].role = invites[i].role
                   /\ invites[i].used => invites'[i].used
<1>2. ASSUME NEW r \in Request, OrgStatement(r)
      PROVE  \/ /\ i \in Request /\ Continues(i, "issue")
                /\ invites'[i] = [email |-> req[i].user, role |-> req[i].given, used |-> FALSE]
             \/ Kept
  <2>1. CASE VoidPending(r)
    BY <1>1, <2>1 DEF VoidPending
  <2>2. CASE IssueInvite(r)
    <3>1. Continues(r, "issue")
      BY <2>2, OtherMoves
    <3>2. QED
      BY <1>1, <2>2, <3>1 DEF IssueInvite
  <2>3. CASE UseInvite(r)
    BY <1>1, <2>3 DEF UseInvite
  <2>4. QED
    BY <1>2, <2>1, <2>2, <2>3
       DEF OrgStatement, Permit, LoadOrganization, IsMember, Join, DeleteMember, ListPending,
           FindMember, RecordRemoval, ClaimInvite, orgVars
<1>3. (UNCHANGED invites) => Kept
  OBVIOUS
<1> HIDE DEF Kept
<1>4. \/ /\ i \in Request /\ Continues(i, "issue")
         /\ invites'[i] = [email |-> req[i].user, role |-> req[i].given, used |-> FALSE]
      \/ Kept
  BY <1>2, <1>3, WorkspaceMoves
     DEF OrgMove, InboxMove, Comes, Founds, CreateOrganization, workspaceVars, orgVars
<1>5. QED
  BY <1>4 DEF Kept

-----------------------------------------------------------------------------
(* Invites admit whom they address *)

\* An issued invite is what its request was given, and carries a role that an
\* invite can carry; what was claimed is what the invite says; a member that
\* joined did so with what they claimed.
Addressed ==
    /\ \A i \in Request : Issued(i) =>
          /\ req[i].kind = "invite" /\ Past(i, "issue")
          /\ invites[i].email = req[i].user /\ invites[i].role = req[i].given
    /\ \A i \in Origin : Issued(i) => invites[i].role \in Invitable
    /\ \A a \in Request : Past(a, "claim") =>
          LET i == req[a].invite
          IN  Issued(i) /\ invites[i].email = req[a].user /\ invites[i].role = req[a].given
    /\ \A u \in User : members[u].origin \in Request =>
          LET a == members[u].origin
          IN  Past(a, "join") /\ req[a].user = u /\ req[a].given = members[u].role

\* An acceptance joins with what it claimed.
LEMMA JoinedClaimed ==
    ASSUME Progress, NEW a \in Request, Past(a, "join")
    PROVE  Past(a, "claim") /\ req[a].kind = "accept" /\ req[a].invite \in Origin
           /\ req[a].user = req[a].by /\ req[a].user \in User
<1>1. req[a] \in Locals /\ req[a].kind \in PartKind /\ OnPlan(a)
  BY DEF Progress, TypeOK, Locals
<1>2. req[a].kind = "accept" /\ Before(PlanFor(req[a].kind), "claim", "join")
  BY <1>1, PlansPlanned DEF Past, Planned
<1>3. Past(a, "claim")
  BY <1>2, PastInOrder
<1>4. QED
  BY <1>1, <1>2, <1>3 DEF Locals, OnPlan

\* An issued invite keeps its address and its role, and stays used.
LEMMA InvitesKept ==
    ASSUME Progress, Addressed, [WorkspaceNext]_workspaceVars, NEW i \in Origin, Issued(i)
    PROVE  /\ Issued(i)' /\ invites'[i].email = invites[i].email
           /\ invites'[i].role = invites[i].role
           /\ invites[i].used => invites'[i].used
<1>1. ~ (i \in Request /\ Continues(i, "issue"))
  <2> SUFFICES ASSUME i \in Request, Continues(i, "issue") PROVE FALSE
    OBVIOUS
  <2>1. Has(req[i].todo, "issue")
    BY AtPlan DEF Continues
  <2>2. QED
    BY <2>1 DEF Addressed, Past
<1>2. QED
  BY <1>1, InvitesChange DEF Issued

\* An invite is issued as its request was given it, and claimed as it says.
LEMMA AddressedKept ==
    ASSUME Progress, Addressed, [WorkspaceNext]_workspaceVars
    PROVE  Addressed'
<1>1. ASSUME NEW i \in Request, Issued(i)'
      PROVE  /\ req'[i].kind = "invite" /\ Past(i, "issue")'
             /\ invites'[i].email = req'[i].user /\ invites'[i].role = req'[i].given
  <2>1. i \in Origin
    BY DEF Origin
  <2>2. CASE Issued(i)
    <3>1. /\ req[i].kind = "invite" /\ Past(i, "issue")
          /\ invites[i].email = req[i].user /\ invites[i].role = req[i].given
      BY <2>2 DEF Addressed
    <3>2. Past(i, "issue")' /\ SameArguments(req'[i], req[i]) /\ req'[i].given = req[i].given
      BY <3>1, PastStays DEF Lasting
    <3>3. QED
      BY <2>1, <2>2, <3>1, <3>2, InvitesKept DEF SameArguments
  <2>3. CASE ~ Issued(i)
    <3>1. Continues(i, "issue")
          /\ invites'[i] = [email |-> req[i].user, role |-> req[i].given, used |-> FALSE]
      BY <1>1, <2>1, <2>3, InvitesChange DEF Issued
    <3>2. Past(i, "issue")' /\ SameArguments(req'[i], req[i])
      BY <3>1, ContinuesPast
    <3>3. req[i].kind = "invite"
      BY <3>1, AtPlan DEF Continues, Planned
    <3>4. req'[i].given = req[i].given
      BY <3>1 DEF Continues, Moves, SameBut, At
    <3>5. QED
      BY <3>1, <3>2, <3>3, <3>4 DEF SameArguments
  <2>4. QED
    BY <2>2, <2>3
<1>2. ASSUME NEW i \in Origin, Issued(i)' PROVE invites'[i].role \in Invitable
  <2>1. CASE Issued(i)
    BY <2>1, InvitesKept DEF Addressed
  <2>2. CASE ~ Issued(i)
    <3>1. i \in Request /\ Continues(i, "issue")
          /\ invites'[i] = [email |-> req[i].user, role |-> req[i].given, used |-> FALSE]
      BY <1>2, <2>2, InvitesChange DEF Issued
    <3>2. req[i].kind = "invite" /\ OnPlan(i)
      BY <3>1, AtPlan DEF Continues, Planned, Progress
    <3>3. QED
      BY <3>1, <3>2 DEF OnPlan
  <2>3. QED
    BY <2>1, <2>2
<1>3. ASSUME NEW a \in Request, Past(a, "claim")', NEW i, i = req'[a].invite
      PROVE  Issued(i)' /\ invites'[i].email = req'[a].user /\ invites'[i].role = req'[a].given
  <2>1. CASE Past(a, "claim")
    <3>1. SameArguments(req'[a], req[a]) /\ req[a] \in Locals
      BY <2>1, RequestStays DEF Past, Progress, TypeOK
    <3>2. req'[a].given = req[a].given
      <4>1. ASSUME At(a, "claim") PROVE FALSE
        BY <2>1, <4>1, AtPlan DEF Past
      <4>2. ASSUME Moves(a) PROVE req'[a].given = req[a].given
        BY <4>1, <4>2, MovesAt DEF Moves, SameBut
      <4>3. QED
        BY <2>1, <4>2, RequestStays DEF Past
    <3>3. i = req[a].invite /\ i \in Origin
      BY <1>3, <3>1 DEF SameArguments, Locals
    <3>4. Issued(i) /\ invites[i].email = req[a].user /\ invites[i].role = req[a].given
      BY <2>1, <3>3 DEF Addressed
    <3>5. QED
      BY <3>1, <3>2, <3>3, <3>4, InvitesKept DEF SameArguments
  <2>2. CASE ~ Past(a, "claim")
    <3>1. Continues(a, "claim")
      BY <1>3, <2>2, PastFrom
    <3>2. ClaimInvite(a)
      BY <3>1, MovesByStatement DEF Continues
    <3>3. Claimable(a, req[a].invite) /\ req'[a].given = invites[req[a].invite].role
      BY <3>1, <3>2, ClaimMoves, ContinuesOrStops
    <3>4. SameArguments(req'[a], req[a]) /\ req[a].kind = "accept" /\ OnPlan(a)
          /\ req[a].invite \in Origin
      BY <3>1, AtPlan DEF Continues, Moves, Planned, Progress, Locals
    <3>5. i = req[a].invite /\ i \in Origin /\ Issued(i) /\ invites[i].email = req[a].user
      BY <1>3, <3>3, <3>4 DEF Claimable, Usable, OnPlan, SameArguments
    <3>6. QED
      BY <3>3, <3>4, <3>5, InvitesKept DEF SameArguments
  <2>3. QED
    BY <2>1, <2>2
<1>4. ASSUME NEW u \in User, members'[u].origin \in Request, NEW a, a = members'[u].origin
      PROVE  Past(a, "join")' /\ req'[a].user = u /\ req'[a].given = members'[u].role
  <2>1. CASE members'[u] = members[u]
    <3>1. a = members[u].origin /\ a \in Request
      BY <1>4, <2>1
    <3>2. Past(a, "join") /\ req[a].user = u /\ req[a].given = members[u].role
      BY <3>1 DEF Addressed
    <3>3. Past(a, "join")' /\ SameArguments(req'[a], req[a]) /\ req'[a].given = req[a].given
      BY <3>1, <3>2, PastStays DEF Lasting
    <3>4. QED
      BY <2>1, <3>2, <3>3 DEF SameArguments
  <2>2. CASE members'[u] # members[u]
    <3>1. PICK r \in Request : /\ Continues(r, "join") /\ req[r].user = u
                               /\ members'[u] = [role |-> req[r].given, origin |-> r]
      BY <1>4, <2>2, MembersChange, OrganizationsAssumption DEF NoMember, OwnerRow
    <3>2. Past(r, "join")' /\ SameArguments(req'[r], req[r])
      BY <3>1, ContinuesPast
    <3>3. req'[r].given = req[r].given
      BY <3>1 DEF Continues, Moves, SameBut, At
    <3>4. QED
      BY <1>4, <3>1, <3>2, <3>3 DEF SameArguments
  <2>3. QED
    BY <2>1, <2>2
<1>5. QED
  BY <1>1, <1>2, <1>3, <1>4 DEF Addressed, Past, Issued

\* A membership of a request has the address and the role of its invite.
LEMMA AddressedIsInvited == Progress /\ Addressed => InvitedAsAddressed
<1> SUFFICES ASSUME Progress, Addressed, NEW u \in User, members[u].origin \in Request
             PROVE  LET i == req[members[u].origin].invite
                    IN  invites[i].email = u /\ invites[i].role = members[u].role
  BY DEF InvitedAsAddressed
<1> DEFINE a == members[u].origin
<1>1. a \in Request /\ Past(a, "join") /\ req[a].user = u /\ req[a].given = members[u].role
  BY DEF Addressed
<1> HIDE DEF a
<1>2. Past(a, "claim")
  BY <1>1, JoinedClaimed
<1>3. QED
  BY <1>1, <1>2 DEF Addressed, a

\* There is no invite before the requests, or the one of the owner's.
LEMMA AddressedInit == WorkspaceInit => Addressed
<1> SUFFICES ASSUME WorkspaceInit PROVE Addressed
  OBVIOUS
<1>1. \A r \in Request : req[r].state = "idle"
  BY DEF WorkspaceInit, Unset
<1>2. \A r \in Request, s \in Stopping : ~ Past(r, s)
  BY <1>1 DEF Past
<1>3. \A u \in User : members[u].origin = Earlier
  <2>1. NoMember.origin = Earlier /\ [role |-> "owner", origin |-> Earlier].origin = Earlier
    BY DEF NoMember
  <2>2. CASE members = [u \in User |-> NoMember]
    BY <2>1, <2>2
  <2>3. ASSUME NEW owner \in User,
               members = [v \in User |-> IF v = owner
                             THEN [role |-> "owner", origin |-> Earlier] ELSE NoMember]
        PROVE  \A u \in User : members[u].origin = Earlier
    BY <2>1, <2>3
  <2>4. QED
    BY <2>2, <2>3 DEF WorkspaceInit, OrganizationsInit
<1>4. \A i \in Origin : Issued(i) => i = Earlier /\ invites[i].role \in Invitable
  <2>1. CASE invites = [i \in Origin |-> NoInvite]
    BY <2>1 DEF NoInvite, Issued
  <2>2. ASSUME NEW u \in User, NEW role \in Invitable,
               invites = [i \in Origin |-> IF i # Earlier THEN NoInvite
                              ELSE [NoInvite EXCEPT !.email = u, !.role = role]]
        PROVE  \A i \in Origin : Issued(i) => i = Earlier /\ invites[i].role \in Invitable
    <3>1. NoInvite.email = Nobody /\ [NoInvite EXCEPT !.email = u, !.role = role].role = role
      BY DEF NoInvite
    <3>2. QED
      BY <2>2, <3>1 DEF Issued
  <2>3. QED
    BY <2>1, <2>2 DEF WorkspaceInit, OrganizationsInit
<1>5. Earlier \notin Request /\ \A i \in Request : i \in Origin
  BY OrganizationsAssumption DEF Origin
<1>6. QED
  BY <1>2, <1>3, <1>4, <1>5 DEF Addressed, Stopping

\* Nobody joins but with an invite to their own address and in the role that it
\* carries, through every interleaving of invites, acceptances and removals.
THEOREM JoinedAsInvited == WorkspaceSpec => []InvitedAsAddressed
<1>1. Progress /\ Addressed /\ [WorkspaceNext]_workspaceVars => Addressed'
  BY AddressedKept
<1>2. QED
  BY <1>1, AddressedInit, AddressedIsInvited, WorkspaceProgress, PTL DEF WorkspaceSpec

-----------------------------------------------------------------------------
(* An invite admits once *)

\* Whoever joined is a member, or was removed.
Admitted ==
    \A a \in Request : Past(a, "join") =>
        \/ Member(req[a].user)
        \/ \E r \in Of("remove") : req[r].user = req[a].user /\ Past(r, "delete")

\* A member leaves only by a removal.
LEMMA AdmittedKept ==
    ASSUME Progress, Addressed, Admitted, [WorkspaceNext]_workspaceVars
    PROVE  Admitted'
<1> SUFFICES ASSUME NEW a \in Request, Past(a, "join")', NEW u, u = req'[a].user
             PROVE  \/ members'[u].role # "none"
                    \/ \E r \in Of("remove")' : req'[r].user = u /\ Past(r, "delete")'
  BY DEF Admitted, Member, Past, Of
<1>1. ASSUME NEW r \in Request, Past(r, "delete"), req[r].user = u, req[r].kind = "remove"
      PROVE  \E q \in Of("remove")' : req'[q].user = u /\ Past(q, "delete")'
  BY <1>1, PastStays DEF Lasting, SameArguments, Of
<1>2. CASE Past(a, "join")
  <2>1. u = req[a].user /\ u \in User
    BY <1>2, PastStays, JoinedClaimed DEF Lasting, SameArguments
  <2>2. CASE members'[u] = members[u]
    BY <1>1, <1>2, <2>1, <2>2 DEF Admitted, Member, Of
  <2>3. CASE members'[u] # members[u]
    <3>1. ASSUME NEW r \in Request, Continues(r, "join"),
                 members'[u] = [role |-> req[r].given, origin |-> r], Join(r), ~ Member(u)
          PROVE  \E q \in Of("remove")' : req'[q].user = u /\ Past(q, "delete")'
      BY <1>1, <1>2, <2>1, <3>1 DEF Admitted, Of
    <3>2. ASSUME NEW r \in Request, Continues(r, "delete"), req[r].user = u
          PROVE  \E q \in Of("remove")' : req'[q].user = u /\ Past(q, "delete")'
      <4>1. Past(r, "delete")' /\ SameArguments(req'[r], req[r]) /\ req[r].kind = "remove"
        BY <3>2, ContinuesPast, AtPlan DEF Continues, Planned
      <4>2. QED
        BY <3>2, <4>1 DEF SameArguments, Of
    <3>3. ASSUME NothingYet PROVE FALSE
      BY <1>2, <3>3 DEF NothingYet, Past
    <3>4. ASSUME ~ Member(u)
          PROVE  \E q \in Of("remove")' : req'[q].user = u /\ Past(q, "delete")'
      BY <1>1, <1>2, <2>1, <3>4 DEF Admitted, Of
    <3>5. QED
      BY <2>1, <2>3, <3>2, <3>3, <3>4, MembersChange
  <2>4. QED
    BY <2>2, <2>3
<1>3. CASE ~ Past(a, "join")
  <2>1. Continues(a, "join")
    BY <1>3, PastFrom
  <2>2. u = req[a].user /\ u \in User /\ req[a].given \in Invitable
    <3>1. Before(PlanFor(req[a].kind), "claim", "join") /\ OnPlan(a) /\ req[a].kind = "accept"
          /\ SameArguments(req'[a], req[a])
      BY <2>1, AtPlan DEF Continues, Moves, Planned, Progress
    <3>2. Has(PlanFor(req[a].kind), "claim") /\ ~ Has(req[a].todo, "claim")
          /\ req[a].state = "running" /\ req[a].invite \in Origin
      BY <2>1, <3>1, AtPlan DEF Continues, At, Planned, Locals
    <3>3. Past(a, "claim")
      BY <3>2 DEF Past
    <3>4. QED
      BY <3>1, <3>2, <3>3 DEF Addressed, SameArguments, OnPlan
  <2>3. members'[u] = [role |-> req[a].given, origin |-> a]
    <3>1. Join(a)
      BY <2>1, MovesByStatement DEF Continues
    <3>2. members' = [members EXCEPT ![req[a].user] = [role |-> req[a].given, origin |-> a]]
      BY <2>1, <3>1, OtherMoves, ContinuesOrStops
    <3>3. QED
      BY <2>2, <3>2 DEF Progress, TypeOK, OrganizationsTypeOK
  <2>4. QED
    BY <2>2, <2>3, OrganizationsAssumption
<1>4. QED
  BY <1>2, <1>3

\* AdmitsOnce, by what is left.
Once ==
    \A a, b \in Request :
        a # b /\ req[a].invite = req[b].invite /\ Past(a, "join") /\ Past(b, "join")
        => \E r \in Of("remove") : req[r].user = req[a].user /\ Past(r, "delete")

\* Once says what AdmitsOnce says.
LEMMA OnceIs == Progress => (Once <=> AdmitsOnce)
<1> SUFFICES ASSUME Progress PROVE Once <=> AdmitsOnce
  OBVIOUS
<1>1. "accept" \in DOMAIN OrgPlan /\ "remove" \in DOMAIN OrgPlan
  BY DEF OrgPlan
<1>2. \A a \in Request : Past(a, "join") <=> a \in Of("accept") /\ Carried(a, "join")
  BY <1>1, JoinedClaimed, CarriedIs DEF Of
<1>3. \A r \in Of("remove") : Past(r, "delete") <=> Carried(r, "delete")
  BY <1>1, CarriedIs DEF Of
<1>4. Of("accept") \subseteq Request
  BY DEF Of
<1>5. QED
  BY <1>2, <1>3, <1>4 DEF Once, AdmitsOnce

\* Who joins a second time with an invite joins after a removal.
LEMMA OnceKept ==
    ASSUME Progress, Addressed, Admitted, Once, [WorkspaceNext]_workspaceVars
    PROVE  Once'
<1> SUFFICES ASSUME NEW a \in Request, NEW b \in Request, a # b,
                    req'[a].invite = req'[b].invite, Past(a, "join")', Past(b, "join")'
             PROVE  \E r \in Of("remove")' : req'[r].user = req'[a].user /\ Past(r, "delete")'
  BY DEF Once
<1>1. ASSUME NEW r \in Of("remove"), Past(r, "delete"), req[r].user = req'[a].user
      PROVE  \E q \in Of("remove")' : req'[q].user = req'[a].user /\ Past(q, "delete")'
  BY <1>1, PastStays DEF Lasting, SameArguments, Of
<1>2. CASE Past(a, "join") /\ Past(b, "join")
  <2>1. SameArguments(req'[a], req[a]) /\ SameArguments(req'[b], req[b])
    BY <1>2, PastStays DEF Lasting
  <2>2. QED
    BY <1>1, <1>2, <2>1 DEF Once, SameArguments
\* The second of the two joins now: the first is no member any more.
<1>3. ASSUME NEW p \in Request, NEW q \in Request, p # q, {p, q} = {a, b},
             Past(p, "join"), Continues(q, "join")
      PROVE  \E r \in Of("remove")' : req'[r].user = req'[a].user /\ Past(r, "delete")'
  <2>1. SameArguments(req'[p], req[p]) /\ SameArguments(req'[q], req[q])
    BY <1>3, PastStays, ContinuesPast DEF Lasting
  <2>2. Past(p, "claim")
    BY <1>3, JoinedClaimed
  <2>3. Past(q, "claim") /\ req[q].invite \in Origin
    <3>1. Has(PlanFor(req[q].kind), "claim") /\ ~ Has(req[q].todo, "claim")
          /\ req[q].state = "running" /\ req[q].invite \in Origin
      BY <1>3, AtPlan DEF Continues, At, Planned, Locals
    <3>2. QED
      BY <3>1 DEF Past
  <2>4. req[p].invite = req[q].invite
    BY <1>3, <2>1 DEF SameArguments
  <2>5. req[p].user = req[q].user /\ req'[a].user = req[p].user
    BY <1>3, <2>1, <2>2, <2>3, <2>4 DEF Addressed, SameArguments
  <2>6. ~ Member(req[q].user)
    BY <1>3, MovesByStatement, OtherMoves, ContinuesOrStops DEF Continues
  <2>7. QED
    BY <1>1, <1>3, <2>5, <2>6 DEF Admitted
<1>4. CASE ~ Past(a, "join") /\ ~ Past(b, "join")
  <2>1. Continues(a, "join") /\ Continues(b, "join")
    BY <1>4, PastFrom
  <2>2. req'[b] # req[b] /\ req'[b] = req[b]
    BY <2>1, MovesChange DEF Continues, Moves
  <2>3. QED
    BY <2>2
<1>5. QED
  BY <1>2, <1>3, <1>4, PastFrom

\* Of two requests that join with one invite, the second one joins after the
\* member that the first one made was removed.
THEOREM InviteAdmitsOnce == WorkspaceSpec => []AdmitsOnce
<1> DEFINE Inv == Addressed /\ Admitted /\ Once
<1>1. WorkspaceInit => Inv
  <2> SUFFICES ASSUME WorkspaceInit PROVE Inv
    OBVIOUS
  <2>1. \A r \in Request : ~ Past(r, "join")
    BY DEF WorkspaceInit, Unset, Past
  <2>2. QED
    BY <2>1, AddressedInit DEF Admitted, Once
<1>2. Progress /\ Inv /\ [WorkspaceNext]_workspaceVars => Inv'
  BY AddressedKept, AdmittedKept, OnceKept
<1>3. Progress /\ Inv => AdmitsOnce
  BY OnceIs
<1>4. QED
  BY <1>1, <1>2, <1>3, WorkspaceProgress, PTL DEF WorkspaceSpec

-----------------------------------------------------------------------------
(* Re-inviting voids *)

\* Who voided has voided every earlier invite to the address.
Voided ==
    \A j \in Request : Past(j, "void") =>
        \A i \in Request : i \in req[j].before /\ Issued(i) /\ invites[i].email = req[j].user
                           => invites[i].used

\* An invite to the address that ended before cannot be issued after, and the
\* others are found by the statement that voids.
LEMMA VoidedKept ==
    ASSUME Progress, Addressed, Voided, [WorkspaceNext]_workspaceVars
    PROVE  Voided'
<1> SUFFICES ASSUME NEW j \in Request, Past(j, "void")', NEW i \in Request, i \in req'[j].before,
                    Issued(i)', invites'[i].email = req'[j].user
             PROVE  invites'[i].used
  BY DEF Voided
<1>1. SameArguments(req'[j], req[j]) /\ req[j].state # "idle"
  <2>1. Past(j, "void") \/ Continues(j, "void")
    BY PastFrom
  <2>2. req[j].state # "idle"
    BY <2>1 DEF Past, Continues, At
  <2>3. QED
    BY <2>2, RequestStays
<1>2. i \in Origin /\ i \in req[j].before /\ req[i].state \in Ended
  BY <1>1 DEF SameArguments, Origin, Progress, OnPlan
<1>3. ~ Continues(i, "issue")
  BY <1>2 DEF Continues, At, Ended
<1>4. Issued(i)
  BY <1>2, <1>3, InvitesChange DEF Issued
<1>5. invites[i].email = req[j].user /\ (invites[i].used => invites'[i].used)
  BY <1>1, <1>2, <1>4, InvitesKept DEF SameArguments
<1>6. CASE Past(j, "void")
  BY <1>2, <1>4, <1>5, <1>6 DEF Voided
<1>7. CASE ~ Past(j, "void")
  <2>1. VoidPending(j)
    BY <1>7, PastFrom, MovesByStatement DEF Continues
  <2>2. invites' = [k \in Origin |->
            [invites[k] EXCEPT !.used = @ \/ invites[k].email = req[j].user]]
    BY <2>1 DEF VoidPending
  <2>3. invites[i] \in [email : User \cup {Nobody}, role : Role, used : BOOLEAN]
    BY <1>2 DEF Progress, TypeOK, OrganizationsTypeOK
  <2>4. QED
    BY <1>2, <1>5, <2>2, <2>3
<1>8. QED
  BY <1>6, <1>7

\* An issued invite voided those before it.
LEMMA VoidedIs == Progress /\ Addressed /\ Voided => ReinviteVoids
<1> SUFFICES ASSUME Progress, Addressed, Voided, NEW i \in Of("invite"), NEW j \in Of("invite"),
                    i \in req[j].before, Issued(i), Issued(j),
                    invites[i].email = invites[j].email
             PROVE  invites[i].used
  BY DEF ReinviteVoids
<1>1. i \in Request /\ j \in Request
  BY DEF Of
<1>2. Past(j, "issue") /\ invites[j].email = req[j].user /\ req[j].kind = "invite"
  BY <1>1 DEF Addressed
<1>3. Before(PlanFor(req[j].kind), "void", "issue")
  BY <1>1, <1>2, PlansPlanned DEF Planned, Progress, TypeOK, Locals
<1>4. Past(j, "void")
  BY <1>1, <1>2, <1>3, PastInOrder
<1>5. QED
  BY <1>1, <1>2, <1>4 DEF Voided

\* An invite whose request had ended when another one to its address came is
\* void once that one is issued.
THEOREM ReinvitingVoids == WorkspaceSpec => []ReinviteVoids
<1> DEFINE Inv == Addressed /\ Voided
<1>1. WorkspaceInit => Inv
  <2> SUFFICES ASSUME WorkspaceInit PROVE Inv
    OBVIOUS
  <2>1. \A r \in Request : ~ Past(r, "void")
    BY DEF WorkspaceInit, Unset, Past
  <2>2. QED
    BY <2>1, AddressedInit DEF Voided
<1>2. Progress /\ Inv /\ [WorkspaceNext]_workspaceVars => Inv'
  BY AddressedKept, VoidedKept
<1>3. QED
  BY <1>1, <1>2, VoidedIs, WorkspaceProgress, PTL DEF WorkspaceSpec

-----------------------------------------------------------------------------
(* Managers manage *)

\* The user of r joined after r came.
Late(r) ==
    \E a \in Request : /\ req[a].kind = "accept" /\ req[a].by = req[r].by
                       /\ Past(a, "join") /\ a \notin req[r].before

\* The permission class saw a manager, or nobody; a user that the tenant getter
\* lets pass is a member.
Trusted ==
    \A r \in Request : req[r].kind \in Managing =>
        /\ Past(r, "permit") =>
               \/ req[r].role \in {"admin", "owner"}
               \/ req[r].role = "none" /\ (~ Member(req[r].by) \/ Late(r))
        /\ Past(r, "load") => req[r].role \in {"admin", "owner"} \/ Late(r)

\* The permission class passes managers and those who are no members.
LEMMA PermittedIs ==
    ASSUME NEW u, members[u].role \in Role, Permitted(u)
    PROVE  members[u].role \in {"none", "admin", "owner"}
<1>1. members[u].role \in {"none", "viewer", "developer", "admin", "owner"}
  BY DEF Role, Rank
<1>2. Rank["viewer"] = 1 /\ Rank["developer"] = 2 /\ Rank["admin"] = 3
  BY DEF Rank
<1>3. ~ (1 >= 3) /\ ~ (2 >= 3)
  OBVIOUS
<1>4. QED
  BY <1>1, <1>2, <1>3 DEF Permitted, Member

\* Who joined late stays one who joined late.
LEMMA LateStays ==
    ASSUME Progress, [WorkspaceNext]_workspaceVars, NEW r \in Request, req[r].state # "idle", Late(r)
    PROVE  Late(r)'
<1>1. PICK a \in Request : /\ req[a].kind = "accept" /\ req[a].by = req[r].by
                           /\ Past(a, "join") /\ a \notin req[r].before
  BY DEF Late
<1>2. SameArguments(req'[r], req[r])
  BY RequestStays
<1>3. Past(a, "join")' /\ SameArguments(req'[a], req[a])
  BY <1>1, PastStays DEF Lasting
<1>4. QED
  BY <1>1, <1>2, <1>3 DEF Late, SameArguments

\* A user becomes a member, after a request of theirs came, by joining.
LEMMA JoinsLate ==
    ASSUME Progress, [WorkspaceNext]_workspaceVars, NEW r \in Request, req[r].state # "idle",
           NEW u \in User, u = req[r].by, ~ Member(req[r].by), Member(req[r].by)'
    PROVE  Late(r)'
<1>1. SameArguments(req'[r], req[r])
  BY RequestStays
<1>2. members'[u] # members[u] /\ ~ NothingYet
  <2>1. req'[r].by = u
    BY <1>1 DEF SameArguments
  <2>2. members'[u].role # "none" /\ members[u].role = "none"
    BY <2>1 DEF Member
  <2>3. QED
    BY <2>2 DEF NothingYet
<1>3. members'[u].role # "none"
  BY <1>1 DEF SameArguments, Member
<1>4. PICK a \in Request : Continues(a, "join") /\ req[a].user = u
  <2>1. NoMember.role = "none"
    BY DEF NoMember
  <2>2. members'[u] # NoMember
    BY <1>3, <2>1
  <2>3. QED
    BY <1>2, <2>2, MembersChange
<1>5. req[a].kind = "accept" /\ req[a].by = u
  BY <1>4, AtPlan DEF Continues, Planned, Progress, OnPlan
<1>6. a \notin req[r].before
  BY <1>4 DEF Continues, At, Progress, OnPlan, Ended
<1>7. Past(a, "join")' /\ SameArguments(req'[a], req[a])
  BY <1>4, ContinuesPast
<1>8. QED
  BY <1>1, <1>5, <1>6, <1>7 DEF Late, SameArguments

\* A managing request is asked for its permission before its tenant.
LEMMA ManagingPlan ==
    ASSUME Progress, NEW r \in Request, req[r].kind \in Managing
    PROVE  /\ Before(PlanFor(req[r].kind), "permit", "load")
           /\ Past(r, "load") => Past(r, "permit")
           /\ At(r, "load") => Past(r, "permit")
<1>1. Before(PlanFor(req[r].kind), "permit", "load") /\ Has(PlanFor(req[r].kind), "permit")
  BY PlansPlanned DEF Planned, Progress, TypeOK, Locals
<1>2. At(r, "load") => Past(r, "permit")
  BY <1>1, AtPlan DEF Past, At
<1>3. QED
  BY <1>1, <1>2, PastInOrder

\* The role of a request is the one the permission class saw.
LEMMA RoleStays ==
    ASSUME Progress, [WorkspaceNext]_workspaceVars, NEW r \in Request, Past(r, "permit")
    PROVE  req'[r].role = req[r].role /\ SameArguments(req'[r], req[r]) /\ req[r].state # "idle"
<1>1. ~ At(r, "permit")
  BY AtPlan DEF Past
<1>2. Moves(r) => req'[r].role = req[r].role
  BY <1>1, MovesAt DEF Moves, SameBut
<1>3. QED
  BY <1>2, RequestStays DEF Past

\* A request passes its two gates with a role, or with a late membership.
LEMMA TrustedKept ==
    ASSUME Progress, Trusted, [WorkspaceNext]_workspaceVars
    PROVE  Trusted'
<1> SUFFICES ASSUME NEW r \in Request, req'[r].kind \in Managing
             PROVE  /\ Past(r, "permit")' =>
                         \/ req'[r].role \in {"admin", "owner"}
                         \/ req'[r].role = "none" /\ (~ Member(req[r].by)' \/ Late(r)')
                    /\ Past(r, "load")' => req'[r].role \in {"admin", "owner"} \/ Late(r)'
  BY DEF Trusted
<1>1. ASSUME req[r].state # "idle" PROVE req[r].kind \in Managing /\ req[r].by \in User
  <2>1. req[r].kind \in Managing
    BY <1>1, RequestStays DEF SameArguments
  <2>2. "notify" \notin Managing
    BY DEF Managing
  <2>3. QED
    BY <1>1, <2>1, <2>2 DEF Progress, OnPlan
<1>2. ASSUME Past(r, "permit")
      PROVE  \/ req'[r].role \in {"admin", "owner"}
             \/ req'[r].role = "none" /\ (~ Member(req[r].by)' \/ Late(r)')
  <2>1. req'[r].role = req[r].role /\ req[r].state # "idle"
    BY <1>2, RoleStays
  <2>2. QED
    BY <1>1, <1>2, <2>1, JoinsLate, LateStays DEF Trusted
<1>3. ASSUME Continues(r, "permit")
      PROVE  \/ req'[r].role \in {"admin", "owner"}
             \/ req'[r].role = "none" /\ ~ Member(req[r].by)'
  <2>1. Permit(r) /\ req[r].state # "idle"
    BY <1>3, MovesByStatement DEF Continues, At
  <2>2. Permitted(req[r].by) /\ req'[r].role = members[req[r].by].role
    BY <1>3, <2>1, PermitMoves, ContinuesOrStops
  <2>3. members' = members /\ SameArguments(req'[r], req[r])
    BY <1>3, <2>1, ContinuesPast DEF Permit, orgVars
  <2>4. members[req[r].by].role \in Role
    BY <1>1, <2>1 DEF Progress, TypeOK, OrganizationsTypeOK
  <2>5. req'[r].role \in {"none", "admin", "owner"}
    BY <2>2, <2>4, PermittedIs
  <2>6. req'[r].role = "none" => ~ Member(req[r].by)'
    BY <2>2, <2>3 DEF Member, SameArguments
  <2>7. QED
    BY <2>5, <2>6
<1>4. ASSUME Past(r, "load")
      PROVE  req'[r].role \in {"admin", "owner"} \/ Late(r)'
  <2>1. req[r].state # "idle"
    BY <1>4 DEF Past
  <2>2. Past(r, "permit")
    BY <1>1, <1>4, <2>1, ManagingPlan
  <2>3. QED
    BY <1>1, <1>4, <2>1, <2>2, RoleStays, LateStays DEF Trusted
<1>5. ASSUME Continues(r, "load")
      PROVE  req'[r].role \in {"admin", "owner"} \/ Late(r)'
  <2>1. LoadOrganization(r) /\ req[r].state # "idle" /\ At(r, "load")
    BY <1>5, MovesByStatement DEF Continues, At
  <2>2. Member(req[r].by)
    BY <1>5, <2>1, OtherMoves, ContinuesOrStops
  <2>3. Past(r, "permit")
    BY <1>1, <2>1, ManagingPlan
  <2>4. req[r].role \in {"admin", "owner"} \/ Late(r)
    BY <1>1, <2>1, <2>2, <2>3 DEF Trusted
  <2>5. QED
    BY <2>1, <2>3, <2>4, RoleStays, LateStays
<1>6. QED
  BY <1>2, <1>3, <1>4, <1>5, PastFrom

\* A finished request has passed its tenant getter.
LEMMA TrustedIs == Progress /\ Trusted => ManagersManage
<1> SUFFICES ASSUME Progress, Trusted, NEW r \in Request, req[r].kind \in Managing,
                    req[r].state = "ok", req[r].role \notin {"admin", "owner"}
             PROVE  \E a \in Of("accept") : /\ req[a].by = req[r].by /\ Carried(a, "join")
                                            /\ a \notin req[r].before
  BY DEF ManagersManage
<1>1. Has(PlanFor(req[r].kind), "load")
  BY PlansPlanned DEF Planned, Progress, TypeOK, Locals
<1>2. ~ Has(req[r].todo, "load")
  BY DEF Progress, OnPlan, Has
<1>3. Late(r)
  BY <1>1, <1>2 DEF Past, Trusted
<1>4. PICK a \in Request : /\ req[a].kind = "accept" /\ req[a].by = req[r].by
                           /\ Past(a, "join") /\ a \notin req[r].before
  BY <1>3 DEF Late
<1>5. Carried(a, "join")
  BY <1>4, CarriedIs DEF OrgPlan
<1>6. QED
  BY <1>4, <1>5 DEF Of

\* Who invites, removes or sees pending invites is a manager when the permission
\* class looks, or joined while the request was under way.
THEOREM OnlyManagersManage == WorkspaceSpec => []ManagersManage
<1>1. WorkspaceInit => Trusted
  <2> SUFFICES ASSUME WorkspaceInit PROVE Trusted
    OBVIOUS
  <2>1. \A r \in Request : \A s : ~ Past(r, s)
    BY DEF WorkspaceInit, Unset, Past
  <2>2. QED
    BY <2>1 DEF Trusted
<1>2. Progress /\ Trusted /\ [WorkspaceNext]_workspaceVars => Trusted'
  BY TrustedKept
<1>3. QED
  BY <1>1, <1>2, TrustedIs, WorkspaceProgress, PTL DEF WorkspaceSpec

-----------------------------------------------------------------------------
(* Patches keep what the others gave *)

\* A patch loads its row, then saves it.
LEMMA PatchMoves ==
    ASSUME Progress, [WorkspaceNext]_workspaceVars, NEW p \in Request, Moves(p),
           req[p].kind = "patch"
    PROVE  \/ /\ Continues(p, "materialize") /\ Materialize(p) /\ Has(req[p].todo, "materialize")
              /\ req'[p].copy = preferences[req[p].by].on
           \/ /\ Continues(p, "save") /\ SavePreferences(p) /\ ~ Has(req[p].todo, "materialize")
              /\ Has(req[p].todo, "save")
<1> DEFINE s == Head(req[p].todo)
<1>1. At(p, s)
  BY MovesAt
<1> HIDE DEF s
<1>2. s \in {"materialize", "save"}
  <2>1. Has(PlanFor("patch"), s)
    BY <1>1, AtPlan
  <2>2. PlanFor("patch") = PatchPreferences /\ DOMAIN PatchPreferences = {1, 2}
        /\ PatchPreferences[1] = "materialize" /\ PatchPreferences[2] = "save"
    BY DEF PlanFor, OrgPlan, InboxPlan, PatchPreferences
  <2>3. QED
    BY <2>1, <2>2 DEF Has
<1>3. CASE s = "materialize"
  BY <1>1, <1>3, MovesByStatement, MaterializeMoves, AtPlan DEF Continues
<1>4. CASE s = "save"
  <2>1. Before(PlanFor("patch"), "materialize", "save") /\ Has(PlanFor("patch"), "materialize")
    BY <1>1, AtPlan DEF Planned
  <2>2. QED
    BY <1>1, <1>4, <2>1, MovesByStatement, SaveMoves, AtPlan DEF Continues
<1>5. QED
  BY <1>2, <1>3, <1>4

\* How a preference row changes.
LEMMA PreferencesChange ==
    ASSUME Progress, [WorkspaceNext]_workspaceVars, NEW u \in User, preferences'[u] # preferences[u]
    PROVE  \E p \in Request :
              /\ req[p].by = u /\ req[p].kind = "patch"
              /\ \/ /\ Continues(p, "materialize")
                    /\ preferences'[u].stored = TRUE /\ preferences'[u].on = preferences[u].on
                 \/ /\ Continues(p, "save")
                    /\ preferences'[u].stored = preferences[u].stored
                    /\ preferences'[u].on = (req[p].copy \cup req[p].on) \ req[p].off
<1>1. preferences \in [User -> Preference]
  BY DEF Progress, TypeOK, NotificationsTypeOK, Preference
<1>2. PICK p \in Request : Moves(p) /\ InboxMove(p)
  BY WorkspaceMoves
     DEF OrgMove, InboxMove, Comes, Founds, CreateOrganization, workspaceVars, inboxVars
<1>3. Materialize(p) \/ SavePreferences(p)
  BY <1>2 DEF InboxMove, InboxStatement, ReadAudience, ReadPreferences, Deliver, MarkRead, inboxVars
<1>4. CASE Materialize(p)
  <2>1. Continues(p, "materialize") /\ req[p].kind = "patch"
    BY <1>4, MaterializeMoves, AtPlan DEF Continues, Planned
  <2>2. preferences' = [preferences EXCEPT ![req[p].by].stored = TRUE]
    BY <1>4 DEF Materialize
  <2>3. req[p].by = u
    BY <1>1, <2>2
  <2>4. preferences'[u].stored = TRUE /\ preferences'[u].on = preferences[u].on
    BY <1>1, <2>2, <2>3 DEF Preference
  <2>5. QED
    BY <2>1, <2>3, <2>4
<1>5. CASE SavePreferences(p)
  <2>1. Continues(p, "save") /\ req[p].kind = "patch"
    BY <1>5, SaveMoves, AtPlan DEF Continues, Planned
  <2>2. preferences' = [preferences EXCEPT
            ![req[p].by].on = (req[p].copy \cup req[p].on) \ req[p].off]
    BY <1>5 DEF SavePreferences
  <2>3. req[p].by = u
    BY <1>1, <2>2
  <2>4. /\ preferences'[u].stored = preferences[u].stored
        /\ preferences'[u].on = (req[p].copy \cup req[p].on) \ req[p].off
    BY <1>1, <2>2, <2>3 DEF Preference
  <2>5. QED
    BY <2>1, <2>3, <2>4
<1>6. QED
  BY <1>3, <1>4, <1>5

\* A patch of u, ended or under way, stays one.
LEMMA PatchesStay ==
    ASSUME Progress, [WorkspaceNext]_workspaceVars, NEW u \in User, NEW q \in Patches(u)
    PROVE  q \in Patches(u)' /\ SameArguments(req'[q], req[q]) /\ q \in Request
BY RequestStays DEF Patches, Of, SameArguments

\* The hypothesis of ToggleKept: p gave t its value, and no patch that gives t
\* or ran beside p came between.
Settled(u, p, t) ==
    /\ p \in Patches(u) /\ req[p].state = "ok" /\ Gives(p, t)
    /\ \A q \in Patches(u) : Apart(p, q) /\ (Gives(q, t) => q = p)

\* q has a row in memory that it will save.
Loaded(q) ==
    req[q].state = "running" /\ ~ Has(req[q].todo, "materialize") /\ Has(req[q].todo, "save")

\* A settled toggle has its value in the table, and in every row that a patch
\* will save.
Settling ==
    \A u \in User : \A p \in Request : \A t \in Toggle : Settled(u, p, t) =>
        /\ t \in preferences[u].on <=> t \in req[p].on
        /\ \A q \in Patches(u) : q # p /\ Loaded(q) => (t \in req[q].copy <=> t \in req[p].on)

\* A patch that is saved was saved, or is saved now.
LEMMA SavedFrom ==
    ASSUME Progress, [WorkspaceNext]_workspaceVars, NEW u \in User, NEW p \in Request,
           p \in Patches(u)', req'[p].state = "ok"
    PROVE  /\ p \in Patches(u) /\ SameArguments(req'[p], req[p])
           /\ \/ req[p].state = "ok" /\ req'[p] = req[p]
              \/ Continues(p, "save") /\ SavePreferences(p)
<1>1. req'[p].kind = "patch" /\ req'[p].by = u
  BY DEF Patches, Of
<1>2. Has(PlanFor("patch"), "save")
  BY PlansPlanned DEF Planned, PartKind, InboxPlan
<1>3. Past(p, "save")'
  <2>1. req'[p].todo = <<>>
    BY ProgressKept DEF Progress, OnPlan
  <2>2. QED
    BY <1>1, <1>2, <2>1 DEF Past, Has
<1>4. req[p].state # "idle" /\ (req[p].state # "ok" => Moves(p))
  BY <1>3, PastFrom, RequestStays DEF Past, Continues, At
<1>5. SameArguments(req'[p], req[p]) /\ p \in Patches(u) /\ (req[p].state = "ok" => req'[p] = req[p])
  BY <1>1, <1>4, RequestStays DEF SameArguments, Patches, Of, Ended
<1>6. CASE req[p].state # "ok"
  <2>1. Moves(p) /\ req[p].kind = "patch"
    BY <1>4, <1>5, <1>6 DEF Patches, Of
  <2>2. ~ Continues(p, "materialize")
    <3> SUFFICES ASSUME Continues(p, "materialize") PROVE FALSE
      OBVIOUS
    <3>1. ~ Continues(p, "save")
      BY DEF Continues, At
    <3>2. Past(p, "save")
      BY <1>3, <3>1, PastFrom
    <3>3. Before(PlanFor(req[p].kind), "materialize", "save")
      BY <2>1, PlansPlanned DEF Planned, Progress, TypeOK, Locals
    <3>4. Past(p, "materialize")
      BY <3>2, <3>3, PastInOrder
    <3>5. QED
      BY <3>4, AtPlan DEF Past, Continues
  <2>3. QED
    BY <1>5, <2>1, <2>2, PatchMoves
<1>7. QED
  BY <1>5, <1>6

\* What settles was settled, or is saved now.
LEMMA SettledFrom ==
    ASSUME Progress, [WorkspaceNext]_workspaceVars, NEW u \in User, NEW p \in Request,
           NEW t \in Toggle, Settled(u, p, t)'
    PROVE  /\ p \in Patches(u) /\ SameArguments(req'[p], req[p]) /\ Gives(p, t)
           /\ \A q \in Patches(u) : Apart(p, q) /\ (Gives(q, t) => q = p)
           /\ \/ Settled(u, p, t) /\ req'[p] = req[p]
              \/ Continues(p, "save") /\ SavePreferences(p)
<1>1. /\ p \in Patches(u) /\ SameArguments(req'[p], req[p])
      /\ \/ req[p].state = "ok" /\ req'[p] = req[p]
         \/ Continues(p, "save") /\ SavePreferences(p)
  BY SavedFrom DEF Settled
<1>2. \A q \in Patches(u) : Apart(p, q) /\ (Gives(q, t) => q = p)
  <2> SUFFICES ASSUME NEW q \in Patches(u) PROVE Apart(p, q) /\ (Gives(q, t) => q = p)
    OBVIOUS
  <2>1. q \in Patches(u)' /\ SameArguments(req'[q], req[q])
    BY PatchesStay
  <2>2. Apart(p, q)' /\ (Gives(q, t)' => q = p)
    BY <2>1 DEF Settled
  <2>3. QED
    BY <1>1, <2>1, <2>2 DEF Apart, Gives, SameArguments
<1>3. Gives(p, t)
  BY <1>1 DEF Settled, Gives, SameArguments
<1>4. QED
  BY <1>1, <1>2, <1>3 DEF Settled

\* Who saves now has run alone.
LEMMA SavesAlone ==
    ASSUME Progress, NEW p \in Request, req[p].state = "running", NEW q \in Request, q # p,
           Apart(p, q)
    PROVE  req[q].state # "running"
BY DEF Apart, Progress, OnPlan, Ended

\* A patch has a row in memory because it had it, or has loaded it now.
LEMMA LoadedFrom ==
    ASSUME Progress, [WorkspaceNext]_workspaceVars, NEW u \in User, NEW q \in Patches(u)',
           Loaded(q)'
    PROVE  /\ q \in Request /\ q \in Patches(u)
           /\ \/ Loaded(q) /\ req'[q] = req[q]
              \/ Moves(q) /\ req'[q].copy = preferences[u].on
<1>1. q \in Request /\ req'[q].kind = "patch" /\ req'[q].by = u /\ req'[q].state = "running"
      /\ ~ Has(req'[q].todo, "materialize") /\ Has(req'[q].todo, "save")
  BY DEF Patches, Of, Loaded
<1>2. Past(q, "materialize")'
  <2>1. Has(PlanFor("patch"), "materialize")
    BY PlansPlanned DEF Planned, PartKind, InboxPlan
  <2>2. QED
    BY <1>1, <2>1 DEF Past
<1>3. req[q].state # "idle"
  BY <1>1, <1>2, PastFrom DEF Past, Continues, At
<1>4. SameArguments(req'[q], req[q]) /\ (~ Moves(q) => req'[q] = req[q])
  BY <1>1, <1>3, RequestStays
<1>5. q \in Patches(u) /\ req[q].kind = "patch" /\ req[q].by = u
  BY <1>1, <1>3, <1>4 DEF Patches, Of, SameArguments
<1>6. CASE ~ Moves(q)
  BY <1>1, <1>4, <1>5, <1>6 DEF Loaded
<1>7. CASE Moves(q)
  <2>1. ~ Continues(q, "save")
    BY <1>1, AtPlan DEF Continues
  <2>2. QED
    BY <1>1, <1>5, <1>7, <2>1, PatchMoves
<1>8. QED
  BY <1>6, <1>7

\* A patch that ran beside no other saves what the toggle was given, and later ones copy it.
LEMMA SettlingKept ==
    ASSUME Progress, Settling, [WorkspaceNext]_workspaceVars
    PROVE  Settling'
<1> SUFFICES ASSUME NEW u \in User, NEW p \in Request, NEW t \in Toggle, Settled(u, p, t)'
             PROVE  /\ t \in preferences'[u].on <=> t \in req'[p].on
                    /\ \A q \in Patches(u)' : q # p /\ Loaded(q)' =>
                          (t \in req'[q].copy <=> t \in req'[p].on)
  BY DEF Settling
<1>1. /\ p \in Patches(u) /\ SameArguments(req'[p], req[p]) /\ Gives(p, t)
      /\ \A q \in Patches(u) : Apart(p, q) /\ (Gives(q, t) => q = p)
      /\ \/ Settled(u, p, t) /\ req'[p] = req[p]
         \/ Continues(p, "save") /\ SavePreferences(p)
  BY SettledFrom
<1>2. CASE Settled(u, p, t) /\ req'[p] = req[p]
  <2>1. /\ t \in preferences[u].on <=> t \in req[p].on
        /\ \A q \in Patches(u) : q # p /\ Loaded(q) => (t \in req[q].copy <=> t \in req[p].on)
    BY <1>2 DEF Settling
  <2>2. t \in preferences'[u].on <=> t \in preferences[u].on
    <3>1. CASE preferences'[u] = preferences[u]
      BY <3>1
    <3>2. ASSUME NEW q \in Request, req[q].by = u, req[q].kind = "patch", Continues(q, "save"),
                 preferences'[u].on = (req[q].copy \cup req[q].on) \ req[q].off
          PROVE  t \in preferences'[u].on <=> t \in preferences[u].on
      <4>1. q \in Patches(u) /\ q # p
        BY <1>2, <3>2 DEF Patches, Of, Continues, At, Settled
      <4>2. t \notin req[q].on /\ t \notin req[q].off
        BY <1>1, <4>1 DEF Gives
      <4>3. Loaded(q)
        <5>1. ~ Continues(q, "materialize") /\ Moves(q) /\ req[q].state = "running"
          BY <3>2 DEF Continues, At
        <5>2. QED
          BY <3>2, <5>1, PatchMoves DEF Loaded
      <4>4. QED
        BY <2>1, <3>2, <4>1, <4>2, <4>3
    <3>3. QED
      BY <3>1, <3>2, PreferencesChange
  <2>3. ASSUME NEW q \in Patches(u)', q # p, Loaded(q)'
        PROVE  t \in req'[q].copy <=> t \in req'[p].on
    BY <1>2, <2>1, <2>3, LoadedFrom
  <2>4. QED
    BY <1>2, <2>1, <2>2, <2>3
<1>3. CASE Continues(p, "save") /\ SavePreferences(p)
  <2>1. req[p].state = "running" /\ Moves(p) /\ req[p].by = u
    BY <1>1, <1>3 DEF Continues, At, Patches, Of
  <2>2. t \in preferences'[u].on <=> t \in req'[p].on
    <3>1. preferences'[u].on = (req[p].copy \cup req[p].on) \ req[p].off
      <4>1. preferences' = [preferences EXCEPT
                ![u].on = (req[p].copy \cup req[p].on) \ req[p].off]
        BY <1>3, <2>1 DEF SavePreferences
      <4>2. preferences \in [User -> Preference]
        BY DEF Progress, TypeOK, NotificationsTypeOK, Preference
      <4>3. QED
        BY <4>1, <4>2 DEF Preference
    <3>2. req[p].on \cap req[p].off = {} /\ req'[p].on = req[p].on
      BY <1>1 DEF Progress, OnPlan, SameArguments
    <3>3. QED
      BY <1>1, <3>1, <3>2 DEF Gives
  <2>3. ASSUME NEW q \in Patches(u)', q # p, Loaded(q)' PROVE FALSE
    <3>1. q \in Request /\ q \in Patches(u)
      BY <2>3, LoadedFrom
    <3>2. req'[q] = req[q]
      BY <2>1, <2>3, <3>1 DEF Moves
    <3>3. req[q].state = "running"
      BY <2>3, <3>2 DEF Loaded
    <3>4. QED
      BY <1>1, <2>1, <2>3, <3>1, <3>3, SavesAlone
  <2>4. QED
    BY <2>2, <2>3
<1>4. QED
  BY <1>1, <1>2, <1>3

\* A toggle keeps the value a patch gave it, through all patches of the others
\* that did not run beside that one.
THEOREM TogglesAreKept == WorkspaceSpec => []ToggleKept
<1>1. WorkspaceInit => Settling
  BY DEF WorkspaceInit, Unset, Settling, Settled
<1>2. Progress /\ Settling /\ [WorkspaceNext]_workspaceVars => Settling'
  BY SettlingKept
<1>3. Progress /\ Settling => ToggleKept
  BY DEF Settling, ToggleKept, Settled, Patches, Of
<1>4. QED
  BY <1>1, <1>2, <1>3, WorkspaceProgress, PTL DEF WorkspaceSpec

-----------------------------------------------------------------------------
(* Assigned incidents only *)

Only == "only_assigned_to_me"

\* The last patch of u asked for assigned incidents only.
Asked(u, p) ==
    /\ p \in Patches(u) /\ req[p].state = "ok" /\ Only \in req[p].on
    /\ \A q \in Patches(u) : q = p \/ q \in req[p].before

\* A preference row that lets only the assignee's incidents through.
Narrow(row) == row.stored /\ Only \in row.on

\* n has what statement s reads, and will deliver.
Delivers(n, s) == Past(n, s) /\ Has(req[n].todo, "deliver")

\* Who loaded a preference row has stored it; the row of who asked is narrow,
\* in the table and in what later notices read of it; an assignment is for the
\* assignee; what was delivered to who asked is about their incidents.
Narrowed ==
    /\ \A p \in Request : Past(p, "materialize") => preferences[req[p].by].stored
    /\ \A u \in User : \A p \in Request : Asked(u, p) =>
          /\ Narrow(preferences[u])
          /\ \A n \in Request : p \in req[n].before =>
                /\ Delivers(n, "preferences") => Narrow(req[n].prefs[u])
                /\ inbox[u][n] # "none" => req[n].assignee = u
    /\ \A n \in Request : Delivers(n, "audience") /\ req[n].notice = "incident_assigned" =>
          req[n].audience \subseteq {req[n].assignee}
    /\ \A u \in User : \A n \in Request : inbox[u][n] # "none" => req[n].state # "idle"

\* Rows appear in an inbox by a delivery, to those told.
LEMMA InboxChange ==
    ASSUME Progress, [WorkspaceNext]_workspaceVars, NEW u \in User, NEW n \in Request,
           inbox'[u][n] # "none", inbox[u][n] = "none"
    PROVE  /\ Deliver(n) /\ Moves(n) /\ u \in req[n].audience
           /\ ShouldNotify(req[n].notice, req[n].assignee, req[n].prefs[u], u)
<1>1. inbox \in [User -> [Request -> {"none", "unread", "read"}]]
  BY DEF Progress, TypeOK, NotificationsTypeOK
<1>2. PICK r \in Request : Moves(r) /\ InboxMove(r)
  BY WorkspaceMoves
     DEF OrgMove, InboxMove, Comes, Founds, CreateOrganization, workspaceVars, inboxVars
<1>3. Deliver(r) \/ MarkRead(r)
  BY <1>2 DEF InboxMove, InboxStatement, ReadAudience, ReadPreferences, Materialize,
     SavePreferences, inboxVars
<1>4. CASE MarkRead(r)
  <2>1. inbox' = [inbox EXCEPT ![req[r].by] = [m \in Request |->
            IF @[m] = "unread" /\ (req[r].ids = {} \/ m \in req[r].ids) THEN "read" ELSE @[m]]]
    BY <1>4 DEF MarkRead
  <2>2. QED
    BY <1>1, <2>1
<1>5. CASE Deliver(r)
  <2> DEFINE told == {v \in req[r].audience : v # req[r].by
                      /\ ShouldNotify(req[r].notice, req[r].assignee, req[r].prefs[v], v)}
  <2>1. inbox' = [v \in User |->
            IF v \in told THEN [inbox[v] EXCEPT ![r] = "unread"] ELSE inbox[v]]
    BY <1>5 DEF Deliver
  <2>2. u \in told /\ n = r
    <3> HIDE DEF told
    <3>1. u \in told
      BY <2>1
    <3>2. inbox'[u] = [inbox[u] EXCEPT ![r] = "unread"]
      BY <2>1, <3>1
    <3>3. QED
      BY <1>1, <3>1, <3>2
  <2>3. QED
    BY <1>2, <1>5, <2>2
<1>6. QED
  BY <1>3, <1>4, <1>5

\* A stored row stays stored.
LEMMA StoredStays ==
    ASSUME Progress, [WorkspaceNext]_workspaceVars, NEW u \in User, preferences[u].stored
    PROVE  preferences'[u].stored
BY PreferencesChange

\* The patch that asked was the last one, or is saved now.
LEMMA AskedFrom ==
    ASSUME Progress, [WorkspaceNext]_workspaceVars, NEW u \in User, NEW p \in Request,
           Asked(u, p)'
    PROVE  /\ p \in Patches(u) /\ SameArguments(req'[p], req[p]) /\ Only \in req[p].on
           /\ \/ Asked(u, p) /\ preferences'[u] = preferences[u]
              \/ Continues(p, "save") /\ SavePreferences(p)
<1>1. /\ p \in Patches(u) /\ SameArguments(req'[p], req[p])
      /\ \/ req[p].state = "ok" /\ req'[p] = req[p]
         \/ Continues(p, "save") /\ SavePreferences(p)
  BY SavedFrom DEF Asked
<1>2. \A q \in Patches(u) : q = p \/ q \in req[p].before
  BY <1>1, PatchesStay DEF Asked, SameArguments
<1>3. Only \in req[p].on
  BY <1>1 DEF Asked, SameArguments
<1>4. ASSUME req[p].state = "ok", preferences'[u] # preferences[u] PROVE FALSE
  <2>1. PICK q \in Request : /\ req[q].by = u /\ req[q].kind = "patch"
                             /\ Continues(q, "materialize") \/ Continues(q, "save")
    BY <1>4, PreferencesChange
  <2>2. req[q].state = "running"
    BY <2>1 DEF Continues, At
  <2>3. q \in Patches(u)
    BY <2>1, <2>2 DEF Patches, Of
  <2>4. QED
    BY <1>2, <1>4, <2>2, <2>3 DEF Progress, OnPlan, Ended
<1>5. QED
  BY <1>1, <1>2, <1>3, <1>4 DEF Asked

\* What a notice has read is what it had read, or what it reads now.
LEMMA DeliversFrom ==
    ASSUME Progress, [WorkspaceNext]_workspaceVars, NEW n \in Request,
           NEW s \in {"audience", "preferences"}, Delivers(n, s)'
    PROVE  /\ req[n].state # "idle" /\ SameArguments(req'[n], req[n])
           /\ \/ /\ Delivers(n, s)
                 /\ s = "audience" => req'[n].audience = req[n].audience
                 /\ s = "preferences" => req'[n].prefs = req[n].prefs
              \/ Continues(n, s)
<1>1. Past(n, s) \/ Continues(n, s)
  BY PastFrom DEF Delivers
<1>2. req[n].state # "idle"
  BY <1>1 DEF Past, Continues, At
<1>3. SameArguments(req'[n], req[n]) /\ (~ Moves(n) => req'[n] = req[n])
  BY <1>2, RequestStays
<1>4. CASE Past(n, s) /\ ~ Moves(n)
  BY <1>2, <1>3, <1>4 DEF Delivers
<1>5. CASE Past(n, s) /\ Moves(n)
  <2> DEFINE t == Head(req[n].todo)
  <2>1. At(n, t) /\ SameBut(req'[n], req[n], t)
    BY <1>5, MovesAt DEF Moves
  <2> HIDE DEF t
  <2>2. t # s
    BY <1>5, <2>1, AtPlan DEF Past
  <2>3. Has(req[n].todo, "deliver") /\ t # "deliver"
    <3>1. Has(req'[n].todo, "deliver")
      BY DEF Delivers
    <3>2. Has(Tail(req[n].todo), "deliver") => Has(req[n].todo, "deliver") /\ t # "deliver"
      BY <2>1, AtPlan
    <3>3. t \in Stopping \/ req'[n].todo = Tail(req[n].todo)
      BY <1>5 DEF Moves, Stopping, t
    <3>4. "deliver" \notin Stopping
      BY DEF Stopping
    <3>5. t \in Stopping => req'[n].todo \in {req[n].todo, Tail(req[n].todo)}
      BY <1>5 DEF Moves
    <3>6. QED
      BY <3>1, <3>2, <3>3, <3>4, <3>5
  <2>4. QED
    BY <1>2, <1>3, <1>5, <2>1, <2>2, <2>3 DEF Delivers, SameBut
<1>6. QED
  BY <1>1, <1>2, <1>3, <1>4, <1>5

\* What starts after the patch reads the narrow row.
LEMMA NarrowedKept ==
    ASSUME Progress, Narrowed, [WorkspaceNext]_workspaceVars
    PROVE  Narrowed'
<1>1. ASSUME NEW p \in Request, Past(p, "materialize")', NEW u, u = req'[p].by
      PROVE  preferences'[u].stored
  <2>1. CASE Past(p, "materialize")
    <3>1. SameArguments(req'[p], req[p]) /\ req[p].kind = "patch" /\ req[p].state # "idle"
      BY <2>1, PastStays, PlansPlanned DEF Lasting, Past, Planned, Progress, TypeOK, Locals
    <3>2. u = req[p].by /\ u \in User
      BY <1>1, <3>1 DEF SameArguments, Progress, OnPlan
    <3>3. QED
      BY <2>1, <3>2, StoredStays DEF Narrowed
  <2>2. CASE ~ Past(p, "materialize")
    <3>1. Continues(p, "materialize") /\ Materialize(p)
      BY <1>1, <2>2, PastFrom, MovesByStatement DEF Continues
    <3>2. SameArguments(req'[p], req[p]) /\ req[p].kind = "patch" /\ req[p].state # "idle"
      BY <3>1, AtPlan DEF Continues, Moves, Planned, At
    <3>3. u = req[p].by /\ u \in User
      BY <1>1, <3>2 DEF SameArguments, Progress, OnPlan
    <3>4. preferences' = [preferences EXCEPT ![u].stored = TRUE]
      BY <3>1, <3>3 DEF Materialize
    <3>5. QED
      BY <3>3, <3>4 DEF Progress, TypeOK, NotificationsTypeOK
  <2>3. QED
    BY <2>1, <2>2
<1>2. ASSUME NEW u \in User, NEW p \in Request, Asked(u, p)'
      PROVE  Narrow(preferences'[u])
  <2>1. CASE Asked(u, p) /\ preferences'[u] = preferences[u]
    BY <2>1 DEF Narrowed
  <2>2. CASE Continues(p, "save") /\ SavePreferences(p)
    <3>1. req[p].by = u /\ Only \in req[p].on /\ Moves(p) /\ req[p].kind = "patch"
      BY <1>2, <2>2, AskedFrom DEF Patches, Of, Continues
    <3>2. Past(p, "materialize")
      <4>1. ~ Has(req[p].todo, "materialize")
        <5>1. ~ Continues(p, "materialize")
          BY <2>2 DEF Continues, At
        <5>2. QED
          BY <3>1, <5>1, PatchMoves
      <4>2. Has(PlanFor("patch"), "materialize")
        BY PlansPlanned DEF Planned, PartKind, InboxPlan
      <4>3. QED
        BY <2>2, <3>1, <4>1, <4>2 DEF Past, Continues, At
    <3>3. preferences[u].stored
      BY <3>1, <3>2 DEF Narrowed
    <3>4. preferences' = [preferences EXCEPT
              ![u].on = (req[p].copy \cup req[p].on) \ req[p].off]
      BY <2>2, <3>1 DEF SavePreferences
    <3>5. preferences \in [User -> Preference]
      BY DEF Progress, TypeOK, NotificationsTypeOK, Preference
    <3>6. Only \notin req[p].off
      BY <3>1 DEF Progress, OnPlan
    <3>7. preferences'[u].stored /\ Only \in preferences'[u].on
      BY <3>1, <3>3, <3>4, <3>5, <3>6 DEF Preference
    <3>8. QED
      BY <3>7 DEF Narrow
  <2>3. QED
    BY <1>2, <2>1, <2>2, AskedFrom
\* A patch that ended before a request came is not saved now.
<1>3. ASSUME NEW u \in User, NEW p \in Request, Asked(u, p)', NEW n \in Request,
             req[n].state # "idle", p \in req'[n].before
      PROVE  Asked(u, p) /\ p \in req[n].before
  <2>1. p \in req[n].before
    BY <1>3, RequestStays DEF SameArguments
  <2>2. ~ Continues(p, "save")
    BY <2>1 DEF Progress, OnPlan, Continues, At, Ended
  <2>3. QED
    BY <1>3, <2>1, <2>2, AskedFrom
<1>4. ASSUME NEW u \in User, NEW p \in Request, Asked(u, p)', NEW n \in Request,
             p \in req'[n].before, Delivers(n, "preferences")'
      PROVE  Narrow(req'[n].prefs[u])
  <2>1. req[n].state # "idle"
    BY <1>4, DeliversFrom
  <2>2. Asked(u, p) /\ p \in req[n].before
    BY <1>3, <1>4, <2>1
  <2>3. CASE Delivers(n, "preferences") /\ req'[n].prefs = req[n].prefs
    BY <2>2, <2>3 DEF Narrowed
  <2>4. CASE Continues(n, "preferences")
    <3>1. ReadPreferences(n)
      BY <2>4, MovesByStatement DEF Continues
    <3>2. req'[n].prefs = preferences
      BY <3>1, PreferencesMoves
    <3>3. QED
      BY <2>2, <3>2 DEF Narrowed
  <2>5. QED
    BY <1>4, <2>3, <2>4, DeliversFrom
<1>5. ASSUME NEW n \in Request, Delivers(n, "audience")', req'[n].notice = "incident_assigned"
      PROVE  req'[n].audience \subseteq {req'[n].assignee}
  <2>1. SameArguments(req'[n], req[n])
    BY <1>5, DeliversFrom
  <2>2. CASE Delivers(n, "audience") /\ req'[n].audience = req[n].audience
    BY <1>5, <2>1, <2>2 DEF Narrowed, SameArguments
  <2>3. CASE Continues(n, "audience")
    BY <1>5, <2>1, <2>3, MovesByStatement, AudienceMoves DEF Continues, SameArguments
  <2>4. QED
    BY <1>5, <2>2, <2>3, DeliversFrom
<1>6. ASSUME NEW u \in User, NEW n \in Request, inbox'[u][n] # "none"
      PROVE  req[n].state # "idle" /\ SameArguments(req'[n], req[n]) /\ req'[n].state # "idle"
  <2>1. req[n].state # "idle"
    BY <1>6, InboxChange DEF Narrowed, Moves
  <2>2. QED
    BY <2>1, RequestStays
<1>7. ASSUME NEW u \in User, NEW p \in Request, Asked(u, p)', NEW n \in Request,
             p \in req'[n].before, inbox'[u][n] # "none"
      PROVE  req'[n].assignee = u
  <2>1. Asked(u, p) /\ p \in req[n].before /\ req'[n].assignee = req[n].assignee
    BY <1>3, <1>6, <1>7 DEF SameArguments
  <2>2. CASE inbox[u][n] # "none"
    BY <2>1, <2>2 DEF Narrowed
  <2>3. CASE inbox[u][n] = "none"
    <3>1. /\ Deliver(n) /\ u \in req[n].audience
          /\ ShouldNotify(req[n].notice, req[n].assignee, req[n].prefs[u], u)
      BY <1>7, <2>3, InboxChange
    <3>2. Delivers(n, "audience") /\ Delivers(n, "preferences")
      <4>1. At(n, "deliver")
        BY <3>1 DEF Deliver
      <4>2. /\ Before(PlanFor(req[n].kind), "audience", "deliver")
            /\ Before(PlanFor(req[n].kind), "preferences", "deliver")
            /\ Has(PlanFor(req[n].kind), "audience") /\ Has(PlanFor(req[n].kind), "preferences")
        BY <4>1, AtPlan DEF Planned
      <4>3. QED
        BY <4>1, <4>2, AtPlan DEF Delivers, Past, At
    <3>3. Narrow(req[n].prefs[u])
      BY <2>1, <3>2 DEF Narrowed
    <3>4. req[n].notice = "incident_assigned" => u = req[n].assignee
      BY <3>1, <3>2 DEF Narrowed
    <3>5. req[n].notice # "incident_assigned" => u = req[n].assignee
      BY <3>1, <3>3 DEF ShouldNotify, Narrow, Only
    <3>6. QED
      BY <2>1, <3>4, <3>5
  <2>4. QED
    BY <2>2, <2>3
<1>8. QED
  BY <1>1, <1>2, <1>4, <1>5, <1>6, <1>7 DEF Narrowed

\* Once a user asked for assigned incidents only, and until they patch again,
\* what starts later reaches them for their own incidents only.
THEOREM AssignedOnlyHolds == WorkspaceSpec => []AssignedOnlyIsKept
<1>1. WorkspaceInit => Narrowed
  <2> SUFFICES ASSUME WorkspaceInit PROVE Narrowed
    OBVIOUS
  <2>1. \A r \in Request : req[r].state = "idle"
    BY DEF WorkspaceInit, Unset
  <2>2. \A r \in Request : \A s : ~ Past(r, s)
    BY <2>1 DEF Past
  <2>3. \A u \in User : \A p \in Request : ~ Asked(u, p)
    BY <2>1 DEF Asked
  <2>4. \A u \in User : \A n \in Request : inbox[u][n] = "none"
    BY DEF WorkspaceInit
  <2>5. QED
    BY <2>2, <2>3, <2>4 DEF Narrowed, Delivers
<1>2. Progress /\ Narrowed /\ [WorkspaceNext]_workspaceVars => Narrowed'
  BY NarrowedKept
<1>3. Progress /\ Narrowed => AssignedOnlyIsKept
  BY DEF Narrowed, AssignedOnlyIsKept, Asked, Only, Patches, Of
<1>4. QED
  BY <1>1, <1>2, <1>3, WorkspaceProgress, PTL DEF WorkspaceSpec

=============================================================================
