--------------------------- MODULE AccountsProofs ---------------------------
(***************************************************************************)
(* Codes, registration tokens, passwords and refresh tokens serve whom they *)
(* were issued to, once, for any requests, addresses and attempt limits.    *)
(***************************************************************************)
EXTENDS Accounts, RequestStepsProofs, FiniteSetTheorems

-----------------------------------------------------------------------------
(* The plans *)

Kind == DOMAIN Plan
Statement == UNION {{Plan[kind][i] : i \in DOMAIN Plan[kind]} : kind \in Kind}

\* Statements that may refuse a request, fail it, or end it before its last.
Refusing == {"unregistered", "account", "find", "consume", "token", "free", "register",
             "authenticate", "open"}
Failing == {"mint", "use", "create"}
Ending == {"identify", "open"}

\* Which kinds of request execute a statement, and in which order.
Planned(kind, plan) ==
    /\ plan \in Seq(Statement) /\ plan # <<>> /\ Distinct(plan)
    /\ Has(plan, "void") <=> kind \in {"request_code", "forgot", "reset"}
    /\ Has(plan, "issue") <=> kind \in {"request_code", "forgot"}
    /\ Has(plan, "issue") => Before(plan, "void", "issue")
    /\ Has(plan, "find") <=> kind \in {"verify", "reset"}
    /\ Has(plan, "consume") <=> kind \in {"verify", "reset"}
    /\ Has(plan, "consume") => Before(plan, "find", "consume")
    /\ \A s \in Refusing : Before(plan, "find", s) => s = "consume"
    /\ Has(plan, "drop") \/ Has(plan, "mint") => kind = "verify"
    /\ kind = "verify" => Has(plan, "mint")
    /\ Has(plan, "token") <=> kind = "complete"
    /\ Has(plan, "register") \/ Has(plan, "use") => kind = "complete"
    /\ kind = "complete" => Before(plan, "token", "register")
    /\ Has(plan, "save") => kind = "reset" /\ Before(plan, "consume", "save")
    /\ \A s \in Refusing : ~ Before(plan, "save", s)
    /\ Has(plan, "identify") \/ Has(plan, "derive") \/ Has(plan, "create") => kind = "google"
    /\ Has(plan, "open") <=> kind \in {"refresh", "logout"}
    /\ Has(plan, "blacklist") <=> kind \in {"refresh", "logout"}
    /\ Has(plan, "blacklist") => Before(plan, "open", "blacklist")
    /\ kind \in {"refresh", "logout"} => \A s : Has(plan, s) => s \in {"open", "blacklist"}

\* The endpoints execute their statements as planned.
LEMMA PlansPlanned == \A kind \in Kind : Planned(kind, Plan[kind])
<1>1. Planned("request_code", RequestCode)
  <2>1. Len(RequestCode) = 3 /\ DOMAIN RequestCode = 1..3
    BY DEF RequestCode
  <2>2. RequestCode[1] = "unregistered" /\ RequestCode[2] = "void" /\ RequestCode[3] = "issue"
    BY DEF RequestCode
  <2>3. Plan["request_code"] = RequestCode /\ "request_code" \in Kind
    BY DEF Plan, Kind
  <2>4. \A i \in 1..3 : i = 1 \/ i = 2 \/ i = 3
    OBVIOUS
  <2>5. \A i \in 1..3 : RequestCode[i] \in Statement
    BY <2>1, <2>3 DEF Statement
  <2>6. RequestCode \in Seq(Statement) /\ RequestCode # <<>>
    BY <2>1, <2>5, IsASeq DEF RequestCode
  <2>7. Distinct(RequestCode)
    BY <2>1, <2>2, <2>4 DEF Distinct
  <2>8. QED
    BY <2>1, <2>2, <2>4, <2>6, <2>7 DEF Planned, Has, Before, Refusing
<1>2. Planned("verify", VerifyEmail)
  <2>1. Len(VerifyEmail) = 4 /\ DOMAIN VerifyEmail = 1..4
    BY DEF VerifyEmail
  <2>2. VerifyEmail[1] = "find" /\ VerifyEmail[2] = "consume" /\ VerifyEmail[3] = "drop" /\ VerifyEmail[4] = "mint"
    BY DEF VerifyEmail
  <2>3. Plan["verify"] = VerifyEmail /\ "verify" \in Kind
    BY DEF Plan, Kind
  <2>4. \A i \in 1..4 : i = 1 \/ i = 2 \/ i = 3 \/ i = 4
    OBVIOUS
  <2>5. \A i \in 1..4 : VerifyEmail[i] \in Statement
    BY <2>1, <2>3 DEF Statement
  <2>6. VerifyEmail \in Seq(Statement) /\ VerifyEmail # <<>>
    BY <2>1, <2>5, IsASeq DEF VerifyEmail
  <2>7. Distinct(VerifyEmail)
    BY <2>1, <2>2, <2>4 DEF Distinct
  <2>8. QED
    BY <2>1, <2>2, <2>4, <2>6, <2>7 DEF Planned, Has, Before, Refusing
<1>3. Planned("complete", CompleteRegistration)
  <2>1. Len(CompleteRegistration) = 4 /\ DOMAIN CompleteRegistration = 1..4
    BY DEF CompleteRegistration
  <2>2. CompleteRegistration[1] = "token" /\ CompleteRegistration[2] = "free" /\ CompleteRegistration[3] = "register" /\ CompleteRegistration[4] = "use"
    BY DEF CompleteRegistration
  <2>3. Plan["complete"] = CompleteRegistration /\ "complete" \in Kind
    BY DEF Plan, Kind
  <2>4. \A i \in 1..4 : i = 1 \/ i = 2 \/ i = 3 \/ i = 4
    OBVIOUS
  <2>5. \A i \in 1..4 : CompleteRegistration[i] \in Statement
    BY <2>1, <2>3 DEF Statement
  <2>6. CompleteRegistration \in Seq(Statement) /\ CompleteRegistration # <<>>
    BY <2>1, <2>5, IsASeq DEF CompleteRegistration
  <2>7. Distinct(CompleteRegistration)
    BY <2>1, <2>2, <2>4 DEF Distinct
  <2>8. QED
    BY <2>1, <2>2, <2>4, <2>6, <2>7 DEF Planned, Has, Before, Refusing
<1>4. Planned("forgot", ForgotPassword)
  <2>1. Len(ForgotPassword) = 3 /\ DOMAIN ForgotPassword = 1..3
    BY DEF ForgotPassword
  <2>2. ForgotPassword[1] = "account" /\ ForgotPassword[2] = "void" /\ ForgotPassword[3] = "issue"
    BY DEF ForgotPassword
  <2>3. Plan["forgot"] = ForgotPassword /\ "forgot" \in Kind
    BY DEF Plan, Kind
  <2>4. \A i \in 1..3 : i = 1 \/ i = 2 \/ i = 3
    OBVIOUS
  <2>5. \A i \in 1..3 : ForgotPassword[i] \in Statement
    BY <2>1, <2>3 DEF Statement
  <2>6. ForgotPassword \in Seq(Statement) /\ ForgotPassword # <<>>
    BY <2>1, <2>5, IsASeq DEF ForgotPassword
  <2>7. Distinct(ForgotPassword)
    BY <2>1, <2>2, <2>4 DEF Distinct
  <2>8. QED
    BY <2>1, <2>2, <2>4, <2>6, <2>7 DEF Planned, Has, Before, Refusing
<1>5. Planned("reset", ResetPassword)
  <2>1. Len(ResetPassword) = 5 /\ DOMAIN ResetPassword = 1..5
    BY DEF ResetPassword
  <2>2. ResetPassword[1] = "account" /\ ResetPassword[2] = "find" /\ ResetPassword[3] = "consume" /\ ResetPassword[4] = "save" /\ ResetPassword[5] = "void"
    BY DEF ResetPassword
  <2>3. Plan["reset"] = ResetPassword /\ "reset" \in Kind
    BY DEF Plan, Kind
  <2>4. \A i \in 1..5 : i = 1 \/ i = 2 \/ i = 3 \/ i = 4 \/ i = 5
    OBVIOUS
  <2>5. \A i \in 1..5 : ResetPassword[i] \in Statement
    BY <2>1, <2>3 DEF Statement
  <2>6. ResetPassword \in Seq(Statement) /\ ResetPassword # <<>>
    BY <2>1, <2>5, IsASeq DEF ResetPassword
  <2>7. Distinct(ResetPassword)
    BY <2>1, <2>2, <2>4 DEF Distinct
  <2>8. QED
    BY <2>1, <2>2, <2>4, <2>6, <2>7 DEF Planned, Has, Before, Refusing
<1>6. Planned("login", Login)
  <2>1. Len(Login) = 1 /\ DOMAIN Login = 1..1
    BY DEF Login
  <2>2. Login[1] = "authenticate"
    BY DEF Login
  <2>3. Plan["login"] = Login /\ "login" \in Kind
    BY DEF Plan, Kind
  <2>4. \A i \in 1..1 : i = 1
    OBVIOUS
  <2>5. \A i \in 1..1 : Login[i] \in Statement
    BY <2>1, <2>3 DEF Statement
  <2>6. Login \in Seq(Statement) /\ Login # <<>>
    BY <2>1, <2>5, IsASeq DEF Login
  <2>7. Distinct(Login)
    BY <2>1, <2>2, <2>4 DEF Distinct
  <2>8. QED
    BY <2>1, <2>2, <2>4, <2>6, <2>7 DEF Planned, Has, Before, Refusing
<1>7. Planned("google", GoogleSignIn)
  <2>1. Len(GoogleSignIn) = 3 /\ DOMAIN GoogleSignIn = 1..3
    BY DEF GoogleSignIn
  <2>2. GoogleSignIn[1] = "identify" /\ GoogleSignIn[2] = "derive" /\ GoogleSignIn[3] = "create"
    BY DEF GoogleSignIn
  <2>3. Plan["google"] = GoogleSignIn /\ "google" \in Kind
    BY DEF Plan, Kind
  <2>4. \A i \in 1..3 : i = 1 \/ i = 2 \/ i = 3
    OBVIOUS
  <2>5. \A i \in 1..3 : GoogleSignIn[i] \in Statement
    BY <2>1, <2>3 DEF Statement
  <2>6. GoogleSignIn \in Seq(Statement) /\ GoogleSignIn # <<>>
    BY <2>1, <2>5, IsASeq DEF GoogleSignIn
  <2>7. Distinct(GoogleSignIn)
    BY <2>1, <2>2, <2>4 DEF Distinct
  <2>8. QED
    BY <2>1, <2>2, <2>4, <2>6, <2>7 DEF Planned, Has, Before, Refusing
<1>8. Planned("refresh", RefreshSession)
  <2>1. Len(RefreshSession) = 2 /\ DOMAIN RefreshSession = 1..2
    BY DEF RefreshSession
  <2>2. RefreshSession[1] = "open" /\ RefreshSession[2] = "blacklist"
    BY DEF RefreshSession
  <2>3. Plan["refresh"] = RefreshSession /\ "refresh" \in Kind
    BY DEF Plan, Kind
  <2>4. \A i \in 1..2 : i = 1 \/ i = 2
    OBVIOUS
  <2>5. \A i \in 1..2 : RefreshSession[i] \in Statement
    BY <2>1, <2>3 DEF Statement
  <2>6. RefreshSession \in Seq(Statement) /\ RefreshSession # <<>>
    BY <2>1, <2>5, IsASeq DEF RefreshSession
  <2>7. Distinct(RefreshSession)
    BY <2>1, <2>2, <2>4 DEF Distinct
  <2>8. QED
    BY <2>1, <2>2, <2>4, <2>6, <2>7 DEF Planned, Has, Before, Refusing
<1>9. Planned("logout", Logout)
  <2>1. Len(Logout) = 2 /\ DOMAIN Logout = 1..2
    BY DEF Logout
  <2>2. Logout[1] = "open" /\ Logout[2] = "blacklist"
    BY DEF Logout
  <2>3. Plan["logout"] = Logout /\ "logout" \in Kind
    BY DEF Plan, Kind
  <2>4. \A i \in 1..2 : i = 1 \/ i = 2
    OBVIOUS
  <2>5. \A i \in 1..2 : Logout[i] \in Statement
    BY <2>1, <2>3 DEF Statement
  <2>6. Logout \in Seq(Statement) /\ Logout # <<>>
    BY <2>1, <2>5, IsASeq DEF Logout
  <2>7. Distinct(Logout)
    BY <2>1, <2>2, <2>4 DEF Distinct
  <2>8. QED
    BY <2>1, <2>2, <2>4, <2>6, <2>7 DEF Planned, Has, Before, Refusing
<1>10. QED
  BY <1>1, <1>2, <1>3, <1>4, <1>5, <1>6, <1>7, <1>8, <1>9 DEF Plan, Kind

-----------------------------------------------------------------------------
(* Requests on their plans *)

Locals == [kind : Kind, state : RequestState, todo : Seq(Statement), before : SUBSET Request,
           email : Email, name : Username, given : Origin \cup Guess, code : Nat,
           attempts : Nat]

TypeOK == AccountsTypeOK /\ req \in [Request -> Locals]

\* A request has the end of its plan left, stopped only where it may, and
\* comes with what it was given.
OnPlan(r) ==
    /\ Remaining(req[r].todo, Plan[req[r].kind])
    /\ req[r].state = "idle" => req[r].code = 0
    /\ req[r].state \in {"running", "refused"} => req[r].todo # <<>>
    /\ req[r].state = "refused" => Head(req[r].todo) \in Refusing
    /\ req[r].state = "ok" => req[r].todo = <<>> \/ req[r].kind \in {"google", "logout"}
    /\ req[r].state # "idle" /\ req[r].given \in Guess => req[r].kind \in {"verify", "reset"}
    /\ req[r].state # "idle" /\ req[r].kind = "complete" =>
          /\ req[r].given \in Request
          /\ req[req[r].given].kind = "verify" /\ req[req[r].given].state = "ok"
    /\ \A q \in req[r].before : req[q].state \in Ended

Progress == TypeOK /\ \A r \in Request : OnPlan(r)

\* A request comes with what it gives.
Comes(r) ==
    /\ req[r].state = "idle" /\ req' \in [Request -> Locals]
    /\ \A q \in Request \ {r} : req'[q] = req[q]
    /\ req'[r].state = "running" /\ req'[r].todo = Plan[req'[r].kind] /\ req'[r].code = 0
    /\ req'[r].given \in Guess => req'[r].kind \in {"verify", "reset"}
    /\ req'[r].kind = "complete" =>
          /\ req'[r].given \in Request
          /\ req[req'[r].given].kind = "verify" /\ req[req'[r].given].state = "ok"
    /\ \A q \in req'[r].before : req[q].state \in Ended

\* l is m but for what statement s reads and for its progress.
SameBut(l, m, s) ==
    /\ l.kind = m.kind /\ l.before = m.before /\ l.given = m.given
    /\ l.email # m.email => s = "token"
    /\ l.code # m.code \/ l.attempts # m.attempts => s = "find"

\* r executes the statement it is at, or stops at it.
Moves(r) ==
    /\ req[r].state = "running" /\ req[r].todo # <<>> /\ req' \in [Request -> Locals]
    /\ \A q \in Request \ {r} : req'[q] = req[q]
    /\ SameBut(req'[r], req[r], Head(req[r].todo))
    /\ \/ /\ req'[r].todo = Tail(req[r].todo)
          /\ req'[r].state = IF Len(req[r].todo) = 1 THEN "ok" ELSE "running"
       \/ /\ req'[r].todo = req[r].todo
          /\ \/ req'[r].state = "refused" /\ Head(req[r].todo) \in Refusing
             \/ req'[r].state = "error" /\ Head(req[r].todo) \in Failing
             \/ req'[r].state = "ok" /\ Head(req[r].todo) \in Ending
                /\ req[r].kind \in {"google", "logout"}

\* Moves that execute the statement, and moves that stop at it.
Continues(r, s) == At(r, s) /\ Moves(r) /\ req'[r].todo = Tail(req[r].todo)
Stops(r, s, state) ==
    /\ At(r, s) /\ Moves(r) /\ req'[r].todo = req[r].todo /\ req'[r].state = state
    /\ req'[r].code = req[r].code /\ req'[r].attempts = req[r].attempts

\* A statement continues its request with locals that it has read.
LEMMA ContinueMoves ==
    ASSUME TypeOK, NEW r \in Request, NEW s, At(r, s), NEW l \in Locals, Continue(r, l),
           SameBut(l, req[r], s), l.state = req[r].state, l.todo = req[r].todo
    PROVE  /\ Continues(r, s)
           /\ req'[r].email = l.email /\ req'[r].code = l.code /\ req'[r].attempts = l.attempts
<1> DEFINE l2 == [l EXCEPT !.todo = Tail(@), !.state = IF Len(l.todo) = 1 THEN "ok" ELSE @]
<1>1. req \in [Request -> Locals] /\ req[r] \in Locals /\ req[r].state = "running"
      /\ req[r].todo # <<>> /\ Head(req[r].todo) = s /\ req[r].todo \in Seq(Statement)
  BY DEF TypeOK, At, Locals
<1>2. Tail(req[r].todo) \in Seq(Statement)
  BY <1>1, TailOf
<1>3. l2.todo = Tail(req[r].todo)
      /\ l2.state = (IF Len(req[r].todo) = 1 THEN "ok" ELSE "running")
      /\ l2.kind = l.kind /\ l2.before = l.before /\ l2.given = l.given
      /\ l2.email = l.email /\ l2.code = l.code /\ l2.attempts = l.attempts
  BY <1>1 DEF Locals
<1>4. l2 \in Locals
  <2>1. \A m \in Locals, todo \in Seq(Statement), state \in RequestState :
            [m EXCEPT !.todo = todo, !.state = state] \in Locals
    BY DEF Locals
  <2>2. (IF Len(l.todo) = 1 THEN "ok" ELSE l.state) \in RequestState
    BY DEF Locals, RequestState
  <2>3. QED
    BY <1>1, <1>2, <2>1, <2>2
<1>5. req' = [req EXCEPT ![r] = l2]
  BY DEF Continue
<1> HIDE DEF l2
<1>6. req'[r] = l2 /\ req' \in [Request -> Locals] /\ \A q \in Request \ {r} : req'[q] = req[q]
  BY <1>1, <1>4, <1>5
<1>7. SameBut(l2, req[r], s)
  BY <1>3 DEF SameBut
<1>8. QED
  BY <1>1, <1>3, <1>6, <1>7 DEF Moves, Continues

\* A statement that reads nothing into its locals continues its request.
LEMMA PlainStatement ==
    ASSUME TypeOK, NEW r \in Request, NEW s, At(r, s), Continue(r, req[r])
    PROVE  /\ Continues(r, s) /\ req'[r].email = req[r].email
           /\ req'[r].code = req[r].code /\ req'[r].attempts = req[r].attempts
<1>1. req[r] \in Locals /\ SameBut(req[r], req[r], s)
  BY DEF TypeOK, SameBut
<1>2. QED
  BY <1>1, ContinueMoves

\* A statement stops its request.
LEMMA EndMoves ==
    ASSUME TypeOK, NEW r \in Request, NEW s, At(r, s), NEW state, End(r, state),
           \/ state = "refused" /\ s \in Refusing
           \/ state = "error" /\ s \in Failing
           \/ state = "ok" /\ s \in Ending /\ req[r].kind \in {"google", "logout"}
    PROVE  Stops(r, s, state)
<1>1. req \in [Request -> Locals] /\ req[r] \in Locals /\ req[r].state = "running"
      /\ req[r].todo # <<>> /\ Head(req[r].todo) = s
  BY DEF TypeOK, At
<1>2. state \in RequestState
  BY DEF RequestState
<1> DEFINE l2 == [req[r] EXCEPT !.state = state]
<1>3. l2 \in Locals /\ l2.state = state /\ l2.todo = req[r].todo /\ SameBut(l2, req[r], s)
      /\ l2.code = req[r].code /\ l2.attempts = req[r].attempts
  BY <1>1, <1>2 DEF Locals, SameBut
<1>4. req' = [req EXCEPT ![r] = l2]
  BY DEF End
<1> HIDE DEF l2
<1>5. req'[r] = l2 /\ req' \in [Request -> Locals] /\ \A q \in Request \ {r} : req'[q] = req[q]
  BY <1>1, <1>3, <1>4
<1>6. QED
  BY <1>1, <1>3, <1>5 DEF Moves, Stops

\* A request at a statement is of a kind that executes it.
LEMMA AtPlan ==
    ASSUME Progress, NEW r \in Request, NEW s, At(r, s)
    PROVE  /\ req[r].kind \in Kind /\ req[r] \in Locals /\ req[r].todo \in Seq(Statement)
           /\ Planned(req[r].kind, Plan[req[r].kind]) /\ Has(Plan[req[r].kind], s)
           /\ Has(req[r].todo, s)
           /\ \A t : Has(Tail(req[r].todo), t) <=> Has(req[r].todo, t) /\ t # s
           /\ \A t : Has(Plan[req[r].kind], t) =>
                 (~ Has(req[r].todo, t) <=> Before(Plan[req[r].kind], t, s))
<1> DEFINE todo == req[r].todo
           plan == Plan[req[r].kind]
<1>1. req[r] \in Locals /\ OnPlan(r)
  BY DEF Progress, TypeOK
<1>2. req[r].kind \in Kind
  BY <1>1 DEF Locals
<1>3. Planned(req[r].kind, plan)
  BY <1>2, PlansPlanned
<1>4. todo \in Seq(Statement) /\ plan \in Seq(Statement) /\ Remaining(todo, plan)
      /\ Distinct(plan) /\ todo # <<>> /\ Head(todo) = s
  BY <1>1, <1>3 DEF Locals, OnPlan, Planned, At
<1> HIDE DEF todo, plan
<1>5. Len(todo) \in Nat \ {0} /\ Len(plan) \in Nat /\ Head(todo) = todo[1]
      /\ todo[1] = plan[Len(plan) - Len(todo) + 1] /\ Len(todo) <= Len(plan)
      /\ DOMAIN plan = 1..Len(plan) /\ DOMAIN todo = 1..Len(todo)
  BY <1>4, TailOf DEF Remaining
<1>6. Has(plan, s) /\ Has(todo, s)
  BY <1>4, <1>5 DEF Has
<1>7. ASSUME NEW t PROVE Has(Tail(todo), t) <=> Has(todo, t) /\ t # s
  BY <1>4, LeftAfter
<1>8. ASSUME NEW t, Has(plan, t) PROVE ~ Has(todo, t) <=> Before(plan, t, s)
  BY <1>4, <1>8, LeftAt
<1>9. QED
  BY <1>1, <1>2, <1>3, <1>4, <1>6, <1>7, <1>8 DEF todo, plan

-----------------------------------------------------------------------------
(* What each statement does to its request *)

\* A statement that only reads continues its request, or refuses it.
LEMMA RequiresMoves ==
    ASSUME Progress, NEW r \in Request, NEW s \in Refusing, NEW holds, Requires(r, s, holds)
    PROVE  (Continues(r, s) \/ Stops(r, s, "refused")) /\ UNCHANGED accountVars
BY PlainStatement, EndMoves DEF Requires, Progress

\* The freshest live code is found, as the row was.
LEMMA FindMoves ==
    ASSUME Progress, NEW r \in Request, FindCode(r)
    PROVE  /\ \/ /\ Continues(r, "find")
                 /\ req'[r].code \in Live(req[r].email, Purpose[req[r].kind])
                 /\ req'[r].attempts = codes[req'[r].code].attempts
              \/ Stops(r, "find", "refused")
           /\ UNCHANGED accountVars
<1>1. TypeOK /\ At(r, "find") /\ UNCHANGED accountVars /\ req[r] \in Locals
      /\ codes \in Seq(CodeRow) /\ "find" \in Refusing
  BY DEF FindCode, Progress, TypeOK, AccountsTypeOK, Refusing
<1>2. CASE End(r, "refused")
  BY <1>1, <1>2, EndMoves
<1>3. CASE ~ End(r, "refused")
  <2>1. PICK i \in Live(req[r].email, Purpose[req[r].kind]) :
            Continue(r, [req[r] EXCEPT !.code = i, !.attempts = codes[i].attempts])
    BY <1>3 DEF FindCode
  <2> DEFINE l == [req[r] EXCEPT !.code = i, !.attempts = codes[i].attempts]
  <2>2. i \in Nat /\ codes[i].attempts \in Nat
    <3>1. i \in DOMAIN codes
      BY DEF Live
    <3>2. i \in Nat /\ codes[i] \in CodeRow
      BY <1>1, <3>1
    <3>3. QED
      BY <3>2 DEF CodeRow
  <2>3. l \in Locals /\ l.code = i /\ l.attempts = codes[i].attempts /\ l.state = req[r].state
        /\ l.todo = req[r].todo /\ SameBut(l, req[r], "find")
    BY <1>1, <2>2 DEF Locals, SameBut
  <2> HIDE DEF l
  <2>4. Continues(r, "find") /\ req'[r].code = i /\ req'[r].attempts = codes[i].attempts
    BY <1>1, <2>1, <2>3, ContinueMoves DEF l
  <2>5. QED
    BY <1>1, <2>4
<1>4. QED
  BY <1>2, <1>3

\* A matching code is used, a wrong one is counted as far as it was in memory.
LEMMA ConsumeMoves ==
    ASSUME Progress, NEW r \in Request, ConsumeCode(r)
    PROVE  /\ At(r, "consume") /\ UNCHANGED <<users, tokens, blacklist>>
           /\ req'[r].code = req[r].code /\ req'[r].attempts = req[r].attempts
           /\ \/ /\ Stops(r, "consume", "refused")
                 /\ Exhausted(req[r].attempts) /\ UNCHANGED codes
              \/ /\ Stops(r, "consume", "refused") /\ ~ Exhausted(req[r].attempts)
                 /\ codes' = [codes EXCEPT ![req[r].code].attempts = req[r].attempts + 1]
              \/ /\ Continues(r, "consume") /\ ~ Exhausted(req[r].attempts)
                 /\ Matches(codes[req[r].code], req[r].given)
                 /\ codes' = [codes EXCEPT ![req[r].code].used = TRUE]
<1>1. TypeOK /\ At(r, "consume") /\ "consume" \in Refusing
      /\ UNCHANGED <<users, tokens, blacklist>>
  BY DEF ConsumeCode, Progress, Refusing
<1>2. \/ Exhausted(req[r].attempts) /\ End(r, "refused") /\ UNCHANGED codes
      \/ /\ ~ Exhausted(req[r].attempts) /\ End(r, "refused")
         /\ codes' = [codes EXCEPT ![req[r].code].attempts = req[r].attempts + 1]
      \/ /\ ~ Exhausted(req[r].attempts) /\ Matches(codes[req[r].code], req[r].given)
         /\ codes' = [codes EXCEPT ![req[r].code].used = TRUE]
         /\ Continue(r, req[r])
  BY DEF ConsumeCode
<1>3. /\ End(r, "refused") => Stops(r, "consume", "refused")
      /\ Continue(r, req[r]) => /\ Continues(r, "consume")
                                /\ req'[r].code = req[r].code
                                /\ req'[r].attempts = req[r].attempts
  BY <1>1, EndMoves, PlainStatement
<1>4. QED
  BY <1>1, <1>2, <1>3 DEF Stops

\* The address of a registration is that of its token.
LEMMA TokenMoves ==
    ASSUME Progress, NEW r \in Request, FindToken(r)
    PROVE  /\ \/ /\ Continues(r, "token") /\ req'[r].email \in Email
                 /\ tokens[req'[r].email].by = req[r].given
              \/ Stops(r, "token", "refused")
           /\ UNCHANGED accountVars
<1>1. TypeOK /\ At(r, "token") /\ UNCHANGED accountVars /\ req[r] \in Locals /\ "token" \in Refusing
  BY DEF FindToken, Progress, TypeOK, Refusing
<1>2. CASE End(r, "refused")
  BY <1>1, <1>2, EndMoves
<1>3. CASE ~ End(r, "refused")
  <2>1. PICK e \in Email : tokens[e].by = req[r].given /\ Continue(r, [req[r] EXCEPT !.email = e])
    BY <1>3 DEF FindToken
  <2> DEFINE l == [req[r] EXCEPT !.email = e]
  <2>2. l \in Locals /\ l.email = e /\ l.state = req[r].state
        /\ l.todo = req[r].todo /\ SameBut(l, req[r], "token")
    BY <1>1 DEF Locals, SameBut
  <2> HIDE DEF l
  <2>3. Continues(r, "token") /\ req'[r].email = e
    BY <1>1, <2>1, <2>2, ContinueMoves DEF l
  <2>4. QED
    BY <1>1, <2>1, <2>3
<1>4. QED
  BY <1>2, <1>3

\* A name is derived.
LEMMA DeriveMoves ==
    ASSUME Progress, NEW r \in Request, DeriveName(r)
    PROVE  Continues(r, "derive") /\ UNCHANGED accountVars
<1>1. TypeOK /\ At(r, "derive") /\ UNCHANGED accountVars /\ req[r] \in Locals
  BY DEF DeriveName, Progress, TypeOK
<1>2. PICK n \in Username : Continue(r, [req[r] EXCEPT !.name = n])
  BY DEF DeriveName
<1> DEFINE l == [req[r] EXCEPT !.name = n]
<1>3. l \in Locals /\ l.state = req[r].state /\ l.todo = req[r].todo /\ SameBut(l, req[r], "derive")
  BY <1>1 DEF Locals, SameBut
<1> HIDE DEF l
<1>4. QED
  BY <1>1, <1>2, <1>3, ContinueMoves DEF l

\* The remaining statements read nothing that is kept.
LEMMA OtherMoves ==
    ASSUME Progress, NEW r \in Request
    PROVE  /\ VoidCodes(r) => Continues(r, "void")
           /\ IssueCode(r) => Continues(r, "issue")
           /\ DropToken(r) => Continues(r, "drop")
           /\ MintToken(r) => \/ Continues(r, "mint") /\ ~ tokens[req[r].email].stored
                              \/ Stops(r, "mint", "error") /\ UNCHANGED tokens
           /\ Register(r) => \/ Continues(r, "register") /\ Free(r)
                             \/ Stops(r, "register", "refused") /\ UNCHANGED users
           /\ UseToken(r) => \/ Continues(r, "use")
                             \/ Stops(r, "use", "error") /\ UNCHANGED tokens
           /\ SavePassword(r) => Continues(r, "save")
           /\ CreateGoogleUser(r) => \/ Continues(r, "create") /\ Free(r)
                                     \/ Stops(r, "create", "error") /\ UNCHANGED users
           /\ BlacklistToken(r) => Continues(r, "blacklist")
<1>1. TypeOK /\ "register" \in Refusing /\ {"mint", "use", "create"} \subseteq Failing
  BY DEF Progress, Refusing, Failing
<1>2. QED
  BY <1>1, PlainStatement, EndMoves DEF VoidCodes, IssueCode, DropToken, MintToken, Register,
     UseToken, SavePassword, CreateGoogleUser, BlacklistToken

\* Google's sign-in ends early when the account is known, and a logout when
\* its token is spent.
LEMMA EarlyMoves ==
    ASSUME Progress, NEW r \in Request
    PROVE  /\ Identify(r) => (Continues(r, "identify") \/ Stops(r, "identify", "ok"))
           /\ OpenToken(r) =>
                 \/ Continues(r, "open") /\ req[r].given \notin blacklist
                 \/ Stops(r, "open", "ok") /\ req[r].given \in blacklist
                 \/ Stops(r, "open", "refused")
<1>1. TypeOK /\ "open" \in Refusing /\ {"identify", "open"} \subseteq Ending
  BY DEF Progress, Refusing, Ending
<1>2. Identify(r) => (Continues(r, "identify") \/ Stops(r, "identify", "ok"))
  <2>1. At(r, "identify") => req[r].kind = "google"
    BY AtPlan DEF Planned
  <2>2. QED
    BY <1>1, <2>1, PlainStatement, EndMoves DEF Identify
<1>3. OpenToken(r) => \/ Continues(r, "open") /\ req[r].given \notin blacklist
                      \/ Stops(r, "open", "ok") /\ req[r].given \in blacklist
                      \/ Stops(r, "open", "refused")
  BY <1>1, PlainStatement, EndMoves DEF OpenToken
<1>4. QED
  BY <1>2, <1>3

\* The statements of a request.
Executes(r) ==
    \/ Unregistered(r) \/ HasAccount(r) \/ VoidCodes(r) \/ IssueCode(r) \/ FindCode(r)
    \/ ConsumeCode(r) \/ DropToken(r) \/ MintToken(r) \/ FindToken(r) \/ StillFree(r)
    \/ Register(r) \/ UseToken(r) \/ SavePassword(r) \/ Authenticate(r) \/ Identify(r)
    \/ DeriveName(r) \/ CreateGoogleUser(r) \/ OpenToken(r) \/ BlacklistToken(r)

\* Every statement moves its request.
LEMMA ExecutesMoves == ASSUME Progress, NEW r \in Request, Executes(r) PROVE Moves(r)
<1>1. {"unregistered", "account", "free", "authenticate"} \subseteq Refusing
  BY DEF Refusing
<1>2. CASE Unregistered(r) \/ HasAccount(r) \/ StillFree(r) \/ Authenticate(r)
  BY <1>1, <1>2, RequiresMoves DEF Unregistered, HasAccount, StillFree, Authenticate, Continues, Stops
<1>3. CASE FindCode(r) \/ ConsumeCode(r) \/ FindToken(r) \/ DeriveName(r)
  BY <1>3, FindMoves, ConsumeMoves, TokenMoves, DeriveMoves DEF Continues, Stops
<1>4. CASE Identify(r) \/ OpenToken(r)
  BY <1>4, EarlyMoves DEF Continues, Stops
<1>5. QED
  BY <1>2, <1>3, <1>4, OtherMoves DEF Executes, Continues, Stops

\* A request comes with its arguments.
LEMMA ArriveComes ==
    ASSUME Progress, NEW r \in Request, Arrive(r)
    PROVE  Comes(r) /\ UNCHANGED accountVars
<1> DEFINE l(kind, e, n, given) ==
        [NoLocals EXCEPT !.kind = kind, !.state = "running", !.todo = Plan[kind],
             !.before = {q \in Request : req[q].state \in Ended},
             !.email = e, !.name = n, !.given = given]
<1>1. req[r].state = "idle" /\ UNCHANGED accountVars /\ req \in [Request -> Locals]
  BY DEF Arrive, Progress, TypeOK
<1>2. PICK kind \in DOMAIN Plan, e \in Email, n \in Username, given \in Origin \cup Guess :
          /\ kind # "complete" => n = NoLocals.name
          /\ given \in Guess => kind \in {"verify", "reset"}
          /\ CASE kind \in {"verify", "reset"} -> given \in Guess \/
                      \E i \in DOMAIN codes : codes[i].by = given
               [] kind = "complete" -> given \in Request /\ req[given].state = "ok"
                      /\ req[given].kind = "verify" /\ e = NoLocals.email
               [] kind \in {"refresh", "logout"} -> e = NoLocals.email
                      /\ IF given = Earlier THEN \E u \in Email : users[u].by = Earlier
                         ELSE Signed(given)
               [] kind = "login" -> given \in {Earlier} \cup
                      {q \in Request : req[q].kind \in {"complete", "reset"}}
               [] OTHER -> given = Earlier
          /\ req' = [req EXCEPT ![r] =
                [NoLocals EXCEPT !.kind = kind, !.state = "running", !.todo = Plan[kind],
                     !.before = {q \in Request : req[q].state \in Ended},
                     !.email = e, !.name = n, !.given = given]]
  BY Zenon DEF Arrive
<1>3. kind = "complete" => /\ given \in Request /\ req[given].state = "ok"
                           /\ req[given].kind = "verify"
  BY <1>2
<1>4. req' = [req EXCEPT ![r] = l(kind, e, n, given)]
  BY <1>2
<1>5. kind \in Kind /\ Plan[kind] \in Seq(Statement)
  BY <1>2, PlansPlanned DEF Kind, Planned
<1>6. /\ l(kind, e, n, given) \in Locals
      /\ l(kind, e, n, given).kind = kind /\ l(kind, e, n, given).state = "running"
      /\ l(kind, e, n, given).todo = Plan[kind] /\ l(kind, e, n, given).code = 0
      /\ l(kind, e, n, given).given = given
      /\ l(kind, e, n, given).before = {q \in Request : req[q].state \in Ended}
  BY <1>2, <1>5 DEF NoLocals, Locals, RequestState
<1> HIDE DEF l
<1>7. req'[r] = l(kind, e, n, given) /\ req' \in [Request -> Locals]
      /\ \A q \in Request \ {r} : req'[q] = req[q]
  BY <1>1, <1>4, <1>6
<1>8. QED
  BY <1>1, <1>2, <1>3, <1>6, <1>7 DEF Comes

\* A step of the system is an arrival, a statement, or none.
LEMMA NextIs ==
    ASSUME Progress, [Next]_vars
    PROVE  \/ \E r \in Request : Comes(r) /\ UNCHANGED accountVars
           \/ \E r \in Request : Executes(r) /\ Moves(r)
           \/ UNCHANGED vars
BY ArriveComes, ExecutesMoves DEF Next, Step, Executes

-----------------------------------------------------------------------------
(* Type correctness, and requests stay on their plans *)

\* The statements write rows.
LEMMA RowsStayTyped ==
    ASSUME Progress, NEW r \in Request, Executes(r)
    PROVE  AccountsTypeOK'
<1>1. /\ users \in [Email -> UserRow] /\ codes \in Seq(CodeRow)
      /\ tokens \in [Email -> TokenRow] /\ blacklist \subseteq Origin
      /\ req[r] \in Locals
  BY DEF Progress, TypeOK, AccountsTypeOK
<1>2. r \in Origin /\ req[r].email \in Email /\ req[r].name \in Username
      /\ req[r].attempts + 1 \in Nat /\ Purpose[req[r].kind] \in {Registration, Reset}
  BY <1>1 DEF Origin, Locals, Purpose, Kind
<1>3. codes' \in Seq(CodeRow)
  <2>0. [1..Len(codes) -> CodeRow] \subseteq Seq(CodeRow)
    BY <1>1, SeqDef
  <2>1. ASSUME NEW i \in DOMAIN codes, NEW n \in Nat
        PROVE  /\ codes[i] \in CodeRow /\ [codes[i] EXCEPT !.used = TRUE] \in CodeRow
               /\ [codes[i] EXCEPT !.attempts = n] \in CodeRow
    <3>1. codes[i] \in CodeRow
      BY <1>1
    <3>2. QED
      BY <3>1 DEF CodeRow
  <2>2. CASE VoidCodes(r)
    <3>1. codes' = [i \in 1..Len(codes) |->
              IF codes[i].email = req[r].email /\ codes[i].purpose = Purpose[req[r].kind]
              THEN [codes[i] EXCEPT !.used = TRUE] ELSE codes[i]]
      BY <1>1, <2>2 DEF VoidCodes
    <3>2. \A i \in 1..Len(codes) : codes[i] \in CodeRow /\ [codes[i] EXCEPT !.used = TRUE] \in CodeRow
      <4>1. \A i \in 1..Len(codes) : codes[i] \in CodeRow
        BY <1>1
      <4>2. \A row \in CodeRow : [row EXCEPT !.used = TRUE] \in CodeRow
        BY DEF CodeRow
      <4>3. QED
        BY <4>1, <4>2
    <3>3. codes' \in [1..Len(codes) -> CodeRow]
      BY <3>1, <3>2
    <3>4. QED
      BY <2>0, <3>3
  <2>3. CASE IssueCode(r)
    <3>1. [by |-> r, email |-> req[r].email, purpose |-> Purpose[req[r].kind],
           attempts |-> 0, used |-> FALSE] \in CodeRow
      BY <1>2 DEF CodeRow
    <3>2. QED
      BY <1>1, <2>3, <3>1 DEF IssueCode
  <2>4. CASE ConsumeCode(r)
    <3> DEFINE i == req[r].code
    <3>1. codes \in [1..Len(codes) -> CodeRow]
      BY <1>1
    <3>2. ASSUME i \in DOMAIN codes
          PROVE  /\ [codes[i] EXCEPT !.used = TRUE] \in CodeRow
                 /\ [codes[i] EXCEPT !.attempts = req[r].attempts + 1] \in CodeRow
      BY <1>2, <2>1, <3>2
    <3>3. codes' \in [1..Len(codes) -> CodeRow]
      <4>1. CASE UNCHANGED codes
        BY <3>1, <4>1
      <4>2. CASE codes' = [codes EXCEPT ![i].used = TRUE]
        BY <3>1, <3>2, <4>2
      <4>3. CASE codes' = [codes EXCEPT ![i].attempts = req[r].attempts + 1]
        BY <3>1, <3>2, <4>3
      <4>4. QED
        BY <2>4, <4>1, <4>2, <4>3, ConsumeMoves
    <3>4. QED
      BY <2>0, <3>3
  <2>5. QED
    BY <1>1, <2>2, <2>3, <2>4 DEF Executes, Unregistered, HasAccount, Requires, FindCode, DropToken,
       MintToken, FindToken, StillFree, Register, UseToken, SavePassword, Authenticate, Identify,
       DeriveName, CreateGoogleUser, OpenToken, BlacklistToken, accountVars
<1>4. tokens' \in [Email -> TokenRow]
  <2>1. ASSUME NEW e \in Email
        PROVE  /\ [tokens EXCEPT ![e].stored = FALSE] \in [Email -> TokenRow]
               /\ [tokens EXCEPT ![e].used = TRUE] \in [Email -> TokenRow]
               /\ [tokens EXCEPT ![e] = [stored |-> TRUE, by |-> r, used |-> FALSE]]
                      \in [Email -> TokenRow]
    BY <1>1, <1>2 DEF TokenRow
  <2>2. QED
    BY <1>1, <1>2, <2>1 DEF Executes, Unregistered, HasAccount, Requires, FindCode, DropToken,
       MintToken, FindToken, StillFree, Register, UseToken, SavePassword, Authenticate, Identify,
       DeriveName, CreateGoogleUser, OpenToken, BlacklistToken, VoidCodes, IssueCode, ConsumeCode,
       accountVars
<1>5. users' \in [Email -> UserRow]
  <2>1. ASSUME NEW e \in Email, NEW sub \in BOOLEAN
        PROVE  /\ [users EXCEPT ![e].password = r] \in [Email -> UserRow]
               /\ [users EXCEPT ![e] = NewUser(r, sub)] \in [Email -> UserRow]
    BY <1>1, <1>2 DEF UserRow, NewUser
  <2>2. CASE SavePassword(r)
    BY <1>2, <2>1, <2>2 DEF SavePassword
  <2>3. CASE Register(r)
    BY <1>1, <1>2, <2>1, <2>3 DEF Register
  <2>4. CASE CreateGoogleUser(r)
    <3>1. GoogleVerifies \in BOOLEAN
      BY AccountsAssumption
    <3>2. [users EXCEPT ![req[r].email] = NewUser(r, GoogleVerifies)] \in [Email -> UserRow]
      BY <1>2, <2>1, <3>1
    <3>3. QED
      BY <1>1, <2>4, <3>2 DEF CreateGoogleUser
  <2>5. CASE ~ SavePassword(r) /\ ~ Register(r) /\ ~ CreateGoogleUser(r)
    BY <1>1, <2>5 DEF Executes, Unregistered, HasAccount, Requires, FindCode, DropToken,
       MintToken, FindToken, StillFree, UseToken, Authenticate, Identify,
       DeriveName, OpenToken, BlacklistToken, VoidCodes, IssueCode, ConsumeCode, accountVars
  <2>6. QED
    BY <2>2, <2>3, <2>4, <2>5
<1>6. blacklist' \subseteq Origin
  <2>1. CASE BlacklistToken(r)
    <3>1. req[r].kind \in {"refresh", "logout"} /\ req[r].state # "idle"
      BY <2>1, AtPlan DEF BlacklistToken, Planned, At
    <3>2. req[r].given \in Origin
      BY <1>1, <3>1 DEF Progress, OnPlan, Locals
    <3>3. QED
      BY <1>1, <2>1, <3>2 DEF BlacklistToken
  <2>2. QED
    BY <1>1, <2>1 DEF Executes, Unregistered, HasAccount, Requires, FindCode, DropToken,
       MintToken, FindToken, StillFree, Register, UseToken, SavePassword, Authenticate, Identify,
       DeriveName, CreateGoogleUser, OpenToken, VoidCodes, IssueCode, ConsumeCode, accountVars
<1>7. QED
  BY <1>3, <1>4, <1>5, <1>6 DEF AccountsTypeOK

\* A move leaves the requests on their plans.
LEMMA MovesProgress ==
    ASSUME Progress, NEW r \in Request, Moves(r)
    PROVE  \A q \in Request : OnPlan(q)'
<1>1. \A q \in Request \ {r} : req'[q] = req[q]
  BY DEF Moves
<1>2. /\ OnPlan(r) /\ req[r].todo \in Seq(Statement) /\ req[r].todo # <<>>
      /\ Plan[req[r].kind] \in Seq(Statement)
  <2>1. OnPlan(r) /\ req[r] \in Locals /\ req[r].kind \in Kind
    BY DEF Progress, TypeOK, Locals
  <2>2. QED
    BY <2>1, PlansPlanned DEF Locals, Planned, Moves
<1>3. req[r].state = "running" /\ req'[r].kind = req[r].kind /\ req'[r].given = req[r].given
      /\ req'[r].before = req[r].before
  BY DEF Moves, SameBut
<1>4. Remaining(Tail(req[r].todo), Plan[req[r].kind])
      /\ (Len(req[r].todo) = 1 <=> Tail(req[r].todo) = <<>>)
  BY <1>2, RemainingTail, TailOf DEF OnPlan
<1>5. \A q \in Request : \A p \in req[q].before : req'[p].state \in Ended
  <2>1. req[r].state \notin Ended
    BY <1>3 DEF Ended
  <2>2. \A q \in Request : req[q].before \subseteq Request
    BY DEF Progress, TypeOK, Locals
  <2>3. QED
    BY <1>1, <2>1, <2>2 DEF Progress, OnPlan
<1>6. ASSUME NEW q \in Request, req[q].state # "idle", req[q].kind = "complete"
      PROVE  /\ req[q].given \in Request
             /\ req'[req[q].given].kind = "verify" /\ req'[req[q].given].state = "ok"
  BY <1>1, <1>3, <1>6 DEF Progress, OnPlan
<1>7. ASSUME NEW q \in Request, q # r PROVE OnPlan(q)'
  BY <1>1, <1>5, <1>6, <1>7 DEF Progress, OnPlan
<1>8. OnPlan(r)'
  <2>1. Remaining(req'[r].todo, Plan[req'[r].kind])
    BY <1>2, <1>3, <1>4 DEF Moves, OnPlan
  <2>2. /\ req'[r].state # "idle"
        /\ req'[r].state \in {"running", "refused"} => req'[r].todo # <<>>
        /\ req'[r].state = "refused" => Head(req'[r].todo) \in Refusing
        /\ req'[r].state = "ok" => req'[r].todo = <<>> \/ req'[r].kind \in {"google", "logout"}
    BY <1>2, <1>3, <1>4 DEF Moves
  <2>3. QED
    BY <1>2, <1>3, <1>5, <1>6, <2>1, <2>2 DEF OnPlan
<1>9. QED
  BY <1>7, <1>8

\* A request comes on its plan.
LEMMA ComesProgress ==
    ASSUME Progress, NEW r \in Request, Comes(r)
    PROVE  \A q \in Request : OnPlan(q)'
<1>1. /\ \A q \in Request \ {r} : req'[q] = req[q]
      /\ req' \in [Request -> Locals] /\ req[r].state = "idle"
  BY DEF Comes
<1>2. req'[r].kind \in Kind /\ Plan[req'[r].kind] \in Seq(Statement)
      /\ Plan[req'[r].kind] # <<>>
  BY <1>1, PlansPlanned DEF Locals, Planned
<1>3. \A plan \in Seq(Statement) : Remaining(plan, plan)
  BY DEF Remaining
<1>4. \A p \in Request : req[p].state \in Ended => req'[p] = req[p]
  BY <1>1 DEF Ended
<1>5. \A q \in Request : req[q].before \subseteq Request /\ req'[q].before \subseteq Request
  BY <1>1 DEF Progress, TypeOK, Locals
<1>6. ASSUME NEW q \in Request, q # r PROVE OnPlan(q)'
  <2>1. req'[q] = req[q] /\ OnPlan(q)
    BY <1>1, <1>6 DEF Progress
  <2>2. \A p \in req[q].before : req'[p].state \in Ended
    BY <1>4, <1>5, <2>1 DEF OnPlan
  <2>3. req[q].state # "idle" /\ req[q].kind = "complete" => req'[req[q].given] = req[req[q].given]
    BY <1>4, <2>1 DEF OnPlan, Ended
  <2>4. QED
    BY <2>1, <2>2, <2>3 DEF OnPlan
<1>7. OnPlan(r)'
  <2>1. \A p \in req'[r].before : req'[p].state \in Ended
    BY <1>4, <1>5 DEF Comes
  <2>2. Remaining(req'[r].todo, Plan[req'[r].kind]) /\ req'[r].todo # <<>>
        /\ req'[r].state = "running"
    BY <1>2, <1>3 DEF Comes
  <2>3. req'[r].kind = "complete" => req'[req'[r].given] = req[req'[r].given]
    BY <1>4 DEF Comes, Ended
  <2>4. QED
    BY <2>1, <2>2, <2>3 DEF Comes, OnPlan
<1>8. QED
  BY <1>6, <1>7

\* Steps keep types and plans.
LEMMA ProgressKept == Progress /\ [Next]_vars => Progress'
<1> SUFFICES ASSUME Progress, [Next]_vars PROVE Progress'
  OBVIOUS
<1>1. AccountsTypeOK /\ req \in [Request -> Locals] /\ \A r \in Request : OnPlan(r)
  BY DEF Progress, TypeOK
<1>2. ASSUME NEW r \in Request, Comes(r), UNCHANGED accountVars PROVE Progress'
  <2>1. AccountsTypeOK' /\ req' \in [Request -> Locals]
    BY <1>1, <1>2 DEF Comes, AccountsTypeOK, accountVars
  <2>2. QED
    BY <1>2, <2>1, ComesProgress DEF Progress, TypeOK
<1>3. ASSUME NEW r \in Request, Executes(r), Moves(r) PROVE Progress'
  <2>1. req' \in [Request -> Locals]
    BY <1>3 DEF Moves
  <2>2. QED
    BY <1>3, <2>1, RowsStayTyped, MovesProgress DEF Progress, TypeOK
<1>4. CASE UNCHANGED vars
  BY <1>1, <1>4 DEF Progress, TypeOK, AccountsTypeOK, OnPlan, vars, accountVars
<1>5. QED
  BY <1>2, <1>3, <1>4, NextIs

\* Every row is of its type, and every request has the end of its plan left to
\* execute, stopped only where its endpoint can, and came after what it saw
\* ended.
THEOREM AccountsProgress == Spec => []Progress
<1>1. Init => Progress
  <2> SUFFICES ASSUME Init PROVE Progress
    OBVIOUS
  <2> DEFINE user == [stored |-> TRUE, name |-> NoLocals.name, password |-> Earlier,
                      sub |-> FALSE, by |-> Earlier]
             noUser == [user EXCEPT !.stored = FALSE]
             code(registered) ==
                 [by |-> Earlier, email |-> NoLocals.email, attempts |-> 0, used |-> FALSE,
                  purpose |-> IF registered THEN Reset ELSE Registration]
  <2>1. /\ \E registered, sent \in BOOLEAN :
              /\ users = [e \in Email |-> IF registered /\ e = NoLocals.email THEN user ELSE noUser]
              /\ codes = IF ~ sent THEN <<>> ELSE <<code(registered)>>
        /\ tokens = [e \in Email |-> [stored |-> FALSE, by |-> Earlier, used |-> FALSE]]
        /\ blacklist = {} /\ req = [r \in Request |-> NoLocals]
    BY DEF Init
  <2>2. NoLocals.email \in Email /\ NoLocals.name \in Username
    BY AccountsAssumption DEF NoLocals
  <2>3. user \in UserRow /\ noUser \in UserRow /\ \A registered \in BOOLEAN : code(registered) \in CodeRow
    BY <2>2 DEF UserRow, CodeRow, Origin
  <2> HIDE DEF user, noUser, code
  <2>4. users \in [Email -> UserRow] /\ codes \in Seq(CodeRow)
    BY <2>1, <2>3
  <2>5. AccountsTypeOK
    BY <2>1, <2>4 DEF AccountsTypeOK, TokenRow, Origin
  <2>6. "login" \in Kind /\ "idle" \in RequestState /\ <<>> \in Seq(Statement)
        /\ Plan["login"] \in Seq(Statement)
    <3>1. "login" \in Kind
      BY DEF Kind, Plan
    <3>2. QED
      BY <3>1, PlansPlanned DEF RequestState, Planned
  <2>7. NoLocals \in Locals
    BY <2>2, <2>6 DEF NoLocals, Locals, Origin
  <2>8. \A r \in Request : req[r] = NoLocals
    BY <2>1
  <2>9. /\ NoLocals.todo = <<>> /\ NoLocals.state = "idle" /\ NoLocals.kind = "login"
        /\ NoLocals.before = {} /\ NoLocals.code = 0
    BY DEF NoLocals
  <2>10. Remaining(<<>>, Plan["login"])
    <3>1. Len(<<>>) = 0
      OBVIOUS
    <3>2. QED
      BY <2>6, <3>1 DEF Remaining
  <2>11. \A r \in Request : OnPlan(r)
    BY <2>8, <2>9, <2>10 DEF OnPlan
  <2>12. QED
    BY <2>1, <2>5, <2>7, <2>11 DEF Progress, TypeOK
<1>2. QED
  BY <1>1, ProgressKept, PTL DEF Spec

-----------------------------------------------------------------------------
(* What a request has executed, found and issued *)

\* Statement s is behind r, or a later one refused it.
Past(r, s) ==
    /\ Has(Plan[req[r].kind], s) /\ ~ Has(req[r].todo, s) /\ req[r].state # "idle"

\* The code a request has found is one for its address and purpose, and one it
\* has consumed is the one its client gave, unless that is the development code.
Found ==
    \A r \in Request :
        /\ Past(r, "find") => req[r].code # 0
        /\ req[r].code # 0 =>
              /\ Past(r, "find") /\ req[r].code \in DOMAIN codes
              /\ codes[req[r].code].email = req[r].email
              /\ codes[req[r].code].purpose = Purpose[req[r].kind]
        /\ Past(r, "consume") =>
              Matches(codes[req[r].code], req[r].given) /\ ~ Exhausted(req[r].attempts)

\* Whose address a token, a registration and a password are.
Minted ==
    \A e \in Email : tokens[e].by \in Request =>
        Past(tokens[e].by, "mint") /\ req[tokens[e].by].email = e
Tokened ==
    \A r \in Request : Past(r, "token") => req[req[r].given].email = req[r].email
Passworded ==
    \A e \in Email : LET r == users[e].password IN r \in Request =>
        \/ Past(r, "create")
        \/ (Past(r, "register") \/ Past(r, "save")) /\ req[r].email = e

\* A code was issued by the request it is named after, ...
Issued ==
    \A i \in DOMAIN codes : LET q == codes[i].by IN q \in Request =>
        /\ Past(q, "issue") /\ codes[i].email = req[q].email
        /\ codes[i].purpose = Purpose[req[q].kind]

\* ... which voided the codes of requests that had ended when it came.
Older(i, r) == codes[i].by = Earlier \/ codes[i].by \in req[r].before
Voided ==
    \A r \in Request : Past(r, "void") =>
        \A i \in DOMAIN codes :
            codes[i].email = req[r].email /\ codes[i].purpose = Purpose[req[r].kind] /\ Older(i, r)
            => codes[i].used

\* The code a request has found is no older than one issued before it came.
Freshest ==
    \A r \in Request : \A i, j \in DOMAIN codes :
        /\ req[r].code = i /\ codes[j].by \in req[r].before
        /\ codes[i].email = codes[j].email /\ codes[i].purpose = codes[j].purpose
        => ~ Older(i, codes[j].by)

\* The attempts of a code after q, as far as q knows: a wrong try counts.
Known(q) ==
    IF req[q].state = "refused" /\ ~ Exhausted(req[q].attempts)
    THEN req[q].attempts + 1 ELSE req[q].attempts

\* The tries of a code that ended and that no other overlapped.
Tried(q, i) == req[q].code = i /\ req[q].state = "refused" /\ Alone(q)

\* The attempts that a row, and a later request, have are no fewer than such a
\* request left, nor than there were such tries, up to the limit.
RowKnows ==
    \A q \in Request : req[q].code # 0 /\ Alone(q) => codes[req[q].code].attempts >= Known(q)
RequestKnows ==
    \A q, r \in Request :
        req[q].code # 0 /\ req[r].code = req[q].code /\ q \in req[r].before /\ Alone(q)
        => req[r].attempts >= Known(q)
RowCounts ==
    \A i \in DOMAIN codes : \A tries \in SUBSET Request :
        (\A q \in tries : Tried(q, i))
        => codes[i].attempts >= Cardinality(tries) \/ Exhausted(codes[i].attempts)
RequestCounts ==
    \A r \in Request : \A tries \in SUBSET req[r].before :
        req[r].code # 0 /\ (\A q \in tries : Tried(q, req[r].code))
        => req[r].attempts >= Cardinality(tries) \/ Exhausted(req[r].attempts)
Counted == RowKnows /\ RequestKnows /\ RowCounts /\ RequestCounts

\* A refresh token that was exchanged or logged out is on the blacklist, and
\* was not when a request opened it.
Session == {"refresh", "logout"}
Spent ==
    /\ \A a \in Request : req[a].kind \in Session /\ (Past(a, "blacklist") \/ req[a].state = "ok")
          => req[a].given \in blacklist
    /\ \A a, b \in Request :
          /\ req[a].kind \in Session /\ Past(b, "open")
          /\ req[a].given = req[b].given /\ a \in req[b].before
          => req[a].state # "ok"

-----------------------------------------------------------------------------
(* What a request has executed stays executed *)

\* Did, by what is left.
LEMMA DidIs ==
    ASSUME NEW r, NEW s
    PROVE  Did(r, s) <=> Past(r, s) /\ req[r].state # "refused"
BY DEF Did, Behind, Past, Has

\* What comes before an executed statement was executed.
LEMMA PastInOrder ==
    ASSUME Progress, NEW r \in Request, NEW s, NEW t, Past(r, t),
           Before(Plan[req[r].kind], s, t)
    PROVE  Past(r, s)
<1> DEFINE todo == req[r].todo
           plan == Plan[req[r].kind]
<1>1. req[r] \in Locals /\ req[r].kind \in Kind /\ OnPlan(r)
  BY DEF Progress, TypeOK, Locals
<1>2. todo \in Seq(Statement) /\ plan \in Seq(Statement) /\ Remaining(todo, plan) /\ Distinct(plan)
  BY <1>1, PlansPlanned DEF OnPlan, Planned, Locals
<1>3. Before(plan, s, t) /\ ~ Has(todo, t)
  BY DEF Past
<1> HIDE DEF todo, plan
<1>4. ~ Has(todo, s)
  BY <1>2, <1>3, LeftInOrder
<1>5. Has(plan, s)
  BY <1>2, <1>3 DEF Before, Has
<1>6. QED
  BY <1>4, <1>5 DEF Past, todo, plan

\* What the invariant says of one request.
LEMMA OneRequest ==
    ASSUME Progress, NEW r \in Request
    PROVE  /\ req[r] \in Locals /\ OnPlan(r) /\ req[r].kind \in Kind
           /\ Planned(req[r].kind, Plan[req[r].kind])
           /\ \A s : Past(r, s) => Has(Plan[req[r].kind], s)
BY PlansPlanned DEF Progress, TypeOK, Locals, Past

\* A request that a statement refused has not executed it.
LEMMA RefusedAt ==
    ASSUME Progress, NEW r \in Request, req[r].state = "refused", NEW s, Past(r, s)
    PROVE  \E t \in Refusing : Before(Plan[req[r].kind], s, t)
<1> DEFINE todo == req[r].todo
           plan == Plan[req[r].kind]
<1>1. todo \in Seq(Statement) /\ plan \in Seq(Statement) /\ Remaining(todo, plan)
      /\ Distinct(plan) /\ todo # <<>> /\ Head(todo) \in Refusing /\ Has(plan, s) /\ ~ Has(todo, s)
  BY OneRequest DEF OnPlan, Planned, Locals, Past
<1> HIDE DEF todo, plan
<1>2. Before(plan, s, Head(todo))
  BY <1>1, LeftAt
<1>3. QED
  BY <1>1, <1>2 DEF plan

\* A request that ended well has executed its plan, or ended early.
LEMMA EndedWell ==
    ASSUME Progress, NEW r \in Request, req[r].state = "ok", req[r].kind \notin {"google", "logout"},
           NEW s, Has(Plan[req[r].kind], s)
    PROVE  Past(r, s)
<1>1. req[r].todo = <<>>
  BY DEF Progress, OnPlan
<1>2. QED
  BY <1>1 DEF Past, Has

\* Requests that do not move, and do not come, stay as they are.
LEMMA RequestIs ==
    ASSUME Progress, [Next]_vars, NEW r \in Request
    PROVE  \/ req'[r] = req[r]
           \/ Comes(r) /\ UNCHANGED accountVars
           \/ Moves(r) /\ Executes(r)
<1>1. ASSUME NEW q \in Request, Comes(q), q # r PROVE req'[r] = req[r]
  BY <1>1 DEF Comes
<1>2. ASSUME NEW q \in Request, Moves(q), q # r PROVE req'[r] = req[r]
  BY <1>2 DEF Moves
<1>3. QED
  BY <1>1, <1>2, NextIs DEF vars

\* A request keeps what it came with, its address unless it reads one, and
\* everything once it has ended.
LEMMA RequestStays ==
    ASSUME Progress, [Next]_vars, NEW r \in Request, req[r].state # "idle"
    PROVE  /\ req'[r].kind = req[r].kind /\ req'[r].before = req[r].before
           /\ req'[r].given = req[r].given /\ req'[r].state # "idle"
           /\ req[r].kind # "complete" => req'[r].email = req[r].email
           /\ req[r].state \in Ended => req'[r] = req[r]
<1>1. CASE req'[r] = req[r]
  BY <1>1
<1>2. CASE Moves(r)
  <2>1. Head(req[r].todo) = "token" => req[r].kind = "complete"
    <3>1. At(r, Head(req[r].todo))
      BY <1>2 DEF Moves, At
    <3>2. QED
      BY <3>1, AtPlan DEF Planned
  <2>2. QED
    BY <1>2, <2>1 DEF Moves, SameBut, Ended
<1>3. QED
  BY <1>1, <1>2, RequestIs DEF Comes

\* What is executed stays executed, and the address and the code it was
\* executed with stay.
LEMMA PastStays ==
    ASSUME Progress, [Next]_vars, NEW r \in Request, NEW s, Past(r, s)
    PROVE  /\ Past(r, s)'
           /\ s \in {"token", "register"} => req'[r].email = req[r].email
           /\ s = "find" => req'[r].code = req[r].code /\ req'[r].attempts = req[r].attempts
<1>1. req[r].state # "idle" /\ req'[r].kind = req[r].kind /\ req'[r].state # "idle"
      /\ (req[r].kind # "complete" => req'[r].email = req[r].email)
  BY RequestStays DEF Past
<1>2. CASE req'[r] = req[r]
  BY <1>2 DEF Past
<1>3. CASE Moves(r)
  <2> DEFINE t == Head(req[r].todo)
  <2>1. At(r, t)
    BY <1>3 DEF Moves, At
  <2> HIDE DEF t
  <2>2. Before(Plan[req[r].kind], s, t) /\ ~ Has(Tail(req[r].todo), s) /\ Has(req[r].todo, t)
        /\ Planned(req[r].kind, Plan[req[r].kind])
    BY <2>1, AtPlan DEF Past
  <2>3. Past(r, s)'
    BY <1>1, <1>3, <2>2 DEF Moves, Past
  <2>4. t # s
    BY <2>2 DEF Past
  <2>5. s = "register" => t # "token"
    <3>1. ASSUME s = "register", t = "token" PROVE FALSE
      <4>1. Before(Plan[req[r].kind], "token", s)
        BY <2>2, <3>1 DEF Planned, Past
      <4>2. ~ Has(req[r].todo, "token")
        BY <4>1, PastInOrder DEF Past
      <4>3. QED
        BY <2>2, <3>1, <4>2
    <3>2. QED
      BY <3>1
  <2>6. QED
    BY <1>3, <2>3, <2>4, <2>5 DEF Moves, SameBut, t
<1>4. QED
  BY <1>1, <1>2, <1>3, RequestIs DEF Comes

\* What is executed was executed, or is now.
LEMMA PastFrom ==
    ASSUME Progress, [Next]_vars, NEW r \in Request, NEW s, Past(r, s)'
    PROVE  Past(r, s) \/ (Continues(r, s) /\ Executes(r))
<1>1. CASE req'[r] = req[r]
  BY <1>1 DEF Past
<1>2. CASE Comes(r)
  BY <1>2 DEF Comes, Past
<1>3. CASE Moves(r) /\ Executes(r)
  <2>1. At(r, Head(req[r].todo)) /\ req'[r].kind = req[r].kind /\ req[r].state = "running"
    BY <1>3 DEF Moves, At, SameBut
  <2>2. \A t : Has(Tail(req[r].todo), t) <=> Has(req[r].todo, t) /\ t # Head(req[r].todo)
    BY <2>1, AtPlan
  <2>3. QED
    BY <1>3, <2>1, <2>2 DEF Past, Moves, Continues
<1>4. QED
  BY <1>1, <1>2, <1>3, RequestIs

\* A request that continues has executed its statement, and had not.
LEMMA ContinuesPast ==
    ASSUME Progress, NEW r \in Request, NEW s, Continues(r, s)
    PROVE  Past(r, s)' /\ ~ Past(r, s) /\ req'[r].kind = req[r].kind
           /\ Has(Plan[req[r].kind], s)
           /\ \A t : Past(r, t) <=> Before(Plan[req[r].kind], t, s)
<1>1. /\ Has(Plan[req[r].kind], s) /\ ~ Has(Tail(req[r].todo), s) /\ Has(req[r].todo, s)
      /\ \A t : Has(Plan[req[r].kind], t) =>
            (~ Has(req[r].todo, t) <=> Before(Plan[req[r].kind], t, s))
      /\ Plan[req[r].kind] \in Seq(Statement)
  BY AtPlan DEF Continues, Planned
<1>2. \A t : Before(Plan[req[r].kind], t, s) => Has(Plan[req[r].kind], t)
  BY <1>1 DEF Before, Has
<1>3. req'[r].kind = req[r].kind /\ req[r].state = "running" /\ req'[r].state # "idle"
  BY DEF Continues, Moves, SameBut
<1>4. QED
  BY <1>1, <1>2, <1>3 DEF Past, Continues

\* A request at a statement executes that statement.
LEMMA ExecutesAt ==
    ASSUME NEW r \in Request, Executes(r)
    PROVE  /\ At(r, "void") => VoidCodes(r)
           /\ At(r, "issue") => IssueCode(r)
           /\ At(r, "find") => FindCode(r)
           /\ At(r, "consume") => ConsumeCode(r)
           /\ At(r, "mint") => MintToken(r)
           /\ At(r, "token") => FindToken(r)
           /\ At(r, "register") => Register(r)
           /\ At(r, "save") => SavePassword(r)
           /\ At(r, "open") => OpenToken(r)
           /\ At(r, "blacklist") => BlacklistToken(r)
           /\ VoidCodes(r) => At(r, "void")
           /\ IssueCode(r) => At(r, "issue")
           /\ ConsumeCode(r) => At(r, "consume")
           /\ MintToken(r) => At(r, "mint")
           /\ Register(r) => At(r, "register")
           /\ SavePassword(r) => At(r, "save")
           /\ BlacklistToken(r) => At(r, "blacklist")
BY DEF Executes, At, Unregistered, HasAccount, Requires, FindCode, DropToken, MintToken, FindToken,
   StillFree, Register, UseToken, SavePassword, Authenticate, Identify, DeriveName, CreateGoogleUser,
   OpenToken, BlacklistToken, VoidCodes, IssueCode, ConsumeCode

\* A request that continues does not stop.
LEMMA ContinuesOrStops ==
    ASSUME Progress, NEW r \in Request, NEW s, Continues(r, s), NEW t, NEW state
    PROVE  ~ Stops(r, t, state)
<1>1. req[r].todo \in Seq(Statement) /\ req[r].todo # <<>>
  BY DEF Progress, TypeOK, Locals, Moves, Continues
<1>2. Len(Tail(req[r].todo)) # Len(req[r].todo)
  BY <1>1, TailOf
<1>3. QED
  BY <1>2 DEF Continues, Stops

\* It goes on, or ends well.
LEMMA ContinuesOn ==
    ASSUME Progress, NEW r \in Request, NEW s, Continues(r, s)
    PROVE  req'[r].state \in {"running", "ok"}
<1>1. req[r].todo \in Seq(Statement) /\ req[r].todo # <<>>
  BY DEF Progress, TypeOK, Locals, Moves, Continues
<1>2. Len(Tail(req[r].todo)) # Len(req[r].todo)
  BY <1>1, TailOf
<1>3. QED
  BY <1>2 DEF Continues, Moves

-----------------------------------------------------------------------------
(* Codes *)

\* How a code changes: it is used, or a wrong try is written to it.
LEMMA CodesChange ==
    ASSUME Progress, Found, [Next]_vars, NEW i \in DOMAIN codes
    PROVE  /\ i \in Nat \ {0} /\ i \in DOMAIN codes' /\ codes'[i].by = codes[i].by
           /\ codes'[i].email = codes[i].email /\ codes'[i].purpose = codes[i].purpose
           /\ codes[i].used => codes'[i].used
           /\ \/ codes'[i].attempts = codes[i].attempts
              \/ \E x \in Request :
                    /\ Stops(x, "consume", "refused") /\ ~ Exhausted(req[x].attempts)
                    /\ req[x].code = i /\ codes'[i].attempts = req[x].attempts + 1
<1>1. codes \in Seq(CodeRow) /\ DOMAIN codes = 1..Len(codes) /\ i \in Nat \ {0}
      /\ codes[i] \in CodeRow
  BY DEF Progress, TypeOK, AccountsTypeOK
<1>2. CASE UNCHANGED codes
  BY <1>1, <1>2
<1>3. ASSUME NEW r \in Request, VoidCodes(r)
      PROVE  /\ i \in DOMAIN codes' /\ codes'[i].by = codes[i].by
             /\ codes'[i].email = codes[i].email /\ codes'[i].purpose = codes[i].purpose
             /\ codes[i].used => codes'[i].used
             /\ codes'[i].attempts = codes[i].attempts
  BY <1>1, <1>3 DEF VoidCodes, CodeRow
<1>4. ASSUME NEW r \in Request, IssueCode(r)
      PROVE  i \in DOMAIN codes' /\ codes'[i] = codes[i]
  BY <1>1, <1>4 DEF IssueCode
<1>5. ASSUME NEW r \in Request, ConsumeCode(r)
      PROVE  /\ i \in DOMAIN codes' /\ codes'[i].by = codes[i].by
             /\ codes'[i].email = codes[i].email /\ codes'[i].purpose = codes[i].purpose
             /\ codes[i].used => codes'[i].used
             /\ \/ codes'[i].attempts = codes[i].attempts
                \/ /\ Stops(r, "consume", "refused") /\ ~ Exhausted(req[r].attempts)
                   /\ req[r].code = i /\ codes'[i].attempts = req[r].attempts + 1
  <2>1. CASE codes' = [codes EXCEPT ![req[r].code].used = TRUE]
    BY <1>1, <2>1 DEF CodeRow
  <2>2. CASE /\ Stops(r, "consume", "refused") /\ ~ Exhausted(req[r].attempts)
             /\ codes' = [codes EXCEPT ![req[r].code].attempts = req[r].attempts + 1]
    BY <1>1, <2>2 DEF CodeRow
  <2>3. QED
    BY <1>2, <1>5, <2>1, <2>2, ConsumeMoves
<1>6. ASSUME NEW r \in Request, Executes(r), ~ VoidCodes(r), ~ IssueCode(r), ~ ConsumeCode(r)
      PROVE  UNCHANGED codes
  BY <1>6 DEF Executes, Unregistered, HasAccount, Requires, FindCode, DropToken,
     MintToken, FindToken, StillFree, Register, UseToken, SavePassword, Authenticate, Identify,
     DeriveName, CreateGoogleUser, OpenToken, BlacklistToken, accountVars
<1>7. CASE ~ UNCHANGED codes
  <2>1. PICK r \in Request : Executes(r) /\ Moves(r)
    BY <1>7, NextIs DEF vars, accountVars
  <2>2. QED
    BY <1>1, <1>3, <1>4, <1>5, <1>6, <1>7, <2>1
<1>8. QED
  BY <1>2, <1>7

\* A code that is new was issued by a request that has just executed that.
LEMMA CodesAdded ==
    ASSUME Progress, [Next]_vars, NEW i \in DOMAIN codes', i \notin DOMAIN codes
    PROVE  \E x \in Request :
              /\ Continues(x, "issue")
              /\ codes'[i] = [by |-> x, email |-> req[x].email, purpose |-> Purpose[req[x].kind],
                              attempts |-> 0, used |-> FALSE]
<1>1. codes \in Seq(CodeRow) /\ DOMAIN codes = 1..Len(codes)
  BY DEF Progress, TypeOK, AccountsTypeOK
<1>2. PICK r \in Request : Executes(r)
  BY NextIs DEF vars, accountVars
<1>3. CASE IssueCode(r)
  <2>1. DOMAIN codes' = 1..(Len(codes) + 1)
        /\ codes'[Len(codes) + 1] = [by |-> r, email |-> req[r].email, purpose |-> Purpose[req[r].kind],
                                     attempts |-> 0, used |-> FALSE]
    BY <1>1, <1>3 DEF IssueCode
  <2>2. i = Len(codes) + 1
    BY <1>1, <2>1
  <2>3. QED
    BY <1>3, <2>1, <2>2, OtherMoves
<1>4. CASE ~ IssueCode(r)
  <2>1. DOMAIN codes' = DOMAIN codes
    <3>1. CASE ConsumeCode(r)
      BY <3>1, ConsumeMoves
    <3>2. QED
      BY <1>2, <1>4, <3>1 DEF Executes, Unregistered, HasAccount, Requires, FindCode, DropToken,
         MintToken, FindToken, StillFree, Register, UseToken, SavePassword, Authenticate, Identify,
         DeriveName, CreateGoogleUser, OpenToken, BlacklistToken, VoidCodes, accountVars
  <2>2. QED
    BY <2>1
<1>5. QED
  BY <1>3, <1>4

\* A request reads its code at one statement, from a live row.
LEMMA CodeFrom ==
    ASSUME Progress, [Next]_vars, NEW r \in Request,
           req'[r].code # req[r].code \/ req'[r].attempts # req[r].attempts, ~ Comes(r)
    PROVE  /\ Continues(r, "find") /\ req'[r].code \in Live(req[r].email, Purpose[req[r].kind])
           /\ req'[r].attempts = codes[req'[r].code].attempts /\ UNCHANGED accountVars
<1>1. Moves(r) /\ Executes(r)
  BY RequestIs
<1>2. At(r, "find")
  BY <1>1 DEF Moves, SameBut, At
<1>3. FindCode(r)
  BY <1>1, <1>2, ExecutesAt
<1>4. QED
  BY <1>3, FindMoves DEF Stops

\* Steps keep what requests have found.
LEMMA FoundKept == ASSUME Progress, Found, [Next]_vars PROVE Found'
<1> SUFFICES ASSUME NEW r \in Request
             PROVE  /\ Past(r, "find")' => req'[r].code # 0
                    /\ req'[r].code # 0 =>
                          /\ Past(r, "find")' /\ req'[r].code \in DOMAIN codes'
                          /\ codes'[req'[r].code].email = req'[r].email
                          /\ codes'[req'[r].code].purpose = Purpose[req'[r].kind]
                    /\ Past(r, "consume")' =>
                          /\ Matches(codes'[req'[r].code], req'[r].given)
                          /\ ~ Exhausted(req'[r].attempts)
  BY DEF Found, Past, Exhausted
<1>1. codes \in Seq(CodeRow) /\ DOMAIN codes = 1..Len(codes)
  BY DEF Progress, TypeOK, AccountsTypeOK
<1>2. Past(r, "find") => /\ req[r].kind \in {"verify", "reset"} /\ req'[r].kind = req[r].kind
                         /\ req'[r].email = req[r].email /\ req'[r].given = req[r].given
  <2>1. Past(r, "find") => req[r].kind \in {"verify", "reset"} /\ req[r].state # "idle"
    BY OneRequest DEF Planned, Past
  <2>2. QED
    BY <2>1, RequestStays
<1>3. Past(r, "find") => /\ Past(r, "find")' /\ req'[r].code = req[r].code
                         /\ req'[r].attempts = req[r].attempts
  BY PastStays
<1>4. CASE Continues(r, "find")
  <2>1. Executes(r) /\ At(r, "find") /\ req'[r].kind = req[r].kind
        /\ Past(r, "find")' /\ req[r].state # "idle" /\ req[r].kind \in {"verify", "reset"}
    <3>1. Moves(r) /\ At(r, "find") /\ req'[r] # req[r] /\ req[r].state = "running"
      BY <1>4, ContinuesPast DEF Continues, Past, At
    <3>2. req[r].kind \in {"verify", "reset"}
      BY <3>1, AtPlan DEF Planned
    <3>3. Executes(r)
      BY <3>1, RequestIs DEF Comes
    <3>4. QED
      BY <1>4, <3>1, <3>2, <3>3, ContinuesPast
  <2>2. FindCode(r)
    BY <2>1, ExecutesAt
  <2>3. /\ req'[r].code \in Live(req[r].email, Purpose[req[r].kind]) /\ UNCHANGED codes
    BY <1>4, <2>2, FindMoves, ContinuesOrStops DEF accountVars
  <2>4. req'[r].email = req[r].email /\ req[r].kind # "complete"
    BY <2>1, RequestStays
  <2>5. req'[r].code # 0 /\ req'[r].code \in DOMAIN codes
        /\ codes[req'[r].code].email = req[r].email
        /\ codes[req'[r].code].purpose = Purpose[req[r].kind]
    BY <1>1, <2>3 DEF Live
  <2>6. ~ Past(r, "consume")'
    <3>1. ASSUME Past(r, "consume")' PROVE FALSE
      <4>1. Past(r, "consume") \/ Continues(r, "consume")
        BY <3>1, PastFrom
      <4>2. ~ Continues(r, "consume")
        BY <2>1 DEF Continues, At
      <4>3. Past(r, "find")
        BY <4>1, <4>2, OneRequest, PastInOrder DEF Planned
      <4>4. QED
        BY <1>4, <4>3, ContinuesPast DEF Matches
    <3>2. QED
      BY <3>1
  <2>7. QED
    BY <2>1, <2>3, <2>4, <2>5, <2>6
<1>5. CASE ~ Continues(r, "find")
  <2>1. Past(r, "find")' => Past(r, "find")
    BY <1>5, PastFrom
  <2>2. req'[r].code # 0 => req'[r].code = req[r].code
    BY <1>5, CodeFrom DEF Comes
  <2>3. req'[r].code # 0 => /\ Past(r, "find") /\ req[r].code \in DOMAIN codes
                            /\ codes[req[r].code].email = req[r].email
                            /\ codes[req[r].code].purpose = Purpose[req[r].kind]
    BY <2>2 DEF Found
  <2>4. req'[r].code # 0 => /\ Past(r, "find")' /\ req'[r].code \in DOMAIN codes'
                            /\ codes'[req'[r].code].email = req'[r].email
                            /\ codes'[req'[r].code].purpose = Purpose[req'[r].kind]
    BY <1>2, <1>3, <2>2, <2>3, CodesChange
  <2>5. Past(r, "find")' => req'[r].code # 0
    BY <1>3, <2>1 DEF Found
  <2>6. ASSUME Past(r, "consume")'
        PROVE  Matches(codes'[req'[r].code], req'[r].given) /\ ~ Exhausted(req'[r].attempts)
    <3>1. CASE Past(r, "consume")
      <4>1. Past(r, "find")
        BY <3>1, OneRequest, PastInOrder DEF Planned
      <4>2. /\ req[r].code \in DOMAIN codes /\ Matches(codes[req[r].code], req[r].given)
            /\ ~ Exhausted(req[r].attempts)
        BY <3>1, <4>1 DEF Found
      <4>3. codes'[req[r].code].by = codes[req[r].code].by
        BY <4>2, CodesChange
      <4>4. QED
        BY <1>2, <1>3, <4>1, <4>2, <4>3 DEF Matches
    <3>2. CASE ~ Past(r, "consume")
      <4>1. Continues(r, "consume") /\ Executes(r)
        BY <2>6, <3>2, PastFrom
      <4>2. ConsumeCode(r)
        BY <4>1, ExecutesAt DEF Continues
      <4>3. ~ Exhausted(req[r].attempts) /\ Matches(codes[req[r].code], req[r].given)
        BY <4>1, <4>2, ConsumeMoves, ContinuesOrStops
      <4>4. Past(r, "find")
        BY <4>1, ContinuesPast, OneRequest DEF Planned
      <4>5. req[r].code \in DOMAIN codes
        BY <4>4 DEF Found
      <4>6. codes'[req[r].code].by = codes[req[r].code].by
        BY <4>5, CodesChange
      <4>7. QED
        BY <1>2, <1>3, <4>3, <4>4, <4>6 DEF Matches
    <3>3. QED
      BY <3>1, <3>2
  <2>7. QED
    BY <2>4, <2>5, <2>6
<1>6. QED
  BY <1>4, <1>5

-----------------------------------------------------------------------------
(* Whose address it is *)

\* A token is named after the request that minted it.
LEMMA TokensChange ==
    ASSUME Progress, [Next]_vars, NEW e \in Email
    PROVE  \/ tokens'[e].by = tokens[e].by
           \/ \E r \in Request : /\ Continues(r, "mint") /\ req[r].email = e
                                 /\ tokens'[e].by = r
<1>1. tokens \in [Email -> TokenRow]
  BY DEF Progress, TypeOK, AccountsTypeOK
<1>2. ASSUME NEW r \in Request, DropToken(r) \/ UseToken(r) PROVE tokens'[e].by = tokens[e].by
  BY <1>1, <1>2 DEF DropToken, UseToken, TokenRow
<1>3. ASSUME NEW r \in Request, MintToken(r)
      PROVE  \/ tokens'[e].by = tokens[e].by
             \/ Continues(r, "mint") /\ req[r].email = e /\ tokens'[e].by = r
  <2>1. CASE UNCHANGED tokens
    BY <2>1
  <2>2. CASE ~ UNCHANGED tokens
    <3>1. Continues(r, "mint")
      BY <1>3, <2>2, OtherMoves
    <3>2. tokens' = [tokens EXCEPT ![req[r].email] = [stored |-> TRUE, by |-> r, used |-> FALSE]]
      BY <1>3, <2>2 DEF MintToken
    <3>3. QED
      BY <1>1, <3>1, <3>2
  <2>3. QED
    BY <2>1, <2>2
<1>4. ASSUME NEW r \in Request, Executes(r), ~ DropToken(r), ~ UseToken(r), ~ MintToken(r)
      PROVE  UNCHANGED tokens
  BY <1>4 DEF Executes, Unregistered, HasAccount, Requires, FindCode, VoidCodes, IssueCode, ConsumeCode,
     FindToken, StillFree, Register, SavePassword, Authenticate, Identify,
     DeriveName, CreateGoogleUser, OpenToken, BlacklistToken, accountVars
<1>5. QED
  BY <1>2, <1>3, <1>4, NextIs DEF vars, accountVars

\* A password is named after the request that set it.
LEMMA PasswordsChange ==
    ASSUME Progress, [Next]_vars, NEW e \in Email
    PROVE  \/ users'[e].password = users[e].password
           \/ \E r \in Request : /\ \E s \in {"register", "save", "create"} : Continues(r, s)
                                 /\ req[r].email = e /\ users'[e].password = r
<1>1. users \in [Email -> UserRow]
  BY DEF Progress, TypeOK, AccountsTypeOK
<1>2. ASSUME NEW r \in Request, SavePassword(r)
      PROVE  \/ users'[e].password = users[e].password
             \/ Continues(r, "save") /\ req[r].email = e /\ users'[e].password = r
  BY <1>1, <1>2, OtherMoves DEF SavePassword, UserRow
<1>3. ASSUME NEW r \in Request, NEW sub \in BOOLEAN,
             users' = [users EXCEPT ![req[r].email] = NewUser(r, sub)]
      PROVE  \/ users'[e].password = users[e].password
             \/ req[r].email = e /\ users'[e].password = r
  BY <1>1, <1>3 DEF NewUser
<1>4. ASSUME NEW r \in Request, Register(r)
      PROVE  \/ users'[e].password = users[e].password
             \/ Continues(r, "register") /\ req[r].email = e /\ users'[e].password = r
  BY <1>3, <1>4, OtherMoves DEF Register
<1>5. ASSUME NEW r \in Request, CreateGoogleUser(r)
      PROVE  \/ users'[e].password = users[e].password
             \/ Continues(r, "create") /\ req[r].email = e /\ users'[e].password = r
  BY <1>3, <1>5, OtherMoves, AccountsAssumption DEF CreateGoogleUser
<1>6. ASSUME NEW r \in Request, Executes(r), ~ SavePassword(r), ~ Register(r), ~ CreateGoogleUser(r)
      PROVE  UNCHANGED users
  BY <1>6 DEF Executes, Unregistered, HasAccount, Requires, FindCode, VoidCodes, IssueCode, ConsumeCode,
     DropToken, MintToken, FindToken, StillFree, UseToken, Authenticate, Identify,
     DeriveName, OpenToken, BlacklistToken, accountVars
<1>7. QED
  BY <1>2, <1>4, <1>5, <1>6, NextIs DEF vars, accountVars

\* A token keeps to the address its request has proven.
LEMMA MintedKept == ASSUME Progress, Minted, [Next]_vars PROVE Minted'
<1> SUFFICES ASSUME NEW e \in Email, NEW r \in Request, tokens'[e].by = r
             PROVE  Past(r, "mint")' /\ req'[r].email = e
  BY DEF Minted, Past
<1>1. CASE tokens[e].by = r
  <2>1. Past(r, "mint") /\ req[r].email = e /\ req[r].state # "idle" /\ req[r].kind # "complete"
    BY <1>1, OneRequest DEF Minted, Past, Planned
  <2>2. QED
    BY <2>1, PastStays, RequestStays
<1>2. CASE tokens[e].by # r
  <2>1. Continues(r, "mint") /\ req[r].email = e
    BY <1>2, TokensChange
  <2>2. QED
    BY <2>1, ContinuesPast DEF Continues, Moves, SameBut, At
<1>3. QED
  BY <1>1, <1>2

\* A registration goes on for the address of its token.
LEMMA TokenedKept == ASSUME Progress, Minted, Tokened, [Next]_vars PROVE Tokened'
<1> SUFFICES ASSUME NEW r \in Request, Past(r, "token")'
             PROVE  req'[req'[r].given].email = req'[r].email
  BY DEF Tokened, Past
<1>1. Past(r, "token") \/ (Continues(r, "token") /\ Executes(r))
  BY PastFrom
<1>2. req[r].kind = "complete" /\ req[r].state # "idle"
  <2>1. Past(r, "token") => req[r].kind = "complete" /\ req[r].state # "idle"
    BY OneRequest DEF Planned, Past
  <2>2. Continues(r, "token") => req[r].kind = "complete" /\ req[r].state # "idle"
    BY AtPlan DEF Planned, Continues, At
  <2>3. QED
    BY <1>1, <2>1, <2>2
<1>3. /\ req[r].given \in Request /\ req[req[r].given].state = "ok"
      /\ req'[r].given = req[r].given
  BY <1>2, RequestStays DEF Progress, OnPlan
<1>4. req'[req'[r].given] = req[req[r].given]
  BY <1>3, RequestStays DEF Ended
<1>5. CASE Past(r, "token")
  BY <1>4, <1>5, PastStays DEF Tokened
<1>6. CASE Continues(r, "token") /\ Executes(r)
  <2>1. FindToken(r)
    BY <1>6, ExecutesAt DEF Continues
  <2>2. req'[r].email \in Email /\ tokens[req'[r].email].by = req[r].given
    BY <1>6, <2>1, TokenMoves, ContinuesOrStops
  <2>3. QED
    BY <1>3, <1>4, <2>2 DEF Minted
<1>7. QED
  BY <1>1, <1>5, <1>6

\* A password keeps to the address of the request that set it.
LEMMA PasswordedKept == ASSUME Progress, Passworded, [Next]_vars PROVE Passworded'
<1> SUFFICES ASSUME NEW e \in Email, NEW r \in Request, users'[e].password = r
             PROVE  \/ Past(r, "create")'
                    \/ (Past(r, "register")' \/ Past(r, "save")') /\ req'[r].email = e
  BY DEF Passworded, Past
<1>1. CASE users[e].password = r /\ Past(r, "create")
  BY <1>1, PastStays
<1>2. CASE users[e].password = r /\ ~ Past(r, "create")
  <2>1. (Past(r, "register") \/ Past(r, "save")) /\ req[r].email = e
    BY <1>2 DEF Passworded
  <2>2. Past(r, "save") => req[r].kind # "complete" /\ req[r].state # "idle"
    BY OneRequest DEF Planned, Past
  <2>3. QED
    BY <2>1, <2>2, PastStays, RequestStays
<1>3. CASE users[e].password # r
  <2>1. /\ \E s \in {"register", "save", "create"} : Continues(r, s)
        /\ req[r].email = e
    BY <1>3, PasswordsChange
  <2>2. CASE Continues(r, "create")
    BY <2>2, ContinuesPast
  <2>3. CASE Continues(r, "register") \/ Continues(r, "save")
    BY <2>1, <2>3, ContinuesPast DEF Continues, Moves, SameBut, At
  <2>4. QED
    BY <2>1, <2>2, <2>3
<1>4. QED
  BY <1>1, <1>2, <1>3

\* What is proven implies the property.
LEMMA ProvenIs == Progress /\ Found /\ Tokened /\ Passworded => AddressProven
<1> SUFFICES ASSUME Progress, Found, Tokened, Passworded PROVE AddressProven
  OBVIOUS
<1>1. ASSUME NEW r \in Request, Did(r, "consume")
      PROVE  LET c == codes[req[r].code]
             IN  /\ c.email = req[r].email /\ c.purpose = Purpose[req[r].kind]
                 /\ req[r].given \notin DevCodes => c.by = req[r].given
  <2>1. Past(r, "consume") /\ Past(r, "find")
    BY <1>1, DidIs, OneRequest, PastInOrder DEF Planned
  <2>2. QED
    BY <2>1 DEF Found, Matches
<1>2. ASSUME NEW e \in Email, users[e].password \in Request,
             req[users[e].password].kind # "google"
      PROVE  LET r == users[e].password
                 v == IF req[r].kind = "complete" THEN req[r].given ELSE r
             IN  Did(v, "consume") /\ req[v].email = e
  <2> DEFINE r == users[e].password
             v == IF req[r].kind = "complete" THEN req[r].given ELSE r
  <2>1. /\ r \in Request /\ (Past(r, "register") \/ Past(r, "save")) /\ req[r].email = e
        /\ req[r].state # "idle" /\ Planned(req[r].kind, Plan[req[r].kind])
    BY <1>2, OneRequest DEF Passworded, Planned, Past
  <2> HIDE DEF r
  <2>2. CASE req[r].kind = "complete"
    <3>1. Past(r, "token")
      <4>1. Past(r, "register")
        BY <2>1, <2>2, OneRequest DEF Planned
      <4>2. QED
        BY <2>1, <2>2, <4>1, PastInOrder DEF Planned
    <3>2. req[req[r].given].email = e
      BY <2>1, <3>1 DEF Tokened
    <3>3. req[r].given \in Request /\ req[req[r].given].kind = "verify" /\ req[req[r].given].state = "ok"
      BY <2>1, <2>2 DEF Progress, OnPlan
    <3>4. Past(req[r].given, "consume")
      BY <3>3, OneRequest, EndedWell DEF Planned
    <3>5. Did(req[r].given, "consume")
      BY <3>3, <3>4, DidIs
    <3>6. QED
      BY <2>2, <3>2, <3>5 DEF r
  <2>3. CASE req[r].kind # "complete"
    <3>1. Past(r, "save")
      BY <2>1, <2>3, OneRequest DEF Planned
    <3>2. Past(r, "consume")
      BY <2>1, <3>1, OneRequest, PastInOrder DEF Planned
    <3>3. req[r].state # "refused"
      BY <2>1, <3>1, RefusedAt DEF Planned
    <3>4. Did(r, "consume")
      BY <3>2, <3>3, DidIs
    <3>5. QED
      BY <2>1, <2>3, <3>4 DEF r
  <2>4. QED
    BY <2>2, <2>3
<1>3. QED
  BY <1>1, <1>2 DEF AddressProven

\* At first nobody has asked for anything.
LEMMA NothingAsked ==
    ASSUME Init
    PROVE  /\ \A r \in Request : req[r].state = "idle" /\ req[r].code = 0 /\ req[r].before = {}
           /\ \A e \in Email : tokens[e].by = Earlier /\ users[e].password = Earlier
           /\ \A i \in DOMAIN codes : codes[i].by = Earlier /\ codes[i].attempts = 0
<1> DEFINE user == [stored |-> TRUE, name |-> NoLocals.name, password |-> Earlier,
                    sub |-> FALSE, by |-> Earlier]
           noUser == [user EXCEPT !.stored = FALSE]
           code(registered) ==
               [by |-> Earlier, email |-> NoLocals.email, attempts |-> 0, used |-> FALSE,
                purpose |-> IF registered THEN Reset ELSE Registration]
<1>1. /\ \E registered, sent \in BOOLEAN :
            /\ users = [e \in Email |-> IF registered /\ e = NoLocals.email THEN user ELSE noUser]
            /\ codes = IF ~ sent THEN <<>> ELSE <<code(registered)>>
      /\ tokens = [e \in Email |-> [stored |-> FALSE, by |-> Earlier, used |-> FALSE]]
      /\ blacklist = {} /\ req = [r \in Request |-> NoLocals]
  BY DEF Init
<1>2. user.password = Earlier /\ noUser.password = Earlier
      /\ \A registered \in BOOLEAN : code(registered).by = Earlier /\ code(registered).attempts = 0
  OBVIOUS
<1>3. NoLocals.state = "idle" /\ NoLocals.code = 0 /\ NoLocals.before = {}
  BY DEF NoLocals
<1> HIDE DEF user, noUser, code
<1>4. \A e \in Email : tokens[e].by = Earlier /\ users[e].password = Earlier
  BY <1>1, <1>2
<1>5. \A i \in DOMAIN codes : codes[i].by = Earlier /\ codes[i].attempts = 0
  BY <1>1, <1>2
<1>6. \A r \in Request : req[r].state = "idle" /\ req[r].code = 0 /\ req[r].before = {}
  BY <1>1, <1>3
<1>7. QED
  BY <1>4, <1>5, <1>6

\* Codes, registration tokens and passwords keep to the address they were sent
\* to, minted and set for.
THEOREM CodesFound == Spec => []Found
<1>1. Init => Found
  BY NothingAsked DEF Found, Past
<1>2. QED
  BY <1>1, FoundKept, AccountsProgress, PTL DEF Spec

\* An account is registered, and its password reset, only by a client that gave
\* the code sent to its address for that purpose, however requests for other
\* addresses interleave.
THEOREM AddressesAreProven == Spec => []AddressProven
<1>1. Init => Minted /\ Tokened /\ Passworded
  BY NothingAsked, AccountsAssumption DEF Minted, Tokened, Passworded, Past
<1>2. Progress /\ Found /\ Minted /\ Tokened /\ Passworded /\ [Next]_vars
      => (Minted /\ Tokened /\ Passworded)'
  BY MintedKept, TokenedKept, PasswordedKept
<1>3. QED
  BY <1>1, <1>2, ProvenIs, CodesFound, AccountsProgress, PTL DEF Spec

-----------------------------------------------------------------------------
(* A new code voids those before it *)

\* A code is named after a request that ended with it.
LEMMA IssuedKept == ASSUME Progress, Found, Issued, [Next]_vars PROVE Issued'
<1> SUFFICES ASSUME NEW i \in DOMAIN codes', NEW q \in Request, codes'[i].by = q
             PROVE  /\ Past(q, "issue")' /\ codes'[i].email = req'[q].email
                    /\ codes'[i].purpose = Purpose[req'[q].kind]
  BY DEF Issued, Past
<1>1. CASE i \in DOMAIN codes
  <2>1. codes[i].by = q /\ codes'[i].email = codes[i].email /\ codes'[i].purpose = codes[i].purpose
    BY <1>1, CodesChange
  <2>2. Past(q, "issue") /\ codes[i].email = req[q].email /\ codes[i].purpose = Purpose[req[q].kind]
    BY <1>1, <2>1 DEF Issued
  <2>3. req[q].kind # "complete" /\ req[q].state # "idle"
    BY <2>2, OneRequest DEF Planned, Past
  <2>4. QED
    BY <2>1, <2>2, <2>3, PastStays, RequestStays
<1>2. CASE i \notin DOMAIN codes
  <2>1. PICK x \in Request :
            /\ Continues(x, "issue")
            /\ codes'[i] = [by |-> x, email |-> req[x].email, purpose |-> Purpose[req[x].kind],
                            attempts |-> 0, used |-> FALSE]
    BY <1>2, CodesAdded
  <2>2. x = q
    BY <2>1
  <2>3. QED
    BY <2>1, <2>2, ContinuesPast DEF Continues, Moves, SameBut, At
<1>3. QED
  BY <1>1, <1>2

\* Steps keep what issuing requests have voided.
LEMMA VoidedKept == ASSUME Progress, Found, Voided, [Next]_vars PROVE Voided'
<1> SUFFICES ASSUME NEW r \in Request, Past(r, "void")', NEW i \in DOMAIN codes',
                    codes'[i].email = req'[r].email, codes'[i].purpose = Purpose[req'[r].kind],
                    codes'[i].by = Earlier \/ codes'[i].by \in req'[r].before
             PROVE  codes'[i].used
  BY DEF Voided, Older, Past
<1>1. req[r].kind \in {"request_code", "forgot", "reset"} /\ req[r].state # "idle"
      /\ (Past(r, "void") \/ (Continues(r, "void") /\ Executes(r)))
  <2>1. Past(r, "void") => req[r].kind \in {"request_code", "forgot", "reset"} /\ req[r].state # "idle"
    BY OneRequest DEF Planned, Past
  <2>2. Continues(r, "void") => req[r].kind \in {"request_code", "forgot", "reset"}
                                /\ req[r].state # "idle"
    BY AtPlan DEF Planned, Continues, At
  <2>3. QED
    BY <2>1, <2>2, PastFrom
<1>2. req'[r].email = req[r].email /\ req'[r].kind = req[r].kind /\ req'[r].before = req[r].before
  BY <1>1, RequestStays
<1>3. i \in DOMAIN codes
  <2>1. ASSUME i \notin DOMAIN codes PROVE FALSE
    <3>1. PICK x \in Request : Continues(x, "issue") /\ codes'[i].by = x
      BY <2>1, CodesAdded
    <3>2. x # Earlier /\ req[x].state = "running"
      BY <3>1, AccountsAssumption DEF Continues, At
    <3>3. \A q \in req[r].before : req[q].state \in Ended
      BY DEF Progress, OnPlan
    <3>4. QED
      BY <1>2, <3>1, <3>2, <3>3 DEF Ended
  <2>2. QED
    BY <2>1
<1>4. /\ codes[i].email = req[r].email /\ codes[i].purpose = Purpose[req[r].kind] /\ Older(i, r)
      /\ codes[i].used => codes'[i].used
  BY <1>2, <1>3, CodesChange DEF Older
<1>5. CASE Past(r, "void")
  BY <1>3, <1>4, <1>5 DEF Voided
<1>6. CASE Continues(r, "void") /\ Executes(r)
  <2>1. VoidCodes(r)
    BY <1>6, ExecutesAt DEF Continues
  <2>2. codes[i] \in CodeRow
    BY <1>3 DEF Progress, TypeOK, AccountsTypeOK
  <2>3. QED
    BY <1>3, <1>4, <2>1, <2>2 DEF VoidCodes, CodeRow
<1>7. QED
  BY <1>1, <1>5, <1>6

\* The code a request finds was not voided, so it is no older than a code
\* issued before the request came.
LEMMA FreshestKept ==
    ASSUME Progress, Found, Issued, Voided, Freshest, [Next]_vars
    PROVE  Freshest'
<1> SUFFICES ASSUME NEW r \in Request, NEW i \in DOMAIN codes', NEW j \in DOMAIN codes',
                    req'[r].code = i, codes'[j].by \in req'[r].before,
                    codes'[i].email = codes'[j].email, codes'[i].purpose = codes'[j].purpose,
                    codes'[i].by = Earlier \/ codes'[i].by \in req'[codes'[j].by].before
             PROVE  FALSE
  BY DEF Freshest, Older
<1>1. codes' \in Seq(CodeRow) /\ i # 0
  BY ProgressKept DEF Progress, TypeOK, AccountsTypeOK
<1>2. ~ Comes(r) /\ req[r].state # "idle" /\ req'[r].before = req[r].before
  <2>1. ~ Comes(r)
    BY <1>1 DEF Comes
  <2>2. req[r].state # "idle"
    BY <1>1, <2>1, RequestIs DEF Moves, Progress, OnPlan
  <2>3. QED
    BY <2>1, <2>2, RequestStays
<1>3. \A q \in req[r].before : q \in Request /\ req[q].state \in Ended /\ req'[q] = req[q]
  <2>1. \A q \in req[r].before : q \in Request /\ req[q].state \in Ended
    BY DEF Progress, TypeOK, Locals, OnPlan
  <2>2. QED
    BY <2>1, RequestStays DEF Ended
<1>4. j \in DOMAIN codes
  <2>1. ASSUME j \notin DOMAIN codes PROVE FALSE
    <3>1. PICK x \in Request : Continues(x, "issue") /\ codes'[j].by = x
      BY <2>1, CodesAdded
    <3>2. QED
      BY <1>2, <1>3, <3>1 DEF Continues, At, Ended
  <2>2. QED
    BY <2>1
<1>5. /\ codes[j].by \in req[r].before /\ codes'[j].by = codes[j].by
      /\ codes'[j].email = codes[j].email /\ codes'[j].purpose = codes[j].purpose
  BY <1>2, <1>4, CodesChange
<1> DEFINE new == codes[j].by
<1>6. new \in Request /\ req'[new] = req[new]
  BY <1>3, <1>5
<1>7. CASE req'[r].code = req[r].code
  <2>1. i \in DOMAIN codes
    BY <1>1, <1>7 DEF Found
  <2>2. /\ codes'[i].by = codes[i].by /\ codes'[i].email = codes[i].email
        /\ codes'[i].purpose = codes[i].purpose
    BY <2>1, CodesChange
  <2>3. Older(i, codes[j].by)
    BY <1>5, <1>6, <2>2 DEF Older
  <2>4. QED
    BY <1>4, <1>5, <1>7, <2>1, <2>2, <2>3 DEF Freshest
<1>8. CASE req'[r].code # req[r].code
  <2>1. i \in Live(req[r].email, Purpose[req[r].kind]) /\ UNCHANGED codes
    BY <1>2, <1>8, CodeFrom DEF accountVars
  <2>2. i \in DOMAIN codes /\ ~ codes[i].used
    BY <2>1 DEF Live
  <2>3. /\ Past(new, "issue") /\ codes[j].email = req[new].email
        /\ codes[j].purpose = Purpose[req[new].kind]
    BY <1>4, <1>6 DEF Issued
  <2>4. Past(new, "void")
    BY <1>6, <2>3, OneRequest, PastInOrder DEF Planned
  <2>5. Older(i, new) /\ codes[i].email = codes[j].email /\ codes[i].purpose = codes[j].purpose
    BY <1>5, <1>6, <2>1 DEF Older
  <2>6. codes[i].used
    BY <1>6, <2>2, <2>3, <2>4, <2>5 DEF Voided
  <2>7. QED
    BY <2>2, <2>6
<1>9. QED
  BY <1>7, <1>8

\* A code that a new one voided is not accepted, whether the new one is still
\* live or not, and whatever other requests for codes interleave.
THEOREM NewCodesVoidOld == Spec => []NewCodeVoidsOld
<1>1. Init => Issued /\ Voided /\ Freshest
  BY NothingAsked, AccountsAssumption DEF Issued, Voided, Freshest, Past
<1>2. Progress /\ Found /\ Issued /\ Voided /\ Freshest /\ [Next]_vars
      => (Issued /\ Voided /\ Freshest)'
  BY IssuedKept, VoidedKept, FreshestKept
<1>3. Freshest => NewCodeVoidsOld
  BY DEF Freshest, NewCodeVoidsOld, Consumed, Older
<1>4. QED
  BY <1>1, <1>2, <1>3, CodesFound, AccountsProgress, PTL DEF Spec

\* A password reset that succeeded leaves no reset code of the account live
\* that was issued before it came, nor one of a concurrent request that it saw.
THEOREM ResetsVoidCodes == Spec => []ResetVoidsCodes
<1>1. Init => Voided
  BY NothingAsked DEF Voided, Past
<1>2. Progress /\ Found /\ Voided /\ [Next]_vars => Voided'
  BY VoidedKept
<1>3. Progress /\ Voided => ResetVoidsCodes
  <2> SUFFICES ASSUME Progress, Voided, NEW r \in Request, req[r].kind = "reset", req[r].state = "ok",
                      NEW i \in DOMAIN codes, codes[i].email = req[r].email, codes[i].purpose = Reset,
                      codes[i].by = Earlier \/ codes[i].by \in req[r].before
               PROVE  codes[i].used
    BY DEF ResetVoidsCodes
  <2>1. Past(r, "void")
    BY EndedWell, OneRequest DEF Planned
  <2>2. Purpose[req[r].kind] = Reset
    BY DEF Purpose, Plan
  <2>3. QED
    BY <2>1, <2>2 DEF Voided, Older
<1>4. QED
  BY <1>1, <1>2, <1>3, CodesFound, AccountsProgress, PTL DEF Spec

-----------------------------------------------------------------------------
(* Refresh tokens *)

\* Steps keep what is on the blacklist, and what opened tokens were not.
LEMMA SpentKept == ASSUME Progress, Spent, [Next]_vars PROVE Spent'
<1>1. blacklist \subseteq blacklist'
  <2>1. ASSUME NEW r \in Request, Executes(r) PROVE blacklist \subseteq blacklist'
    BY <2>1, ConsumeMoves DEF Executes, Unregistered, HasAccount, Requires, FindCode, DropToken,
       MintToken, FindToken, StillFree, Register, UseToken, SavePassword, Authenticate, Identify,
       DeriveName, CreateGoogleUser, OpenToken, BlacklistToken, VoidCodes, IssueCode, accountVars
  <2>2. QED
    BY <2>1, NextIs DEF vars, accountVars
<1>2. ASSUME NEW a \in Request, req'[a].kind \in Session,
             Past(a, "blacklist")' \/ req'[a].state = "ok"
      PROVE  req'[a].given \in blacklist'
  <2>1. CASE req'[a] = req[a]
    <3>1. Past(a, "blacklist") \/ req[a].state = "ok"
      BY <1>2, <2>1 DEF Past
    <3>2. QED
      BY <1>1, <1>2, <2>1, <3>1 DEF Spent
  <2>2. CASE Comes(a)
    BY <1>2, <2>2 DEF Comes, Past
  <2>3. CASE Moves(a) /\ Executes(a)
    <3> DEFINE s == Head(req[a].todo)
    <3>1. /\ At(a, s) /\ req'[a].given = req[a].given /\ req[a].kind \in Session
          /\ req'[a].kind = req[a].kind
      BY <1>2, <2>3 DEF Moves, SameBut, At
    <3> HIDE DEF s
    <3>2. CASE s = "open"
      <4>1. OpenToken(a)
        BY <2>3, <3>1, <3>2, ExecutesAt
      <4>2. CASE Stops(a, "open", "ok") /\ req[a].given \in blacklist
        BY <1>1, <3>1, <4>2
      <4>3. CASE Stops(a, "open", "refused")
        <5>1. Past(a, "blacklist")
          BY <1>2, <3>1, <4>3 DEF Stops, Past, At
        <5>2. QED
          BY <1>1, <3>1, <5>1 DEF Spent
      <4>4. CASE Continues(a, "open")
        <5>1. Has(Plan[req[a].kind], "blacklist") /\ Has(req[a].todo, "blacklist")
          <6>1. Has(Plan[req[a].kind], "blacklist") /\ Before(Plan[req[a].kind], "open", "blacklist")
                /\ ~ Past(a, "open")
            BY <3>1, <4>4, OneRequest, ContinuesPast DEF Planned, Session
          <6>2. ~ Past(a, "blacklist")
            BY <6>1, PastInOrder
          <6>3. QED
            BY <3>1, <6>1, <6>2 DEF Past, At
        <5>2. Has(req'[a].todo, "blacklist")
          BY <3>1, <4>4, <5>1, AtPlan, <3>2 DEF Continues
        <5>3. req'[a].todo # <<>> /\ req'[a].state # "ok"
          <6>1. req'[a].todo # <<>>
            BY <5>2 DEF Has
          <6>2. Len(req[a].todo) # 1
            BY <3>1, <4>4, <6>1, AtPlan, TailOf DEF Continues, At
          <6>3. Tail(req[a].todo) # req[a].todo
            <7>1. req[a].todo \in Seq(Statement) /\ req[a].todo # <<>>
              BY <3>1, AtPlan DEF At
            <7>2. Len(Tail(req[a].todo)) # Len(req[a].todo)
              BY <7>1, TailOf
            <7>3. QED
              BY <7>2
          <6>4. QED
            BY <4>4, <6>1, <6>2, <6>3 DEF Continues, Moves
        <5>4. QED
          BY <1>2, <5>2, <5>3 DEF Past
      <4>5. QED
        BY <4>1, <4>2, <4>3, <4>4, EarlyMoves
    <3>3. CASE s = "blacklist"
      BY <2>3, <3>1, <3>3, ExecutesAt DEF BlacklistToken
    <3>4. CASE s \notin {"open", "blacklist"}
      <4>1. FALSE
        <5>1. Has(Plan[req[a].kind], s)
          BY <3>1, AtPlan
        <5>2. QED
          BY <3>1, <3>4, <5>1, OneRequest DEF Session, Planned
      <4>2. QED
        BY <4>1
    <3>5. QED
      BY <3>2, <3>3, <3>4
  <2>4. QED
    BY <2>1, <2>2, <2>3, RequestIs
<1>3. ASSUME NEW a \in Request, NEW b \in Request, req'[a].kind \in Session, Past(b, "open")',
             req'[a].given = req'[b].given, a \in req'[b].before
      PROVE  req'[a].state # "ok"
  <2>1. Past(b, "open") \/ (Continues(b, "open") /\ Executes(b))
    BY <1>3, PastFrom
  <2>2. req[b].state # "idle" /\ req'[b].before = req[b].before /\ req'[b].given = req[b].given
    <3>1. req[b].state # "idle"
      BY <2>1 DEF Past, Continues, At
    <3>2. QED
      BY <3>1, RequestStays
  <2>3. req[a].state \in Ended /\ req'[a] = req[a]
    <3>1. req[a].state \in Ended
      BY <1>3, <2>2 DEF Progress, OnPlan
    <3>2. QED
      BY <3>1, RequestStays DEF Ended
  <2>4. CASE Past(b, "open")
    BY <1>3, <2>2, <2>3, <2>4 DEF Spent
  <2>5. CASE Continues(b, "open") /\ Executes(b)
    <3>1. OpenToken(b)
      BY <2>5, ExecutesAt DEF Continues
    <3>2. req[b].given \notin blacklist
      BY <2>5, <3>1, EarlyMoves, ContinuesOrStops
    <3>3. QED
      BY <1>3, <2>2, <2>3, <3>2 DEF Spent
  <2>6. QED
    BY <2>1, <2>4, <2>5
<1>4. QED
  BY <1>2, <1>3 DEF Spent, Past

\* A refresh token that was exchanged or logged out is not exchanged by a
\* request that comes later.
THEOREM SpentTokensRefused == Spec => []SpentTokenRefused
<1>1. Init => Spent
  BY NothingAsked DEF Spent, Past
<1>2. Progress /\ Spent => SpentTokenRefused
  <2> SUFFICES ASSUME Progress, Spent, NEW a \in Request, NEW b \in Request,
                      {req[a].kind, req[b].kind} \subseteq Session,
                      req[a].given = req[b].given, a \in req[b].before, req[a].state = "ok",
                      req[b].kind = "refresh", req[b].state = "ok"
               PROVE  FALSE
    BY DEF SpentTokenRefused, Session
  <2>1. Past(b, "open")
    BY EndedWell, OneRequest DEF Planned
  <2>2. QED
    BY <2>1 DEF Spent
<1>3. QED
  BY <1>1, <1>2, SpentKept, AccountsProgress, PTL DEF Spec

-----------------------------------------------------------------------------
(* Attempts *)

\* The counters are numbers.
LEMMA CountersAre ==
    ASSUME Progress
    PROVE  /\ \A r \in Request : req[r].attempts \in Nat /\ req[r].code \in Nat
                                 /\ req[r].before \subseteq Request
           /\ \A i \in DOMAIN codes : codes[i].attempts \in Nat /\ i \in Nat \ {0}
           /\ MaxAttempts \in Nat \ {0}
<1>1. codes \in Seq(CodeRow)
  BY DEF Progress, TypeOK, AccountsTypeOK
<1>2. \A i \in DOMAIN codes : codes[i] \in CodeRow /\ i \in Nat \ {0}
  BY <1>1
<1>3. QED
  BY <1>2, AccountsAssumption DEF Progress, TypeOK, Locals, CodeRow

\* They are in the next state, and codes are found there.
LEMMA CountersWillBe ==
    ASSUME Progress, Found, [Next]_vars
    PROVE  /\ \A r \in Request : req'[r].attempts \in Nat
                                 /\ (req'[r].code # 0 => req'[r].code \in DOMAIN codes')
           /\ \A i \in DOMAIN codes' : codes'[i].attempts \in Nat /\ i \in Nat \ {0}
<1>1. codes' \in Seq(CodeRow) /\ req' \in [Request -> Locals]
  BY ProgressKept DEF Progress, TypeOK, AccountsTypeOK
<1>2. \A i \in DOMAIN codes' : codes'[i] \in CodeRow /\ i \in Nat \ {0}
  BY <1>1
<1>3. QED
  BY <1>1, <1>2, FoundKept DEF Found, Locals, CodeRow

\* A request that has found a code is known to others by it from then on.
LEMMA CodeStays ==
    ASSUME Progress, Found, [Next]_vars, NEW r \in Request, req[r].code # 0
    PROVE  /\ req'[r].code = req[r].code /\ req'[r].attempts = req[r].attempts
           /\ req'[r].before = req[r].before /\ req[r].state # "idle"
<1>1. Past(r, "find") /\ req[r].state # "idle"
  BY DEF Found, Past
<1>2. QED
  BY <1>1, PastStays, RequestStays

\* A request that no other has overlapped had not been overlapped.
LEMMA AloneBefore ==
    ASSUME Progress, Found, [Next]_vars, NEW q \in Request, req[q].code # 0, Alone(q)'
    PROVE  Alone(q)
<1> SUFFICES ASSUME NEW p \in Request, req[p].code = req[q].code
             PROVE  p = q \/ p \in req[q].before \/ q \in req[p].before
  BY DEF Alone
<1>1. req'[p].code = req[p].code /\ req'[q].code = req[q].code
      /\ req'[p].before = req[p].before /\ req'[q].before = req[q].before
  BY CodeStays
<1>2. QED
  BY <1>1 DEF Alone

\* A request that no other overlaps came before one that is running.
LEMMA AloneOrder ==
    ASSUME Progress, Found, [Next]_vars, NEW q \in Request, NEW x \in Request, x # q,
           req[x].code # 0, req[x].state = "running", req'[q].code = req[x].code, Alone(q)'
    PROVE  /\ q \in req[x].before /\ req[q].state \in Ended /\ req'[q] = req[q]
<1>1. req'[x].code = req[x].code /\ req'[x].before = req[x].before
  BY CodeStays
<1>2. x \in req'[q].before \/ q \in req'[x].before
  BY <1>1 DEF Alone
<1>3. x \notin req'[q].before
  <2>1. ASSUME x \in req'[q].before PROVE FALSE
    <3>1. ~ Comes(q)
      BY CountersAre DEF Comes
    <3>2. req[q].before = req'[q].before
      BY <3>1, RequestIs DEF Moves, SameBut
    <3>3. QED
      BY <2>1, <3>2 DEF Progress, OnPlan, Ended
  <2>2. QED
    BY <2>1
<1>4. q \in req[x].before
  BY <1>1, <1>2, <1>3
<1>5. req[q].state \in Ended
  BY <1>4 DEF Progress, OnPlan
<1>6. QED
  BY <1>4, <1>5, RequestStays DEF Ended

\* A request that has found a code is refused by its guess, or by the limit.
LEMMA RefusedGuess ==
    ASSUME Progress, Found, [Next]_vars, NEW x \in Request, req'[x].code # 0,
           req[x].state # "refused", req'[x].state = "refused"
    PROVE  /\ Stops(x, "consume", "refused") /\ req[x].code = req'[x].code
           /\ \/ Exhausted(req[x].attempts) /\ UNCHANGED codes
              \/ ~ Exhausted(req[x].attempts)
                 /\ codes'[req[x].code].attempts = req[x].attempts + 1
<1> DEFINE s == Head(req[x].todo)
<1>1. Moves(x) /\ Executes(x) /\ At(x, s)
  BY RequestIs DEF Comes, Moves, At
<1>2. s \in Refusing /\ ~ Continues(x, "find") /\ ~ Continues(x, "consume")
  BY <1>1, ContinuesOn DEF Moves
<1>3. req'[x].code = req[x].code
  BY <1>2, CodeFrom DEF Comes
<1> HIDE DEF s
<1>4. Past(x, "find") /\ req[x].code \in DOMAIN codes
  BY <1>3 DEF Found
<1>5. s = "consume"
  <2>1. Before(Plan[req[x].kind], "find", s)
    BY <1>1, <1>4, AtPlan DEF Past
  <2>2. QED
    BY <1>2, <2>1, OneRequest DEF Planned
<1>6. ConsumeCode(x)
  BY <1>1, <1>5, ExecutesAt
<1>8. codes[req[x].code] \in CodeRow
  BY <1>4 DEF Progress, TypeOK, AccountsTypeOK
<1>9. CASE codes' = [codes EXCEPT ![req[x].code].attempts = req[x].attempts + 1]
  BY <1>3, <1>2, <1>4, <1>6, <1>8, <1>9, ConsumeMoves DEF CodeRow
<1>10. QED
  BY <1>2, <1>3, <1>6, <1>9, ConsumeMoves

\* A row has the attempts of every request that no other overlapped.
LEMMA RowKnowsKept ==
    ASSUME Progress, Found, RowKnows, RequestKnows, [Next]_vars
    PROVE  RowKnows'
<1> SUFFICES ASSUME NEW q \in Request, req'[q].code # 0, Alone(q)'
             PROVE  codes'[req'[q].code].attempts >= Known(q)'
  BY DEF RowKnows
<1> DEFINE i == req'[q].code
<1>1. req[q].attempts \in Nat /\ i \in DOMAIN codes' /\ codes'[i].attempts \in Nat
      /\ req'[q].attempts \in Nat
  BY CountersAre, CountersWillBe
<1>2. ~ Comes(q)
  BY DEF Comes
<1>3. CASE Continues(q, "find") /\ req[q].code = 0
  <2>1. i \in DOMAIN codes /\ req'[q].attempts = codes[i].attempts /\ UNCHANGED codes
    BY <1>2, <1>3, CodeFrom DEF Live, accountVars
  <2>2. req'[q].state # "refused"
    BY <1>3, RefusedGuess DEF Continues, Moves, At
  <2>3. QED
    BY <1>1, <2>1, <2>2 DEF Known
<1>4. CASE req[q].code # 0
  <2>1. req'[q].code = req[q].code /\ req'[q].attempts = req[q].attempts /\ Alone(q)
    BY <1>4, CodeStays, AloneBefore
  <2>2. i \in DOMAIN codes /\ codes[i].attempts >= Known(q)
    BY <1>4, <2>1 DEF Found, RowKnows
  <2>3. CASE Known(q)' = Known(q) /\ codes'[i].attempts = codes[i].attempts
    BY <2>2, <2>3
  <2>4. CASE Known(q)' # Known(q)
    <3>1. req'[q].state = "refused" /\ req[q].state # "refused"
      BY <2>1, <2>4, RequestStays DEF Known, Exhausted, Ended
    <3>2. \/ Exhausted(req[q].attempts) /\ UNCHANGED codes
          \/ ~ Exhausted(req[q].attempts) /\ codes'[i].attempts = req[q].attempts + 1
      BY <2>1, <3>1, RefusedGuess
    <3>3. ~ Exhausted(req[q].attempts)
      BY <2>1, <2>4, <3>1 DEF Known
    <3>4. QED
      BY <1>1, <2>1, <3>2, <3>3 DEF Known
  <2>5. CASE codes'[i].attempts # codes[i].attempts
    <3>1. PICK x \in Request : /\ Stops(x, "consume", "refused") /\ ~ Exhausted(req[x].attempts)
                               /\ req[x].code = i /\ codes'[i].attempts = req[x].attempts + 1
      BY <2>2, <2>5, CodesChange
    <3>2. req[x].attempts \in Nat
      BY CountersAre
    <3>3. CASE x = q
      BY <1>1, <2>1, <3>1, <3>3 DEF Known
    <3>4. CASE x # q
      <4>1. q \in req[x].before /\ req'[q] = req[q]
        BY <3>1, <3>4, AloneOrder DEF Stops, At
      <4>2. req[x].attempts >= Known(q) /\ Known(q)' = Known(q) /\ Known(q) \in Nat
        BY <1>1, <1>4, <2>1, <3>1, <4>1 DEF RequestKnows, Known, Exhausted
      <4>3. QED
        BY <3>1, <3>2, <4>2
    <3>5. QED
      BY <3>3, <3>4
  <2>6. QED
    BY <2>3, <2>4, <2>5
<1>5. QED
  BY <1>2, <1>3, <1>4, CodeFrom

\* A request has read the attempts of every earlier one that none overlapped.
LEMMA RequestKnowsKept ==
    ASSUME Progress, Found, RowKnows, RequestKnows, [Next]_vars
    PROVE  RequestKnows'
<1> SUFFICES ASSUME NEW q \in Request, NEW r \in Request, req'[q].code # 0,
                    req'[r].code = req'[q].code, q \in req'[r].before, Alone(q)'
             PROVE  req'[r].attempts >= Known(q)'
  BY DEF RequestKnows
<1>1. ~ Comes(r)
  BY DEF Comes
<1>2. req'[r].before = req[r].before
  BY <1>1, RequestIs DEF Moves, SameBut
<1>3. req[q].state \in Ended /\ req'[q] = req[q]
  <2>1. req[q].state \in Ended
    BY <1>2 DEF Progress, OnPlan
  <2>2. QED
    BY <2>1, RequestStays DEF Ended
<1>4. Alone(q) /\ req[q].code # 0 /\ Known(q)' = Known(q)
  BY <1>3, AloneBefore DEF Known, Exhausted
<1>5. CASE req'[r].code = req[r].code /\ req'[r].attempts = req[r].attempts
  BY <1>2, <1>3, <1>4, <1>5 DEF RequestKnows
<1>6. CASE req'[r].code # req[r].code \/ req'[r].attempts # req[r].attempts
  BY <1>1, <1>3, <1>4, <1>6, CodeFrom DEF RowKnows
<1>7. QED
  BY <1>5, <1>6

\* A row counts the tries that no other overlapped, up to the limit.
LEMMA RowCountsKept ==
    ASSUME Progress, Found, RowKnows, RowCounts, RequestCounts, [Next]_vars
    PROVE  RowCounts'
<1> SUFFICES ASSUME NEW i \in DOMAIN codes', NEW tries \in SUBSET Request,
                    \A q \in tries : Tried(q, i)'
             PROVE  codes'[i].attempts >= Cardinality(tries) \/ Exhausted(codes'[i].attempts)
  BY DEF RowCounts, Exhausted
<1>1. IsFiniteSet(tries) /\ Cardinality(tries) \in Nat
  BY AccountsAssumption, FS_Subset, FS_CardinalityType
<1>2. codes'[i].attempts \in Nat /\ i \in Nat \ {0}
  BY CountersWillBe
<1>3. \A q \in tries : /\ req'[q].code = i /\ req'[q].state = "refused" /\ Alone(q)'
                       /\ req[q].code = i
  <2> TAKE q \in tries
  <2>1. req'[q].code = i /\ req'[q].state = "refused" /\ Alone(q)'
    BY DEF Tried
  <2>2. CASE req[q].state = "refused"
    BY <2>1, <2>2, RequestStays DEF Ended
  <2>3. CASE req[q].state # "refused"
    BY <1>2, <2>1, <2>3, RefusedGuess
  <2>4. QED
    BY <2>1, <2>2, <2>3
<1>4. CASE tries = {}
  BY <1>2, <1>4, FS_EmptySet
<1>5. ASSUME tries # {} PROVE i \in DOMAIN codes
  BY <1>2, <1>3, <1>5 DEF Found
<1>6. ASSUME NEW x \in Request, req[x].code = i, Stops(x, "consume", "refused"),
             ~ Exhausted(req[x].attempts), codes'[i].attempts = req[x].attempts + 1
      PROVE  codes'[i].attempts >= Cardinality(tries)
  <2> DEFINE others == tries \ {x}
  <2>1. \A q \in others : q \in req[x].before /\ req'[q] = req[q]
    <3>1. req[x].state = "running" /\ req[x].code # 0
      BY <1>2, <1>6 DEF Stops, At
    <3>2. QED
      BY <1>3, <1>6, <3>1, AloneOrder
  <2>2. \A q \in others : Tried(q, req[x].code)
    BY <1>2, <1>3, <1>6, <2>1, AloneBefore DEF Tried
  <2>3. others \in SUBSET req[x].before
    BY <2>1
  <2>4. req[x].attempts >= Cardinality(others)
    BY <1>2, <1>6, <2>2, <2>3 DEF RequestCounts
  <2>5. Cardinality(others) = IF x \in tries THEN Cardinality(tries) - 1 ELSE Cardinality(tries)
    BY <1>1, FS_RemoveElement
  <2>6. req[x].attempts \in Nat
    BY CountersAre
  <2> HIDE DEF others
  <2>7. QED
    BY <1>1, <1>6, <2>4, <2>5, <2>6
<1>7. CASE tries # {} /\ codes'[i].attempts = codes[i].attempts
  <2>1. CASE \A q \in tries : Tried(q, i)
    BY <1>5, <1>7, <2>1 DEF RowCounts
  <2>2. CASE \E q \in tries : ~ Tried(q, i)
    <3>1. PICK x \in tries : ~ Tried(x, i)
      BY <2>2
    <3>2. req[x].code = i /\ Alone(x) /\ req[x].state # "refused"
      BY <1>2, <1>3, <3>1, AloneBefore DEF Tried
    <3>3. /\ Stops(x, "consume", "refused")
          /\ \/ Exhausted(req[x].attempts) /\ UNCHANGED codes
             \/ ~ Exhausted(req[x].attempts) /\ codes'[i].attempts = req[x].attempts + 1
      BY <1>2, <1>3, <3>2, RefusedGuess
    <3>4. CASE Exhausted(req[x].attempts)
      <4>1. codes[i].attempts >= req[x].attempts
        BY <1>2, <3>2 DEF RowKnows, Known
      <4>2. req[x].attempts \in Nat /\ MaxAttempts \in Nat
        BY CountersAre
      <4>3. QED
        BY <1>2, <1>7, <3>4, <4>1, <4>2 DEF Exhausted
    <3>5. CASE ~ Exhausted(req[x].attempts)
      BY <1>6, <3>2, <3>3, <3>5
    <3>6. QED
      BY <3>4, <3>5
  <2>3. QED
    BY <2>1, <2>2
<1>8. CASE tries # {} /\ codes'[i].attempts # codes[i].attempts
  BY <1>5, <1>6, <1>8, CodesChange
<1>9. QED
  BY <1>4, <1>7, <1>8

\* A request has counted the earlier tries that no other overlapped.
LEMMA RequestCountsKept ==
    ASSUME Progress, Found, RowCounts, RequestCounts, [Next]_vars
    PROVE  RequestCounts'
<1> SUFFICES ASSUME NEW r \in Request, NEW tries \in SUBSET req'[r].before, req'[r].code # 0,
                    \A q \in tries : /\ req'[q].code = req'[r].code
                                       /\ req'[q].state = "refused" /\ Alone(q)'
             PROVE  req'[r].attempts >= Cardinality(tries) \/ Exhausted(req'[r].attempts)
  BY DEF RequestCounts, Exhausted, Tried
<1>1. ~ Comes(r)
  BY DEF Comes
<1>2. req'[r].before = req[r].before /\ req[r].before \subseteq Request
  BY <1>1, CountersAre, RequestIs DEF Moves, SameBut
<1>3. ASSUME NEW q \in tries PROVE Tried(q, req'[r].code)
  <2>1. q \in Request /\ req[q].state \in Ended
    BY <1>2 DEF Progress, OnPlan
  <2>2. req'[q] = req[q]
    BY <2>1, RequestStays DEF Ended
  <2>3. QED
    BY <2>1, <2>2, AloneBefore DEF Tried
<1>4. CASE req'[r].code = req[r].code /\ req'[r].attempts = req[r].attempts
  BY <1>2, <1>3, <1>4 DEF RequestCounts
<1>5. CASE req'[r].code # req[r].code \/ req'[r].attempts # req[r].attempts
  <2>1. req'[r].code \in DOMAIN codes /\ req'[r].attempts = codes[req'[r].code].attempts
    BY <1>1, <1>5, CodeFrom DEF Live
  <2>2. QED
    BY <1>2, <1>3, <2>1 DEF RowCounts
<1>6. QED
  BY <1>4, <1>5

\* However many requests guess and race, a code that saw as many wrong tries as
\* the limit is not accepted any more, but for tries that others overlapped.
THEOREM CodesLock == Spec => []LockedAfterAttempts
<1>1. Init => Counted
  <2> SUFFICES ASSUME Init PROVE Counted
    OBVIOUS
  <2>1. RowKnows /\ RequestKnows /\ RequestCounts
    BY NothingAsked DEF RowKnows, RequestKnows, RequestCounts
  <2>2. RowCounts
    <3> SUFFICES ASSUME NEW i \in DOMAIN codes, NEW tries \in SUBSET Request,
                        \A q \in tries : Tried(q, i)
                 PROVE  codes[i].attempts >= Cardinality(tries)
      BY DEF RowCounts
    <3>1. tries = {}
      BY NothingAsked DEF Tried
    <3>2. QED
      BY <3>1, NothingAsked, FS_EmptySet
  <2>3. QED
    BY <2>1, <2>2 DEF Counted
<1>2. Progress /\ Found /\ Counted /\ [Next]_vars => Counted'
  BY RowKnowsKept, RequestKnowsKept, RowCountsKept, RequestCountsKept DEF Counted
<1>3. Progress /\ Found /\ Counted => LockedAfterAttempts
  <2> SUFFICES ASSUME Progress, Found, Counted, NEW r \in Request, NEW i \in DOMAIN codes,
                      Consumed(r, i), NEW tries \in SUBSET req[r].before,
                      Cardinality(tries) = MaxAttempts,
                      \A q \in tries : req[q].code = i /\ req[q].state = "refused" /\ Alone(q)
               PROVE  FALSE
    BY DEF LockedAfterAttempts
  <2>1. Past(r, "consume") /\ req[r].code = i
    BY DidIs DEF Consumed
  <2>2. ~ Exhausted(req[r].attempts)
    BY <2>1 DEF Found
  <2>3. i # 0
    BY CountersAre
  <2>4. req[r].attempts >= Cardinality(tries)
    BY <2>1, <2>2, <2>3 DEF Counted, RequestCounts, Tried
  <2>5. QED
    BY <2>2, <2>4 DEF Exhausted
<1>4. QED
  BY <1>1, <1>2, <1>3, CodesFound, AccountsProgress, PTL DEF Spec
=============================================================================
