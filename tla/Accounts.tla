------------------------------ MODULE Accounts ------------------------------
(***************************************************************************)
(* Registration by e-mailed code, password reset, sign-in, and the refresh *)
(* tokens of sessions (apps/accounts), statement by statement.  A code, a  *)
(* registration token, a password and a refresh token are named after the  *)
(* request that issued, minted or set them.  Mail, the per-address cap,    *)
(* the throttles and the lockout of django-axes only keep requests out.    *)
(***************************************************************************)
EXTENDS RequestSteps, FiniteSets

CONSTANTS
    Request,
    Email, Username,
    Earlier,         \* what is from before the requests
    Wrong,           \* a code nobody was sent
    DevCodes,        \* {} or the AUTH_DEV_OTP that passes for any code
    GoogleVerifies,  \* GOOGLE_CLIENT_ID is set: Google's subject is known
    MaxAttempts      \* AUTH_OTP_MAX_ATTEMPTS

Origin == Request \cup {Earlier}
Guess == {Wrong} \cup DevCodes
Registration == "email_verification"
Reset == "password_reset"

\* Mutant of ResetPassword: a reset leaves other codes alone.
ResetPassword_KeepsCodes == <<"account", "find", "consume", "save">>

(* The endpoints, as the statements each executes. *)

RequestCode == <<"unregistered", "void", "issue">>
VerifyEmail == <<"find", "consume", "drop", "mint">>
CompleteRegistration == <<"token", "free", "register", "use">>
ForgotPassword == <<"account", "void", "issue">>
ResetPassword == <<"account", "find", "consume", "save", "void">>
Login == <<"authenticate">>
GoogleSignIn == <<"identify", "derive", "create">>
RefreshSession == <<"open", "blacklist">>
Logout == <<"open", "blacklist">>

Plan == [request_code |-> RequestCode, verify |-> VerifyEmail, complete |-> CompleteRegistration,
         forgot |-> ForgotPassword, reset |-> ResetPassword, login |-> Login,
         google |-> GoogleSignIn, refresh |-> RefreshSession, logout |-> Logout]

Purpose == [kind \in DOMAIN Plan |-> IF kind \in {"forgot", "reset"} THEN Reset ELSE Registration]
SigningIn == {"complete", "login", "google", "refresh"}

ASSUME AccountsAssumption ==
    /\ Earlier \notin Request /\ Wrong \notin Origin
    /\ DevCodes \cap (Origin \cup {Wrong}) = {} /\ GoogleVerifies \in BOOLEAN
    /\ IsFiniteSet(Request) /\ Email # {} /\ Username # {}
    /\ MaxAttempts \in Nat \ {0}

VARIABLES
    users,        \* [Email -> User row]
    codes,        \* OTPCode rows, in the order of their creation
    tokens,       \* [Email -> RegistrationToken row]
    blacklist     \* refresh tokens that are blacklisted

accountVars == <<users, codes, tokens, blacklist>>
vars == <<accountVars, req>>

UserRow == [stored : BOOLEAN, name : Username, password : Origin, sub : BOOLEAN, by : Origin]
CodeRow == [by : Origin, email : Email, purpose : {Registration, Reset},
            attempts : Nat, used : BOOLEAN]
TokenRow == [stored : BOOLEAN, by : Origin, used : BOOLEAN]

AccountsTypeOK ==
    /\ users \in [Email -> UserRow]
    /\ codes \in Seq(CodeRow)
    /\ tokens \in [Email -> TokenRow]
    /\ blacklist \subseteq Origin

\* What a request gives, and (code, attempts) the OTPCode it has in memory.
NoLocals == [kind |-> "login", state |-> "idle", todo |-> <<>>, before |-> {},
             email |-> CHOOSE e \in Email : TRUE, name |-> CHOOSE n \in Username : TRUE,
             given |-> Earlier, code |-> 0, attempts |-> 0]

Signed(r) == req[r].state = "ok" /\ req[r].kind \in SigningIn

Arrive(r) ==
    /\ req[r].state = "idle"
    /\ \E kind \in DOMAIN Plan, e \in Email, n \in Username, given \in Origin \cup Guess :
          /\ kind # "complete" => n = NoLocals.name
          /\ given \in Guess => kind \in {"verify", "reset"}
          /\ CASE kind \in {"verify", "reset"} -> given \in Guess \/
                      \E i \in DOMAIN codes : codes[i].by = given
               [] kind = "complete" -> given \in Request /\ req[given].state = "ok"
                      /\ req[given].kind = "verify" /\ e = NoLocals.email
               [] kind \in {"refresh", "logout"} -> e = NoLocals.email
                      /\ IF given = Earlier THEN \E u \in Email : users[u].by = Earlier
                         ELSE Signed(given)
               [] kind = "login" -> given \in {Earlier} \cup
                      {q \in Request : req[q].kind \in {"complete", "reset"}}
               [] OTHER -> given = Earlier
          /\ req' = [req EXCEPT ![r] =
                [NoLocals EXCEPT !.kind = kind, !.state = "running", !.todo = Plan[kind],
                     !.before = {q \in Request : req[q].state \in Ended},
                     !.email = e, !.name = n, !.given = given]]
    /\ UNCHANGED accountVars

\* A statement that only reads: it goes on, or is refused.
Requires(r, statement, holds) ==
    /\ At(r, statement)
    /\ IF holds THEN Continue(r, req[r]) ELSE End(r, "refused")
    /\ UNCHANGED accountVars

-----------------------------------------------------------------------------
(* Codes *)

\* user_exists, which refuses a registration.
Unregistered(r) == Requires(r, "unregistered", ~ users[req[r].email].stored)

\* get_user_by_email, which a reset needs.
HasAccount(r) == Requires(r, "account", users[req[r].email].stored)

\* Mutant of VoidCodes: the codes of the other purpose are voided.
VoidCodes_OtherPurpose(r) ==
    /\ At(r, "void")
    /\ codes' = [i \in DOMAIN codes |->
          IF codes[i].email = req[r].email /\ codes[i].purpose # Purpose[req[r].kind]
          THEN [codes[i] EXCEPT !.used = TRUE] ELSE codes[i]]
    /\ Continue(r, req[r])
    /\ UNCHANGED <<users, tokens, blacklist>>

VoidCodes(r) ==
    /\ At(r, "void")
    /\ codes' = [i \in DOMAIN codes |->
          IF codes[i].email = req[r].email /\ codes[i].purpose = Purpose[req[r].kind]
          THEN [codes[i] EXCEPT !.used = TRUE] ELSE codes[i]]
    /\ Continue(r, req[r])
    /\ UNCHANGED <<users, tokens, blacklist>>

IssueCode(r) ==
    /\ At(r, "issue")
    /\ codes' = Append(codes, [by |-> r, email |-> req[r].email,
                               purpose |-> Purpose[req[r].kind], attempts |-> 0, used |-> FALSE])
    /\ Continue(r, req[r])
    /\ UNCHANGED <<users, tokens, blacklist>>

\* Mutant of Live: any address's code will do.
Live_AnyAddress(e, purpose) ==
    {i \in DOMAIN codes : codes[i].purpose = purpose /\ ~ codes[i].used}

Live(e, purpose) ==
    {i \in DOMAIN codes : codes[i].email = e /\ codes[i].purpose = purpose /\ ~ codes[i].used}

\* get_live_otp and get_live_email_otp: the freshest live code.  Codes expire
\* in the order of their creation, so when it has expired there is none.
FindCode(r) ==
    LET live == Live(req[r].email, Purpose[req[r].kind])
    IN  /\ At(r, "find")
        /\ \/ \E i \in live :
                 /\ \A j \in live : j <= i
                 /\ Continue(r, [req[r] EXCEPT !.code = i, !.attempts = codes[i].attempts])
           \/ End(r, "refused")
        /\ UNCHANGED accountVars

\* Mutant of Exhausted: one attempt too many.
Exhausted_OffByOne(attempts) == attempts > MaxAttempts

Exhausted(attempts) == attempts >= MaxAttempts

\* OTPCode.matches: the code that was sent, or the development one.
Matches(c, given) == c.by = given \/ given \in DevCodes

\* consume_otp: what it checks and saves is the row in memory.
ConsumeCode(r) ==
    LET i == req[r].code
        matches == Matches(codes[i], req[r].given)
    IN  /\ At(r, "consume")
        /\ \/ Exhausted(req[r].attempts) /\ End(r, "refused") /\ UNCHANGED codes
           \/ /\ ~ Exhausted(req[r].attempts) /\ ~ matches
              /\ codes' = [codes EXCEPT ![i].attempts = req[r].attempts + 1]
              /\ End(r, "refused")
           \/ /\ ~ Exhausted(req[r].attempts) /\ matches
              /\ codes' = [codes EXCEPT ![i].used = TRUE]
              /\ Continue(r, req[r])
        /\ UNCHANGED <<users, tokens, blacklist>>

-----------------------------------------------------------------------------
(* Registration and reset *)

DropToken(r) ==
    /\ At(r, "drop")
    /\ tokens' = [tokens EXCEPT ![req[r].email].stored = FALSE]
    /\ Continue(r, req[r])
    /\ UNCHANGED <<users, codes, blacklist>>

\* RegistrationToken.objects.create: one row per address, or an IntegrityError.
MintToken(r) ==
    /\ At(r, "mint")
    /\ IF tokens[req[r].email].stored
       THEN End(r, "error") /\ UNCHANGED tokens
       ELSE /\ tokens' = [tokens EXCEPT ![req[r].email] =
                  [stored |-> TRUE, by |-> r, used |-> FALSE]]
            /\ Continue(r, req[r])
    /\ UNCHANGED <<users, codes, blacklist>>

\* complete_registration: the token's row gives the address.
FindToken(r) ==
    /\ At(r, "token")
    /\ \/ \E e \in Email :
             /\ tokens[e].stored /\ tokens[e].by = req[r].given /\ ~ tokens[e].used
             /\ Continue(r, [req[r] EXCEPT !.email = e])
       \/ End(r, "refused")
    /\ UNCHANGED accountVars

NameFree(n) == \A e \in Email : users[e].stored => users[e].name # n
Free(r) == ~ users[req[r].email].stored /\ NameFree(req[r].name)
StillFree(r) == Requires(r, "free", Free(r))

NewUser(r, sub) == [stored |-> TRUE, name |-> req[r].name, password |-> r, sub |-> sub, by |-> r]

\* create_user; any IntegrityError is answered "username_taken".
Register(r) ==
    /\ At(r, "register")
    /\ IF Free(r)
       THEN users' = [users EXCEPT ![req[r].email] = NewUser(r, FALSE)] /\ Continue(r, req[r])
       ELSE End(r, "refused") /\ UNCHANGED users
    /\ UNCHANGED <<codes, tokens, blacklist>>

\* token.save(update_fields=["used_at"]): raises when the row was replaced.
UseToken(r) ==
    /\ At(r, "use")
    /\ IF tokens[req[r].email].stored /\ tokens[req[r].email].by = req[r].given
       THEN tokens' = [tokens EXCEPT ![req[r].email].used = TRUE] /\ Continue(r, req[r])
       ELSE End(r, "error") /\ UNCHANGED tokens
    /\ UNCHANGED <<users, codes, blacklist>>

SavePassword(r) ==
    /\ At(r, "save")
    /\ users' = [users EXCEPT ![req[r].email].password = r]
    /\ Continue(r, req[r])
    /\ UNCHANGED <<codes, tokens, blacklist>>

-----------------------------------------------------------------------------
(* Sign-in and sessions *)

Authenticate(r) ==
    Requires(r, "authenticate", LET u == users[req[r].email] IN u.stored /\ u.password = req[r].given)

\* google_authenticate: an account is found by its Google subject, or by the
\* address in the request where tokens are not verified.
Identify(r) ==
    /\ At(r, "identify")
    /\ IF users[req[r].email].stored /\ (GoogleVerifies => users[req[r].email].sub)
       THEN End(r, "ok") ELSE Continue(r, req[r])
    /\ UNCHANGED accountVars

\* derive_username: a name that is free.
DeriveName(r) ==
    /\ At(r, "derive")
    /\ \E n \in Username : NameFree(n) /\ Continue(r, [req[r] EXCEPT !.name = n])
    /\ UNCHANGED accountVars

CreateGoogleUser(r) ==
    /\ At(r, "create")
    /\ IF Free(r)
       THEN users' = [users EXCEPT ![req[r].email] = NewUser(r, GoogleVerifies)] /\ Continue(r, req[r])
       ELSE End(r, "error") /\ UNCHANGED users
    /\ UNCHANGED <<codes, tokens, blacklist>>

\* RefreshToken(raw): a blacklisted token is a TokenError, which ends a
\* rotation and which a logout ignores.
OpenToken(r) ==
    /\ At(r, "open")
    /\ IF req[r].given \notin blacklist THEN Continue(r, req[r])
       ELSE End(r, IF req[r].kind = "logout" THEN "ok" ELSE "refused")
    /\ UNCHANGED accountVars

\* Mutant of BlacklistToken: a rotation leaves the old token valid.
BlacklistToken_Logout(r) ==
    /\ At(r, "blacklist")
    /\ blacklist' = IF req[r].kind = "logout" THEN blacklist \cup {req[r].given} ELSE blacklist
    /\ Continue(r, req[r])
    /\ UNCHANGED <<users, codes, tokens>>

BlacklistToken(r) ==
    /\ At(r, "blacklist")
    /\ blacklist' = blacklist \cup {req[r].given}
    /\ Continue(r, req[r])
    /\ UNCHANGED <<users, codes, tokens>>

-----------------------------------------------------------------------------

\* Nobody is registered, or one user is, signed in; a code may be out.
Init ==
    LET seed == NoLocals.email
        user == [stored |-> TRUE, name |-> NoLocals.name, password |-> Earlier,
                 sub |-> FALSE, by |-> Earlier]
        noUser == [user EXCEPT !.stored = FALSE]
    IN  /\ \E registered, sent \in BOOLEAN :
              /\ users = [e \in Email |-> IF registered /\ e = seed THEN user ELSE noUser]
              /\ codes = IF ~ sent THEN <<>> ELSE
                    <<[by |-> Earlier, email |-> seed, attempts |-> 0, used |-> FALSE,
                       purpose |-> IF registered THEN Reset ELSE Registration]>>
        /\ tokens = [e \in Email |-> [stored |-> FALSE, by |-> Earlier, used |-> FALSE]]
        /\ blacklist = {}
        /\ req = [r \in Request |-> NoLocals]

\* A request that a killed worker leaves unfinished takes no more steps.
Step(r) ==
    \/ Arrive(r)
    \/ Unregistered(r) \/ HasAccount(r) \/ VoidCodes(r) \/ IssueCode(r) \/ FindCode(r)
    \/ ConsumeCode(r) \/ DropToken(r) \/ MintToken(r) \/ FindToken(r) \/ StillFree(r)
    \/ Register(r) \/ UseToken(r) \/ SavePassword(r) \/ Authenticate(r) \/ Identify(r)
    \/ DeriveName(r) \/ CreateGoogleUser(r) \/ OpenToken(r) \/ BlacklistToken(r)

Next == \E r \in Request : Step(r)
Spec == Init /\ [][Next]_vars

-----------------------------------------------------------------------------
(* Properties *)

Did(r, s) == Behind(r, Plan[req[r].kind], s)

\* r gave code i in time and it matched.
Consumed(r, i) == Did(r, "consume") /\ req[r].code = i

\* An account that is registered, or whose password is set, belongs to an
\* address to which a code for that purpose was sent, and the client gave that
\* very code, unless it gave the development code of AUTH_DEV_OTP, which proves
\* nothing (accounts/models.py:94-98, 125-129).
AddressProven ==
    /\ \A r \in Request : Did(r, "consume") =>
          LET c == codes[req[r].code]
          IN  /\ c.email = req[r].email /\ c.purpose = Purpose[req[r].kind]
              /\ req[r].given \notin DevCodes => c.by = req[r].given
    /\ \A e \in Email : LET r == users[e].password IN
          r \in Request /\ req[r].kind # "google" =>
              LET v == IF req[r].kind = "complete" THEN req[r].given ELSE r
              IN  Did(v, "consume") /\ req[v].email = e

\* A new code voids the ones before it, also after the new one was used
\* ("any prior live code for the address is voided", accounts/services.py:37).
NewCodeVoidsOld ==
    \A r \in Request : \A i, j \in DOMAIN codes :
        LET new == codes[j].by
        IN  /\ Consumed(r, i) /\ codes[i].email = codes[j].email
            /\ codes[i].purpose = codes[j].purpose /\ new # Earlier /\ new \in req[r].before
            => codes[i].by # Earlier /\ codes[i].by \notin req[new].before

\* No other try of its code overlapped q.
Alone(q) ==
    \A p \in Request : req[p].code = req[q].code =>
        p = q \/ p \in req[q].before \/ q \in req[p].before

\* No code is accepted after MaxAttempts wrong tries that no other overlapped,
\* whatever the remaining tries did (accounts/services.py:345).
LockedAfterAttempts ==
    \A r \in Request, i \in DOMAIN codes : Consumed(r, i) =>
        ~ \E tries \in SUBSET req[r].before :
             /\ Cardinality(tries) = MaxAttempts
             /\ \A q \in tries : /\ req[q].code = i /\ req[q].given = Wrong
                                /\ req[q].state = "refused" /\ Alone(q)

\* After a reset no earlier reset code of the account is live, those of
\* concurrent requests included (accounts/services.py:283-284).
ResetVoidsCodes ==
    \A r \in Request : req[r].kind = "reset" /\ req[r].state = "ok" =>
        \A i \in DOMAIN codes :
            codes[i].email = req[r].email /\ codes[i].purpose = Reset
            /\ (codes[i].by = Earlier \/ codes[i].by \in req[r].before) => codes[i].used

\* A refresh token that was exchanged or logged out is not exchanged later
\* ("invalid or has already been used", accounts/views.py:361); only
\* exchanges at the same time can both succeed.
SpentTokenRefused ==
    \A a, b \in Request :
        /\ {req[a].kind, req[b].kind} \subseteq {"refresh", "logout"}
        /\ req[a].given = req[b].given /\ a \in req[b].before /\ req[a].state = "ok"
        => ~ (req[b].kind = "refresh" /\ req[b].state = "ok")
=============================================================================
