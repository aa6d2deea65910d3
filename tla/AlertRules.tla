----------------------------- MODULE AlertRules -----------------------------
(***************************************************************************)
(* The alert rules of an organization (apps/alerts), the Slack workspace   *)
(* it is connected to (apps/integrations) and the delivery of one alert.   *)
(* AlertDispatch has which alerts are due and their logs; here a delivery  *)
(* only reads its rule.  A rule, or a token, is named after the request it *)
(* came with.  Of a rule's fields the two that must agree are kept.        *)
(***************************************************************************)
EXTENDS RequestSteps, FiniteSets

CONSTANTS
    Request,
    Address, Url, Room,   \* targets of the channels
    Resolutions, \* what DNS may say: [Url -> the kinds of addresses of its host]
    NewRule,     \* bodies of a POST: [channel, target]
    Patch,       \* bodies of a PATCH: the same, with {} for a field not given
    Earlier,     \* what is from before the requests
    Nothing      \* no row

Origin == Request \cup {Earlier}
Target == Address \cup Url \cup Room
Channel == {"email", "slack", "webhook"}
RuleRow == [channel : Channel, target : Target]

ASSUME AlertRulesAssumption ==
    /\ Resolutions \subseteq [Url -> SUBSET {"public", "reserved"}]
    /\ NewRule \subseteq [channel : {{c} : c \in Channel}, target : {{t} : t \in Target}]
    /\ Patch \subseteq [channel : {{c} : c \in Channel} \cup {{}},
                        target : {{t} : t \in Target} \cup {{}}]
    /\ Earlier \notin Request /\ Nothing \notin RuleRow \cup Origin

\* The endpoints, as the statements each executes.  A delivery is dispatch,
\* with the query that fetched its rule.
CreateRule == <<"permit", "insert">>
EditRule == <<"permit", "load", "save">>
DeleteRule == <<"permit", "load", "delete">>
ConnectSlack == <<"permit", "exchange", "store">>
SlackStatus == <<"permit", "status">>
Delivery == <<"fetch", "route", "post">>

RulesPlan == [create |-> CreateRule, patch |-> EditRule, delete |-> DeleteRule,
              connect |-> ConnectSlack, status |-> SlackStatus, deliver |-> Delivery]

VARIABLES
    rules,     \* [Origin -> AlertRule row, or Nothing]
    slack,     \* the request whose token the SlackIntegration row holds, or Nothing
    hosts,     \* what DNS says now
    vouched    \* history: the URLs that a validation has found public

rulesVars == <<rules, slack, hosts, vouched, req>>

\* Locals of a request: id, its rule; body, what it gives; row, its copy of the
\* rule; token, of Slack; posted, whether the alert was delivered.  before is
\* history: the requests that had ended when this one came.
RulesLocals == [kind |-> "status", state |-> "idle", todo |-> <<>>, before |-> {}, id |-> Earlier,
                body |-> Nothing, row |-> Nothing, token |-> Nothing, posted |-> FALSE]

Statement == {"permit", "insert", "load", "save", "delete", "exchange", "store", "status",
              "fetch", "route", "post"}

RulesRequest ==
    [kind : DOMAIN RulesPlan, state : RequestState, todo : Seq(Statement), before : SUBSET Request,
     id : Origin, body : NewRule \cup Patch \cup {Nothing}, row : RuleRow \cup {Nothing},
     token : Origin \cup {Nothing}, posted : BOOLEAN]

AlertRulesTypeOK ==
    /\ rules \in [Origin -> RuleRow \cup {Nothing}]
    /\ slack \in Origin \cup {Nothing}
    /\ hosts \in Resolutions
    /\ vouched \subseteq Url
    /\ req \in [Request -> RulesRequest]

\* validate: the target must suit the channel; a Slack target that is no URL is
\* taken for the name of a room.
Fits(row, urls) ==
    /\ row.channel = "email" => row.target \in Address
    /\ row.channel = "webhook" => row.target \in urls
    /\ row.channel = "slack" /\ row.target \in Url => row.target \in urls

\* validate_dispatch_target_url: the host resolves, to public addresses only.
PublicUrls == {url \in Url : hosts[url] = {"public"}}
Suits(row) == Fits(row, PublicUrls)

\* What a validation of this row finds public.
Vouches(row) == {row.target} \cap PublicUrls

\* The fields a PATCH leaves out are those of the instance.
Merged(row, body) ==
    [channel |-> IF body.channel = {} THEN row.channel ELSE CHOOSE c \in body.channel : TRUE,
     target |-> IF body.target = {} THEN row.target ELSE CHOOSE t \in body.target : TRUE]

\* The rules a POST can store.
Creatable == {row \in {Merged(Nothing, body) : body \in NewRule} : Suits(row)}

EndedOk(r, kind) == req[r].state = "ok" /\ req[r].kind = kind

\* A request may name a rule that is gone by now.
Arrive(r) ==
    /\ req[r].state = "idle"
    /\ \E kind \in DOMAIN RulesPlan, body \in NewRule \cup Patch \cup {Nothing},
          id \in {Earlier} \cup {q \in Request : EndedOk(q, "create")} :
          /\ body \in (CASE kind = "create" -> NewRule [] kind = "patch" -> Patch [] OTHER -> {Nothing})
          /\ kind \notin {"patch", "delete", "deliver"} => id = Earlier
          /\ req' = [req EXCEPT ![r] =
                [RulesLocals EXCEPT !.kind = kind, !.state = "running", !.todo = RulesPlan[kind],
                    !.before = {q \in Request : req[q].state \in Ended}, !.id = id, !.body = body]]
    /\ UNCHANGED <<rules, slack, hosts, vouched>>

-----------------------------------------------------------------------------
(* Rules *)

\* The caller is an owner or admin (any member for the status), or is refused:
\* Organizations has the roles.
Permit(r) ==
    /\ At(r, "permit")
    /\ Continue(r, req[r]) \/ End(r, "refused")
    /\ UNCHANGED <<rules, slack, hosts, vouched>>

InsertRule(r) ==
    /\ At(r, "insert")
    /\ IF Suits(Merged(Nothing, req[r].body))
       THEN /\ Continue(r, req[r])
            /\ rules' = [rules EXCEPT ![r] = Merged(Nothing, req[r].body)]
            /\ vouched' = vouched \cup Vouches(Merged(Nothing, req[r].body))
       ELSE End(r, "refused") /\ UNCHANGED <<rules, vouched>>
    /\ UNCHANGED <<slack, hosts>>

\* Mutant of RuleFor: an edit of a rule that is gone finds a new one.
RuleFor_OrNew(id) ==
    IF rules[id] # Nothing THEN {rules[id]} ELSE Creatable

\* get_rule_for_user
RuleFor(id) == {rules[id]} \ {Nothing}

LoadRule(r) ==
    /\ At(r, "load") \/ At(r, "fetch")
    /\ \/ \E row \in RuleFor(req[r].id) : Continue(r, [req[r] EXCEPT !.row = row])
       \/ RuleFor(req[r].id) = {} /\ End(r, "refused")
    /\ UNCHANGED <<rules, slack, hosts, vouched>>

\* Mutant of Saved: the fields that were given, on the row as it is now.
Saved_GivenFields(r) ==
    Merged(IF rules[req[r].id] = Nothing THEN req[r].row ELSE rules[req[r].id], req[r].body)

\* The row save() writes: the copy, with the fields given.
Saved(r) == Merged(req[r].row, req[r].body)

\* save() updates the row of its id, or inserts it when there is none.
SaveRule(r) ==
    /\ At(r, "save")
    /\ IF Suits(Merged(req[r].row, req[r].body))
       THEN /\ Continue(r, req[r])
            /\ rules' = [rules EXCEPT ![req[r].id] = Saved(r)]
            /\ vouched' = vouched \cup Vouches(Merged(req[r].row, req[r].body))
       ELSE End(r, "refused") /\ UNCHANGED <<rules, vouched>>
    /\ UNCHANGED <<slack, hosts>>

RemoveRule(r) ==
    /\ At(r, "delete")
    /\ Continue(r, req[r])
    /\ rules' = [rules EXCEPT ![req[r].id] = Nothing]
    /\ UNCHANGED <<slack, hosts, vouched>>

-----------------------------------------------------------------------------
(* Slack *)

\* exchange_oauth_code: Slack may reject the code, or not be configured.
ExchangeCode(r) ==
    /\ At(r, "exchange")
    /\ \/ Continue(r, [req[r] EXCEPT !.token = r])
       \/ End(r, "refused")
    /\ UNCHANGED <<rules, slack, hosts, vouched>>

\* Mutant of TokenToStore: get_or_create.
TokenToStore_First(r) == IF slack = Nothing THEN req[r].token ELSE slack

TokenToStore(r) == req[r].token

\* update_or_create, which locks the row
StoreToken(r) ==
    /\ At(r, "store")
    /\ Continue(r, req[r])
    /\ slack' = TokenToStore(r)
    /\ UNCHANGED <<rules, hosts, vouched>>

ReadStatus(r) ==
    /\ At(r, "status")
    /\ Continue(r, [req[r] EXCEPT !.token = slack])
    /\ UNCHANGED <<rules, slack, hosts, vouched>>

-----------------------------------------------------------------------------
(* Delivery *)

\* A Slack target that is no URL is posted to with the workspace's token,
\* whatever it names.
UsesToken(row) == row.channel = "slack" /\ row.target \notin Url

\* dispatch: by channel.  No URL is validated again here.
Route(r) ==
    /\ At(r, "route")
    /\ \/ ~ UsesToken(req[r].row) /\ Continue(r, req[r])
       \/ /\ UsesToken(req[r].row) /\ slack # Nothing
          /\ Continue(r, [req[r] EXCEPT !.token = slack])
       \/ UsesToken(req[r].row) /\ slack = Nothing /\ End(r, "error")
    /\ UNCHANGED <<rules, slack, hosts, vouched>>

\* post_slack_message: delivered, or a SlackAPIError
PostToRoom(r) ==
    /\ At(r, "post") /\ UsesToken(req[r].row)
    /\ \/ Continue(r, [req[r] EXCEPT !.posted = TRUE])
       \/ End(r, "error")
    /\ UNCHANGED <<rules, slack, hosts, vouched>>

\* _dispatch_email, _post_json: delivered, or a DispatchError
Post(r) ==
    /\ At(r, "post") /\ ~ UsesToken(req[r].row)
    /\ \/ Continue(r, [req[r] EXCEPT !.posted = TRUE])
       \/ End(r, "error")
    /\ UNCHANGED <<rules, slack, hosts, vouched>>

Kill(r) == Killed(r) /\ UNCHANGED <<rules, slack, hosts, vouched>>

\* The host of a URL comes to resolve to other addresses.
DnsChanges == hosts' \in Resolutions /\ UNCHANGED <<rules, slack, vouched, req>>

RulesInit ==
    /\ hosts \in Resolutions
    /\ \E row \in Creatable :
          /\ rules = [o \in Origin |-> IF o = Earlier THEN row ELSE Nothing]
          /\ vouched = Vouches(row)
    /\ slack \in {Earlier, Nothing}
    /\ req = [r \in Request |-> RulesLocals]

RulesNext ==
    \/ DnsChanges
    \/ \E r \in Request :
        \/ Arrive(r) \/ Permit(r) \/ InsertRule(r) \/ LoadRule(r) \/ SaveRule(r) \/ RemoveRule(r)
        \/ ExchangeCode(r) \/ StoreToken(r) \/ ReadStatus(r)
        \/ Route(r) \/ PostToRoom(r) \/ Post(r) \/ Kill(r)

RulesSpec == RulesInit /\ [][RulesNext]_rulesVars

-----------------------------------------------------------------------------
(* Properties *)

\* Whatever edits overlap, the channel and the target of a stored rule fit each
\* other, and so those of every alert delivered ("PATCH sends only changed
\* fields", alerts/serializers.py:105: each edit is validated against a copy),
\* and a URL among them was found public by some validation.  Whether it still
\* is when an alert is delivered nobody looks.
RulesStaySendable ==
    /\ \A o \in Origin : rules[o] # Nothing => Fits(rules[o], vouched)
    /\ \A r \in Request : req[r].posted => Fits(req[r].row, vouched)

\* Why the edits cannot meet in such a rule: what a request holds suits, and it
\* saves or sends only what it holds; and its body is what its statements need.
Precedes(todo, statements, i) == \E j \in 1..(i - 1) : todo[j] \in statements
HoldsSuiting(l, urls) ==
    /\ l.row # Nothing => Fits(l.row, urls)
    /\ l.posted => l.row # Nothing
    /\ \A i \in 1..Len(l.todo) :
          /\ l.todo[i] = "insert" => l.body \in NewRule
          /\ l.todo[i] = "save" => l.body \in Patch
          /\ l.row = Nothing /\ l.todo[i] \in {"save", "route", "post"} =>
                Precedes(l.todo, {"load", "fetch"}, i)

RulesInv ==
    /\ AlertRulesTypeOK
    /\ \A o \in Origin : rules[o] # Nothing => Fits(rules[o], vouched)
    /\ \A r \in Request : HoldsSuiting(req[r], vouched)

\* A rule that a request deleted is back only by an edit that was under way
\* when the deletion ended (alerts/views.py:219 saves the whole row, which
\* inserts it again).
DeletedStaysDeleted ==
    \A d \in Request : EndedOk(d, "delete") /\ rules[req[d].id] # Nothing =>
        \E p \in Request : EndedOk(p, "patch") /\ req[p].id = req[d].id /\ d \notin req[p].before

\* An alert, or a status, that comes after the workspace was reconnected does
\* not use a token from before ("Reconnecting replaces the stored token",
\* integrations/views.py:37).
ReconnectReplaces ==
    \A r, c \in Request :
        /\ EndedOk(c, "connect") /\ c \in req[r].before
        /\ (req[r].posted /\ UsesToken(req[r].row)) \/ EndedOk(r, "status")
        => req[r].token \notin req[c].before \cup {Earlier, Nothing}
=============================================================================
