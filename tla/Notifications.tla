--------------------------- MODULE Notifications ---------------------------
(***************************************************************************)
(* The notification inbox of an organization's members (apps/notifications)*)
(* beside the requests that change the membership.  A notice is what one   *)
(* notify_incident_* call delivers: it reads its audience, reads their     *)
(* preferences and inserts its rows in three statements, and is named      *)
(* after the request that causes it.                                       *)
(***************************************************************************)
EXTENDS Organizations

CONSTANTS
    Notices,     \* kinds of notice that are sent
    MaxGiven,    \* bound: toggles one patch gives
    MaxInbox     \* bound: requests for the inbox among all

\* The toggle of AlertPreference that decides a kind of notice.
ToggleOf == [incident_created   |-> "notify_on_new_incidents",
             incident_commented |-> "notify_on_comments",
             incident_updated   |-> "notify_on_status_changes",
             incident_resolved  |-> "notify_on_status_changes"]

NoticeKind == DOMAIN ToggleOf \cup {"incident_assigned"}
Toggle == {ToggleOf[kind] : kind \in Notices \cap DOMAIN ToggleOf} \cup {"only_assigned_to_me"}

Notify == <<"audience", "preferences", "deliver">>
PatchPreferences == <<"materialize", "save">>
ReadNotices == <<"mark">>
InboxPlan == [notify |-> Notify, patch |-> PatchPreferences, read |-> ReadNotices]

ASSUME NotificationsAssumption == Notices \subseteq NoticeKind /\ MaxGiven \in Nat /\ MaxInbox \in Nat

VARIABLES
    preferences,   \* [User -> AlertPreference row]
    inbox          \* [User -> [Request -> state of the Notification row]]

inboxVars == <<preferences, inbox>>
workspaceVars == <<orgVars, inboxVars, req>>

\* The toggles that are on.
DefaultOn == Toggle \ {"only_assigned_to_me"}
NoPreference == [stored |-> FALSE, on |-> DefaultOn]

NotificationsTypeOK ==
    /\ preferences \in [User -> [stored : BOOLEAN, on : SUBSET Toggle]]
    /\ inbox \in [User -> [Request -> {"none", "unread", "read"}]]

\* notice and assignee of the incident in memory; audience, the recipients
\* read; prefs, their preferences; on and off, the toggles a patch gives; copy,
\* the row it loaded; ids, the notices to mark read.  What a request has read is
\* forgotten when it ends.
NoPrefs == [u \in User |-> NoPreference]
Unset == [kind |-> "pending", state |-> "idle", todo |-> <<>>, before |-> {},
          by |-> Nobody, user |-> Nobody, given |-> "none", invite |-> Earlier,
          role |-> "none", origin |-> Earlier, shown |-> {},
          notice |-> "incident_assigned", assignee |-> Nobody, audience |-> {},
          prefs |-> NoPrefs, on |-> {}, off |-> {}, copy |-> {}, ids |-> {}]

\* Assignments and new incidents name no actor.
ArriveAtInbox(r) ==
    /\ Cardinality({q \in Request : req[q].kind \in DOMAIN InboxPlan}) < MaxInbox
    /\ \/ \E notice \in Notices, assignee \in User \cup {Nobody}, actor \in User \cup {Nobody} :
              /\ notice = "incident_assigned" => assignee # Nobody
              /\ actor = Nobody <=> notice \in {"incident_assigned", "incident_created"}
              /\ Arrives(r, "notify", InboxPlan,
                     [req[r] EXCEPT !.notice = notice, !.assignee = assignee, !.by = actor])
       \/ \E u \in User, on, off \in SUBSET Toggle :
              /\ on \cap off = {} /\ Cardinality(on \cup off) = MaxGiven
              /\ Arrives(r, "patch", InboxPlan,
                     [req[r] EXCEPT !.by = u, !.on = on, !.off = off])
       \/ \E u \in User : \E ids \in SUBSET {n \in Request : inbox[u][n] # "none"} :
              Arrives(r, "read", InboxPlan, [req[r] EXCEPT !.by = u, !.ids = ids])
    /\ UNCHANGED <<orgVars, inboxVars>>

-----------------------------------------------------------------------------
(* Delivery *)

ReadAudience(r) ==
    /\ At(r, "audience")
    /\ Continue(r, [req[r] EXCEPT !.audience =
          IF req[r].notice = "incident_assigned" THEN {req[r].assignee}
          ELSE {u \in User : Member(u)}])
    /\ UNCHANGED inboxVars

ReadPreferences(r) ==
    /\ At(r, "preferences")
    /\ Continue(r, [req[r] EXCEPT !.prefs = preferences])
    /\ UNCHANGED inboxVars

\* Mutant of ShouldNotify: the assigned-only toggle is asked last.
ShouldNotify_ToggleFirst(kind, assignee, row, u) ==
    \/ kind = "incident_assigned"
    \/ ToggleOf[kind] \in row.on

\* _should_notify and, without a preference row, _defaults.
ShouldNotify(kind, assignee, row, u) ==
    \/ kind = "incident_assigned"
    \/ ~ row.stored /\ assignee \in {u, Nobody}
    \/ /\ row.stored
       /\ "only_assigned_to_me" \in row.on => assignee = u
       /\ ToggleOf[kind] \in row.on

\* The actor is not told.  A failed insert is logged and swallowed.
Deliver(r) ==
    LET told == {u \in req[r].audience : u # req[r].by
                 /\ ShouldNotify(req[r].notice, req[r].assignee, req[r].prefs[u], u)}
    IN  /\ At(r, "deliver")
        /\ \/ inbox' = [u \in User |->
                  IF u \in told THEN [inbox[u] EXCEPT ![r] = "unread"] ELSE inbox[u]]
           \/ UNCHANGED inbox
        /\ Continue(r, [req[r] EXCEPT !.audience = {}, !.prefs = NoPrefs])
        /\ UNCHANGED preferences

-----------------------------------------------------------------------------
(* Preferences and reading *)

\* get_alert_preferences: get_or_create, which a lost race for the insert
\* makes a get.
Materialize(r) ==
    /\ At(r, "materialize")
    /\ preferences' = [preferences EXCEPT ![req[r].by].stored = TRUE]
    /\ Continue(r, [req[r] EXCEPT !.copy = preferences[req[r].by].on])
    /\ UNCHANGED inbox

\* Mutant of SavePreferences: toggles that are not given are reset.
SavePreferences_Replace(r) ==
    /\ At(r, "save")
    /\ preferences' = [preferences EXCEPT ![req[r].by].on = req[r].on]
    /\ Continue(r, [req[r] EXCEPT !.copy = {}])
    /\ UNCHANGED inbox

\* serializer.save: the whole row, as loaded and patched.
SavePreferences(r) ==
    /\ At(r, "save")
    /\ preferences' = [preferences EXCEPT ![req[r].by].on = (req[r].copy \cup req[r].on) \ req[r].off]
    /\ Continue(r, [req[r] EXCEPT !.copy = {}])
    /\ UNCHANGED inbox

\* mark_notifications_read: one update, of every row when no ids are given.
MarkRead(r) ==
    /\ At(r, "mark")
    /\ inbox' = [inbox EXCEPT ![req[r].by] = [n \in Request |->
          IF @[n] = "unread" /\ (req[r].ids = {} \/ n \in req[r].ids) THEN "read" ELSE @[n]]]
    /\ Continue(r, req[r])
    /\ UNCHANGED preferences

InboxStatement(r) ==
    \/ ReadAudience(r) \/ ReadPreferences(r) \/ Deliver(r)
    \/ Materialize(r) \/ SavePreferences(r) \/ MarkRead(r)

-----------------------------------------------------------------------------

WorkspaceInit ==
    /\ OrganizationsInit
    /\ preferences = NoPrefs
    /\ inbox = [u \in User |-> [r \in Request |-> "none"]]
    /\ req = [r \in Request |-> Unset]

\* A request that a killed worker leaves unfinished is one that takes no more
\* steps: nothing obliges one to.
WorkspaceNext ==
    \/ \E u \in User : CreateOrganization(u) /\ UNCHANGED inboxVars
    \/ \E r \in Request :
          \/ ArriveAtOrganization(r) /\ UNCHANGED inboxVars
          \/ OrgStatement(r) /\ UNCHANGED inboxVars
          \/ ArriveAtInbox(r)
          \/ InboxStatement(r) /\ UNCHANGED orgVars

WorkspaceSpec == WorkspaceInit /\ [][WorkspaceNext]_workspaceVars

-----------------------------------------------------------------------------
(* Properties *)

Patches(u) == {p \in Of("patch") : req[p].by = u /\ req[p].state # "idle"}
Gives(p, t) == t \in req[p].on \cup req[p].off

\* p and q did not overlap.
Apart(p, q) == p = q \/ p \in req[q].before \/ q \in req[p].before

\* A toggle keeps the value a patch gave it through every patch of other
\* toggles that did not run at the same time ("flip any subset of the four
\* toggles", notifications/views.py:175).
ToggleKept ==
    \A u \in User : \A p \in Patches(u) : \A t \in Toggle :
        req[p].state = "ok" /\ Gives(p, t)
        /\ (\A q \in Patches(u) : Apart(p, q) /\ (Gives(q, t) => q = p))
        => (t \in preferences[u].on <=> t \in req[p].on)

\* Once a user asked for assigned incidents only, a notice that starts later
\* reaches them for their incidents only, whoever else patches, joins or
\* leaves meanwhile (notifications/services.py:12-13).
AssignedOnlyIsKept ==
    \A u \in User : \A p \in Patches(u) : \A n \in Of("notify") :
        /\ req[p].state = "ok" /\ "only_assigned_to_me" \in req[p].on
        /\ \A q \in Patches(u) : q = p \/ q \in req[p].before
        /\ p \in req[n].before /\ inbox[u][n] # "none"
        => req[n].assignee = u

=============================================================================
