------------------------------- MODULE History -------------------------------
(***************************************************************************)
(* The tables the read side of TrazeIQ queries (error groups, events,      *)
(* incidents, deployments) and the writes that grow them, each run alone:  *)
(* how writes interleave is the topic of Tracker.  Time is in ticks.       *)
(***************************************************************************)
EXTENDS Integers, Webhooks

CONSTANTS
    Project,
    Content,      \* what an SDK sends: [project, message, trace, frames, level, ...]
    Marker,       \* what a deploy marker says: [project, version, status, ago, fixes, auto_resolve]
    Payload,      \* what a webhook says: [host, project, kind, state, ref, tag, name, sha, fixes]
    Assignee,     \* users an incident may be assigned to
    Nobody,       \* the null assignee, and the null date
    MaxNow,       \* bound: ticks
    MaxWrites     \* bound: events, edits and deploy markers together

Level == {"fatal", "error", "warning", "info", "debug"}

ASSUME HistoryAssumption ==
    /\ \A c \in Content : c.project \in Project /\ c.level \in Level
    /\ \A m \in Marker : m.ago \in Int
    /\ MaxNow \in Nat /\ MaxWrites \in Nat

\* An error group is the pair that is unique among them.
GroupOf(c) == [project |-> c.project, fingerprint |-> fingerprint(c.message, c.trace, c.frames)]

Redacted(c) ==
    LET Line(line) == [line EXCEPT !.file = redact_secrets(@), !.function = redact_secrets(@)] IN
    [c EXCEPT !.message = redact_secrets(@), !.trace = [i \in DOMAIN @ |-> Line(@[i])]]

Group == {GroupOf(Redacted(c)) : c \in Content}

VARIABLES
    now,
    groups,       \* [Group -> ErrorGroup row, or Nobody before its first event]
    events,       \* Event rows, in creation order
    incidents,    \* Incident rows, in creation order
    deployments,  \* Deployment rows, in creation order
    edits         \* history: number of incident edits

historyVars == <<now, groups, events, incidents, deployments, edits>>

Status == {"open", "investigating", "fix_verified", "resolved", "ignored"}
OPEN_STATUSES == {"open", "investigating"}
Severity == {"critical", "high", "medium", "low"}

severity_from_level ==
    [fatal |-> "critical", error |-> "high", warning |-> "medium", info |-> "low", debug |-> "low"]

Known == {g \in Group : groups[g] # Nobody}
EventsOf(g) == {i \in DOMAIN events : events[i].group = g}
IncidentsOf(g) == {i \in DOMAIN incidents : incidents[i].group = g}
InStatus(g, statuses) == {i \in IncidentsOf(g) : incidents[i].status \in statuses}

Latest(rows) == CHOOSE i \in rows : \A j \in rows : j <= i
CanWrite == Len(events) + Len(deployments) + edits < MaxWrites

Tick == now < MaxNow /\ now' = now + 1 /\ UNCHANGED <<groups, events, incidents, deployments, edits>>

\* The frames the Event row has in its metadata: those sent there go first.
StoredFrames(c) == IF c.own_frames # <<>> THEN c.own_frames ELSE c.frames

\* The row of content c that arrives at time t.
EventRow(c, t) ==
    [f \in DOMAIN c \cup {"group", "created_at", "stored_frames"} |->
        CASE f = "group"         -> GroupOf(c)
          [] f = "created_at"    -> t
          [] f = "stored_frames" -> StoredFrames(c)
          [] OTHER               -> c[f]]

\* ingest_event: the group, its incident (reused, reopened or created), the row.
StoreEvent(content) ==
    LET c == Redacted(content)
        g == GroupOf(c) IN
    /\ CanWrite
    /\ groups' = [groups EXCEPT ![g] =
          [first_seen |-> IF @ = Nobody THEN now ELSE @.first_seen, last_seen |-> now,
           title |-> IF @ = Nobody THEN c.message.name ELSE @.title,
           count |-> IF @ = Nobody THEN 1 ELSE @.count + 1]]
    /\ \/ InStatus(g, OPEN_STATUSES) # {} /\ UNCHANGED incidents
       \/ LET past == InStatus(g, {"resolved", "fix_verified"}) IN
          /\ InStatus(g, OPEN_STATUSES) = {}
          /\ incidents' =
                IF past # {}
                THEN [incidents EXCEPT ![Latest(past)] =
                         [@ EXCEPT !.status = "open", !.resolved_at = Nobody]]
                ELSE Append(incidents, [group |-> g, severity |-> severity_from_level[c.level],
                        status |-> "open", assigned_to |-> Nobody, created_at |-> now,
                        resolved_at |-> Nobody])
    /\ events' = Append(events, EventRow(c, now))
    /\ UNCHANGED <<now, deployments, edits>>

\* update_incident: a status or an assignee; a second open incident is refused.
EditIncident(i, status, assignee) ==
    /\ CanWrite
    /\ status # incidents[i].status \/ assignee # incidents[i].assigned_to
    /\ status = "open" => InStatus(incidents[i].group, {"open"}) \subseteq {i}
    /\ incidents' = [incidents EXCEPT ![i].status = status, ![i].assigned_to = assignee,
          ![i].resolved_at = IF status # "resolved" THEN Nobody ELSE IF @ = Nobody THEN now ELSE @]
    /\ edits' = edits + 1
    /\ UNCHANGED <<now, groups, events, deployments>>

\* The incidents a marker says are fixed, in its project and not yet resolved.
Verified(m) ==
    {i \in m.fixes \cap DOMAIN incidents :
        incidents[i].group.project = m.project /\ incidents[i].status # "resolved"}

\* record_deployment: a marker may be dated before, at or after its arrival.
RecordMarker(m) ==
    /\ CanWrite
    /\ deployments' = Append(deployments,
          [project |-> m.project, version |-> m.version, status |-> m.status,
           deployed_at |-> now - m.ago])
    /\ incidents' = [i \in DOMAIN incidents |->
          IF i \notin Verified(m) THEN incidents[i]
          ELSE [incidents[i] EXCEPT !.status = IF m.auto_resolve THEN "resolved" ELSE "fix_verified",
                                    !.resolved_at = IF m.auto_resolve THEN now ELSE Nobody]]
    /\ UNCHANGED <<now, groups, events, edits>>

ReceiveWebhook(p) ==
    \E m \in IF p.host = "github" THEN process_github_webhook(p.project, p)
             ELSE process_gitlab_webhook(p.project, p) : RecordMarker(m)

HistoryInit ==
    /\ now = 0
    /\ groups = [g \in Group |-> Nobody]
    /\ events = <<>> /\ incidents = <<>> /\ deployments = <<>>
    /\ edits = 0

HistoryNext ==
    \/ Tick
    \/ \E c \in Content : StoreEvent(c)
    \/ \E i \in DOMAIN incidents : \E s \in Status, u \in Assignee \cup {Nobody} : EditIncident(i, s, u)
    \/ \E m \in Marker : RecordMarker(m)
    \/ \E p \in Payload : ReceiveWebhook(p)

HistorySpec == HistoryInit /\ [][HistoryNext]_historyVars

-----------------------------------------------------------------------------
(* Properties *)

\* The code an event comes from: the first frames that are in the application,
\* of its SDK or else of its trace, by name.
CodeOf(e) ==
    LET InAppFrame(f) == f.in_app = "true" \/ (f.in_app = "missing" /\ ~ f.vendor)
        InAppLine(line) == line.form # "other" /\ ~ line.skipped /\ ~ line.vendor
        path == IF events[e].frames # <<>> THEN SelectSeq(events[e].frames, InAppFrame)
                ELSE SelectSeq(events[e].trace, InAppLine) IN
    [i \in DOMAIN Top(path) |-> <<path[i].file.name, path[i].function.name>>]

SameMessage(m, n) == m.name = n.name /\ (m.secret = "none" <=> n.secret = "none")

\* Events of one code path and message are one error, through whatever
\* wrappers, middleware, line numbers and secrets they came, and events of two
\* are two ("split error groups caused by wrapper functions, differing middleware
\* depths, or changed line numbers", events/services.py:267-268); and the
\* regroup job, which computes the fingerprint again from the stored event,
\* finds each in its place, unless its metadata brought frames of its own.
GroupedByCode ==
    /\ \A d, e \in DOMAIN events :
          events[d].project = events[e].project /\ CodeOf(d) # <<>> /\ CodeOf(e) # <<>>
          => (events[d].group = events[e].group
              <=> /\ SameMessage(events[d].message, events[e].message)
                  /\ CodeOf(d) = CodeOf(e))
    /\ \A e \in DOMAIN events : events[e].own_frames = <<>> =>
          fingerprint(events[e].message, events[e].trace, events[e].stored_frames)
              = events[e].group.fingerprint
=============================================================================
