---------------------------- MODULE QueriesProofs ----------------------------
(***************************************************************************)
(* Machine-checked proofs about the read side, for any contents, markers,  *)
(* payloads, edits and tokens and histories of any length: an error keeps  *)
(* the deployment it is blamed on, and a search token and its negation     *)
(* split every list.                                                       *)
(***************************************************************************)
EXTENDS Listings, WellFoundedInduction, TLAPS

-----------------------------------------------------------------------------
(* The rows of the tables *)

\* The markers that API and webhooks record.
Posted ==
    Marker \cup UNION {process_github_webhook(p.project, p) \cup process_gitlab_webhook(p.project, p)
                          : p \in Payload}

EventRows == {EventRow(Redacted(c), t) : c \in Content, t \in Nat}
IncidentRows ==
    [group : Group, severity : Severity, status : Status, assigned_to : Assignee \cup {Nobody},
     created_at : Nat, resolved_at : Nat \cup {Nobody}]
DeploymentRows ==
    {[project |-> m.project, version |-> m.version, status |-> m.status, deployed_at |-> t]
        : m \in Posted, t \in Int}

HistoryTypeOK ==
    /\ now \in Nat
    /\ groups = [g \in Group |-> groups[g]]
    /\ events \in Seq(EventRows)
    /\ incidents \in Seq(IncidentRows)
    /\ deployments \in Seq(DeploymentRows)

\* A marker is dated in whole ticks before or after its arrival.
LEMMA PostedAgo == ASSUME NEW m \in Posted PROVE m.ago \in Int
<1>1. CASE m \in Marker
  BY <1>1, HistoryAssumption
<1>2. ASSUME NEW p \in Payload,
             m \in process_github_webhook(p.project, p) \cup process_gitlab_webhook(p.project, p)
      PROVE  m.ago \in Int
  BY <1>2 DEF process_github_webhook, process_gitlab_webhook, MarkerFor
<1>3. QED
  BY <1>1, <1>2 DEF Posted

\* An event row has its group and its time.
LEMMA EventRowIs ==
    ASSUME NEW c \in Content, NEW t \in Nat
    PROVE  /\ EventRow(Redacted(c), t) \in EventRows
           /\ EventRow(Redacted(c), t).group = GroupOf(Redacted(c))
           /\ EventRow(Redacted(c), t).created_at = t
           /\ GroupOf(Redacted(c)) \in Group
BY DEF EventRow, EventRows, Group

\* Every event row has a group and a time.
LEMMA EventRowType == ASSUME NEW e \in EventRows PROVE e.group \in Group /\ e.created_at \in Nat
<1>1. PICK c \in Content, t \in Nat : e = EventRow(Redacted(c), t)
  BY DEF EventRows
<1>2. QED
  BY <1>1, EventRowIs

\* Every deployment is dated.
LEMMA DeploymentRowType == ASSUME NEW d \in DeploymentRows PROVE d.deployed_at \in Int
BY DEF DeploymentRows

-----------------------------------------------------------------------------
(* What the writes leave of the tables *)

\* A level has a severity.
LEMMA SeverityKnown == ASSUME NEW c \in Content PROVE severity_from_level[Redacted(c).level] \in Severity
<1>1. Redacted(c).level = c.level /\ c.level \in Level
  BY HistoryAssumption DEF Redacted
<1>2. QED
  BY <1>1 DEF severity_from_level, Level, Severity


\* A sequence that an element is appended to.
LEMMA Appended ==
    ASSUME NEW S, NEW s \in Seq(S), NEW e \in S, NEW t, t = Append(s, e)
    PROVE  /\ t \in Seq(S) /\ Len(t) = Len(s) + 1 /\ t[Len(t)] = e
           /\ DOMAIN t = DOMAIN s \cup {Len(t)} /\ Len(t) \notin DOMAIN s
           /\ \A i \in DOMAIN s : t[i] = s[i]
<1>1. t \in Seq(S) /\ Len(t) = Len(s) + 1 /\ t[Len(s) + 1] = e
  OBVIOUS
<1>2. DOMAIN t = 1..(Len(s) + 1) /\ DOMAIN s = 1..Len(s) /\ Len(s) \in Nat
  BY <1>1
<1>3. \A i \in 1..Len(s) : t[i] = s[i]
  OBVIOUS
<1>4. QED
  BY <1>1, <1>2, <1>3

\* Rows are replaced by rows of their groups.
LEMMA RowsReplaced ==
    ASSUME NEW s \in Seq(IncidentRows), NEW t, DOMAIN t = DOMAIN s,
           t = [i \in DOMAIN s |-> t[i]],
           \A i \in DOMAIN s : t[i] \in IncidentRows /\ t[i].group = s[i].group
    PROVE  t \in Seq(IncidentRows)
<1>1. DOMAIN s = 1..Len(s) /\ Len(s) \in Nat
  OBVIOUS
<1>2. t \in [1..Len(s) -> IncidentRows]
  BY <1>1
<1>3. QED
  BY <1>1, <1>2


\* Every incident is one there was, in its group, or of group g.
IncidentsFrom(g) ==
    \A i \in DOMAIN incidents' :
        \/ i \in DOMAIN incidents /\ incidents'[i].group = incidents[i].group
        \/ incidents'[i].group = g
IncidentsStay ==
    \A i \in DOMAIN incidents' : i \in DOMAIN incidents /\ incidents'[i].group = incidents[i].group

\* An event adds to its group, and to the incidents at most one of its group.
LEMMA StoreEventDoes ==
    ASSUME HistoryTypeOK, NEW content \in Content, StoreEvent(content),
           NEW g, g = GroupOf(Redacted(content))
    PROVE  /\ HistoryTypeOK' /\ UNCHANGED <<now, deployments>>
           /\ events' = Append(events, EventRow(Redacted(content), now))
           /\ \A h \in Group : h # g => groups'[h] = groups[h]
           /\ groups[g] # Nobody => groups'[g].first_seen = groups[g].first_seen
           /\ IncidentsFrom(g)
<1> DEFINE c == Redacted(content)
           past == InStatus(g, {"resolved", "fix_verified"})
           latest == Latest(past)
           opened == [group |-> g, severity |-> severity_from_level[c.level], status |-> "open",
                      assigned_to |-> Nobody, created_at |-> now, resolved_at |-> Nobody]
           count == IF groups[g] = Nobody THEN 1 ELSE groups[g].count + 1
           title == IF groups[g] = Nobody THEN c.message.name ELSE groups[g].title
           row == [first_seen |-> IF groups[g] = Nobody THEN now ELSE groups[g].first_seen,
                   last_seen |-> now, title |-> title, count |-> count]
<1>1. /\ UNCHANGED <<now, deployments>>
      /\ events' = Append(events, EventRow(c, now))
      /\ groups' = [groups EXCEPT ![g] = row]
      /\ \/ UNCHANGED incidents
         \/ incidents' = [incidents EXCEPT ![latest] =
               [@ EXCEPT !.status = "open", !.resolved_at = Nobody]]
         \/ incidents' = Append(incidents, opened)
  BY DEF StoreEvent
<1>2. EventRow(c, now) \in EventRows /\ g \in Group
  BY EventRowIs DEF HistoryTypeOK
<1>3. events' \in Seq(EventRows)
  <2>1. events \in Seq(EventRows)
    BY DEF HistoryTypeOK
  <2> HIDE DEF c
  <2>2. QED
    BY <1>1, <1>2, <2>1, Appended
<1>4. /\ groups' = [h \in Group |-> groups'[h]]
      /\ \A h \in Group : h # g => groups'[h] = groups[h]
      /\ groups[g] # Nobody => groups'[g].first_seen = groups[g].first_seen
  <2>1. groups' = [h \in Group |-> IF h = g THEN row ELSE groups[h]]
    <3> HIDE DEF row
    <3>1. groups = [h \in Group |-> groups[h]]
      BY DEF HistoryTypeOK
    <3>2. QED
      BY <1>1, <3>1
  <2>2. row.first_seen = IF groups[g] = Nobody THEN now ELSE groups[g].first_seen
    OBVIOUS
  <2> HIDE DEF row
  <2>3. QED
    BY <1>2, <2>1, <2>2
<1>5. incidents \in Seq(IncidentRows)
  BY DEF HistoryTypeOK
<1>6. incidents' \in Seq(IncidentRows) /\ IncidentsFrom(g)
  <2>1. CASE UNCHANGED incidents
    BY <1>5, <2>1 DEF IncidentsFrom
  <2>2. CASE incidents' = [incidents EXCEPT ![latest] =
               [@ EXCEPT !.status = "open", !.resolved_at = Nobody]]
    <3> HIDE DEF latest
    <3> DEFINE changed(i) == [incidents[i] EXCEPT !.status = "open", !.resolved_at = Nobody]
    <3>1. ASSUME NEW i \in DOMAIN incidents
          PROVE  changed(i) \in IncidentRows /\ changed(i).group = incidents[i].group
      <4>1. incidents[i] \in IncidentRows
        BY <1>5
      <4>2. "open" \in Status /\ Nobody \in Nat \cup {Nobody} /\ Nobody \in Assignee \cup {Nobody}
        BY DEF Status
      <4>3. QED
        BY <4>1, <4>2 DEF IncidentRows
    <3>2. incidents' = [i \in DOMAIN incidents |-> IF i = latest THEN changed(i) ELSE incidents[i]]
      BY <2>2
    <3>3. \A i \in DOMAIN incidents : incidents[i] \in IncidentRows
      BY <1>5
    <3> HIDE DEF changed
    <3>4. /\ DOMAIN incidents' = DOMAIN incidents
          /\ incidents' = [i \in DOMAIN incidents |-> incidents'[i]]
          /\ \A i \in DOMAIN incidents :
                incidents'[i] \in IncidentRows /\ incidents'[i].group = incidents[i].group
      BY <3>1, <3>2, <3>3
    <3>5. incidents' \in Seq(IncidentRows)
      BY <1>5, <3>4, RowsReplaced
    <3>6. QED
      BY <3>4, <3>5 DEF IncidentsFrom
  <2>3. CASE incidents' = Append(incidents, opened)
    <3>1. opened \in IncidentRows /\ opened.group = g
      BY <1>2, SeverityKnown DEF IncidentRows, HistoryTypeOK, Status
    <3> HIDE DEF opened
    <3>2. /\ incidents' \in Seq(IncidentRows) /\ incidents'[Len(incidents')] = opened
          /\ DOMAIN incidents' = DOMAIN incidents \cup {Len(incidents')}
          /\ \A i \in DOMAIN incidents : incidents'[i] = incidents[i]
      BY <1>5, <2>3, <3>1, Appended
    <3>3. QED
      BY <3>1, <3>2 DEF IncidentsFrom
  <2>4. QED
    BY <1>1, <2>1, <2>2, <2>3
<1>7. QED
  BY <1>1, <1>3, <1>4, <1>6 DEF HistoryTypeOK


\* An edit changes an incident in its place and its group.
LEMMA EditIncidentDoes ==
    ASSUME HistoryTypeOK, NEW i \in DOMAIN incidents, NEW status \in Status,
           NEW assignee \in Assignee \cup {Nobody}, EditIncident(i, status, assignee)
    PROVE  /\ HistoryTypeOK' /\ UNCHANGED <<now, groups, events, deployments>>
           /\ IncidentsStay
<1> DEFINE at == IF status # "resolved" THEN Nobody
                 ELSE IF incidents[i].resolved_at = Nobody THEN now ELSE incidents[i].resolved_at
           changed == [incidents[i] EXCEPT !.status = status, !.assigned_to = assignee,
                                           !.resolved_at = at]
<1>1. UNCHANGED <<now, groups, events, deployments>>
  BY DEF EditIncident
<1>2. incidents \in Seq(IncidentRows) /\ incidents[i] \in IncidentRows
  BY DEF HistoryTypeOK
<1>3. at \in Nat \cup {Nobody}
  <2>1. incidents[i].resolved_at \in Nat \cup {Nobody} /\ now \in Nat
    BY <1>2 DEF HistoryTypeOK, IncidentRows
  <2>2. QED
    BY <2>1
<1>4. incidents' = [incidents EXCEPT ![i] = changed]
  BY <1>2 DEF EditIncident
<1> HIDE DEF at
<1>5. changed \in IncidentRows /\ changed.group = incidents[i].group
  BY <1>2, <1>3 DEF IncidentRows
<1> HIDE DEF changed
<1>6. /\ DOMAIN incidents' = DOMAIN incidents
      /\ incidents' = [j \in DOMAIN incidents |-> incidents'[j]]
      /\ \A j \in DOMAIN incidents :
            incidents'[j] \in IncidentRows /\ incidents'[j].group = incidents[j].group
  <2>1. incidents' = [j \in DOMAIN incidents |-> IF j = i THEN changed ELSE incidents[j]]
    BY <1>2, <1>4
  <2>2. \A j \in DOMAIN incidents : incidents[j] \in IncidentRows
    BY <1>2
  <2>3. QED
    BY <1>5, <2>1, <2>2
<1>7. incidents' \in Seq(IncidentRows)
  BY <1>2, <1>6, RowsReplaced
<1>8. QED
  BY <1>1, <1>6, <1>7 DEF HistoryTypeOK, IncidentsStay

\* A marker adds a deployment and moves the incidents it verifies.
LEMMA RecordMarkerDoes ==
    ASSUME HistoryTypeOK, NEW m \in Posted, RecordMarker(m)
    PROVE  /\ HistoryTypeOK' /\ UNCHANGED <<now, groups, events>>
           /\ \E d \in DeploymentRows : deployments' = Append(deployments, d)
           /\ IncidentsStay
<1> DEFINE d == [project |-> m.project, version |-> m.version, status |-> m.status,
                 deployed_at |-> now - m.ago]
           status == IF m.auto_resolve THEN "resolved" ELSE "fix_verified"
           at == IF m.auto_resolve THEN now ELSE Nobody
           changed(i) == [incidents[i] EXCEPT !.status = status, !.resolved_at = at]
<1>1. /\ UNCHANGED <<now, groups, events>>
      /\ deployments' = Append(deployments, d)
      /\ incidents' = [i \in DOMAIN incidents |-> IF i \notin Verified(m) THEN incidents[i] ELSE changed(i)]
  BY DEF RecordMarker
<1>2. d \in DeploymentRows
  <2>1. now - m.ago \in Int
    BY PostedAgo DEF HistoryTypeOK
  <2>2. QED
    BY <2>1 DEF DeploymentRows
<1>3. deployments \in Seq(DeploymentRows) /\ incidents \in Seq(IncidentRows)
  BY DEF HistoryTypeOK
<1>4. deployments' \in Seq(DeploymentRows)
  <2> HIDE DEF d
  <2>1. QED
    BY <1>1, <1>2, <1>3, Appended
<1>5. status \in Status /\ at \in Nat \cup {Nobody}
  BY DEF Status, HistoryTypeOK
<1>6. ASSUME NEW i \in DOMAIN incidents
      PROVE  changed(i) \in IncidentRows /\ changed(i).group = incidents[i].group
  <2>1. incidents[i] \in IncidentRows
    BY <1>3
  <2> HIDE DEF status, at
  <2>2. QED
    BY <1>5, <2>1 DEF IncidentRows
<1> HIDE DEF changed
<1>7. /\ DOMAIN incidents' = DOMAIN incidents
      /\ incidents' = [i \in DOMAIN incidents |-> incidents'[i]]
      /\ \A i \in DOMAIN incidents :
            incidents'[i] \in IncidentRows /\ incidents'[i].group = incidents[i].group
  <2>1. \A i \in DOMAIN incidents : incidents[i] \in IncidentRows
    BY <1>3
  <2>2. QED
    BY <1>1, <1>6, <2>1
<1>8. incidents' \in Seq(IncidentRows)
  BY <1>3, <1>7, RowsReplaced
<1>9. QED
  BY <1>1, <1>2, <1>4, <1>7, <1>8 DEF HistoryTypeOK, IncidentsStay

-----------------------------------------------------------------------------
(* The inductive invariant *)

\* A group and an incident stand for events there were.
HistoryInv ==
    /\ HistoryTypeOK
    /\ \A g \in Known : EventsOf(g) # {}
    /\ \A i \in DOMAIN incidents : \A g : g = incidents[i].group => EventsOf(g) # {}

\* What any step leaves of events, deployments and the date of a known error.
EventsGrow == events' = events \/ \E e \in EventRows : events' = Append(events, e) /\ e.created_at = now
DeploymentsGrow == deployments' = deployments \/ \E d \in DeploymentRows : deployments' = Append(deployments, d)
Grows ==
    /\ EventsGrow /\ DeploymentsGrow
    /\ now' \in Nat /\ now' >= now
    /\ \A g \in Known : groups'[g].first_seen = groups[g].first_seen

\* Events stay in their groups.
LEMMA EventsStay ==
    ASSUME HistoryTypeOK, EventsGrow
    PROVE  /\ DOMAIN events \subseteq DOMAIN events'
           /\ \A i \in DOMAIN events : events'[i] = events[i]
           /\ \A g : EventsOf(g) \subseteq EventsOf(g)'
<1>1. events \in Seq(EventRows)
  BY DEF HistoryTypeOK
<1>2. /\ DOMAIN events \subseteq DOMAIN events'
      /\ \A i \in DOMAIN events : events'[i] = events[i]
  <2>1. CASE events' = events
    BY <2>1
  <2>2. ASSUME NEW e \in EventRows, events' = Append(events, e)
        PROVE  <1>2!1 /\ <1>2!2
    BY <1>1, <2>2, Appended
  <2>3. QED
    BY <2>1, <2>2 DEF EventsGrow
<1>3. QED
  BY <1>2 DEF EventsOf

\* The invariant holds at first.
LEMMA HistoryStarts == HistoryInit => HistoryInv
<1> SUFFICES ASSUME HistoryInit PROVE HistoryInv
  OBVIOUS
<1>1. HistoryTypeOK
  BY DEF HistoryInit, HistoryTypeOK
<1>2. Known = {} /\ DOMAIN incidents = {}
  BY DEF HistoryInit, Known
<1>3. QED
  BY <1>1, <1>2 DEF HistoryInv

\* Every step keeps it and only adds.
LEMMA HistorySteps == HistoryInv /\ [HistoryNext]_historyVars => HistoryInv' /\ Grows
<1> SUFFICES ASSUME HistoryInv, [HistoryNext]_historyVars PROVE HistoryInv' /\ Grows
  OBVIOUS
<1>0. HistoryTypeOK /\ now \in Nat
  BY DEF HistoryInv, HistoryTypeOK
<1>1. ASSUME HistoryTypeOK', UNCHANGED <<groups, events>>, DeploymentsGrow, now' >= now,
             IncidentsStay
      PROVE  HistoryInv' /\ Grows
  <2>1. Known' = Known /\ \A g : EventsOf(g)' = EventsOf(g)
    BY <1>1 DEF Known, EventsOf
  <2>2. QED
    BY <1>1, <2>1 DEF HistoryInv, HistoryTypeOK, Grows, EventsGrow, IncidentsStay
<1>2. CASE UNCHANGED historyVars
  BY <1>0, <1>1, <1>2 DEF historyVars, HistoryTypeOK, DeploymentsGrow, IncidentsStay
<1>3. CASE Tick
  BY <1>0, <1>1, <1>3 DEF Tick, HistoryTypeOK, DeploymentsGrow, IncidentsStay
<1>4. ASSUME NEW content \in Content, StoreEvent(content) PROVE HistoryInv' /\ Grows
  <2> DEFINE g == GroupOf(Redacted(content))
             e == EventRow(Redacted(content), now)
  <2>1. /\ HistoryTypeOK' /\ UNCHANGED <<now, deployments>>
        /\ events' = Append(events, e)
        /\ \A h \in Group : h # g => groups'[h] = groups[h]
        /\ groups[g] # Nobody => groups'[g].first_seen = groups[g].first_seen
        /\ IncidentsFrom(g)
    BY <1>0, <1>4, StoreEventDoes
  <2>2. e \in EventRows /\ e.group = g /\ e.created_at = now /\ g \in Group
    BY <1>0, EventRowIs
  <2> HIDE DEF g, e
  <2>3. EventsGrow
    BY <2>1, <2>2 DEF EventsGrow
  <2>4. \A h : EventsOf(h) \subseteq EventsOf(h)'
    BY <1>0, <2>3, EventsStay
  <2>5. EventsOf(g)' # {}
    <3>1. events \in Seq(EventRows)
      BY <1>0 DEF HistoryTypeOK
    <3>2. DOMAIN events' = DOMAIN events \cup {Len(events')} /\ events'[Len(events')] = e
      BY <2>1, <2>2, <3>1, Appended
    <3>3. QED
      BY <2>2, <3>2 DEF EventsOf
  <2>6. Grows
    <3>1. \A h \in Known : groups'[h].first_seen = groups[h].first_seen
      BY <2>1 DEF Known
    <3>2. QED
      BY <1>0, <2>1, <2>3, <3>1 DEF Grows, DeploymentsGrow
  <2>7. \A h \in Known' : EventsOf(h)' # {}
    <3>1. \A h \in Known' : h = g \/ h \in Known
      BY <2>1 DEF Known
    <3>2. QED
      BY <2>4, <2>5, <3>1 DEF HistoryInv
  <2>8. \A i \in DOMAIN incidents' : \A h : h = incidents'[i].group => EventsOf(h)' # {}
    <3>1. \A i \in DOMAIN incidents' :
             \/ incidents'[i].group = g
             \/ i \in DOMAIN incidents /\ incidents'[i].group = incidents[i].group
      BY <2>1 DEF IncidentsFrom
    <3>2. \A i \in DOMAIN incidents : \A h : h = incidents[i].group => EventsOf(h)' # {}
      BY <2>4 DEF HistoryInv
    <3>3. QED
      BY <2>5, <3>1, <3>2
  <2>9. QED
    BY <2>1, <2>6, <2>7, <2>8 DEF HistoryInv
<1>5. ASSUME NEW i \in DOMAIN incidents, NEW s \in Status, NEW u \in Assignee \cup {Nobody},
             EditIncident(i, s, u)
      PROVE  HistoryInv' /\ Grows
  <2>1. /\ HistoryTypeOK' /\ UNCHANGED <<now, groups, events, deployments>>
        /\ IncidentsStay
    BY <1>0, <1>5, EditIncidentDoes
  <2>2. QED
    BY <1>0, <1>1, <2>1 DEF DeploymentsGrow
<1>6. ASSUME NEW m \in Posted, RecordMarker(m) PROVE HistoryInv' /\ Grows
  <2>1. /\ HistoryTypeOK' /\ UNCHANGED <<now, groups, events>>
        /\ \E d \in DeploymentRows : deployments' = Append(deployments, d)
        /\ IncidentsStay
    BY <1>0, <1>6, RecordMarkerDoes
  <2>2. QED
    BY <1>0, <1>1, <2>1 DEF DeploymentsGrow
<1>7. ASSUME NEW m \in Marker, RecordMarker(m) PROVE HistoryInv' /\ Grows
  BY <1>6, <1>7 DEF Posted
<1>8. ASSUME NEW p \in Payload, ReceiveWebhook(p) PROVE HistoryInv' /\ Grows
  <2>1. PICK m \in process_github_webhook(p.project, p) \cup process_gitlab_webhook(p.project, p) :
          RecordMarker(m)
    BY <1>8 DEF ReceiveWebhook
  <2>2. m \in Posted
    BY DEF Posted
  <2>3. QED
    BY <1>6, <2>1, <2>2
<1>9. QED
  BY <1>2, <1>3, <1>4, <1>5, <1>7, <1>8 DEF HistoryNext

-----------------------------------------------------------------------------
(* The deployment an error is blamed on *)

\* The least of some numbers.
LEMMA MinIs ==
    ASSUME NEW S \in SUBSET Nat, S # {}
    PROVE  Min(S) \in S /\ \A y \in S : Min(S) <= y
<1> DEFINE R == {ss \in Nat \X Nat : ss[1] < ss[2]}
<1>1. IsWellFoundedOn(R, Nat)
  BY NatLessThanWellFounded DEF OpToRel
<1>2. \E x \in S : \A y \in S : ~ (<<y, x>> \in R)
  <2> HIDE DEF R
  <2> QED BY <1>1, WFMin
<1>3. \A x, y \in Nat : y < x => <<y, x>> \in R
  OBVIOUS
<1> HIDE DEF R
<1>4. PICK x \in S : \A y \in S : ~ (<<y, x>> \in R)
  BY <1>2
<1>5. ASSUME NEW y \in S PROVE x <= y
  <2>1. x \in Nat /\ y \in Nat /\ ~ (y < x)
    BY <1>3, <1>4
  <2>2. QED
    BY <2>1
<1>6. QED
  BY <1>5 DEF Min

\* What is added to numbers above them all leaves the least.
LEMMA MinStays ==
    ASSUME NEW S \in SUBSET Nat, S # {}, NEW T \in SUBSET Nat, S \subseteq T,
           \A j \in T \ S : \A i \in S : i < j
    PROVE  Min(T) = Min(S)
<1>1. Min(S) \in S /\ \A y \in S : Min(S) <= y
  BY MinIs
<1>2. Min(T) \in T /\ \A y \in T : Min(T) <= y
  BY MinIs
<1>3. Min(T) <= Min(S) /\ Min(S) \in Nat /\ Min(T) \in Nat
  BY <1>1, <1>2
<1>4. Min(T) \in S
  <2> SUFFICES ASSUME Min(T) \notin S PROVE FALSE
    OBVIOUS
  <2>1. Min(S) < Min(T)
    BY <1>1, <1>2
  <2>2. QED
    BY <1>3, <2>1
<1>5. Min(S) <= Min(T)
  BY <1>1, <1>4
<1>6. QED
  BY <1>3, <1>5

\* A new event is the last one and of this moment.
LEMMA NewEvent ==
    ASSUME HistoryTypeOK, EventsGrow, NEW g, NEW i \in EventsOf(g)' \ EventsOf(g)
    PROVE  events'[i].created_at = now /\ \A j \in DOMAIN events : j < i
<1>1. events \in Seq(EventRows)
  BY DEF HistoryTypeOK
<1>2. i \in DOMAIN events' /\ events'[i].group = g /\ (i \notin DOMAIN events \/ events[i].group # g)
  BY DEF EventsOf
<1>3. events' # events
  BY <1>2
<1>4. PICK e \in EventRows : events' = Append(events, e) /\ e.created_at = now
  BY <1>3 DEF EventsGrow
<1>5. /\ Len(events') = Len(events) + 1 /\ events'[Len(events')] = e
      /\ DOMAIN events' = DOMAIN events \cup {Len(events')}
      /\ \A j \in DOMAIN events : events'[j] = events[j]
  BY <1>1, <1>4, Appended
<1>6. i = Len(events) + 1
  BY <1>2, <1>5
<1>7. \A j \in DOMAIN events : j < Len(events) + 1
  BY <1>1
<1>8. QED
  BY <1>4, <1>5, <1>6, <1>7

\* The first event of a group stays the first.
LEMMA FirstEventStays ==
    ASSUME HistoryTypeOK, EventsGrow, NEW g, EventsOf(g) # {}
    PROVE  FirstEvent(g)' = FirstEvent(g)
<1>1. events \in Seq(EventRows) /\ events' \in Seq(EventRows)
  BY Appended DEF HistoryTypeOK, EventsGrow
<1>2. EventsOf(g) \in SUBSET Nat /\ EventsOf(g)' \in SUBSET Nat
  BY <1>1 DEF EventsOf
<1>3. EventsOf(g) \subseteq EventsOf(g)' /\ \A i \in DOMAIN events : events'[i] = events[i]
  BY EventsStay
<1>4. \A j \in EventsOf(g)' \ EventsOf(g) : \A i \in EventsOf(g) : i < j
  BY NewEvent DEF EventsOf
<1>5. Min(EventsOf(g)') = Min(EventsOf(g)) /\ Min(EventsOf(g)) \in DOMAIN events
  <2>1. Min(EventsOf(g)) \in EventsOf(g)
    BY <1>2, MinIs
  <2>2. QED
    BY <1>2, <1>3, <1>4, <2>1, MinStays DEF EventsOf
<1>6. QED
  BY <1>3, <1>5 DEF FirstEvent

\* A deployment that is no new suspect leaves the suspects.
LEMMA SuspectsStay ==
    ASSUME HistoryInv, Grows, NEW g \in Known, ~ NewSuspect(g)
    PROVE  /\ Suspects(g)' = Suspects(g) /\ OfRelease(g)' = OfRelease(g)
           /\ Suspects(g) \subseteq DOMAIN deployments
           /\ \A d \in DOMAIN deployments : deployments'[d] = deployments[d]
<1>1. HistoryTypeOK /\ EventsOf(g) # {}
  BY DEF HistoryInv
<1>2. FirstEvent(g)' = FirstEvent(g) /\ groups'[g].first_seen = groups[g].first_seen
  BY <1>1, FirstEventStays DEF Grows
<1>3. /\ DOMAIN deployments \subseteq DOMAIN deployments'
      /\ \A d \in DOMAIN deployments : deployments'[d] = deployments[d]
      /\ \A d \in DOMAIN deployments' \ DOMAIN deployments :
            ~ (deployments'[d].deployed_at <= groups[g].first_seen)
            /\ deployments'[d].version # FirstEvent(g).release
  <2>1. CASE deployments' = deployments
    BY <2>1
  <2>2. ASSUME NEW d \in DeploymentRows, deployments' = Append(deployments, d)
        PROVE  <1>3!1 /\ <1>3!2 /\ <1>3!3
    <3>1. deployments \in Seq(DeploymentRows)
      BY <1>1 DEF HistoryTypeOK
    <3>2. /\ Len(deployments') = Len(deployments) + 1
          /\ DOMAIN deployments' = DOMAIN deployments \cup {Len(deployments')}
          /\ \A i \in DOMAIN deployments : deployments'[i] = deployments[i]
      BY <2>2, <3>1, Appended
    <3>3. Len(deployments') > Len(deployments)
      BY <3>1, <3>2
    <3>4. QED
      BY <3>2, <3>3 DEF NewSuspect, Last
  <2>3. QED
    BY <2>1, <2>2 DEF Grows, DeploymentsGrow
<1>4. OfRelease(g)' = OfRelease(g) /\ OfRelease(g) \subseteq DOMAIN deployments
  BY <1>2, <1>3 DEF OfRelease, Marked
<1>5. Preceding(g)' = Preceding(g) /\ Preceding(g) \subseteq DOMAIN deployments
  BY <1>2, <1>3 DEF Preceding, Marked
<1> DEFINE ds == IF OfRelease(g) # {} THEN OfRelease(g) ELSE Preceding(g)
<1>6. ds' = ds /\ ds \subseteq DOMAIN deployments
  BY <1>4, <1>5
<1>7. Suspects(g)' = Suspects(g) /\ Suspects(g) \subseteq DOMAIN deployments
  <2>1. /\ Suspects(g) = {d \in ds : \A other \in ds :
              deployments[other].deployed_at <= deployments[d].deployed_at}
        /\ Suspects(g)' = {d \in ds' : \A other \in ds' :
              deployments'[other].deployed_at <= deployments'[d].deployed_at}
    BY DEF Suspects, DatedLast
  <2> HIDE DEF ds
  <2>2. QED
    BY <1>3, <1>6, <2>1
<1>8. QED
  BY <1>3, <1>4, <1>7

\* An hour after a deploy its volumes count no more events.
LEMMA VolumesStay ==
    ASSUME HistoryInv, Grows, NEW g, NEW d \in DOMAIN deployments,
           deployments'[d] = deployments[d], now > deployments[d].deployed_at + Hour
    PROVE  VolumeBefore(g, d)' = VolumeBefore(g, d) /\ VolumeAfter(g, d)' = VolumeAfter(g, d)
<1> DEFINE t == deployments[d].deployed_at
<1>1. t \in Int /\ now \in Nat /\ now' \in Int /\ now' >= now /\ Hour \in Nat
  <2>1. deployments[d] \in DeploymentRows /\ now \in Nat
    BY DEF HistoryInv, HistoryTypeOK
  <2>2. now' \in Int /\ now' >= now
    BY DEF HistoryInv, HistoryTypeOK, Grows
  <2>3. QED
    BY <2>1, <2>2, DeploymentRowType, ReportsAssumption
<1>2. HistoryTypeOK /\ EventsGrow /\ deployments'[d].deployed_at = t /\ now > t + Hour
  BY DEF HistoryInv, Grows
<1> HIDE DEF t
<1>3. t + Hour < now /\ t + Hour < now' /\ ~ (now <= t + Hour) /\ ~ (now < t)
  BY <1>1, <1>2
<1>4. /\ VolumeBefore(g, d) = {i \in EventsOf(g) : events[i].created_at >= t - Hour /\ events[i].created_at < t}
      /\ VolumeAfter(g, d) = {i \in EventsOf(g) : events[i].created_at >= t /\ events[i].created_at <= t + Hour}
  BY <1>3 DEF VolumeBefore, VolumeAfter, t
<1>5. /\ VolumeBefore(g, d)' =
            {i \in EventsOf(g)' : events'[i].created_at >= t - Hour /\ events'[i].created_at < t}
      /\ VolumeAfter(g, d)' =
            {i \in EventsOf(g)' : events'[i].created_at >= t /\ events'[i].created_at <= t + Hour}
  BY <1>2, <1>3 DEF VolumeBefore, VolumeAfter
<1>6. \A i \in EventsOf(g)' \ EventsOf(g) : events'[i].created_at = now
  BY <1>2, NewEvent
<1>7. EventsOf(g) \subseteq EventsOf(g)' /\ \A i \in EventsOf(g) : events'[i] = events[i]
  BY <1>2, EventsStay DEF EventsOf
<1>8. QED
  BY <1>3, <1>4, <1>5, <1>6, <1>7

\* So the intelligence of a group whose suspects stay settles.
LEMMA IntelligenceStays ==
    ASSUME HistoryInv, Grows, NEW g \in Known, ~ NewSuspect(g),
           \A d \in Suspects(g) : now > deployments[d].deployed_at + Hour
    PROVE  Intelligence(g)' = Intelligence(g)
<1>1. /\ Suspects(g)' = Suspects(g) /\ OfRelease(g)' = OfRelease(g)
      /\ groups'[g].first_seen = groups[g].first_seen
      /\ \A d \in Suspects(g) : d \in DOMAIN deployments /\ deployments'[d] = deployments[d]
  BY SuspectsStay DEF Grows
<1>2. ASSUME NEW d \in Suspects(g)
      PROVE  /\ Confidence(g, d)' = Confidence(g, d)
             /\ VolumeBefore(g, d)' = VolumeBefore(g, d)
             /\ VolumeAfter(g, d)' = VolumeAfter(g, d)
             /\ deployments'[d].version = deployments[d].version
  <2>1. Confidence(g, d)' = Confidence(g, d)
    BY <1>1 DEF Confidence
  <2>2. QED
    BY <1>1, <2>1, VolumesStay
<1>3. QED
  BY <1>1, <1>2 DEF Intelligence

\* The inductive invariant of the read side: an error group and an incident
\* stand for at least one stored event (events/services.py:78-108).
THEOREM GroupsHaveEvents == HistorySpec => []HistoryInv
<1>1. HistoryInit => HistoryInv
  BY HistoryStarts
<1>2. HistoryInv /\ [HistoryNext]_historyVars => HistoryInv'
  BY HistorySteps
<1>3. QED
  BY <1>1, <1>2, PTL DEF HistorySpec

\* An error keeps its suspect, and an hour after the deploy the confidence and
\* the volumes too, whatever is ingested, edited or deployed later, unless a
\* marker is dated before the error or is of its release
\* (incidents/selectors.py:60-131).
THEOREM Blame == HistorySpec => BlameSettles
<1> DEFINE Settles == \A g \in Known : ~ NewSuspect(g) =>
                /\ Suspects(g)' = Suspects(g)
                /\ (\A d \in Suspects(g) : now > deployments[d].deployed_at + Hour) =>
                      Intelligence(g)' = Intelligence(g)
<1>1. HistoryInv /\ [HistoryNext]_historyVars => [Settles]_historyVars
  BY HistorySteps, SuspectsStay, IntelligenceStays
<1>2. QED
  BY <1>1, GroupsHaveEvents, PTL DEF HistorySpec, BlameSettles

-----------------------------------------------------------------------------
(* Search *)

\* A token and its negation split the incidents, each of which has an event.
LEMMA FoundSplits ==
    ASSUME HistoryInv, NEW t, NEW i \in DOMAIN incidents
    PROVE  i \in FoundNot(t) <=> i \notin Found({t})
<1>1. PICK g : g = incidents[i].group
  OBVIOUS
<1>2. EventsOf(g) # {}
  BY <1>1 DEF HistoryInv
<1>3. i \in Found({t}) <=> \E e \in EventsOf(g) : RowMatches(i, t) \/ EventMatches(e, t)
  BY <1>1 DEF Found
<1>4. i \in FoundNot(t) <=> ~ RowMatches(i, t) /\ \A e \in EventsOf(g) : ~ EventMatches(e, t)
  BY <1>1 DEF FoundNot
<1>5. QED
  BY <1>2, <1>3, <1>4

\* Some path of a metadata token gives a verdict, and no other than SQL's three.
LEMMA MetaVerdictsAre ==
    ASSUME NEW e, NEW t
    PROVE  MetaVerdicts(e, t) # {} /\ MetaVerdicts(e, t) \subseteq {"true", "false", "null"}
BY DEF MetaVerdicts

\* So does any token.
LEMMA VerdictsAre ==
    ASSUME NEW e, NEW t
    PROVE  Verdicts(e, t) # {} /\ Verdicts(e, t) \subseteq {"true", "false", "null"}
BY MetaVerdictsAre DEF Verdicts

\* What the filters of a query let pass, without its tokens.
Filtered(q) ==
    {i \in VisibleIncidents(Project) :
        /\ Passes(q.status, incidents[i].status \in q.status)
        /\ Passes(q.severity, incidents[i].severity \in q.severity)
        /\ Passes(q.project, incidents[i].group.project \in q.project)}

\* A token keeps of them those found, a negated one the others.
LEMMA IncidentsByToken ==
    ASSUME NEW q \in Query, NEW t
    PROVE  /\ IncidentsListed(Project, q) = Filtered(q)
           /\ IncidentsListed(Project, [q EXCEPT !.tokens = {t}]) = Filtered(q) \cap Found({t})
           /\ IncidentsListed(Project, [q EXCEPT !.excluded = {t}]) = Filtered(q) \cap FoundNot(t)
<1>1. DOMAIN q = Filter /\ q.tokens = {} /\ q.excluded = {}
  BY ListingsAssumption
<1> DEFINE with == [q EXCEPT !.tokens = {t}]
           without == [q EXCEPT !.excluded = {t}]
<1>2. /\ with.tokens = {t} /\ with.excluded = {}
      /\ with.status = q.status /\ with.severity = q.severity /\ with.project = q.project
  BY <1>1 DEF Filter
<1>3. /\ without.tokens = {} /\ without.excluded = {t}
      /\ without.status = q.status /\ without.severity = q.severity /\ without.project = q.project
  BY <1>1 DEF Filter
<1> HIDE DEF with, without
<1>4. IncidentsListed(Project, q) = Filtered(q)
  BY <1>1 DEF IncidentsListed, Filtered
<1>5. IncidentsListed(Project, with) = Filtered(q) \cap Found({t})
  BY <1>2 DEF IncidentsListed, Filtered
<1>6. IncidentsListed(Project, without) = Filtered(q) \cap FoundNot(t)
  BY <1>3 DEF IncidentsListed, Filtered
<1>7. QED
  BY <1>4, <1>5, <1>6 DEF with, without

\* The same of events.
LEMMA EventsByToken ==
    ASSUME NEW q \in Query, NEW t, NEW n
    PROVE  /\ EventsListed(Project, [q EXCEPT !.tokens = {t}], n)
                = EventsListed(Project, q, n) \cap EventsFound(t)
           /\ EventsListed(Project, [q EXCEPT !.excluded = {t}], n)
                = EventsListed(Project, q, n) \cap EventsFoundNot(t)
<1>1. DOMAIN q = Filter /\ q.tokens = {} /\ q.excluded = {}
  BY ListingsAssumption
<1> DEFINE with == [q EXCEPT !.tokens = {t}]
           without == [q EXCEPT !.excluded = {t}]
<1>2. /\ with.tokens = {t} /\ with.excluded = {}
      /\ \A f \in Filter \ {"tokens"} : with[f] = q[f]
  BY <1>1 DEF Filter
<1>3. /\ without.tokens = {} /\ without.excluded = {t}
      /\ \A f \in Filter \ {"excluded"} : without[f] = q[f]
  BY <1>1 DEF Filter
<1> HIDE DEF with, without
<1>4. EventsListed(Project, with, n) = EventsListed(Project, q, n) \cap EventsFound(t)
  BY <1>1, <1>2 DEF EventsListed, Filter
<1>5. EventsListed(Project, without, n) = EventsListed(Project, q, n) \cap EventsFoundNot(t)
  BY <1>1, <1>3 DEF EventsListed, Filter
<1>6. QED
  BY <1>4, <1>5 DEF with, without

\* A search token and its negation split the incidents, and of the events none
\* is in both lists and only one with a path missing in neither
\* (platform/search_parser.py:7).
THEOREM Negation == HistorySpec => []SearchNegates
<1>1. HistoryInv => SearchNegates
  <2> SUFFICES ASSUME HistoryInv PROVE SearchNegates
    OBVIOUS
  <2>1. ASSUME NEW t \in Token, NEW q \in Query
        PROVE  LET with == [q EXCEPT !.tokens = {t}]
                   without == [q EXCEPT !.excluded = {t}]
                   Rows(query) == EventsListed(Project, query, Len(events)) IN
               /\ IncidentsListed(Project, with) \cap IncidentsListed(Project, without) = {}
               /\ IncidentsListed(Project, with) \cup IncidentsListed(Project, without)
                     = IncidentsListed(Project, q)
               /\ Rows(with) \cap Rows(without) = {}
               /\ \A e \in Rows(q) \ (Rows(with) \cup Rows(without)) : "null" \in Verdicts(e, t)
    <3> DEFINE with == [q EXCEPT !.tokens = {t}]
               without == [q EXCEPT !.excluded = {t}]
               Rows(query) == EventsListed(Project, query, Len(events))
    <3>1. /\ IncidentsListed(Project, q) = Filtered(q)
          /\ IncidentsListed(Project, with) = Filtered(q) \cap Found({t})
          /\ IncidentsListed(Project, without) = Filtered(q) \cap FoundNot(t)
      BY <2>1, IncidentsByToken
    <3>2. /\ Rows(with) = Rows(q) \cap EventsFound(t)
          /\ Rows(without) = Rows(q) \cap EventsFoundNot(t)
      BY <2>1, EventsByToken
    <3>3. Rows(q) \subseteq DOMAIN events
      <4>1. events \in Seq(EventRows)
        BY DEF HistoryInv, HistoryTypeOK
      <4>2. Rows(q) \subseteq 1..Len(events)
        BY DEF EventsListed
      <4>3. QED
        BY <4>1, <4>2
    <3> HIDE DEF with, without, Rows
    <3>4. Filtered(q) \subseteq DOMAIN incidents
      BY DEF Filtered, VisibleIncidents
    <3>5. \A i \in Filtered(q) : i \in FoundNot(t) <=> i \notin Found({t})
      BY <3>4, FoundSplits
    <3>6. \A e \in DOMAIN events :
             /\ e \in EventsFound(t) <=> "true" \in Verdicts(e, t)
             /\ e \in EventsFoundNot(t) <=> Verdicts(e, t) = {"false"}
      BY DEF EventsFound, EventsFoundNot
    <3>7. Rows(with) \cap Rows(without) = {}
      BY <3>2, <3>3, <3>6
    <3>8. \A e \in Rows(q) \ (Rows(with) \cup Rows(without)) : "null" \in Verdicts(e, t)
      <4> SUFFICES ASSUME NEW e \in Rows(q) \ (Rows(with) \cup Rows(without))
                   PROVE  "null" \in Verdicts(e, t)
        OBVIOUS
      <4>1. "true" \notin Verdicts(e, t) /\ Verdicts(e, t) # {"false"}
        BY <3>2, <3>3, <3>6
      <4>2. Verdicts(e, t) # {} /\ Verdicts(e, t) \subseteq {"true", "false", "null"}
        BY VerdictsAre
      <4>3. QED
        BY <4>1, <4>2
    <3>9. QED
      BY <3>1, <3>5, <3>7, <3>8 DEF with, without, Rows
  <2>2. QED
    BY <2>1 DEF SearchNegates
<1>2. QED
  BY <1>1, GroupsHaveEvents, PTL
=============================================================================
