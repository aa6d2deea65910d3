------------------------------ MODULE Tracker ------------------------------
(***************************************************************************)
(* One project's error tracker: event ingestion and the incident workflow  *)
(* running concurrently, statement by statement, on the same tables.       *)
(***************************************************************************)
EXTENDS Ingest, IncidentWorkflow

CONSTANTS
    Seeds,      \* database contents the instance may start from
    Ingesters,  \* requests that may be POST /api/v1/events/
    Editors,    \* requests that may be workflow operations
    Arriving,   \* fingerprints that arrive
    Ops         \* workflow operations that arrive

\* A seed is what earlier requests left behind: consistent tables.
Seed == [groups    : [Group -> GroupRow],
         incidents : [Incident -> IncidentRow],
         events    : [Request -> Group \cup {NoGroup}]]

ConsistentSeed(s) ==
    /\ \A g \in Group : s.groups[g].fp # Unused =>
          /\ s.groups[g].fp \in Fingerprint
          /\ s.groups[g].count = Cardinality({r \in Request : s.events[r] = g})
    /\ \A g, h \in Group :
          s.groups[g].fp \in Fingerprint /\ s.groups[g].fp = s.groups[h].fp => g = h
    /\ \A r \in Request : s.events[r] # NoGroup =>
          s.groups[s.events[r]].fp \in Fingerprint
    /\ \A i \in Incident :
          /\ s.incidents[i].status \in Status => s.incidents[i].group # NoGroup
          /\ s.incidents[i].status # "deleted"
          /\ s.incidents[i].resolvedAt <=> s.incidents[i].status = "resolved"
    /\ \A i, j \in Incident :
          /\ s.incidents[i].status = "open" /\ s.incidents[j].status = "open"
          /\ s.incidents[i].group = s.incidents[j].group
          => i = j

ASSUME TrackerAssumption ==
    /\ Severity # {}
    /\ Seeds \subseteq Seed
    /\ \A s \in Seeds : ConsistentSeed(s)
    /\ Ingesters \subseteq Request
    /\ Editors \subseteq Request
    /\ Arriving \subseteq Fingerprint
    /\ Ops \subseteq Op

vars == <<groups, incidents, events, timeline, pc, outcome, ing, wf>>

\* The tables hold seed s; the requests that wrote its events are over.
InitFrom(s) ==
    LET over(r) == s.events[r] # NoGroup
    IN  /\ groups = s.groups
        /\ incidents = s.incidents
        /\ events = s.events
        /\ timeline = [i \in Incident |-> {}]
        /\ pc = [r \in Request |-> IF over(r) THEN "answered" ELSE "arriving"]
        /\ outcome = [r \in Request |-> IF over(r) THEN "ok" ELSE "running"]
        /\ ing = [r \in Request |->
              [fp |-> IF over(r) THEN s.groups[s.events[r]].fp ELSE Unused,
               severity |-> CHOOSE v \in Severity : TRUE,
               group |-> s.events[r], incident |-> NoIncident, attempt |-> 0]]
        /\ wf = [r \in Request |-> [op |-> Unset, todo |-> {}, copy |-> NoCopies]]

Init == \E s \in Seeds : InitFrom(s)

Arrive(r) ==
    \/ /\ r \in Ingesters
       /\ \E fp \in Arriving, severity \in Severity : StartIngest(r, fp, severity)
       /\ UNCHANGED wf
    \/ /\ r \in Editors
       /\ \E op \in Ops, ids \in SUBSET Incident : Load(r, op, ids)
       /\ UNCHANGED ing

\* The next statement of a request that runs.
Step(r) ==
    \/ IngestStep(r) /\ UNCHANGED wf
    \/ WorkflowStep(r) /\ UNCHANGED ing

Killed(r) == WorkerKilled(r) /\ UNCHANGED <<storeVars, ing, wf>>

Next == \E r \in Request : Arrive(r) \/ Step(r) \/ Killed(r)

\* A request that arrived is run to its end by its worker, unless the worker
\* is killed; whether a request arrives is up to its client.
Fairness == \A r \in Request : WF_vars(Step(r))

Spec == Init /\ [][Next]_vars
FairSpec == Spec /\ Fairness

-----------------------------------------------------------------------------
(* Invariants *)

TypeOK ==
    /\ StoreTypeOK
    /\ RequestsTypeOK
    /\ IngestTypeOK
    /\ WorkflowTypeOK

\* The statements an ingest reaches once it has counted its occurrence.
CountedPC == {"find_active", "find_past", "reopen", "reopen_entry",
              "get_open", "insert_open", "reget_open", "persist", "answered"}

\* The ingests that have counted an occurrence in group g.
CountedIn(g) == {r \in Request : ing[r].group = g /\ pc[r] \in CountedPC}

\* ErrorGroup.count is the number of ingests that passed the count update,
\* however they interleave and whether or not they failed or were killed
\* later: no increment is lost, none is made twice (services.py:199).
OccurrencesCounted ==
    \A g \in Group : GroupLive(g) => groups[g].count = Cardinality(CountedIn(g))

\* A stored Event was counted, and sits in the group of its fingerprint; an
\* ingest answers 2xx only when its Event is stored.
StoredEventsCounted ==
    \A r \in Request :
        /\ events[r] # NoGroup =>
              /\ r \in CountedIn(events[r])
              /\ groups[events[r]].fp = ing[r].fp
        /\ outcome[r] = "ok" /\ ing[r].fp # Unused => events[r] # NoGroup

\* The unique (project, fingerprint) key: one group per fingerprint.
OneGroupPerFingerprint ==
    \A g, h \in Group : GroupLive(g) /\ groups[g].fp = groups[h].fp => g = h

\* resolved_at is set on resolved incidents and on no others, in every row and
\* in every copy a handler is about to save (services.py:26-27 of incidents).
ResolvedAtMatchesStatus ==
    \A i \in Incident : incidents[i].resolvedAt <=> incidents[i].status = "resolved"

\* The incident an ingest reports (and reopened or created) belongs to the
\* group its Event is stored in.
ReportedIncidentOfGroup ==
    \A r \in Request : ing[r].incident # NoIncident =>
        /\ Live(ing[r].incident)
        /\ incidents[ing[r].incident].group = ing[r].group

-----------------------------------------------------------------------------
(* The tracker implements the ledger: a request's entry is the group it     *)
(* counted in, and a group's count that of its row.                        *)

EntryOf(r) == IF pc[r] \in CountedPC THEN ing[r].group ELSE NoGroup
CountOf(g) == IF GroupLive(g) THEN groups[g].count ELSE 0

TheLedger == INSTANCE Ledger WITH
    count  <- [g \in Group |-> CountOf(g)],
    entry  <- [r \in Request |-> EntryOf(r)],
    stored <- events

\* Twelve statements, their retries, errors and kills come down to counting an
\* occurrence once and then storing its event at most once, in the same group
\* ("Persist one raw error occurrence and keep the groups/incidents correct",
\* events/services.py:170).
KeepsTheLedger == TheLedger!LedgerSpec

-----------------------------------------------------------------------------
(* The inductive invariant: the invariants above, and what a request holds *)
(* in memory at each statement.                                            *)

\* Statements before an ingest holds a group, and while it holds one.
BeforeGroupPC == {"get_group", "insert_group", "reget_group"}
HoldingGroupPC == (CountedPC \cup {"bump"}) \ {"answered"}

\* An ingest holds the stored group of its fingerprint from its upsert on;
\* a request that is not an ingest holds none.
GroupHeld(r) ==
    /\ pc[r] \in BeforeGroupPC \cup HoldingGroupPC => ing[r].fp \in Fingerprint
    /\ pc[r] \in {"arriving"} \cup WorkflowPC => ing[r].fp = Unused
    /\ pc[r] \in BeforeGroupPC => ing[r].group = NoGroup
    /\ pc[r] \in {"arriving"} \cup BeforeGroupPC => ing[r].incident = NoIncident
    /\ pc[r] \in HoldingGroupPC => ing[r].group # NoGroup
    /\ ing[r].fp = Unused => ing[r].group = NoGroup
    /\ ing[r].group # NoGroup => groups[ing[r].group].fp = ing[r].fp
    /\ pc[r] = "answered" <=> outcome[r] = "ok"

GroupsHeld == \A r \in Request : GroupHeld(r)

\* The rows a handler is about to save were stored rows: resolved_at agreed
\* with the status when they were read.
CopiesConsistent ==
    \A r \in Request : \A i \in wf[r].todo :
        /\ wf[r].copy[i].status \in Status
        /\ wf[r].copy[i].resolvedAt <=> wf[r].copy[i].status = "resolved"

IndInv ==
    /\ TypeOK
    /\ OneOpenPerGroup
    /\ OneGroupPerFingerprint
    /\ ResolvedAtMatchesStatus
    /\ OccurrencesCounted
    /\ StoredEventsCounted
    /\ ReportedIncidentOfGroup
    /\ GroupsHeld
    /\ CopiesConsistent

-----------------------------------------------------------------------------
(* A burst of ingests that nobody edits incidents during *)

\* The requests that reused, reopened or created an incident.
Reporting == {r \in Request : ing[r].incident # NoIncident}

\* Without workflow operations every ingest succeeds, an error never has two
\* groups, and once all have ended the group that received its events has
\* exactly one active incident and a count equal to its stored events: "exactly
\* one ErrorGroup and one open Incident" (loadtest/burst.py:9-12), whatever
\* state the error's incident is in, if no two of the group are active or
\* closed before the burst: the loser of two that reopen different ones answers
\* 500 (events/services.py:97).
BurstDeduplicated ==
    /\ \A r \in Ingesters : outcome[r] # "error"
    /\ OneGroupPerFingerprint
    /\ (\A r \in Request : outcome[r] # "running") =>
          \A g \in {events[r] : r \in Reporting} \ {NoGroup} :
             /\ Cardinality(IncidentsIn(g, Active)) = 1
             /\ groups[g].count = Cardinality({r \in Request : events[r] = g})

-----------------------------------------------------------------------------
(* An edit of several incidents *)

\* Incident i is among those that edit r loaded, and r changes it.  (A deploy
\* marker's loop goes on after an exception and is left out.)
Edits(r, i) ==
    /\ wf[r].op # Unset
    /\ wf[r].op.kind # "deploy"
    /\ wf[r].copy[i].status \in Status
    /\ Effective(wf[r].op, wf[r].copy[i])

\* However an edit of several incidents is cut off (an exception on one of
\* them, a killed worker), its timeline entries tell how far it got: it has
\* reported all the incidents it changes that are newer than the one it stopped
\* at and none of the older ones, and a 200 means that it reported them all
\* (incidents/services.py:107-140).
EditsReportedInOrder ==
    \A r \in Request, i \in Incident : Edits(r, i) =>
        /\ outcome[r] = "ok" => r \in timeline[i]
        /\ r \in timeline[i] =>
              \A j \in Incident : i < j /\ Edits(r, j) => r \in timeline[j]

\* What an edit has reported at each of its statements: of the incidents it
\* loaded the older ones are still to do, and none of those is reported yet.
EditProgress(r) ==
    LET loaded == {i \in Incident : wf[r].copy[i].status \in Status}
    IN  /\ pc[r] = "arriving" => wf[r].op = Unset /\ \A i \in Incident : r \notin timeline[i]
        /\ wf[r].op # Unset => pc[r] \in WorkflowPC \cup {"answered"}
        /\ wf[r].op = Unset \/ pc[r] = "answered" => wf[r].todo = {}
        /\ \A i \in wf[r].todo :
              /\ r \notin timeline[i]
              /\ \A j \in loaded : j < i => j \in wf[r].todo
        /\ \A i \in Incident \ wf[r].todo : Edits(r, i) => r \in timeline[i]

EditsProgress == \A r \in Request : EditProgress(r)

-----------------------------------------------------------------------------
(* Action properties *)

\* Every change of an incident's status is made by a request whose next
\* statement appends the timeline entry about that incident ("Every status
\* mutation appends a status_change TimelineEntry", incidents/services.py:3).
EntryOwed(r, i) ==
    \/ At(r, "reopen_entry") /\ ing[r].incident = i
    \/ At(r, "entry") /\ Current(r, i)

StatusChangeOwesEntry ==
    [][\A i \in Incident :
          Live(i) /\ incidents'[i].status # incidents[i].status
          => \E r \in Request : EntryOwed(r, i)']_vars

-----------------------------------------------------------------------------
(* Liveness *)

\* Every request that arrived ends: the retry loops are bounded.
EveryRequestEnds ==
    \A r \in Request : pc[r] # "arriving" ~> outcome[r] # "running"

\* Every owed timeline entry is written.
OwedEntryWritten ==
    \A r \in Request, i \in Incident : EntryOwed(r, i) ~> r \in timeline[i]
=============================================================================
