------------------------------ MODULE Regroup ------------------------------
(***************************************************************************)
(* The regroup job (regroup_project_error_groups): recompute the           *)
(* fingerprint of every stored event with the current algorithm and merge  *)
(* the groups that now share one.  It runs beside ingestion and the        *)
(* workflow.  The events are read before the transaction starts.  Under    *)
(* READ COMMITTED each statement of the transaction sees its own writes    *)
(* and what other requests have committed by then; a row it has written is *)
(* locked: another request that writes the row, or stores an OPEN incident *)
(* that may clash with what the transaction wrote, waits for its end.      *)
(***************************************************************************)
EXTENDS Tracker

CONSTANTS
    Regroupers,   \* requests that may be POST /api/v1/projects/{id}/regroup/
    CurrentFp     \* [Request -> Fingerprint \cup {Unused}]: the fingerprint the
                  \* current algorithm gives the event, Unused if it did already

ASSUME RegroupAssumption ==
    /\ Regroupers \subseteq Request
    /\ CurrentFp \in [Request -> Fingerprint \cup {Unused}]

VARIABLES
    snapshot,   \* [Request -> [Request -> Group \cup {NoGroup}]]: events a job read
    tx,         \* the tables as the open transaction sees them, and its loop
    raced       \* history: incidents whose status others changed during a transaction

regroupVars == <<vars, snapshot, tx, raced>>

\* kept is canonical_group_ids, the groups written; locked the incidents written;
\* todo the fingerprints left, fp and canonical those of this turn of the loop;
\* open what is left of open_incidents.
Tables == [groups    : [Group -> GroupRow],
           incidents : [Incident -> IncidentRow],
           events    : [Request -> Group \cup {NoGroup}],
           kept      : SUBSET Group,
           locked    : SUBSET Incident,
           todo      : SUBSET (Fingerprint \cup {Unused}),
           fp        : Fingerprint \cup {Unused},
           canonical : Group \cup {NoGroup},
           open      : SUBSET Incident]

RegroupTypeOK ==
    /\ snapshot \in [Request -> [Request -> Group \cup {NoGroup}]]
    /\ tx \in Tables
    /\ raced \subseteq Incident

NoEvents == [e \in Request |-> NoGroup]

\* No transaction is open.
Closed == [groups |-> [g \in Group |-> [fp |-> Unused, count |-> 0]],
           incidents |-> NoCopies, events |-> NoEvents, kept |-> {}, locked |-> {},
           todo |-> {}, fp |-> Unused, canonical |-> NoGroup, open |-> {}]

InTransaction(r) == outcome[r] = "running" /\ pc[r] \in TransactionPC

Committing == \E r \in Request : InTransaction(r)

-----------------------------------------------------------------------------

\* fingerprint(..., version=2) of the stored event e.
FingerprintNow(e) == IF CurrentFp[e] = Unused THEN ing[e].fp ELSE CurrentFp[e]

Stored(table) == {e \in Request : table[e] # NoGroup}

\* The events r read that now have fingerprint fp, and all their fingerprints.
Members(r, fp) == {e \in Stored(snapshot[r]) : FingerprintNow(e) = fp}
FingerprintsOf(r) == {FingerprintNow(e) : e \in Stored(snapshot[r])}

\* old_group_ids of this turn, as they were when the events were read.
OldGroups(r, canonical) == {snapshot[r][e] : e \in Members(r, tx.fp)} \ {canonical}

\* They and the group their events are moved to.
GroupsToMerge(r) == OldGroups(r, tx.canonical) \cup {tx.canonical}

\* POST .../regroup/: list the project's events.  Without events, and for a
\* dry run, nothing is written.
ReadEvents(r, dryRun) ==
    /\ At(r, "arriving")
    /\ IF dryRun \/ Stored(events) = {}
       THEN Answer(r) /\ UNCHANGED snapshot
       ELSE /\ snapshot' = [snapshot EXCEPT ![r] = events]
            /\ Goto(r, "regroup")
    /\ UNCHANGED <<storeVars, ing, wf, tx, raced>>

-----------------------------------------------------------------------------
(* The transaction *)

\* transaction.atomic(): the loop over the fingerprints starts.  Two jobs start
\* it with the same fingerprint, so one waits for the other; it fails if it had
\* looked the group up before the other inserted or deleted it.
Begin(r) ==
    /\ At(r, "regroup")
    /\ IF Committing
       THEN Raise(r) /\ UNCHANGED tx
       ELSE /\ tx' = [Closed EXCEPT !.groups = groups, !.incidents = incidents, !.events = events,
                                    !.todo = FingerprintsOf(r)]
            /\ Goto(r, "merge")
    /\ UNCHANGED <<storeVars, ing, wf, snapshot, raced>>

\* The next fingerprint, and the lookup of the group that has it.
FindCanonical(r, fp) ==
    LET having == {g \in Group : tx.groups[g].fp = fp}
    IN  /\ At(r, "merge")
        /\ fp \in tx.todo
        /\ \E canonical \in IF having = {} THEN {NoGroup} ELSE having :
              tx' = [tx EXCEPT !.fp = fp, !.canonical = canonical]
        /\ Goto(r, "keep")
        /\ UNCHANGED <<storeVars, ing, wf, snapshot, raced>>

\* Mutant of MovedEvents: the events are counted but not moved.
MovedEvents_Stay(members, canonical) == tx.events

\* Event.objects.filter(id__in=...).update(error_group=canonical_group)
MovedEvents(members, canonical) ==
    [e \in Request |-> IF e \in members /\ tx.events[e] # NoGroup THEN canonical
                      ELSE tx.events[e]]

\* The group's row is saved with the number of its events, or inserted; then the
\* events are moved.  Nothing is left to do if they were in no other group.
KeepGroup(r) ==
    /\ At(r, "keep")
    /\ \E g \in IF tx.canonical # NoGroup THEN {tx.canonical}
                ELSE {h \in Group : tx.groups[h].fp = Unused} :
       /\ tx' = [tx EXCEPT !.groups[g] = [fp |-> tx.fp, count |-> Cardinality(Members(r, tx.fp))],
                           !.events = MovedEvents(Members(r, tx.fp), g),
                           !.kept = @ \cup {g}, !.todo = @ \ {tx.fp}, !.canonical = g]
       /\ Goto(r, IF OldGroups(r, g) = {} THEN "merge" ELSE "list")
    /\ tx.canonical = NoGroup => \A g \in Group : tx.groups[g].fp # tx.fp
    /\ UNCHANGED <<storeVars, ing, wf, snapshot, raced>>

\* An IntegrityError rolls everything back: an ingest inserted the group first.
InsertRefused(r) ==
    /\ At(r, "keep")
    /\ tx.canonical = NoGroup /\ \E g \in Group : tx.groups[g].fp = tx.fp
    /\ Raise(r)
    /\ tx' = Closed
    /\ UNCHANGED <<storeVars, ing, wf, snapshot, raced>>

\* The OPEN incidents of the groups to merge.
ListOpen(r) ==
    LET open == {i \in Incident : /\ tx.incidents[i].status = "open"
                                  /\ tx.incidents[i].group \in GroupsToMerge(r)}
    IN  /\ At(r, "list")
        /\ tx' = [tx EXCEPT !.open = open]
        /\ Goto(r, IF open = {} THEN "duplicates" ELSE "primary")
        /\ UNCHANGED <<storeVars, ing, wf, snapshot, raced>>

IsFirst(i, open) == i \in open /\ \A j \in open : i <= j

\* uniq_open_incident_per_group refuses to move an incident that is open to the
\* canonical group when that has an OPEN one of its own.
MoveClash(i) ==
    /\ tx.incidents[i].status = "open"
    /\ \E j \in Incident \ {i} : /\ tx.incidents[j].status = "open"
                                 /\ tx.incidents[j].group = tx.canonical

\* Mutant of LeftToResolve: the loop over the others starts at the first one.
LeftToResolve_All(i) == tx.open

\* open_incidents[1:]
LeftToResolve(i) == tx.open \ {i}

\* primary_open, the first of those listed, is moved; its status is left alone.
MovePrimary(r) ==
    /\ At(r, "primary")
    /\ \E i \in Incident :
          /\ IsFirst(i, tx.open)
          /\ \/ MoveClash(i) /\ Raise(r) /\ tx' = Closed
             \/ /\ ~MoveClash(i)
                /\ tx' = [tx EXCEPT !.incidents[i].group = tx.canonical, !.locked = @ \cup {i},
                                    !.open = LeftToResolve(i)]
                /\ Goto(r, "duplicates")
    /\ UNCHANGED <<storeVars, ing, wf, snapshot, raced>>

\* Mutant of AsDuplicate: the incident stays open.
AsDuplicate_Open(row) == [row EXCEPT !.group = tx.canonical]

\* Each of the others is moved and resolved, whatever state it is in by now.
AsDuplicate(row) ==
    [row EXCEPT !.group = tx.canonical, !.status = "resolved", !.resolvedAt = TRUE]

ResolveDuplicate(r) ==
    /\ At(r, "duplicates")
    /\ \E i \in Incident :
          /\ IsFirst(i, tx.open)
          /\ tx' = [tx EXCEPT !.incidents[i] = AsDuplicate(@), !.locked = @ \cup {i},
                              !.open = @ \ {i}]
    /\ UNCHANGED <<storeVars, pc, outcome, ing, wf, snapshot, raced>>

\* exclude(status=OPEN).update(error_group=canonical_group)
Follows(r, i) ==
    /\ tx.incidents[i].group \in OldGroups(r, tx.canonical)
    /\ tx.incidents[i].status \in Status \ {"open"}

MoveOthers(r) ==
    /\ At(r, "duplicates")
    /\ tx.open = {}
    /\ tx' = [tx EXCEPT
          !.incidents = [i \in Incident |-> IF Follows(r, i) THEN [@[i] EXCEPT !.group = tx.canonical]
                                            ELSE @[i]],
          !.locked = @ \cup {i \in Incident : Follows(r, i)}]
    /\ Goto(r, "merge")
    /\ UNCHANGED <<storeVars, ing, wf, snapshot, raced>>

\* The groups that are not canonical_group_ids.
Obsolete == {g \in Group : tx.groups[g].fp \in Fingerprint} \ tx.kept

\* Delete them, with the cascade to their incidents and events, and commit.
Commit(r) ==
    /\ At(r, "merge")
    /\ tx.todo = {}
    /\ groups' = [g \in Group |->
          IF g \in Obsolete THEN [fp |-> Deleted, count |-> 0] ELSE tx.groups[g]]
    /\ incidents' = [i \in Incident |->
          IF tx.incidents[i].status \in Status /\ tx.incidents[i].group \in Obsolete
          THEN [tx.incidents[i] EXCEPT !.status = "deleted", !.resolvedAt = FALSE]
          ELSE tx.incidents[i]]
    /\ events' = [e \in Request |->
          IF tx.events[e] \in Obsolete THEN NoGroup ELSE tx.events[e]]
    /\ tx' = Closed
    /\ Answer(r)
    /\ UNCHANGED <<timeline, ing, wf, snapshot, raced>>

\* The worker dies before the commit: the database rolls back.
RolledBack(r) ==
    /\ InTransaction(r)
    /\ WorkerKilled(r)
    /\ tx' = Closed
    /\ UNCHANGED <<storeVars, ing, wf, snapshot, raced>>

Transaction(r) ==
    \/ \E fp \in Fingerprint : FindCanonical(r, fp)
    \/ KeepGroup(r) \/ InsertRefused(r) \/ ListOpen(r) \/ MovePrimary(r)
    \/ ResolveDuplicate(r) \/ MoveOthers(r)
    \/ Commit(r) \/ RolledBack(r)

-----------------------------------------------------------------------------
(* The other requests, while a transaction is open *)

\* The next statement of r updates the row of incident i to this status.
Updates(r, i, status) ==
    \/ At(r, "reopen") /\ i = ing[r].incident /\ status = "open"
    \/ /\ At(r, "save") /\ Current(r, i) /\ Effective(wf[r].op, wf[r].copy[i])
       /\ status = Changed(wf[r].op, wf[r].copy[i]).status

\* The next statement of r stores an OPEN incident in group g.
OpensIn(r, g) ==
    \/ At(r, "insert_open") /\ g = ing[r].group
    \/ \E i \in Incident : Updates(r, i, "open") /\ g = incidents[i].group

\* The next statement of r writes a row that the transaction has written, or one
\* that a unique key must compare with such a row, as it was or as it may be.
Waits(r) ==
    \/ At(r, "bump") /\ ing[r].group \in tx.kept
    \/ At(r, "insert_group") /\ \E g \in tx.kept : tx.groups[g].fp = ing[r].fp
    \/ \E i \in tx.locked :
          \/ \E status \in Status : Updates(r, i, status)
          \/ \E row \in {incidents[i], tx.incidents[i]} : row.status = "open" /\ OpensIn(r, row.group)

\* Of a table, what the transaction sees once others have committed a statement.
Seen(own, before, after) ==
    [k \in DOMAIN own |-> IF after[k] # before[k] THEN after[k] ELSE own[k]]

\* A step of a request that is in no transaction.  (A new group takes no key that
\* the transaction has given to a row of its own.)
Elsewhere ==
    /\ \E r \in Request : /\ ~InTransaction(r)
                          /\ Arrive(r) \/ (Step(r) /\ ~Waits(r)) \/ Killed(r)
    /\ \A g \in tx.kept : groups'[g] = groups[g]
    /\ IF Committing
       THEN /\ tx' = [tx EXCEPT !.groups = Seen(@, groups, groups'),
                                !.incidents = Seen(@, incidents, incidents'),
                                !.events = Seen(@, events, events')]
            /\ raced' = raced \cup {i \in Incident : incidents'[i].status # incidents[i].status}
       ELSE UNCHANGED <<tx, raced>>
    /\ UNCHANGED snapshot

-----------------------------------------------------------------------------

RegroupInit == Init /\ snapshot = [r \in Request |-> NoEvents] /\ tx = Closed /\ raced = {}

RegroupNext ==
    \/ Elsewhere
    \/ \E r \in Regroupers :
          \/ \E dryRun \in BOOLEAN : ReadEvents(r, dryRun)
          \/ Begin(r)
          \/ Transaction(r)

RegroupSpec == RegroupInit /\ [][RegroupNext]_regroupVars

-----------------------------------------------------------------------------
(* Properties *)

\* Every job that read events read those of every ingest that has arrived.
NothingMissed ==
    \A r \in Regroupers : Stored(snapshot[r]) # {} =>
        \A e \in Request : ing[e].fp # Unused => snapshot[r][e] # NoGroup

\* After a regroup that succeeds, if no job missed an ingest, every event that
\* was stored is still stored, in a group of its current fingerprint; every
\* group's count is the number of its events; and no incident of a group that
\* an event was read in is gone, unless another request changed its status while
\* a transaction was open: one reopened after the OPEN incidents were listed is
\* in neither of the two updates that move incidents (events/services.py:371,397).
Consolidates ==
    NothingMissed => \A r \in Regroupers : outcome[r] = "ok" /\ Stored(snapshot[r]) # {} =>
        /\ \A e \in Stored(snapshot[r]) :
              events[e] # NoGroup /\ groups[events[e]].fp = FingerprintNow(e)
        /\ \A g \in Group : GroupLive(g) =>
              groups[g].count = Cardinality({e \in Request : events[e] = g})
        /\ \A i \in Incident \ raced : incidents[i].status = "deleted" =>
              \A e \in Stored(snapshot[r]) : snapshot[r][e] # incidents[i].group

\* Where an open incident was when a job commits, the merged group has an open
\* incident, or one whose status another request changed while the transaction
\* was open: a job may resolve a duplicate, never the last open ticket of an
\* error it keeps, unless the one it takes for the primary was closed after the
\* OPEN incidents were listed (events/services.py:371-386).
MergedGroupStaysOpen ==
    [][\A r \in Regroupers : At(r, "merge") /\ pc'[r] = "answered" =>
          \A i \in Incident :
             incidents[i].status = "open" /\ incidents'[i].status # "deleted" =>
                \E j \in Incident : /\ incidents'[j].status = "open" \/ j \in raced
                                    /\ incidents'[j].group = incidents'[i].group]_regroupVars
-----------------------------------------------------------------------------
(* The inductive invariant: what a job holds, what holds of the stored      *)
(* tables before and after a first job committed, and what the open         *)
(* transaction has done to its tables.                                      *)

\* A job that has read events, and one that has committed.
HasRead(q) == Stored(snapshot[q]) # {}
Committed == \E q \in Regroupers : outcome[q] = "ok" /\ HasRead(q)

\* The events that are stored, or that a job read, are those of ingests that
\* have ended well; a job is no ingest, and ends well when it commits.
JobsApart ==
    \A q \in Request :
        /\ pc[q] \in IngestPC => ing[q].fp # Unused
        /\ pc[q] \in {"arriving"} \cup WorkflowPC \cup RegroupPC => ing[q].fp = Unused
        /\ events[q] # NoGroup => outcome[q] = "ok" /\ ing[q].fp # Unused
        /\ \A e \in Stored(snapshot[q]) : outcome[e] = "ok" /\ ing[e].fp # Unused
        /\ HasRead(q) => pc[q] \in RegroupPC \/ outcome[q] = "ok"
        /\ At(q, "regroup") \/ InTransaction(q) => q \in Regroupers /\ HasRead(q)

\* Incidents disappear in a commit only, together with their group.
DeletedWithGroup ==
    \A i \in Incident : incidents[i].status = "deleted" =>
        Committed /\ incidents[i].group \in Group /\ groups[incidents[i].group].fp = Deleted

\* Until a job commits, the tables hold the events all of them read; from then
\* on each event is in the group of its current fingerprint, and there is no
\* other group.
Consolidated ==
    /\ \A q \in Regroupers : \A e \in Stored(snapshot[q]) :
          /\ events[e] # NoGroup /\ groups[events[e]].fp = FingerprintNow(e)
          /\ \A i \in Incident \ raced : incidents[i].status = "deleted" =>
                snapshot[q][e] # incidents[i].group
    /\ \A g \in Group : GroupLive(g) =>
          /\ groups[g].count = Cardinality({e \in Request : events[e] = g})
          /\ \E e \in Request : events[e] = g

ReadAsStored == \A q \in Regroupers : HasRead(q) => snapshot[q] = events

StoredEventsKnown ==
    NothingMissed => IF Committed THEN Consolidated ELSE ReadAsStored

\* The constraints hold in the tables as the transaction sees them, which are
\* the stored ones but for the rows it has written.
TxConsistent ==
    /\ \A i, j \in Incident :
          /\ tx.incidents[i].status = "open" /\ tx.incidents[j].status = "open"
          /\ tx.incidents[i].group = tx.incidents[j].group
          => i = j
    /\ \A g, h \in Group :
          tx.groups[g].fp \in Fingerprint /\ tx.groups[g].fp = tx.groups[h].fp => g = h
    /\ \A i \in Incident :
          /\ tx.incidents[i].resolvedAt <=> tx.incidents[i].status = "resolved"
          /\ i \notin tx.locked => tx.incidents[i] = incidents[i]
          /\ i \in tx.locked => tx.incidents[i].status \in Status /\ Live(i)
    /\ \A g \in Group :
          /\ g \notin tx.kept => tx.groups[g] = groups[g]
          /\ g \in tx.kept => groups[g].fp # Deleted
    /\ \A e \in Request : tx.events[e] # NoGroup => events[e] # NoGroup

\* The turn of the loop that is not over.
Moving(r) == pc[r] \in {"list", "primary", "duplicates"}

\* Each fingerprint merged so far has one group, a kept one, with its events in
\* it.  After its turn no incident is left behind but those that others touched.
TxMerged(r) ==
    LET merged == FingerprintsOf(r) \ tx.todo
    IN  /\ tx.todo \subseteq FingerprintsOf(r)
        /\ tx.kept = {g \in Group : tx.groups[g].fp \in merged}
        /\ \A fp \in merged : \E g \in tx.kept : tx.groups[g].fp = fp
        /\ \A g \in tx.kept : tx.groups[g].count = Cardinality(Members(r, tx.groups[g].fp))
        /\ \A e \in Stored(snapshot[r]) : FingerprintNow(e) \in merged =>
              /\ tx.events[e] # NoGroup => tx.groups[tx.events[e]].fp = FingerprintNow(e)
              /\ ~(Moving(r) /\ FingerprintNow(e) = tx.fp) =>
                    \A i \in Incident \ raced :
                       tx.incidents[i].status \in Status /\ tx.incidents[i].group = snapshot[r][e]
                       => snapshot[r][e] \in tx.kept

\* Open still, unless another request changed it.
StaysOpen(i) == tx.incidents[i].status = "open" \/ i \in raced

\* What a turn has found and done when it reaches a statement.
TxTurn(r) ==
    /\ pc[r] = "keep" =>
          /\ tx.fp \in tx.todo
          /\ tx.canonical # NoGroup => tx.groups[tx.canonical].fp = tx.fp
    /\ Moving(r) => tx.canonical \in tx.kept /\ tx.groups[tx.canonical].fp = tx.fp
    /\ pc[r] \in {"primary", "duplicates"} =>
          /\ \A i \in tx.open : /\ tx.incidents[i].status \in Status /\ StaysOpen(i)
                                /\ tx.incidents[i].group \in GroupsToMerge(r)
          /\ \A i \in Incident :
                /\ tx.incidents[i].status = "open"
                /\ tx.incidents[i].group \in OldGroups(r, tx.canonical)
                => i \in tx.open \/ (i \in raced /\ i \notin tx.locked)
    /\ pc[r] = "duplicates" /\ tx.open # {} =>
          \E p \in tx.locked \ tx.open : StaysOpen(p) /\ tx.incidents[p].group = tx.canonical

\* If no job missed an ingest the transaction has lost no event, and a second
\* regroup finds no group but those it merges.
TxLosesNothing(r) ==
    NothingMissed =>
        /\ \A e \in Stored(snapshot[r]) : tx.events[e] # NoGroup
        /\ Committed => \A g \in Group : tx.groups[g].fp \in Fingerprint =>
                             tx.groups[g].fp \in FingerprintsOf(r)

\* In one group, or on their way to it.
Together(r, i, j) ==
    \/ tx.incidents[j].group = tx.incidents[i].group
    \/ /\ pc[r] \in {"primary", "duplicates"}
       /\ {tx.incidents[i].group, tx.incidents[j].group} \subseteq GroupsToMerge(r)

\* An open incident that the transaction resolves has one beside it that stays open.
TxKeepsOpen(r) ==
    \A i \in tx.locked : incidents[i].status = "open" /\ tx.incidents[i].status # "open" =>
        \E j \in tx.locked : StaysOpen(j) /\ Together(r, i, j)

TransactionOpen ==
    \A r \in Request : InTransaction(r) =>
        /\ \A q \in Request : InTransaction(q) => q = r
        /\ TxConsistent
        /\ TxMerged(r)
        /\ TxTurn(r)
        /\ TxLosesNothing(r)
        /\ TxKeepsOpen(r)

RegroupInv ==
    /\ TypeOK
    /\ RegroupTypeOK
    /\ OneOpenPerGroup
    /\ OneGroupPerFingerprint
    /\ ResolvedAtMatchesStatus
    /\ CopiesConsistent
    /\ JobsApart
    /\ DeletedWithGroup
    /\ StoredEventsKnown
    /\ TransactionOpen
=============================================================================
