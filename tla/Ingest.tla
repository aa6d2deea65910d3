------------------------------- MODULE Ingest -------------------------------
(***************************************************************************)
(* Event ingestion (apps/events/services.py, ingest_event): upsert the     *)
(* ErrorGroup, count the occurrence, find, reopen or create the group's    *)
(* incident, persist the Event.  One action per SQL statement; the         *)
(* best-effort fan-out that follows (notifications, Pusher, alerts) writes *)
(* none of these tables and never fails the request, so it is left out.    *)
(***************************************************************************)
EXTENDS Requests

CONSTANT LockConflicts   \* may an insert raise OperationalError (deadlock)?

ASSUME LockConflictsAssumption == LockConflicts \in BOOLEAN

\* _GROUP_UPSERT_ATTEMPTS: caught attempts; one more propagates its error.
Attempts == 3

VARIABLE ing   \* [Request -> what an ingest request holds in its variables]

IngestLocals == [fp       : Fingerprint \cup {Unused},
                 severity : Severity,
                 group    : Group \cup {NoGroup},
                 incident : Incident \cup {NoIncident},
                 attempt  : 0..Attempts]

IngestTypeOK == ing \in [Request -> IngestLocals]

-----------------------------------------------------------------------------
(* _upsert_error_group *)

\* POST /api/v1/events/ with a payload whose redacted text has fingerprint fp
\* and whose level maps to the given severity.
StartIngest(r, fp, severity) ==
    /\ At(r, "arriving")
    /\ ing' = [ing EXCEPT ![r] = [@ EXCEPT !.fp = fp, !.severity = severity]]
    /\ Goto(r, "get_group")
    /\ UNCHANGED storeVars

\* The lookup succeeded: keep the group and go on to count the occurrence.
HoldGroup(r) ==
    \E g \in GroupsOf(ing[r].fp) :
        /\ ing' = [ing EXCEPT ![r] = [@ EXCEPT !.group = g, !.attempt = 0]]
        /\ Goto(r, "bump")

\* Mutant of RetryFrom: attempts that are not counted.
RetryFrom_Forever(r, statement) == Goto(r, statement) /\ UNCHANGED ing

\* An attempt failed: sleep and retry, unless it was the last one.
RetryFrom(r, statement) ==
    IF ing[r].attempt < Attempts
    THEN /\ ing' = [ing EXCEPT ![r].attempt = @ + 1]
         /\ Goto(r, statement)
    ELSE Raise(r) /\ UNCHANGED ing

GetGroup(r) ==
    /\ At(r, "get_group")
    /\ \/ HoldGroup(r)
       \/ /\ GroupsOf(ing[r].fp) = {}
          /\ Goto(r, "insert_group")
          /\ UNCHANGED ing
    /\ UNCHANGED storeVars

\* INSERT of the group.  The unique (project, fingerprint) key refuses a
\* second row: IntegrityError, caught.
InsertGroup(r) ==
    /\ At(r, "insert_group")
    /\ \/ /\ GroupsOf(ing[r].fp) = {}
          /\ \E g \in GroupsOf(Unused) :
                /\ groups' = [groups EXCEPT ![g] = [fp |-> ing[r].fp, count |-> 0]]
                /\ ing' = [ing EXCEPT ![r] = [@ EXCEPT !.group = g, !.attempt = 0]]
          /\ Goto(r, "bump")
       \/ /\ GroupsOf(ing[r].fp) # {}
          /\ Goto(r, "reget_group")
          /\ UNCHANGED <<groups, ing>>
       \/ /\ LockConflicts
          /\ RetryFrom(r, "get_group")
          /\ UNCHANGED groups
    /\ UNCHANGED <<incidents, events, timeline>>

\* After an IntegrityError the winner's row is looked up (twice: inside
\* get_or_create and in the except clause; either answer is used).
RegetGroup(r) ==
    /\ At(r, "reget_group")
    /\ \/ HoldGroup(r)
       \/ GroupsOf(ing[r].fp) = {} /\ RetryFrom(r, "get_group")
    /\ UNCHANGED storeVars

\* count = F("count") + 1; an UPDATE that matches no row is not an error.
BumpCount(r) ==
    /\ At(r, "bump")
    /\ groups' = IF GroupLive(ing[r].group)
                 THEN [groups EXCEPT ![ing[r].group].count = @ + 1]
                 ELSE groups
    /\ Goto(r, "find_active")
    /\ UNCHANGED <<incidents, events, timeline, ing>>

-----------------------------------------------------------------------------
(* _reuse_open_incident *)

HoldIncident(r, i, statement) ==
    /\ ing' = [ing EXCEPT ![r] = [@ EXCEPT !.incident = i, !.attempt = 0]]
    /\ Goto(r, statement)

\* 1. Reuse the newest OPEN or INVESTIGATING incident of the group.
FindActive(r) ==
    LET active == IncidentsIn(ing[r].group, Active)
    IN  /\ At(r, "find_active")
        /\ \/ \E i \in Incident : IsNewest(i, active) /\ HoldIncident(r, i, "persist")
           \/ active = {} /\ Goto(r, "find_past") /\ UNCHANGED ing
        /\ UNCHANGED storeVars

\* 2. Otherwise pick the newest RESOLVED or FIX_VERIFIED one to reopen.
FindPast(r) ==
    LET past == IncidentsIn(ing[r].group, Reopenable)
    IN  /\ At(r, "find_past")
        /\ \/ \E i \in Incident : IsNewest(i, past) /\ HoldIncident(r, i, "reopen")
           \/ past = {} /\ Goto(r, "get_open") /\ UNCHANGED ing
        /\ UNCHANGED storeVars

\* Mutant of Reopen: no timeline entry follows.
Reopen_NoEntry(r) ==
    /\ At(r, "reopen")
    /\ incidents' = [incidents EXCEPT
           ![ing[r].incident] = [@ EXCEPT !.status = "open", !.resolvedAt = FALSE]]
    /\ Goto(r, "persist")
    /\ UNCHANGED <<groups, events, timeline, ing>>

\* past_incident.save(update_fields=["status", "resolved_at"]).  The row may
\* have changed or gone since it was read, and nothing catches the
\* DatabaseError of a missing row nor the IntegrityError of a second OPEN.
Reopen(r) ==
    LET i == ing[r].incident
        refused == ~Live(i) \/ OpenClash(i, incidents[i].group, "open")
    IN  /\ At(r, "reopen")
        /\ \/ refused /\ Raise(r) /\ UNCHANGED incidents
           \/ /\ ~refused
              /\ incidents' = [incidents EXCEPT
                     ![i] = [@ EXCEPT !.status = "open", !.resolvedAt = FALSE]]
              /\ Goto(r, "reopen_entry")
        /\ UNCHANGED <<groups, events, timeline, ing>>

\* Mutant of ReopenEntry: the entry is built and never saved.
ReopenEntry_Unsaved(r) ==
    /\ At(r, "reopen_entry")
    /\ Goto(r, "persist")
    /\ UNCHANGED <<storeVars, ing>>

\* The "Automatically reopened" timeline entry.
ReopenEntry(r) ==
    LET i == ing[r].incident
    IN  /\ At(r, "reopen_entry")
        /\ \/ ~Live(i) /\ Raise(r) /\ UNCHANGED timeline
           \/ /\ Live(i)
              /\ timeline' = [timeline EXCEPT ![i] = @ \cup {r}]
              /\ Goto(r, "persist")
        /\ UNCHANGED <<groups, incidents, events, ing>>

\* 3. get_or_create the OPEN incident: the lookup,
GetOpen(r) ==
    LET open == IncidentsIn(ing[r].group, {"open"})
    IN  /\ At(r, "get_open")
        /\ \/ \E i \in open : HoldIncident(r, i, "persist")
           \/ open = {} /\ Goto(r, "insert_open") /\ UNCHANGED ing
        /\ UNCHANGED storeVars

\* Mutant of InsertOpen: a lock conflict restarts the ingest at the count update.
InsertOpen_RestartsIngest(r) ==
    /\ At(r, "insert_open")
    /\ RetryFrom(r, "bump")
    /\ UNCHANGED storeVars

\* the INSERT, refused by uniq_open_incident_per_group or, when the group was
\* deleted meanwhile, by the foreign key,
InsertOpen(r) ==
    LET g == ing[r].group
        refused == ~GroupLive(g) \/ IncidentsIn(g, {"open"}) # {}
    IN  /\ At(r, "insert_open")
        /\ \/ /\ ~refused
              /\ \E i \in Incident :
                    /\ IsNextKey(i)
                    /\ incidents' = [incidents EXCEPT ![i] =
                           [group |-> g, status |-> "open", resolvedAt |-> FALSE,
                            severity |-> ing[r].severity]]
                    /\ HoldIncident(r, i, "persist")
           \/ /\ refused
              /\ Goto(r, "reget_open")
              /\ UNCHANGED <<incidents, ing>>
           \/ /\ LockConflicts
              /\ RetryFrom(r, "get_open")
              /\ UNCHANGED incidents
        /\ UNCHANGED <<groups, events, timeline>>

\* Mutant of RegetOpen: the IntegrityError is not caught.
RegetOpen_Uncaught(r) == At(r, "reget_open") /\ Raise(r) /\ UNCHANGED <<storeVars, ing>>

\* and, after an IntegrityError, the lookup of the winner.
RegetOpen(r) ==
    LET open == IncidentsIn(ing[r].group, {"open"})
    IN  /\ At(r, "reget_open")
        /\ \/ \E i \in open : HoldIncident(r, i, "persist")
           \/ open = {} /\ RetryFrom(r, "get_open")
        /\ UNCHANGED storeVars

\* Event.objects.create; its foreign key refuses a group that is gone.
PersistEvent(r) ==
    LET g == ing[r].group
    IN  /\ At(r, "persist")
        /\ \/ ~GroupLive(g) /\ Raise(r) /\ UNCHANGED events
           \/ /\ GroupLive(g)
              /\ events' = [events EXCEPT ![r] = g]
              /\ Answer(r)
        /\ UNCHANGED <<groups, incidents, timeline, ing>>

-----------------------------------------------------------------------------

IngestStep(r) ==
    \/ GetGroup(r) \/ InsertGroup(r) \/ RegetGroup(r) \/ BumpCount(r)
    \/ FindActive(r) \/ FindPast(r) \/ Reopen(r) \/ ReopenEntry(r)
    \/ GetOpen(r) \/ InsertOpen(r) \/ RegetOpen(r) \/ PersistEvent(r)
=============================================================================
