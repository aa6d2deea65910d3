---------------------------- MODULE TrackerStore ----------------------------
(***************************************************************************)
(* The tables of one TrazeIQ project that ingestion, the incident          *)
(* workflow and the regroup job share, and the constraints the database    *)
(* enforces on them.  Django runs in autocommit mode, so every ORM         *)
(* statement is a transaction of its own: the actions of the modules that  *)
(* EXTEND this one are single statements, and a request is a sequence of   *)
(* them, between which other requests run.                                 *)
(***************************************************************************)
EXTENDS Naturals, FiniteSets

CONSTANTS
    Request,      \* HTTP requests; the Event an ingest writes is named after it
    Group,        \* primary keys of ErrorGroup rows (a bound on rows inserted)
    Fingerprint,  \* fingerprints of redacted errors
    Severity,     \* incident severities
    MaxIncident,  \* bound on the Incident rows ever inserted
    NoGroup,      \* no ErrorGroup
    Unused,       \* "fingerprint" of a primary key not given to a row yet
    Deleted       \* "fingerprint" of a primary key whose row was deleted

\* Incident keys in created_at order: a row inserted later has a larger key.
Incident == 1..MaxIncident
NoIncident == 0

Status == {"open", "investigating", "fix_verified", "resolved", "ignored"}
Active == {"open", "investigating"}
Reopenable == {"resolved", "fix_verified"}

GroupRow == [fp : Fingerprint \cup {Unused, Deleted}, count : Nat]

\* resolvedAt tells whether the column is set; its value is never compared.
IncidentRow == [group      : Group \cup {NoGroup},
                status     : Status \cup {"unused", "deleted"},
                resolvedAt : BOOLEAN,
                severity   : Severity]

ASSUME StoreAssumption ==
    /\ MaxIncident \in Nat
    /\ IsFiniteSet(Request)
    /\ NoGroup \notin Group
    /\ Unused \notin Fingerprint
    /\ Deleted \notin Fingerprint
    /\ Unused # Deleted

VARIABLES
    groups,     \* [Group -> GroupRow]
    incidents,  \* [Incident -> IncidentRow]
    events,     \* [Request -> Group \cup {NoGroup}]: group of r's Event row
    timeline    \* [Incident -> SUBSET Request]: who appended a status entry

storeVars == <<groups, incidents, events, timeline>>

StoreTypeOK ==
    /\ groups \in [Group -> GroupRow]
    /\ incidents \in [Incident -> IncidentRow]
    /\ events \in [Request -> Group \cup {NoGroup}]
    /\ timeline \in [Incident -> SUBSET Request]

-----------------------------------------------------------------------------

GroupLive(g) == groups[g].fp \in Fingerprint

\* The groups a lookup by (project, fingerprint) finds.
GroupsOf(fp) == {g \in Group : groups[g].fp = fp}

Live(i) == incidents[i].status \in Status

IncidentsIn(g, statuses) ==
    {i \in Incident : incidents[i].group = g /\ incidents[i].status \in statuses}

\* .order_by("-created_at").first()
IsNewest(i, S) == i \in S /\ \A j \in S : j <= i

\* The key the next inserted incident gets.
IsNextKey(i) ==
    /\ incidents[i].status = "unused"
    /\ \A j \in Incident : j < i => incidents[j].status # "unused"

\* Mutant of OpenClash: the constraint is missing.
OpenClash_Missing(i, g, status) == FALSE

\* uniq_open_incident_per_group: would row i, given this group and status,
\* be a second OPEN row of the group?
OpenClash(i, g, status) ==
    /\ status = "open"
    /\ \E j \in IncidentsIn(g, {"open"}) : j # i

\* A stored incident is open in at most one row per group.
OneOpenPerGroup ==
    \A i, j \in Incident :
        /\ incidents[i].status = "open"
        /\ incidents[j].status = "open"
        /\ incidents[i].group = incidents[j].group
        => i = j
=============================================================================
