------------------------------- MODULE Listings -------------------------------
(***************************************************************************)
(* The lists of events, error groups and incidents that a user browses:    *)
(* filters, search and pages (events/selectors.py, events/views.py,        *)
(* incidents/selectors.py).  A field of a query that is not given is {}.   *)
(***************************************************************************)
EXTENDS Search

CONSTANTS
    Query,      \* filters: [level, environment, ..., status, severity, project, tokens, excluded]
    PageSize    \* page sizes a client asks for

Filter == {"level", "environment", "service", "date", "user_id", "release", "tag", "project",
           "status", "severity", "tokens", "excluded"}

ASSUME ListingsAssumption ==
    /\ PageSize \subseteq Nat \ {0}
    /\ \A q \in Query : DOMAIN q = Filter /\ q.tokens = {} /\ q.excluded = {}

\* A filter that is not given lets every row pass.
Passes(filter, test) == filter = {} \/ test

NewestFirst(rows, Key(_)) == SetToSortSeq(rows, LAMBDA x, y : Key(x) > Key(y) \/ (Key(x) = Key(y) /\ x > y))

\* tag: "key:value", or "key:" for any value of it.
TagMatches(e, tag) ==
    IF tag.value = {} THEN DOMAIN events[e].metadata \cap {"tag", "tags.tag"} # {}
    ELSE \E v \in tag.value : "true" \in MetaVerdicts(e, [key |-> "metadata", value |-> v])

\* list_events_for_user, of the first n events: the rows there were at an
\* earlier moment, events being only added.
EventsListed(ps, q, n) ==
    {e \in 1..n :
        LET row == events[e] IN
        /\ row.group.project \in ps
        /\ Passes(q.level, row.level \in q.level)
        /\ Passes(q.environment, row.environment = q.environment)
        /\ Passes(q.service, q.service \cap row.service # {})
        /\ Passes(q.date, row.created_at \div Day \in q.date)
        /\ Passes(q.user_id, q.user_id \cap row.user_id # {})
        /\ Passes(q.release, \E r \in q.release : "true" \in MetaVerdicts(e, [key |-> "release", value |-> r]))
        /\ Passes(q.tag, \E tag \in q.tag : TagMatches(e, tag))
        /\ Passes(q.project, row.group.project \in q.project)
        /\ \A t \in q.tokens : e \in EventsFound(t)
        /\ \A t \in q.excluded : e \in EventsFoundNot(t)}

\* -created_at, then the id for events of one tick
EventList(ps, q, n) == NewestFirst(EventsListed(ps, q, n), LAMBDA e : events[e].created_at)

GroupsListed(ps, q) ==
    {g \in Known : g.project \in ps /\ Passes(q.project, g.project \in q.project)}

IncidentsListed(ps, q) ==
    {i \in VisibleIncidents(ps) :
        /\ Passes(q.status, incidents[i].status \in q.status)
        /\ Passes(q.severity, incidents[i].severity \in q.severity)
        /\ Passes(q.project, incidents[i].group.project \in q.project)
        /\ q.tokens # {} => i \in Found(q.tokens)
        /\ \A t \in q.excluded : i \in FoundNot(t)}

LatestEvent(i) == Latest(EventsOf(incidents[i].group))

\* The rows of a list shown with an incident: its latest occurrence.
IncidentList(ps, q) ==
    LET LastSeen(i) == groups[incidents[i].group].last_seen
        rows == NewestFirst(IncidentsListed(ps, q), LastSeen) IN
    [n \in DOMAIN rows |-> [incident |-> rows[n], event |-> LatestEvent(rows[n])]]

Slice(list, page, size) ==
    SubSeq(list, (page - 1) * size + 1, IF page * size < Len(list) THEN page * size ELSE Len(list))

\* Mutant of HasNext: of the whole pages only.
HasNext_WholePages(total, page, size) == page < total \div size

HasNext(total, page, size) == (page - 1) * size + size < total

\* EventIngestAndListView.get: one query counts, a second one slices.
EventPage(ps, q, page, size, counted, sliced) ==
    [rows |-> ToSet(Slice(EventList(ps, q, sliced), page, size)),
     total |-> Cardinality(EventsListed(ps, q, counted)),
     has_next |-> HasNext(Cardinality(EventsListed(ps, q, counted)), page, size)]

-----------------------------------------------------------------------------
(* Properties *)

Everything == [f \in Filter |-> {}]

\* The open incidents of the overview are those listed as open, its errors are
\* listed and no listed error of the week is more frequent than one of them when
\* the overview has no room left, and the incidents are listed by the events they
\* are shown with.
ListsAgree(ps) ==
    LET rows == IncidentList(ps, Everything)
        shown(n) == events[rows[n].event].created_at IN
    /\ \A s \in Severity :
          OpenBySeverity(ps)[s] = Cardinality(UNION {
             IncidentsListed(ps, [Everything EXCEPT !.status = {o}, !.severity = {s}]) : o \in OPEN_STATUSES})
    /\ {row.group : row \in TopErrors(ps)} \subseteq GroupsListed(ps, Everything)
    /\ \A g \in GroupsListed(ps, Everything) :
          \/ groups[g].last_seen < now - 7 * Day
          \/ \E row \in TopErrors(ps) : row.group = g
          \/ /\ Cardinality(TopErrors(ps)) = TopShown
             /\ \A row \in TopErrors(ps) : row.count >= groups[g].count
    /\ \A n \in 1..(Len(rows) - 1) : shown(n) >= shown(n + 1)

\* The aggregates and lists of one instant agree, though each comes from queries
\* and windows of its own: chart, catalog, overview, the lists, and the
\* platform's totals with the sum of what the tenants see.
ReportsAgree ==
    /\ \A ps \in SUBSET Project \ {{}} :
          /\ OverviewAgrees(ps) /\ ListsAgree(ps)
          /\ \A range \in Ranges : ChartAccountsForAll(ps, range) /\ CatalogAgrees(ps, range)
    /\ PlatformAgrees

\* A token and its negation split each list a user sees ("Negation prefix with
\* '-' or '!'", search_parser.py:7): no incident is in both or in neither.  Of
\* the events none is in both, and only one whose metadata lacks a path of the
\* token is in neither.
SearchNegates ==
    \A t \in Token, q \in Query :
        LET with == [q EXCEPT !.tokens = {t}]
            without == [q EXCEPT !.excluded = {t}]
            Rows(query) == EventsListed(Project, query, Len(events)) IN
        /\ IncidentsListed(Project, with) \cap IncidentsListed(Project, without) = {}
        /\ IncidentsListed(Project, with) \cup IncidentsListed(Project, without)
              = IncidentsListed(Project, q)
        /\ Rows(with) \cap Rows(without) = {}
        /\ \A e \in Rows(q) \ (Rows(with) \cup Rows(without)) : "null" \in Verdicts(e, t)

\* The moments at which a client fetches the pages of a list, one after another;
\* n rows fill no more of them.
Fetches(n, size) ==
    {at \in [1..(n \div size + 1) -> 0..n] : \A p \in 1..(n \div size) : at[p] <= at[p + 1]}

\* A client that follows has_next sees every event there was when it began,
\* whatever is ingested between its pages, if none is between the count and the
\* slice of one page (events/views.py:211-213).
PagesMissNothing ==
    \A q \in Query, size \in PageSize : \A at \in Fetches(Len(events), size) :
        LET Fetched(p) == EventPage(Project, q, p, size, at[p], at[p])
            ends == {p \in DOMAIN at : ~ Fetched(p).has_next} IN
        ends # {} =>
            EventsListed(Project, q, at[1]) \subseteq UNION {Fetched(p).rows : p \in 1..Min(ends)}
=============================================================================
