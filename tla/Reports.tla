------------------------------- MODULE Reports -------------------------------
(***************************************************************************)
(* The aggregates of the dashboard (apps/analytics/selectors.py) over the  *)
(* projects a user sees, and of the platform overview                      *)
(* (apps/platform/selectors.py) over all.  A percentage or a rate is kept  *)
(* as the pair it is computed from, except where its rounding decides.     *)
(***************************************************************************)
EXTENDS History

CONSTANTS
    Hour,      \* ticks in an hour
    Day,       \* ticks in a day
    Span,      \* [range -> days]: the ranges that are bucketed by day
    TopShown   \* recurring errors the overview shows, 5 in the code

ASSUME ReportsAssumption ==
    Hour \in Nat \ {0} /\ Day \in Nat \ {0} /\ Day % Hour = 0 /\ TopShown \in Nat \ {0}

Trunc(t, step) == t - (t % step)
ErrorLevels == {"error", "fatal"}

VisibleEvents(ps) == {i \in DOMAIN events : events[i].group.project \in ps}
VisibleIncidents(ps) == {i \in DOMAIN incidents : incidents[i].group.project \in ps}
Since(is, t) == {i \in is : events[i].created_at >= t}

(* overview_for_user *)

OpenBySeverity(ps) ==
    [s \in Severity |-> Cardinality({i \in VisibleIncidents(ps) :
        incidents[i].status \in OPEN_STATUSES /\ incidents[i].severity = s})]

Events24h(ps) == Cardinality(Since(VisibleEvents(ps), now - Day))
EventsPrev24h(ps) == Cardinality(Since(VisibleEvents(ps), now - 2 * Day)) - Events24h(ps)

Trend(ps) ==
    LET gained == Events24h(ps) - EventsPrev24h(ps)
        prev == EventsPrev24h(ps) IN   \* less than half a percent rounds to no change
    IF 200 * gained > prev THEN "up" ELSE IF 200 * gained < -prev THEN "down" ELSE "flat"

Resolved24h(ps) == Cardinality({i \in VisibleIncidents(ps) :
    incidents[i].status = "resolved" /\ incidents[i].resolved_at >= now - Day})

\* The row of a recurring error: its open incident, or the latest for its status.
TopError(g) ==
    LET open == InStatus(g, OPEN_STATUSES)
        shown == IF open # {} THEN open ELSE {Latest(IncidentsOf(g))} IN
    [group |-> g, count |-> groups[g].count,
     incident |-> IF open = {} THEN {} ELSE {incidents[i].severity : i \in open},
     status |-> {incidents[i].status : i \in shown}]

RecentGroups(ps) == {g \in Known : g.project \in ps /\ groups[g].last_seen >= now - 7 * Day}

\* order_by("-count")[:5]: among equals the database chooses.
TopGroups(ps) ==
    CHOOSE top \in SUBSET RecentGroups(ps) :
        /\ Cardinality(top) = TopShown \/ (Cardinality(top) < TopShown /\ top = RecentGroups(ps))
        /\ \A g \in top, h \in RecentGroups(ps) \ top : groups[g].count >= groups[h].count

TopErrors(ps) == {TopError(g) : g \in TopGroups(ps)}

Health(ps) ==
    IF OpenBySeverity(ps)["critical"] > 0 THEN "critical"
    ELSE IF OpenBySeverity(ps)["high"] > 0 THEN "degraded" ELSE "healthy"

Overview(ps) ==
    [open |-> MapThenSumSet(LAMBDA s : OpenBySeverity(ps)[s], Severity),
     by_severity |-> OpenBySeverity(ps), events_24h |-> Events24h(ps), trend |-> Trend(ps),
     resolved_24h |-> Resolved24h(ps), top_errors |-> TopErrors(ps), health |-> Health(ps)]

(* stats_for_user *)

Step(range) == IF range = "24h" THEN Hour ELSE Day

\* Mutant of ChartStart: the window is not aligned with the buckets.
ChartStart_Unaligned(range) == now - (IF range = "24h" THEN Day ELSE Span[range] * Day)

ChartStart(range) ==
    Trunc(now - (IF range = "24h" THEN Day ELSE Span[range] * Day), Step(range))

InBucket(is, range, bucket) ==
    {i \in Since(is, ChartStart(range)) : Trunc(events[i].created_at, Step(range)) = bucket}

OpenedIn(is, range, bucket) ==
    {i \in is : incidents[i].created_at >= ChartStart(range)
                /\ Trunc(incidents[i].created_at, Step(range)) = bucket}

Buckets(range) ==
    {b \in ChartStart(range)..(now - 1) : (b - ChartStart(range)) % Step(range) = 0}

Points(ps, range) ==
    {[ts |-> b, events |-> Cardinality(InBucket(VisibleEvents(ps), range, b)),
      incidents |-> Cardinality(OpenedIn(VisibleIncidents(ps), range, b))] : b \in Buckets(range)}

(* services_health_for_user *)

Window(range) == IF range = "24h" THEN Day ELSE Span[range] * Day
Attributed(ps, range) == {i \in Since(VisibleEvents(ps), now - Window(range)) : events[i].service # {}}
Served(ps, range, service) == {i \in Attributed(ps, range) : events[i].service = service}
AtLevel(is, levels) == {i \in is : events[i].level \in levels}
HoursOf(is) == {Trunc(events[i].created_at, Hour) : i \in is}

EnvironmentRows(is) ==
    {[name |-> env, events |-> Cardinality({i \in is : events[i].environment = env})]
        : env \in {events[i].environment : i \in is}}

Health1(is) ==
    IF AtLevel(is, {"fatal"}) # {} THEN "critical"
    ELSE IF AtLevel(is, ErrorLevels) # {} THEN "degraded" ELSE "healthy"

ServiceRow(ps, range, service) ==
    LET is == Served(ps, range, service) IN
    [name |-> service, status |-> Health1(is), events |-> Cardinality(is),
     error_events |-> Cardinality(AtLevel(is, ErrorLevels)),
     error_groups |-> Cardinality({events[i].group : i \in is}),
     active |-> Cardinality(HoursOf(is)), fatal |-> Cardinality(HoursOf(AtLevel(is, {"fatal"}))),
     environments |-> EnvironmentRows(is)]

Catalog(ps, range) ==
    {ServiceRow(ps, range, s) : s \in {events[i].service : i \in Attributed(ps, range)}}

(* platform/selectors.py *)

PlatformTotals ==
    [events_24h |-> Cardinality(Since(DOMAIN events, now - Day)),
     open_incidents |-> Cardinality({i \in DOMAIN incidents : incidents[i].status \in OPEN_STATUSES})]

\* Both joins in one query: an event counts once for each incident of the project.
ProjectRow(p) ==
    LET AtLeastOne(is) == IF is = {} THEN 1 ELSE Cardinality(is) IN
    [events_24h |-> Events24h({p}) * AtLeastOne(VisibleIncidents({p})),
     open_incidents |-> Overview({p}).open * AtLeastOne(VisibleEvents({p}))]

-----------------------------------------------------------------------------
(* Properties *)

Ranges == {"24h"} \cup DOMAIN Span
Total(rows, Field(_)) == MapThenSumSet(Field, rows)

\* The points of a chart account for the events and incidents since its first
\* bucket, all but those of this very instant when a bucket begins with it
\* (analytics/selectors.py:152 promises a chart without gaps).
ChartAccountsForAll(ps, range) ==
    LET begins == now % Step(range) = 0
        DueEvents == {i \in Since(VisibleEvents(ps), ChartStart(range)) :
                         begins => events[i].created_at < now}
        DueIncidents == {i \in VisibleIncidents(ps) :
                            /\ incidents[i].created_at >= ChartStart(range)
                            /\ begins => incidents[i].created_at < now} IN
    /\ Total(Points(ps, range), LAMBDA row : row.events) = Cardinality(DueEvents)
    /\ Total(Points(ps, range), LAMBDA row : row.incidents) = Cardinality(DueIncidents)

\* The catalog, from three queries, agrees with itself and with the overview.
CatalogAgrees(ps, range) ==
    /\ \A row \in Catalog(ps, range) :
          /\ Total(row.environments, LAMBDA env : env.events) = row.events
          /\ row.status = "critical" <=> row.fatal > 0
          /\ row.fatal <= row.active /\ row.error_events <= row.events
    /\ range = "24h" =>
          Total(Catalog(ps, range), LAMBDA row : row.events)
            + Cardinality({i \in Since(VisibleEvents(ps), now - Day) : events[i].service = {}})
          = Events24h(ps)

\* What the overview counts is disjoint and complete, and its rows agree with
\* the raw events.
OverviewAgrees(ps) ==
    LET o == Overview(ps) IN
    /\ o.open + o.resolved_24h <= Cardinality(VisibleIncidents(ps))
    /\ \A row \in o.top_errors :
          /\ row.count = Cardinality(EventsOf(row.group))
          /\ row.incident # {} <=> row.status \subseteq OPEN_STATUSES
    /\ o.trend = "up" => o.top_errors # {}

\* The platform's totals are the sums of what the tenants see.
PlatformAgrees ==
    /\ PlatformTotals.events_24h = MapThenSumSet(LAMBDA p : Overview({p}).events_24h, Project)
    /\ PlatformTotals.open_incidents = MapThenSumSet(LAMBDA p : Overview({p}).open, Project)
    /\ \A p \in Project :
          Cardinality(VisibleIncidents({p})) <= 1
             => ProjectRow(p).events_24h = Overview({p}).events_24h
=============================================================================
