--------------------------- MODULE IncidentQueries ---------------------------
(***************************************************************************)
(* Deploy intelligence (apps/incidents/selectors.py): the deployment an    *)
(* error is blamed on, and the volume of the error around it.              *)
(***************************************************************************)
EXTENDS Reports

FirstEvent(g) == events[Min(EventsOf(g))]
Marked(g) == {d \in DOMAIN deployments : deployments[d].project = g.project}

\* order_by("-deployed_at").first(): any of those dated last.
DatedLast(ds) ==
    {d \in ds : \A other \in ds : deployments[other].deployed_at <= deployments[d].deployed_at}

OfRelease(g) ==
    {d \in Marked(g) : FirstEvent(g).release # {} /\ deployments[d].version = FirstEvent(g).release}

\* Mutant of Preceding: no upper bound on the date.
Preceding_OrLater(g) ==
    {d \in Marked(g) : /\ deployments[d].deployed_at >= groups[g].first_seen - 2 * Day
                       /\ deployments[d].status \in {"completed", "healthy"}}

Preceding(g) ==
    {d \in Marked(g) : /\ deployments[d].deployed_at <= groups[g].first_seen
                       /\ deployments[d].deployed_at >= groups[g].first_seen - 2 * Day
                       /\ deployments[d].status \in {"completed", "healthy"}}

\* The deployments the incident may be blamed on: several only when dated alike.
Suspects(g) == DatedLast(IF OfRelease(g) # {} THEN OfRelease(g) ELSE Preceding(g))

Confidence(g, d) ==
    LET age == groups[g].first_seen - deployments[d].deployed_at IN
    IF OfRelease(g) # {} \/ age <= 2 * Hour THEN "high"
    ELSE IF age <= Day THEN "medium" ELSE "low"

VolumeBefore(g, d) ==
    LET t == deployments[d].deployed_at IN
    {i \in EventsOf(g) : events[i].created_at >= t - Hour /\ events[i].created_at < t}

VolumeAfter(g, d) ==
    LET t == deployments[d].deployed_at
        end == IF t + Hour < now THEN t + Hour ELSE now IN
    {i \in EventsOf(g) : events[i].created_at >= t /\ events[i].created_at <= end}

Intelligence(g) ==
    {[version |-> deployments[d].version, confidence |-> Confidence(g, d),
      before |-> Cardinality(VolumeBefore(g, d)), after |-> Cardinality(VolumeAfter(g, d))]
        : d \in Suspects(g)}

-----------------------------------------------------------------------------
(* Properties *)

\* What may change the suspect of g: a marker dated no later than the error, or
\* one of the release the error first came with.
NewSuspect(g) ==
    /\ Len(deployments') > Len(deployments)
    /\ LET d == Last(deployments') IN
       d.deployed_at <= groups[g].first_seen \/ d.version = FirstEvent(g).release

\* An error keeps its suspect, whatever is ingested, edited or deployed later
\* (incidents/selectors.py:220, "prior to ... group first_seen"), and once the
\* hour after the deploy is over, the confidence and the volumes too.
BlameSettles ==
    [][\A g \in Known : ~ NewSuspect(g) =>
          /\ Suspects(g)' = Suspects(g)
          /\ (\A d \in Suspects(g) : now > deployments[d].deployed_at + Hour) =>
                Intelligence(g)' = Intelligence(g)]_historyVars
=============================================================================
