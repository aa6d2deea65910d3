-------------------------------- MODULE Search --------------------------------
(***************************************************************************)
(* The search box (apps/platform/search_parser.py): tokens of a key, a     *)
(* value and a sign become filters over incidents and over events.  A text *)
(* is the set of its words: icontains finds one of them, iexact is the     *)
(* text of that one word.                                                  *)
(***************************************************************************)
EXTENDS IncidentQueries

CONSTANTS
    Token      \* [key, value, raw]; raw is the token as typed

INCIDENT_STATUSES == {"open", "investigating", "resolved", "ignored"}

Has(text, word) == word \in text
Is(text, word) == text = {word}

(* Incidents: a test of the row itself, or of an event of its group. *)

FreeText(t) ==
    \/ t.key = "none"
    \/ /\ t.key = "is"
       /\ t.value \notin INCIDENT_STATUSES \cup Severity \cup {"assigned", "unassigned"}
Term(t) == IF t.key = "none" THEN t.value ELSE t.raw

RowMatches(i, t) ==
    LET row == incidents[i] IN
    CASE FreeText(t)             -> Has(groups[row.group].title, Term(t))
      [] t.key = "is"            -> \/ t.value \in {row.status, row.severity}
                                    \/ t.value = "assigned" /\ row.assigned_to # Nobody
                                    \/ t.value = "unassigned" /\ row.assigned_to = Nobody
      [] t.key = "status"        -> row.status = t.value
      [] t.key = "severity"      -> row.severity = t.value
      [] t.key = "assigned"      -> row.assigned_to = t.value
      [] t.key = "project"       -> row.group.project = t.value
      [] OTHER                   -> FALSE

\* A metadata lookup; a path the event does not have gives no verdict.
MetaVerdicts(e, t) ==
    LET paths == IF t.key = "release" THEN {"release", "version", "app_version"} ELSE {"tag", "tags.tag"} IN
    {IF p \notin DOMAIN events[e].metadata THEN "null"
     ELSE IF Has(events[e].metadata[p], t.value) THEN "true" ELSE "false" : p \in paths}

EventMatches(e, t) ==
    LET row == events[e] IN
    CASE FreeText(t)             -> \E text \in {row.message.name, row.service, row.endpoint} :
                                       Has(text, Term(t))
      [] t.key = "env"           -> Is(row.environment, t.value)
      [] t.key = "user"          -> Has(row.user_id, t.value)
      [] t.key = "service"       -> Has(row.service, t.value)
      [] t.key \in {"release", "metadata"} -> "true" \in MetaVerdicts(e, t)
      [] OTHER                   -> FALSE

\* Positive tokens share one join: one event must match all that ask for events.
Found(ts) ==
    {i \in DOMAIN incidents : \E e \in EventsOf(incidents[i].group) :
        \A t \in ts : RowMatches(i, t) \/ EventMatches(e, t)}

\* Mutant of FoundNot: some event does not match.
FoundNot_SomeEvent(t) ==
    {i \in DOMAIN incidents : ~ RowMatches(i, t)
        /\ \E e \in EventsOf(incidents[i].group) : ~ EventMatches(e, t)}

\* A negated token becomes NOT IN a subquery of its own.
FoundNot(t) ==
    {i \in DOMAIN incidents : ~ RowMatches(i, t)
        /\ \A e \in EventsOf(incidents[i].group) : ~ EventMatches(e, t)}

(* Events: SQL's three truth values. *)

Verdicts(e, t) ==
    LET row == events[e]
        Verdict(holds) == {IF holds THEN "true" ELSE "false"} IN
    CASE t.key \in {"release", "metadata"} -> MetaVerdicts(e, t)
      [] t.key \in {"is", "severity"} /\ t.value \in Level -> Verdict(row.level = t.value)
      [] t.key = "env"                     -> Verdict(Is(row.environment, t.value))
      [] t.key = "user"                    -> Verdict(Has(row.user_id, t.value))
      [] t.key = "service"                 -> Verdict(Has(row.service, t.value))
      [] t.key = "project"                 -> Verdict(row.group.project = t.value)
      [] t.key = "severity"                -> Verdict(FALSE)
      [] OTHER                             -> Verdict(\E text \in {row.message.name, row.service,
            row.environment, row.endpoint, row.user_id} : Has(text, Term(t)))

EventsFound(t) == {e \in DOMAIN events : "true" \in Verdicts(e, t)}
EventsFoundNot(t) == {e \in DOMAIN events : Verdicts(e, t) = {"false"}}
=============================================================================
