---------------------------- MODULE AlertDispatch ---------------------------
(***************************************************************************)
(* The evaluation of alert rules for an incident (apps/alerts/services.py),*)
(* run inline by every ingest and incident edit, one statement or delivery *)
(* at a time.  The rules are those of one project.  Deleting a rule        *)
(* deletes its logs.  A rule's edits are not modelled, nor the deletion of *)
(* incidents.                                                              *)
(***************************************************************************)
EXTENDS Naturals

CONSTANTS
    Rule,
    Incident,
    State,           \* the severities and statuses rules tell apart
    Evaluation,      \* calls of enqueue_alert_evaluation
    Condition,       \* [Rule -> the states the rule matches]
    Cooldown,        \* [Rule -> cooldown_minutes]
    MaxClock,        \* bound on the clock, in minutes
    NoRule, NoIncident

ASSUME AlertAssumption ==
    /\ Condition \in [Rule -> SUBSET State]
    /\ Cooldown \in [Rule -> Nat]
    /\ MaxClock \in Nat
    /\ NoRule \notin Rule /\ NoIncident \notin Incident

VARIABLES
    clock,      \* timezone.now(), which never goes back
    stored,     \* the stored rules
    current,    \* [Incident -> its state now]
    logs,       \* the stored AlertLog rows
    sent,       \* {<<rule, evaluation>>}: alerts that reached their channel
    eval        \* [Evaluation -> locals of evaluate_incident]

alertVars == <<clock, stored, current, logs, sent, eval>>

LogRow == [rule : Rule, incident : Incident, by : Evaluation, at : Nat,
           status : {"dispatched", "failed"}]

\* known is a history variable: the alerts logged when the evaluation began.
EvalLocals ==
    [at       : {"start", "rules", "loop", "create", "dispatch", "failing",
                 "done", "aborted", "killed"},
     incident : Incident \cup {NoIncident},
     seen     : SUBSET State,      \* the state of the fetched copy
     now      : Nat,
     fetched  : SUBSET Rule,
     todo     : SUBSET Rule,       \* fetched rules the loop has yet to visit
     rule     : Rule \cup {NoRule},
     known    : SUBSET (Rule \X Evaluation)]

TypeOK ==
    /\ clock \in Nat
    /\ stored \subseteq Rule
    /\ current \in [Incident -> State]
    /\ logs \subseteq LogRow
    /\ sent \subseteq Rule \X Evaluation
    /\ eval \in [Evaluation -> EvalLocals]
    /\ \A e \in Evaluation :
          /\ eval[e].at # "start" => eval[e].incident \in Incident
          /\ eval[e].at \in {"create", "dispatch", "failing"} => eval[e].rule \in Rule

AlertOf(log) == <<log.rule, log.by>>

-----------------------------------------------------------------------------

\* enqueue_alert_evaluation fetches the incident.
Fetch(e) ==
    /\ eval[e].at = "start"
    /\ \E i \in Incident :
          eval' = [eval EXCEPT ![e].at = "rules", ![e].incident = i, ![e].seen = {current[i]}]
    /\ UNCHANGED <<clock, stored, current, logs, sent>>

\* evaluate_incident reads the clock and fetches the rules.
Begin(e) ==
    /\ eval[e].at = "rules"
    /\ eval' = [eval EXCEPT ![e].at = "loop", ![e].now = clock,
                            ![e].fetched = stored, ![e].todo = stored,
                            ![e].known = {AlertOf(log) : log \in logs}]
    /\ UNCHANGED <<clock, stored, current, logs, sent>>

Matches(e, r) == eval[e].seen \subseteq Condition[r]

\* Mutant of CoolingDown: an alert that failed suppresses no repeat.
CoolingDown_Delivered(e, r) ==
    \E log \in logs :
        /\ log.rule = r /\ log.incident = eval[e].incident /\ log.status = "dispatched"
        /\ log.at + Cooldown[r] >= eval[e].now

CoolingDown(e, r) ==
    \E log \in logs :
        log.rule = r /\ log.incident = eval[e].incident /\ log.at + Cooldown[r] >= eval[e].now

\* One pass of the loop up to the cooldown query; the order of the rules is
\* left open.
Visit(e) ==
    /\ eval[e].at = "loop"
    /\ \E r \in eval[e].todo :
          LET alert == Matches(e, r) /\ ~ CoolingDown(e, r)
          IN  eval' = [eval EXCEPT
                ![e].todo = @ \ {r},
                ![e].at = IF alert THEN "create" ELSE "loop",
                ![e].rule = IF alert THEN r ELSE NoRule]
    /\ UNCHANGED <<clock, stored, current, logs, sent>>

\* AlertLog.objects.create: the foreign key refuses a deleted rule, and the
\* exception ends the evaluation.
CreateLog(e) ==
    /\ eval[e].at = "create"
    /\ \/ /\ eval[e].rule \in stored
          /\ logs' = logs \cup
                {[rule |-> eval[e].rule, incident |-> eval[e].incident, by |-> e,
                  at |-> clock, status |-> "dispatched"]}
          /\ eval' = [eval EXCEPT ![e].at = "dispatch"]
       \/ /\ eval[e].rule \notin stored
          /\ eval' = [eval EXCEPT ![e].at = "aborted"]
          /\ UNCHANGED logs
    /\ UNCHANGED <<clock, stored, current, sent>>

\* dispatch delivers, or raises: a channel that answers too late was reached
\* all the same.
Dispatch(e) ==
    /\ eval[e].at = "dispatch"
    /\ \/ /\ sent' = sent \cup {<<eval[e].rule, e>>}
          /\ eval' = [eval EXCEPT ![e].at = "loop", ![e].rule = NoRule]
       \/ /\ sent' \in {sent, sent \cup {<<eval[e].rule, e>>}}
          /\ eval' = [eval EXCEPT ![e].at = "failing"]
    /\ UNCHANGED <<clock, stored, current, logs>>

IsCurrent(log, e) == AlertOf(log) = <<eval[e].rule, e>>

\* Mutant of MarkFailed: a failed delivery ends the loop.
MarkFailed_Returns(e) ==
    /\ eval[e].at = "failing"
    /\ logs' = {IF IsCurrent(log, e) THEN [log EXCEPT !.status = "failed"] ELSE log : log \in logs}
    /\ eval' = [eval EXCEPT ![e].at = "loop", ![e].todo = {}, ![e].rule = NoRule]
    /\ UNCHANGED <<clock, stored, current, sent>>

\* Mutant of MarkFailed: the failure is not saved.
MarkFailed_Unsaved(e) ==
    /\ eval[e].at = "failing"
    /\ eval' = [eval EXCEPT ![e].at = "loop", ![e].rule = NoRule]
    /\ UNCHANGED <<clock, stored, current, logs, sent>>

\* log.save(update_fields=...) raises when the row was deleted meanwhile.
MarkFailed(e) ==
    /\ eval[e].at = "failing"
    /\ logs' = {IF IsCurrent(log, e) THEN [log EXCEPT !.status = "failed"] ELSE log : log \in logs}
    /\ eval' = [eval EXCEPT
          ![e].at = IF \E log \in logs : IsCurrent(log, e) THEN "loop" ELSE "aborted",
          ![e].rule = NoRule]
    /\ UNCHANGED <<clock, stored, current, sent>>

Finish(e) ==
    /\ eval[e].at = "loop" /\ eval[e].todo = {}
    /\ eval' = [eval EXCEPT ![e].at = "done"]
    /\ UNCHANGED <<clock, stored, current, logs, sent>>

\* The worker dies with its request.
KillEvaluation(e) ==
    /\ eval[e].at \in {"loop", "create", "dispatch", "failing"}
    /\ eval' = [eval EXCEPT ![e].at = "killed"]
    /\ UNCHANGED <<clock, stored, current, logs, sent>>

DropRule(r) ==
    /\ r \in stored
    /\ stored' = stored \ {r}
    /\ logs' = {log \in logs : log.rule # r}
    /\ UNCHANGED <<clock, current, sent, eval>>

ChangeIncident(i) ==
    /\ \E s \in State : current' = [current EXCEPT ![i] = s]
    /\ UNCHANGED <<clock, stored, logs, sent, eval>>

Tick ==
    /\ clock < MaxClock
    /\ clock' = clock + 1
    /\ UNCHANGED <<stored, current, logs, sent, eval>>

Init ==
    /\ clock = 0
    /\ stored = Rule
    /\ current \in [Incident -> State]
    /\ logs = {} /\ sent = {}
    /\ eval = [e \in Evaluation |->
                  [at |-> "start", incident |-> NoIncident, seen |-> {}, now |-> 0,
                   fetched |-> {}, todo |-> {}, rule |-> NoRule, known |-> {}]]

EvalStep(e) ==
    \/ Fetch(e) \/ Begin(e) \/ Visit(e) \/ CreateLog(e) \/ Dispatch(e)
    \/ MarkFailed(e) \/ Finish(e) \/ KillEvaluation(e)

Next ==
    \/ \E e \in Evaluation : EvalStep(e)
    \/ \E r \in Rule : DropRule(r)
    \/ \E i \in Incident : ChangeIncident(i)
    \/ Tick

Spec == Init /\ [][Next]_alertVars

-----------------------------------------------------------------------------
(* Properties *)

SameAlert(l, m) == l.rule = m.rule /\ l.incident = m.incident

\* "One AlertLog per (rule, incident) dispatch, with the rule's
\* cooldown_minutes window suppressing repeats" (models.py:4-6), as far as the
\* query before the log can see: an evaluation repeats no alert that was logged
\* before it began, be it delivered or not, until the cooldown is over.
CooldownOfKnown ==
    \A l, m \in logs :
        SameAlert(l, m) /\ AlertOf(l) \in eval[m.by].known => m.at > l.at + Cooldown[l.rule]

\* A failed delivery does not keep the other rules from alerting
\* (services.py:46,65): after an evaluation that ran to its end, every fetched
\* rule that matches and still exists has an alert inside the cooldown window,
\* this evaluation's or another's.
AlertedInWindow(e, r) ==
    \E log \in logs :
        log.rule = r /\ log.incident = eval[e].incident /\ log.at + Cooldown[r] >= eval[e].now

EveryMatchAlerted ==
    \A e \in Evaluation :
        eval[e].at = "done" =>
            \A r \in eval[e].fetched \cap stored : Matches(e, r) => AlertedInWindow(e, r)

\* "The AlertLog table stays a faithful record of attempts" (services.py:45-46):
\* once an evaluation ended without being killed, its rows that say dispatched
\* are of alerts that reached their channel.
LogFaithful ==
    \A log \in logs :
        log.status = "dispatched" /\ eval[log.by].at \in {"done", "aborted"}
            => AlertOf(log) \in sent

-----------------------------------------------------------------------------
(* The inductive invariants *)

\* Evaluation e is done with rule r: it will log no alert of it any more.
Passed(e, r) ==
    /\ eval[e].at \notin {"start", "rules"}
    /\ r \notin eval[e].todo
    /\ eval[e].at = "create" => eval[e].rule # r

EvalInv(e) ==
    /\ eval[e].now <= clock
    /\ eval[e].at = "create" =>
          /\ eval[e].rule \in Rule \ eval[e].todo
          /\ \A log \in logs :
                log.rule = eval[e].rule /\ log.incident = eval[e].incident
                    /\ AlertOf(log) \in eval[e].known
                        => eval[e].now > log.at + Cooldown[log.rule]
    /\ \A r \in Rule, f \in Evaluation : <<r, f>> \in eval[e].known => Passed(f, r)
    /\ eval[e].at \notin {"start", "rules", "aborted", "killed"} =>
          \A r \in eval[e].fetched \cap stored :
              Matches(e, r) =>
                  \/ r \in eval[e].todo
                  \/ eval[e].at = "create" /\ eval[e].rule = r
                  \/ AlertedInWindow(e, r)
    /\ eval[e].at = "done" => eval[e].todo = {}

AlertInv ==
    /\ TypeOK
    /\ \A log \in logs : Passed(log.by, log.rule) /\ log.at <= clock
    /\ \A e \in Evaluation : EvalInv(e)
    /\ CooldownOfKnown

\* A row that says dispatched was sent, or its evaluation still works on it or
\* was killed.
DeliveryInv ==
    \A log \in logs :
        log.status = "dispatched" =>
            \/ AlertOf(log) \in sent
            \/ eval[log.by].at \in {"dispatch", "failing"} /\ eval[log.by].rule = log.rule
            \/ eval[log.by].at = "killed"
=============================================================================
