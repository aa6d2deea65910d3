---------------------------- MODULE AlertProofs -----------------------------
(***************************************************************************)
(* What alerts guarantee.  First the evaluations (AlertDispatch), for any  *)
(* rules, incidents, evaluations, cooldowns and however long the clock     *)
(* runs; then the requests that edit rules, connect Slack and deliver      *)
(* (AlertRules), for any requests, targets, hosts and bodies: stored rules *)
(* stay sendable, deleted ones deleted, replaced tokens unused.            *)
(***************************************************************************)
EXTENDS AlertDispatch, AlertRules, RequestStepsProofs

-----------------------------------------------------------------------------
(* Evaluations *)

\* The locals of one evaluation, and what its place in the code implies.
WellTyped(l) ==
    /\ l \in EvalLocals
    /\ l.at # "start" => l.incident \in Incident
    /\ l.at \in {"create", "dispatch", "failing"} => l.rule \in Rule

\* A pass of the loop takes a rule off the list, and is about to log an alert
\* exactly when the rule matches and is not cooling down.
LEMMA VisitForm ==
    ASSUME eval \in [Evaluation -> EvalLocals], NEW e \in Evaluation, Visit(e)
    PROVE  \E r \in eval[e].todo, a \in BOOLEAN :
              /\ a <=> Matches(e, r) /\ ~ CoolingDown(e, r)
              /\ eval' = [eval EXCEPT ![e] = [eval[e] EXCEPT
                             !.todo = @ \ {r},
                             !.at = IF a THEN "create" ELSE "loop",
                             !.rule = IF a THEN r ELSE NoRule]]
<1>1. PICK r \in eval[e].todo :
        LET alert == Matches(e, r) /\ ~ CoolingDown(e, r)
        IN  eval' = [eval EXCEPT
              ![e].todo = @ \ {r},
              ![e].at = IF alert THEN "create" ELSE "loop",
              ![e].rule = IF alert THEN r ELSE NoRule]
  BY DEF Visit
<1>2. CASE Matches(e, r) /\ ~ CoolingDown(e, r)
  BY <1>1, <1>2
<1>3. CASE ~ (Matches(e, r) /\ ~ CoolingDown(e, r))
  BY <1>1, <1>3
<1>4. QED
  BY <1>2, <1>3

\* Types, one step per action.
LEMMA AlertTypes == TypeOK /\ [Next]_alertVars => TypeOK'
<1> SUFFICES ASSUME TypeOK, [Next]_alertVars PROVE TypeOK'
  OBVIOUS
<1> USE AlertAssumption
<1>1. ASSUME NEW e \in Evaluation, EvalStep(e) PROVE TypeOK'
  <2>1. WellTyped(eval[e]) /\ eval \in [Evaluation -> EvalLocals]
    BY DEF TypeOK, WellTyped
  <2>2. ASSUME NEW l, eval' = [eval EXCEPT ![e] = l], WellTyped(l),
               stored' \subseteq Rule, logs' \subseteq LogRow, sent' \subseteq Rule \X Evaluation,
               UNCHANGED <<clock, current>>
        PROVE  TypeOK'
    BY <2>2 DEF TypeOK, WellTyped
  <2>3. ASSUME Fetch(e) PROVE TypeOK'
    <3>1. PICK i \in Incident :
            eval' = [eval EXCEPT ![e] = [eval[e] EXCEPT !.at = "rules", !.incident = i,
                                                        !.seen = {current[i]}]]
      BY <2>1, <2>3 DEF Fetch
    <3>2. WellTyped([eval[e] EXCEPT !.at = "rules", !.incident = i, !.seen = {current[i]}])
      <4>1. {current[i]} \subseteq State
        BY DEF TypeOK
      <4>2. QED
        BY <2>1, <4>1 DEF WellTyped, EvalLocals
    <3>3. QED
      BY <2>2, <2>3, <3>1, <3>2 DEF Fetch, TypeOK
  <2>4. ASSUME Begin(e) PROVE TypeOK'
    <3> DEFINE k == {AlertOf(log) : log \in logs}
    <3>1. k \subseteq Rule \X Evaluation /\ stored \subseteq Rule /\ clock \in Nat
      BY DEF AlertOf, LogRow, TypeOK
    <3>2. eval' = [eval EXCEPT ![e] = [eval[e] EXCEPT !.at = "loop", !.now = clock,
                                !.fetched = stored, !.todo = stored, !.known = k]]
      BY <2>1, <2>4 DEF Begin
    <3> HIDE DEF k
    <3>3. WellTyped([eval[e] EXCEPT !.at = "loop", !.now = clock, !.fetched = stored,
                                    !.todo = stored, !.known = k])
      BY <2>1, <2>4, <3>1 DEF WellTyped, EvalLocals, Begin
    <3>4. QED
      BY <2>2, <2>4, <3>2, <3>3 DEF Begin, TypeOK
  <2>5. ASSUME Visit(e) PROVE TypeOK'
    <3>1. PICK r \in eval[e].todo, a \in BOOLEAN :
            eval' = [eval EXCEPT ![e] = [eval[e] EXCEPT
                         !.todo = @ \ {r},
                         !.at = IF a THEN "create" ELSE "loop",
                         !.rule = IF a THEN r ELSE NoRule]]
      BY <2>1, <2>5, VisitForm
    <3>2. r \in Rule
      BY <2>1 DEF WellTyped, EvalLocals
    <3>3. WellTyped([eval[e] EXCEPT !.todo = @ \ {r}, !.at = IF a THEN "create" ELSE "loop",
                                    !.rule = IF a THEN r ELSE NoRule])
      BY <2>1, <2>5, <3>2 DEF WellTyped, EvalLocals, Visit
    <3>4. QED
      BY <2>2, <2>5, <3>1, <3>3 DEF Visit, TypeOK
  <2>6. ASSUME CreateLog(e) PROVE TypeOK'
    <3>1. PICK a \in {"dispatch", "aborted"} :
            eval' = [eval EXCEPT ![e] = [eval[e] EXCEPT !.at = a]]
      BY <2>1, <2>6 DEF CreateLog
    <3>2. WellTyped([eval[e] EXCEPT !.at = a])
      BY <2>1, <2>6 DEF WellTyped, EvalLocals, CreateLog
    <3>3. logs' \subseteq LogRow
      BY <2>1, <2>6 DEF CreateLog, WellTyped, TypeOK, LogRow
    <3>4. QED
      BY <2>2, <2>6, <3>1, <3>2, <3>3 DEF CreateLog, TypeOK
  <2>7. ASSUME Dispatch(e) PROVE TypeOK'
    <3>1. CASE eval' = [eval EXCEPT ![e].at = "loop", ![e].rule = NoRule]
      <4>1. eval' = [eval EXCEPT ![e] = [eval[e] EXCEPT !.at = "loop", !.rule = NoRule]]
        BY <2>1, <3>1
      <4>2. WellTyped([eval[e] EXCEPT !.at = "loop", !.rule = NoRule])
        BY <2>1, <2>7 DEF WellTyped, EvalLocals, Dispatch
      <4>3. QED
        BY <2>1, <2>2, <2>7, <4>1, <4>2 DEF Dispatch, TypeOK, WellTyped
    <3>2. CASE eval' = [eval EXCEPT ![e].at = "failing"]
      <4>1. eval' = [eval EXCEPT ![e] = [eval[e] EXCEPT !.at = "failing"]]
        BY <2>1, <3>2
      <4>2. WellTyped([eval[e] EXCEPT !.at = "failing"])
        BY <2>1, <2>7 DEF WellTyped, EvalLocals, Dispatch
      <4>3. QED
        BY <2>1, <2>2, <2>7, <4>1, <4>2 DEF Dispatch, TypeOK, WellTyped
    <3>3. QED
      BY <2>7, <3>1, <3>2 DEF Dispatch
  <2>8. ASSUME MarkFailed(e) PROVE TypeOK'
    <3>1. PICK a \in {"loop", "aborted"} :
            eval' = [eval EXCEPT ![e] = [eval[e] EXCEPT !.at = a, !.rule = NoRule]]
      BY <2>1, <2>8 DEF MarkFailed
    <3>2. WellTyped([eval[e] EXCEPT !.at = a, !.rule = NoRule])
      BY <2>1, <2>8 DEF WellTyped, EvalLocals, MarkFailed
    <3>3. logs' \subseteq LogRow
      BY <2>8 DEF MarkFailed, TypeOK, LogRow
    <3>4. QED
      BY <2>2, <2>8, <3>1, <3>2, <3>3 DEF MarkFailed, TypeOK
  <2>9. ASSUME Finish(e) \/ KillEvaluation(e) PROVE TypeOK'
    <3>1. PICK a \in {"done", "killed"} :
            eval' = [eval EXCEPT ![e] = [eval[e] EXCEPT !.at = a]]
      BY <2>1, <2>9 DEF Finish, KillEvaluation
    <3>2. WellTyped([eval[e] EXCEPT !.at = a])
      BY <2>1, <2>9 DEF WellTyped, EvalLocals, Finish, KillEvaluation
    <3>3. QED
      BY <2>2, <2>9, <3>1, <3>2 DEF Finish, KillEvaluation, TypeOK
  <2>10. QED
    BY <1>1, <2>3, <2>4, <2>5, <2>6, <2>7, <2>8, <2>9 DEF EvalStep
<1>2. ASSUME NEW r \in Rule, DropRule(r) PROVE TypeOK'
  BY <1>2 DEF DropRule, TypeOK
<1>3. ASSUME NEW i \in Incident, ChangeIncident(i) PROVE TypeOK'
  BY <1>3 DEF ChangeIncident, TypeOK
<1>4. CASE Tick
  BY <1>4 DEF Tick, TypeOK
<1>5. CASE UNCHANGED alertVars
  BY <1>5 DEF alertVars, TypeOK
<1>6. QED
  BY <1>1, <1>2, <1>3, <1>4, <1>5 DEF Next

\* The alert an evaluation is about to log, and rows equal but for the status.
NewLog(e) == [rule |-> eval[e].rule, incident |-> eval[e].incident, by |-> e,
              at |-> clock, status |-> "dispatched"]

Creates(e) == CreateLog(e) /\ eval[e].rule \in stored

Twin(k, l) == k.rule = l.rule /\ k.incident = l.incident /\ k.by = l.by /\ k.at = l.at

\* What a step may do to the clock, the rules and the logs.
LEMMA StepFrame ==
    ASSUME TypeOK, Next
    PROVE  /\ clock' \in Nat /\ clock' >= clock /\ stored' \subseteq stored
           /\ \A l \in logs' : \/ \E k \in logs : Twin(k, l)
                               \/ \E e \in Evaluation : Creates(e) /\ l = NewLog(e)
           /\ \A k \in logs : k.rule \in stored' => \E l \in logs' : Twin(k, l)
<1>1. ASSUME NEW e \in Evaluation, EvalStep(e), ~ CreateLog(e), ~ MarkFailed(e)
      PROVE  UNCHANGED <<clock, stored, logs>>
  BY <1>1 DEF EvalStep, Fetch, Begin, Visit, Dispatch, Finish, KillEvaluation
<1>2. ASSUME NEW e \in Evaluation, MarkFailed(e)
      PROVE  /\ UNCHANGED <<clock, stored>>
             /\ \A l \in logs' : \E k \in logs : Twin(k, l)
             /\ \A k \in logs : \E l \in logs' : Twin(k, l)
  <2>1. \A k \in logs : Twin(k, IF IsCurrent(k, e) THEN [k EXCEPT !.status = "failed"] ELSE k)
    BY DEF Twin, TypeOK, LogRow
  <2>2. QED
    BY <1>2, <2>1 DEF MarkFailed
<1>3. ASSUME NEW e \in Evaluation, CreateLog(e)
      PROVE  /\ UNCHANGED <<clock, stored>>
             /\ \A l \in logs' : l \in logs \/ (Creates(e) /\ l = NewLog(e))
             /\ logs \subseteq logs'
  BY <1>3 DEF CreateLog, Creates, NewLog
<1>4. ASSUME NEW r \in Rule, DropRule(r)
      PROVE  /\ UNCHANGED clock /\ stored' \subseteq stored /\ logs' \subseteq logs
             /\ \A k \in logs : k.rule \in stored' => k \in logs'
  BY <1>4 DEF DropRule
<1>5. ASSUME NEW i \in Incident, ChangeIncident(i) PROVE UNCHANGED <<clock, stored, logs>>
  BY <1>5 DEF ChangeIncident
<1>6. ASSUME Tick PROVE clock' = clock + 1 /\ UNCHANGED <<stored, logs>>
  BY <1>6 DEF Tick
<1>7. clock \in Nat /\ \A k \in logs : Twin(k, k)
  BY DEF TypeOK, Twin
<1>8. QED
  BY <1>1, <1>2, <1>3, <1>4, <1>5, <1>6, <1>7 DEF Next

\* Only a step of its own changes an evaluation, and only Fetch and Begin
\* change more than its place in the loop.
LEMMA EvalFrame ==
    ASSUME TypeOK, Next, NEW e \in Evaluation
    PROVE  \/ eval'[e] = eval[e]
           \/ Fetch(e) \/ Begin(e) \/ Visit(e) \/ CreateLog(e) \/ Dispatch(e) \/ MarkFailed(e)
           \/ Finish(e) \/ KillEvaluation(e)
<1>1. ASSUME NEW f \in Evaluation \ {e}, EvalStep(f) PROVE eval'[e] = eval[e]
  BY <1>1 DEF TypeOK, EvalStep, Fetch, Begin, Visit, CreateLog, Dispatch, MarkFailed, Finish, KillEvaluation
<1>2. QED
  BY <1>1 DEF Next, EvalStep, DropRule, ChangeIncident, Tick

\* An evaluation past the fetch of the rules keeps what it fetched.
LEMMA LoopFrame ==
    ASSUME TypeOK, NEW e \in Evaluation,
           Visit(e) \/ CreateLog(e) \/ Dispatch(e) \/ MarkFailed(e) \/ Finish(e) \/ KillEvaluation(e)
    PROVE  /\ eval'[e].incident = eval[e].incident /\ eval'[e].seen = eval[e].seen
           /\ eval'[e].now = eval[e].now /\ eval'[e].known = eval[e].known
           /\ eval'[e].fetched = eval[e].fetched
           /\ eval'[e].at \notin {"start", "rules"} /\ eval[e].at \notin {"start", "rules"}
           /\ eval'[e].todo \subseteq eval[e].todo
           /\ CreateLog(e) \/ Dispatch(e) \/ MarkFailed(e) \/ Finish(e) \/ KillEvaluation(e) =>
                eval'[e].todo = eval[e].todo /\ eval'[e].at # "create"
<1>1. eval \in [Evaluation -> EvalLocals]
  BY DEF TypeOK
<1>2. CASE Visit(e)
  <2>1. PICK r \in eval[e].todo, a \in BOOLEAN :
            eval' = [eval EXCEPT ![e] = [eval[e] EXCEPT
                         !.todo = @ \ {r},
                         !.at = IF a THEN "create" ELSE "loop",
                         !.rule = IF a THEN r ELSE NoRule]]
    BY <1>1, <1>2, VisitForm
  <2>2. eval'[e] = [eval[e] EXCEPT
                         !.todo = @ \ {r},
                         !.at = IF a THEN "create" ELSE "loop",
                         !.rule = IF a THEN r ELSE NoRule]
    BY <1>1, <2>1
  <2>3. eval[e].at = "loop" /\ eval[e] \in EvalLocals
    BY <1>1, <1>2 DEF Visit
  <2>4. ~ (CreateLog(e) \/ Dispatch(e) \/ MarkFailed(e) \/ Finish(e) \/ KillEvaluation(e))
    <3>1. eval'[e].at \in {"loop", "create"}
      BY <2>2, <2>3 DEF EvalLocals
    <3>2. ~ Finish(e) /\ ~ KillEvaluation(e)
      BY <1>1, <3>1 DEF Finish, KillEvaluation, EvalLocals
    <3>3. QED
      BY <2>3, <3>2 DEF CreateLog, Dispatch, MarkFailed
  <2>5. QED
    BY <1>2, <2>2, <2>3, <2>4 DEF EvalLocals
<1>3. CASE CreateLog(e)
  BY <1>1, <1>3 DEF CreateLog, EvalLocals
<1>4. CASE Dispatch(e)
  BY <1>1, <1>4 DEF Dispatch, EvalLocals
<1>5. CASE MarkFailed(e)
  BY <1>1, <1>5 DEF MarkFailed, EvalLocals
<1>6. CASE Finish(e) \/ KillEvaluation(e)
  BY <1>1, <1>6 DEF Finish, KillEvaluation, EvalLocals
<1>7. QED
  BY <1>2, <1>3, <1>4, <1>5, <1>6

\* An evaluation never comes back to a rule.
LEMMA PassedKept ==
    ASSUME TypeOK, Next, NEW e \in Evaluation, NEW r \in Rule, Passed(e, r)
    PROVE  Passed(e, r)'
<1>1. CASE eval'[e] = eval[e]
  BY <1>1 DEF Passed
<1>2. CASE Fetch(e) \/ Begin(e)
  BY <1>2 DEF Passed, Fetch, Begin
<1>3. CASE Visit(e)
  <2>1. eval'[e].at \notin {"start", "rules"} /\ eval'[e].todo \subseteq eval[e].todo
    BY <1>3, LoopFrame
  <2>2. eval'[e].at = "create" => eval'[e].rule \in eval[e].todo
    <3>1. PICK q \in eval[e].todo, a \in BOOLEAN :
              eval' = [eval EXCEPT ![e] = [eval[e] EXCEPT
                           !.todo = @ \ {q},
                           !.at = IF a THEN "create" ELSE "loop",
                           !.rule = IF a THEN q ELSE NoRule]]
      BY <1>3, VisitForm DEF TypeOK
    <3>2. QED
      BY <3>1 DEF TypeOK, EvalLocals
  <2>3. QED
    BY <2>1, <2>2 DEF Passed
<1>4. CASE CreateLog(e) \/ Dispatch(e) \/ MarkFailed(e) \/ Finish(e) \/ KillEvaluation(e)
  BY <1>4, LoopFrame DEF Passed
<1>5. QED
  BY <1>1, <1>2, <1>3, <1>4, EvalFrame

\* Every stored alert was logged by an evaluation that has passed its rule.
LogInv == \A log \in logs : Passed(log.by, log.rule) /\ log.at <= clock

\* A step logs alerts of rules that it passes.
LEMMA LogInvStep ==
    ASSUME AlertInv, Next
    PROVE  LogInv'
<1> SUFFICES ASSUME NEW l \in logs' PROVE Passed(l.by, l.rule)' /\ l.at <= clock'
  BY DEF LogInv
<1>1. TypeOK /\ LogInv /\ clock \in Nat /\ clock' \in Nat /\ clock' >= clock
  BY StepFrame DEF AlertInv, LogInv, TypeOK
<1>2. CASE \E k \in logs : Twin(k, l)
  <2>1. PICK k \in logs : Twin(k, l)
    BY <1>2
  <2>2. k.by \in Evaluation /\ k.rule \in Rule /\ k.at \in Nat
    BY <1>1 DEF TypeOK, LogRow
  <2>3. Passed(k.by, k.rule)'
    BY <1>1, <2>2, PassedKept DEF LogInv
  <2>4. QED
    BY <1>1, <2>1, <2>2, <2>3 DEF LogInv, Twin, Passed
<1>3. CASE \E e \in Evaluation : Creates(e) /\ l = NewLog(e)
  <2>1. PICK e \in Evaluation : Creates(e) /\ l = NewLog(e)
    BY <1>3
  <2>2. l.by = e /\ l.rule = eval[e].rule /\ l.at = clock
    BY <2>1 DEF NewLog
  <2>3. eval'[e].at = "dispatch" /\ eval'[e].todo = eval[e].todo
    BY <1>1, <2>1 DEF Creates, CreateLog, TypeOK, EvalLocals
  <2>4. eval[e].rule \notin eval[e].todo
    BY <2>1 DEF AlertInv, EvalInv, Creates, CreateLog
  <2>5. QED
    BY <1>1, <2>2, <2>3, <2>4 DEF Passed
<1>4. QED
  BY <1>1, <1>2, <1>3, StepFrame

\* An evaluation that is about to log an alert is not known to have logged it.
LEMMA NewLogUnknown ==
    ASSUME AlertInv, NEW e \in Evaluation, NEW f \in Evaluation, Creates(f)
    PROVE  AlertOf(NewLog(f)) \notin eval[e].known
<1>1. eval[f].rule \in Rule /\ ~ Passed(f, eval[f].rule)
  BY DEF AlertInv, TypeOK, Creates, CreateLog, Passed
<1>2. <<eval[f].rule, f>> \notin eval[e].known
  BY <1>1 DEF AlertInv, EvalInv
<1>3. QED
  BY <1>2 DEF AlertOf, NewLog

\* The alerts known to an evaluation are out of their cooldown for it.
KnownCooled(e) ==
    \A log \in logs :
        log.rule = eval[e].rule /\ log.incident = eval[e].incident
            /\ AlertOf(log) \in eval[e].known
                => eval[e].now > log.at + Cooldown[log.rule]

\* New rows never disturb what is known of the old ones.
LEMMA KnownCooledKept ==
    ASSUME AlertInv, Next, NEW e \in Evaluation, KnownCooled(e),
           eval'[e].rule = eval[e].rule, eval'[e].incident = eval[e].incident,
           eval'[e].known = eval[e].known, eval'[e].now = eval[e].now
    PROVE  KnownCooled(e)'
<1> SUFFICES ASSUME NEW l \in logs', l.rule = eval[e].rule, l.incident = eval[e].incident,
                    AlertOf(l) \in eval[e].known
             PROVE  eval[e].now > l.at + Cooldown[l.rule]
  BY DEF KnownCooled, AlertOf
<1>1. \A f \in Evaluation : ~ (Creates(f) /\ l = NewLog(f))
  BY NewLogUnknown
<1>2. PICK k \in logs : Twin(k, l)
  BY <1>1, StepFrame DEF AlertInv
<1>3. QED
  BY <1>2 DEF KnownCooled, Twin, AlertOf

\* A fetched rule that matches is still to come, is being alerted, or has an
\* alert inside the window.
Alerted(e, r) ==
    Matches(e, r) =>
        \/ r \in eval[e].todo
        \/ eval[e].at = "create" /\ eval[e].rule = r
        \/ AlertedInWindow(e, r)

Running(e) == eval[e].at \notin {"start", "rules", "aborted", "killed"}

\* An alert in the window stays there while its rule exists.
LEMMA WindowKept ==
    ASSUME TypeOK, Next, NEW e \in Evaluation, NEW r \in stored',
           eval'[e].incident = eval[e].incident, eval'[e].now = eval[e].now,
           AlertedInWindow(e, r)
    PROVE  AlertedInWindow(e, r)'
<1>1. PICK k \in logs : /\ k.rule = r /\ k.incident = eval[e].incident
                        /\ k.at + Cooldown[r] >= eval[e].now
  BY DEF AlertedInWindow
<1>2. PICK l \in logs' : Twin(k, l)
  BY <1>1, StepFrame
<1>3. QED
  BY <1>1, <1>2 DEF AlertedInWindow, Twin

\* What a step of another actor leaves of an evaluation.
LEMMA OthersKeepEval ==
    ASSUME AlertInv, Next, NEW e \in Evaluation, eval'[e] = eval[e]
    PROVE  EvalInv(e)'
<1>1. TypeOK /\ EvalInv(e) /\ eval[e] \in EvalLocals /\ clock \in Nat
      /\ clock' \in Nat /\ clock' >= clock /\ stored' \subseteq stored
  BY StepFrame DEF AlertInv, TypeOK
<1>2. eval[e].now <= clock'
  BY <1>1 DEF EvalInv, EvalLocals
<1>3. ASSUME eval[e].at = "create" PROVE KnownCooled(e)'
  BY <1>1, <1>3, KnownCooledKept DEF EvalInv, KnownCooled
<1>4. ASSUME NEW r \in Rule, NEW f \in Evaluation, <<r, f>> \in eval[e].known PROVE Passed(f, r)'
  BY <1>1, <1>4, PassedKept DEF EvalInv
<1>5. ASSUME Running(e), NEW r \in eval[e].fetched \cap stored' PROVE Alerted(e, r)'
  <2>1. Alerted(e, r)
    BY <1>1, <1>5 DEF EvalInv, Alerted, Running
  <2>2. AlertedInWindow(e, r) => AlertedInWindow(e, r)'
    BY <1>1, <1>5, WindowKept
  <2>3. QED
    BY <2>1, <2>2 DEF Alerted, Matches
<1>6. QED
  BY <1>1, <1>2, <1>3, <1>4, <1>5 DEF EvalInv, KnownCooled, Alerted, Running

\* A step of the evaluation itself, after the fetch of the rules: what is left
\* to show is about the rule the step is about.
LEMMA LoopKeepsEval ==
    ASSUME AlertInv, Next, NEW e \in Evaluation,
           Visit(e) \/ CreateLog(e) \/ Dispatch(e) \/ MarkFailed(e) \/ Finish(e) \/ KillEvaluation(e),
           eval'[e].at = "create" => KnownCooled(e)' /\ eval'[e].rule \in Rule \ eval'[e].todo,
           Running(e)' => \A r \in eval[e].fetched \cap stored' :
                             Alerted(e, r) => Alerted(e, r)',
           Running(e)' => Running(e),
           eval'[e].at = "done" => eval'[e].todo = {}
    PROVE  EvalInv(e)'
<1>1. TypeOK /\ EvalInv(e) /\ eval[e] \in EvalLocals /\ clock \in Nat
      /\ clock' \in Nat /\ clock' >= clock /\ stored' \subseteq stored
  BY StepFrame DEF AlertInv, TypeOK
<1>2. /\ eval'[e].incident = eval[e].incident /\ eval'[e].now = eval[e].now
      /\ eval'[e].known = eval[e].known /\ eval'[e].fetched = eval[e].fetched
  BY <1>1, LoopFrame
<1>3. eval'[e].now <= clock'
  BY <1>1, <1>2 DEF EvalInv, EvalLocals
<1>4. ASSUME NEW r \in Rule, NEW f \in Evaluation, <<r, f>> \in eval[e].known PROVE Passed(f, r)'
  BY <1>1, <1>4, PassedKept DEF EvalInv
<1>5. ASSUME Running(e)', NEW r \in eval[e].fetched \cap stored' PROVE Alerted(e, r)'
  BY <1>1, <1>5 DEF EvalInv, Alerted, Running
<1>6. QED
  BY <1>2, <1>3, <1>4, <1>5 DEF EvalInv, KnownCooled, Alerted, Running

\* Every evaluation keeps its conjunct of the invariant.
LEMMA EvalInvStep ==
    ASSUME AlertInv, Next, NEW e \in Evaluation
    PROVE  EvalInv(e)'
<1>1. /\ TypeOK /\ EvalInv(e) /\ eval[e] \in EvalLocals /\ eval \in [Evaluation -> EvalLocals]
      /\ clock \in Nat /\ Cooldown \in [Rule -> Nat]
  BY AlertAssumption DEF AlertInv, TypeOK
<1>2. CASE eval'[e] = eval[e]
  BY <1>2, OthersKeepEval
<1>3. CASE Fetch(e)
  <2>1. /\ eval'[e].at = "rules" /\ eval'[e].known = eval[e].known
        /\ eval'[e].now = eval[e].now /\ clock' = clock
    BY <1>1, <1>3 DEF Fetch, EvalLocals
  <2>2. ASSUME NEW r \in Rule, NEW f \in Evaluation, <<r, f>> \in eval[e].known PROVE Passed(f, r)'
    BY <1>1, <2>2, PassedKept DEF EvalInv
  <2>3. QED
    BY <1>1, <2>1, <2>2 DEF EvalInv
<1>4. CASE Begin(e)
  <2>1. /\ eval'[e].at = "loop" /\ eval'[e].known = {AlertOf(log) : log \in logs}
        /\ eval'[e].now = clock /\ clock' = clock
        /\ eval'[e].fetched = stored /\ eval'[e].todo = stored
    BY <1>1, <1>4 DEF Begin, EvalLocals
  <2>2. ASSUME NEW r \in Rule, NEW f \in Evaluation, <<r, f>> \in eval'[e].known PROVE Passed(f, r)'
    <3>1. PICK log \in logs : AlertOf(log) = <<r, f>>
      BY <2>1, <2>2
    <3>2. Passed(f, r)
      BY <3>1 DEF AlertInv, AlertOf
    <3>3. QED
      BY <1>1, <3>2, PassedKept
  <2>3. QED
    BY <1>1, <2>1, <2>2 DEF EvalInv
<1>5. CASE Visit(e)
  <2>1. PICK r \in eval[e].todo, a \in BOOLEAN :
          /\ a <=> Matches(e, r) /\ ~ CoolingDown(e, r)
          /\ eval' = [eval EXCEPT ![e] = [eval[e] EXCEPT
                         !.todo = @ \ {r},
                         !.at = IF a THEN "create" ELSE "loop",
                         !.rule = IF a THEN r ELSE NoRule]]
    BY <1>1, <1>5, VisitForm
  <2>2. /\ eval'[e].todo = eval[e].todo \ {r}
        /\ eval'[e].at = IF a THEN "create" ELSE "loop"
        /\ a => eval'[e].rule = r
        /\ eval'[e].incident = eval[e].incident /\ eval'[e].now = eval[e].now
        /\ eval'[e].known = eval[e].known /\ eval'[e].seen = eval[e].seen
        /\ eval[e].at = "loop" /\ UNCHANGED <<stored, logs>> /\ r \in Rule
    BY <1>1, <1>5, <2>1 DEF EvalLocals, Visit
  <2>3. ASSUME a PROVE KnownCooled(e)'
    <3>1. \A log \in logs : log.rule = r /\ log.incident = eval[e].incident =>
                                ~ (log.at + Cooldown[r] >= eval[e].now)
      BY <2>1, <2>3 DEF CoolingDown
    <3>2. \A log \in logs : log.at \in Nat /\ log.rule \in Rule
      BY <1>1 DEF TypeOK, LogRow
    <3>3. eval[e].now \in Nat
      BY <1>1 DEF EvalLocals
    <3>4. QED
      BY <1>1, <2>2, <2>3, <3>1, <3>2, <3>3 DEF KnownCooled
  <2>4. ASSUME NEW q \in stored', Alerted(e, q) PROVE Alerted(e, q)'
    <3>1. AlertedInWindow(e, q) => AlertedInWindow(e, q)'
      BY <2>2 DEF AlertedInWindow
    <3>2. CASE q # r
      BY <2>2, <2>4, <3>1, <3>2 DEF Alerted, Matches
    <3>3. CASE q = r
      BY <2>1, <2>2, <3>1, <3>3 DEF Alerted, Matches, CoolingDown, AlertedInWindow
    <3>4. QED
      BY <3>2, <3>3
  <2>5. QED
    BY <1>5, <2>2, <2>3, <2>4, LoopKeepsEval DEF Running
<1>6. CASE CreateLog(e)
  <2>1. eval'[e].at = (IF eval[e].rule \in stored THEN "dispatch" ELSE "aborted")
    BY <1>1, <1>6 DEF CreateLog, EvalLocals
  <2>2. /\ eval'[e].incident = eval[e].incident /\ eval'[e].now = eval[e].now
        /\ eval'[e].seen = eval[e].seen /\ eval'[e].todo = eval[e].todo
        /\ eval[e].at = "create" /\ UNCHANGED stored
    BY <1>1, <1>6, LoopFrame DEF CreateLog
  <2>3. ASSUME Running(e)', NEW q \in stored', Alerted(e, q) PROVE Alerted(e, q)'
    <3>1. AlertedInWindow(e, q) => AlertedInWindow(e, q)'
      BY <1>1, <2>2, <2>3, WindowKept
    <3>2. CASE q # eval[e].rule
      BY <2>2, <2>3, <3>1, <3>2 DEF Alerted, Matches
    <3>3. CASE q = eval[e].rule
      <4>1. NewLog(e) \in logs'
        BY <1>6, <2>1, <2>3 DEF CreateLog, NewLog, Running
      <4>2. eval[e].now <= clock /\ eval[e].now \in Nat /\ q \in Rule
        BY <1>1, <2>2, <2>3 DEF EvalInv, EvalLocals, TypeOK
      <4>3. clock + Cooldown[q] >= eval[e].now
        BY <1>1, <4>2
      <4>4. AlertedInWindow(e, q)'
        BY <2>2, <3>3, <4>1, <4>3 DEF AlertedInWindow, NewLog
      <4>5. QED
        BY <4>4 DEF Alerted
    <3>4. QED
      BY <3>2, <3>3
  <2>4. QED
    BY <1>6, <2>1, <2>2, <2>3, LoopKeepsEval DEF Running
<1>7. CASE Dispatch(e) \/ MarkFailed(e) \/ Finish(e) \/ KillEvaluation(e)
  <2>1. /\ eval'[e].incident = eval[e].incident /\ eval'[e].now = eval[e].now
        /\ eval'[e].seen = eval[e].seen /\ eval'[e].todo = eval[e].todo
        /\ eval'[e].at # "create"
    BY <1>1, <1>7, LoopFrame
  <2>2. /\ eval'[e].at = "done" => eval[e].todo = {}
        /\ Running(e)' => Running(e) /\ eval[e].at # "create"
    <3>1. CASE Dispatch(e)
      BY <1>1, <3>1 DEF Dispatch, EvalLocals, Running
    <3>2. CASE MarkFailed(e)
      BY <1>1, <3>2 DEF MarkFailed, EvalLocals, Running
    <3>3. CASE Finish(e) \/ KillEvaluation(e)
      BY <1>1, <3>3 DEF Finish, KillEvaluation, EvalLocals, Running
    <3>4. QED
      BY <1>7, <3>1, <3>2, <3>3
  <2>3. ASSUME Running(e)', NEW q \in stored', Alerted(e, q) PROVE Alerted(e, q)'
    <3>1. AlertedInWindow(e, q) => AlertedInWindow(e, q)'
      BY <1>1, <2>1, <2>3, WindowKept
    <3>2. QED
      BY <2>1, <2>2, <2>3, <3>1 DEF Alerted, Matches
  <2>4. QED
    BY <1>7, <2>1, <2>2, <2>3, LoopKeepsEval
<1>8. QED
  BY <1>1, <1>2, <1>3, <1>4, <1>5, <1>6, <1>7, EvalFrame

\* No alert is logged inside the cooldown of one its evaluation knew.
LEMMA CooldownStep ==
    ASSUME AlertInv, TypeOK', Next
    PROVE  CooldownOfKnown'
<1> SUFFICES ASSUME NEW l \in logs', NEW m \in logs', SameAlert(l, m),
                    AlertOf(l) \in eval'[m.by].known
             PROVE  m.at > l.at + Cooldown[l.rule]
  BY DEF CooldownOfKnown, SameAlert, AlertOf
<1>1. TypeOK /\ eval \in [Evaluation -> EvalLocals] /\ clock \in Nat
      /\ Cooldown \in [Rule -> Nat] /\ l \in LogRow /\ m \in LogRow
  BY AlertAssumption DEF AlertInv, TypeOK
<1>2. CASE \E k \in logs : Twin(k, m)
  <2>1. PICK k \in logs : Twin(k, m)
    BY <1>2
  <2>2. k.by \in Evaluation /\ eval[k.by].at \notin {"start", "rules"}
    BY <1>1 DEF AlertInv, Passed, TypeOK, LogRow
  <2>3. eval'[k.by].known = eval[k.by].known
    BY <1>1, <2>2, EvalFrame, LoopFrame DEF Fetch, Begin
  <2>4. \A f \in Evaluation : ~ (Creates(f) /\ l = NewLog(f))
    BY <2>1, <2>2, <2>3, NewLogUnknown DEF Twin
  <2>5. PICK j \in logs : Twin(j, l)
    BY <1>1, <2>4, StepFrame
  <2>6. SameAlert(j, k) /\ AlertOf(j) \in eval[k.by].known
    BY <2>1, <2>3, <2>5 DEF Twin, SameAlert, AlertOf
  <2>7. k.at > j.at + Cooldown[j.rule]
    BY <2>6 DEF AlertInv, CooldownOfKnown
  <2>8. QED
    BY <2>1, <2>5, <2>7 DEF Twin
<1>3. CASE \E e \in Evaluation : Creates(e) /\ m = NewLog(e)
  <2>1. PICK e \in Evaluation : Creates(e) /\ m = NewLog(e)
    BY <1>3
  <2>2. /\ m.by = e /\ m.at = clock /\ m.rule = eval[e].rule /\ m.incident = eval[e].incident
        /\ eval[e].at = "create" /\ CreateLog(e)
    BY <2>1 DEF NewLog, Creates, CreateLog
  <2>3. eval'[e].known = eval[e].known
    BY <1>1, <2>2, LoopFrame
  <2>4. \A f \in Evaluation : ~ (Creates(f) /\ l = NewLog(f))
    BY <2>2, <2>3, NewLogUnknown
  <2>5. PICK j \in logs : Twin(j, l)
    BY <1>1, <2>4, StepFrame
  <2>6. /\ j.rule = eval[e].rule /\ j.incident = eval[e].incident
        /\ AlertOf(j) \in eval[e].known
    BY <2>2, <2>3, <2>5 DEF Twin, SameAlert, AlertOf
  <2>7. EvalInv(e)
    BY DEF AlertInv
  <2>8. eval[e].now > j.at + Cooldown[j.rule] /\ eval[e].now <= clock
    BY <2>2, <2>6, <2>7 DEF EvalInv
  <2>9. j.at \in Nat /\ j.rule \in Rule /\ eval[e].now \in Nat
    BY <1>1 DEF TypeOK, LogRow, EvalLocals
  <2>10. clock > j.at + Cooldown[j.rule]
    BY <1>1, <2>8, <2>9
  <2>11. QED
    BY <2>2, <2>5, <2>10 DEF Twin
<1>4. QED
  BY <1>1, <1>2, <1>3, StepFrame

\* The invariant is inductive.
LEMMA AlertInvStep == AlertInv /\ [Next]_alertVars => AlertInv'
<1> SUFFICES ASSUME AlertInv, [Next]_alertVars PROVE AlertInv'
  OBVIOUS
<1>1. TypeOK'
  BY AlertTypes DEF AlertInv
<1>2. CASE Next
  <2>1. LogInv' /\ CooldownOfKnown' /\ \A e \in Evaluation : EvalInv(e)'
    BY <1>1, <1>2, LogInvStep, CooldownStep, EvalInvStep
  <2>2. QED
    BY <1>1, <2>1 DEF AlertInv, LogInv
<1>3. CASE UNCHANGED alertVars
  BY <1>1, <1>3 DEF alertVars, AlertInv, EvalInv, Passed, Matches, AlertedInWindow, CooldownOfKnown
<1>4. QED
  BY <1>2, <1>3

\* The invariant holds in every reachable state.
THEOREM AlertSafe == Spec => []AlertInv
<1>1. Init => AlertInv
  BY AlertAssumption DEF Init, AlertInv, TypeOK, EvalLocals, EvalInv, CooldownOfKnown
<1>2. QED
  BY <1>1, AlertInvStep, PTL DEF Spec

\* An evaluation repeats no alert that was logged before it began, until the
\* rule's cooldown is over (services.py:51-61).
THEOREM KnownAlertsNotRepeated == Spec => []CooldownOfKnown
<1>1. AlertInv => CooldownOfKnown
  BY DEF AlertInv
<1>2. QED
  BY <1>1, AlertSafe, PTL

\* After an evaluation that ran to its end every matching rule that still
\* exists has an alert in its window, whatever deliveries failed
\* (services.py:53-76).
THEOREM MatchesAlerted == Spec => []EveryMatchAlerted
<1>1. AlertInv => EveryMatchAlerted
  BY DEF AlertInv, EvalInv, EveryMatchAlerted
<1>2. QED
  BY <1>1, AlertSafe, PTL

\* DeliveryInv, one step per action: a row says dispatched from its creation
\* to its delivery, or to the save of its failure.
LEMMA DeliveryStep ==
    ASSUME AlertInv, DeliveryInv, [Next]_alertVars
    PROVE  DeliveryInv'
<1>1. /\ TypeOK /\ eval \in [Evaluation -> EvalLocals] /\ sent \subseteq sent'
      /\ \A log \in logs : log \in LogRow /\ log.by \in Evaluation /\ Passed(log.by, log.rule)
  BY AlertTypes DEF AlertInv, TypeOK, LogRow, Next, EvalStep, Fetch, Begin, Visit, CreateLog,
                    Dispatch, MarkFailed, Finish, KillEvaluation, DropRule, ChangeIncident, Tick, alertVars
<1>2. ASSUME NEW e \in Evaluation, EvalStep(e) PROVE DeliveryInv'
  <2> SUFFICES ASSUME NEW log \in logs', log.status = "dispatched"
               PROVE  \/ AlertOf(log) \in sent'
                      \/ /\ eval'[log.by].at \in {"dispatch", "failing"}
                         /\ eval'[log.by].rule = log.rule
                      \/ eval'[log.by].at = "killed"
    BY DEF DeliveryInv, AlertOf
  <2>1. CASE Fetch(e) \/ Begin(e) \/ Visit(e)
    <3>1. log \in logs /\ eval[e].at \in {"start", "rules", "loop"}
          /\ \A f \in Evaluation \ {e} : eval'[f] = eval[f]
      BY <1>1, <2>1 DEF Fetch, Begin, Visit
    <3>2. QED
      BY <1>1, <3>1 DEF DeliveryInv, Passed
  <2>2. CASE CreateLog(e)
    <3>1. CASE log \in logs
      <4>1. eval[e].at = "create" /\ \A f \in Evaluation \ {e} : eval'[f] = eval[f]
        BY <1>1, <2>2 DEF CreateLog
      <4>2. QED
        BY <1>1, <3>1, <4>1 DEF DeliveryInv
    <3>2. CASE log \notin logs
      <4>1. log.by = e /\ log.rule = eval[e].rule /\ eval' = [eval EXCEPT ![e].at = "dispatch"]
        BY <2>2, <3>2 DEF CreateLog
      <4>2. eval'[e].at = "dispatch" /\ eval'[e].rule = eval[e].rule
        BY <1>1, <4>1 DEF EvalLocals
      <4>3. QED
        BY <4>1, <4>2
    <3>3. QED
      BY <3>1, <3>2
  <2>3. CASE Dispatch(e)
    <3>1. /\ log \in logs /\ eval[e].at = "dispatch"
          /\ \A f \in Evaluation \ {e} : eval'[f] = eval[f]
          /\ \/ <<eval[e].rule, e>> \in sent'
             \/ eval'[e].at = "failing" /\ eval'[e].rule = eval[e].rule
      BY <1>1, <2>3 DEF Dispatch, EvalLocals
    <3>2. QED
      BY <1>1, <3>1 DEF DeliveryInv, AlertOf
  <2>4. CASE MarkFailed(e)
    <3>1. PICK k \in logs : log = IF IsCurrent(k, e) THEN [k EXCEPT !.status = "failed"] ELSE k
      BY <2>4 DEF MarkFailed
    <3>2. log = k /\ ~ IsCurrent(log, e)
      BY <1>1, <3>1 DEF LogRow
    <3>3. eval[e].at = "failing" /\ \A f \in Evaluation \ {e} : eval'[f] = eval[f]
      BY <1>1, <2>4 DEF MarkFailed
    <3>4. QED
      BY <1>1, <3>2, <3>3 DEF DeliveryInv, IsCurrent, AlertOf
  <2>5. CASE Finish(e) \/ KillEvaluation(e)
    <3>1. /\ log \in logs /\ \A f \in Evaluation \ {e} : eval'[f] = eval[f]
          /\ eval[e].at = "loop" \/ eval'[e].at = "killed"
          /\ eval[e].at # "killed"
      BY <1>1, <2>5 DEF Finish, KillEvaluation, EvalLocals
    <3>2. QED
      BY <1>1, <3>1 DEF DeliveryInv
  <2>6. QED
    BY <1>2, <2>1, <2>2, <2>3, <2>4, <2>5 DEF EvalStep
<1>3. ASSUME NEW r \in Rule, DropRule(r) PROVE DeliveryInv'
  BY <1>3 DEF DropRule, DeliveryInv, AlertOf
<1>4. CASE UNCHANGED <<logs, sent, eval>>
  BY <1>4 DEF DeliveryInv, AlertOf
<1>5. QED
  BY <1>2, <1>3, <1>4 DEF Next, ChangeIncident, Tick, alertVars

\* The row of an alert says dispatched only if the alert reached its channel,
\* its evaluation is still at it, or was killed (services.py:61-75).
THEOREM RowsFaithful == Spec => []LogFaithful
<1>1. Init => DeliveryInv
  BY DEF Init, DeliveryInv
<1>2. DeliveryInv => LogFaithful
  BY DEF DeliveryInv, LogFaithful
<1>3. QED
  BY <1>1, <1>2, AlertSafe, DeliveryStep, PTL DEF Spec

-----------------------------------------------------------------------------
(* Requests *)


\* A rule is loaded before it is saved or sent, and only a POST inserts, only a
\* PATCH saves.
InOrder(kind, plan) ==
    /\ plan \in Seq(Statement) /\ plan # <<>>
    /\ \A i \in 1..Len(plan) :
          /\ plan[i] = "insert" => kind = "create"
          /\ plan[i] = "save" => kind = "patch"
          /\ plan[i] \in {"save", "route", "post"} => Precedes(plan, {"load", "fetch"}, i)

\* A pair and a triple are sequences.
LEMMA Pair == ASSUME NEW S, NEW a \in S, NEW b \in S PROVE <<a, b>> \in Seq(S)
OBVIOUS

\* So is a triple.
LEMMA Triple == ASSUME NEW S, NEW a \in S, NEW b \in S, NEW c \in S PROVE <<a, b, c>> \in Seq(S)
OBVIOUS

\* The endpoints' statements are in that order.
LEMMA Plans == \A kind \in DOMAIN RulesPlan : InOrder(kind, RulesPlan[kind])
<1>1. InOrder("create", CreateRule)
  <2>0. CreateRule \in Seq(Statement)
    BY Pair, Triple DEF CreateRule, Statement
  <2>1. Len(CreateRule) = 2
    BY DEF CreateRule
  <2>2. CreateRule[1] = "permit" /\ CreateRule[2] = "insert"
    BY DEF CreateRule
  <2>3. \A i \in 1..Len(CreateRule) : i = 1 \/ i = 2
    BY <2>1
  <2>4. QED
    BY <2>0, <2>1, <2>2, <2>3 DEF InOrder, Precedes
<1>2. InOrder("patch", EditRule)
  <2>0. EditRule \in Seq(Statement)
    BY Pair, Triple DEF EditRule, Statement
  <2>1. Len(EditRule) = 3
    BY DEF EditRule
  <2>2. EditRule[1] = "permit" /\ EditRule[2] = "load" /\ EditRule[3] = "save"
    BY DEF EditRule
  <2>3. \A i \in 1..Len(EditRule) : i = 1 \/ i = 2 \/ i = 3
    BY <2>1
  <2>4. QED
    BY <2>0, <2>1, <2>2, <2>3 DEF InOrder, Precedes
<1>3. InOrder("delete", DeleteRule)
  <2>0. DeleteRule \in Seq(Statement)
    BY Pair, Triple DEF DeleteRule, Statement
  <2>1. Len(DeleteRule) = 3
    BY DEF DeleteRule
  <2>2. DeleteRule[1] = "permit" /\ DeleteRule[2] = "load" /\ DeleteRule[3] = "delete"
    BY DEF DeleteRule
  <2>3. \A i \in 1..Len(DeleteRule) : i = 1 \/ i = 2 \/ i = 3
    BY <2>1
  <2>4. QED
    BY <2>0, <2>1, <2>2, <2>3 DEF InOrder, Precedes
<1>4. InOrder("connect", ConnectSlack)
  <2>0. ConnectSlack \in Seq(Statement)
    BY Pair, Triple DEF ConnectSlack, Statement
  <2>1. Len(ConnectSlack) = 3
    BY DEF ConnectSlack
  <2>2. ConnectSlack[1] = "permit" /\ ConnectSlack[2] = "exchange" /\ ConnectSlack[3] = "store"
    BY DEF ConnectSlack
  <2>3. \A i \in 1..Len(ConnectSlack) : i = 1 \/ i = 2 \/ i = 3
    BY <2>1
  <2>4. QED
    BY <2>0, <2>1, <2>2, <2>3 DEF InOrder, Precedes
<1>5. InOrder("status", SlackStatus)
  <2>0. SlackStatus \in Seq(Statement)
    BY Pair, Triple DEF SlackStatus, Statement
  <2>1. Len(SlackStatus) = 2
    BY DEF SlackStatus
  <2>2. SlackStatus[1] = "permit" /\ SlackStatus[2] = "status"
    BY DEF SlackStatus
  <2>3. \A i \in 1..Len(SlackStatus) : i = 1 \/ i = 2
    BY <2>1
  <2>4. QED
    BY <2>0, <2>1, <2>2, <2>3 DEF InOrder, Precedes
<1>6. InOrder("deliver", Delivery)
  <2>0. Delivery \in Seq(Statement)
    BY Pair, Triple DEF Delivery, Statement
  <2>1. Len(Delivery) = 3
    BY DEF Delivery
  <2>2. Delivery[1] = "fetch" /\ Delivery[2] = "route" /\ Delivery[3] = "post"
    BY DEF Delivery
  <2>3. \A i \in 1..Len(Delivery) : i = 1 \/ i = 2 \/ i = 3
    BY <2>1
  <2>4. Precedes(Delivery, {"load", "fetch"}, 2) /\ Precedes(Delivery, {"load", "fetch"}, 3)
    BY <2>2 DEF Precedes
  <2>5. QED
    BY <2>0, <2>1, <2>2, <2>3, <2>4 DEF InOrder
<1>7. QED
  BY <1>1, <1>2, <1>3, <1>4, <1>5, <1>6 DEF RulesPlan

\* A body's fields, on a copy or for a new rule, make a row.
LEMMA MergedIsRow ==
    ASSUME NEW body, NEW row,
           \/ body \in NewRule
           \/ body \in Patch /\ row \in RuleRow
    PROVE  Merged(row, body) \in RuleRow
<1> USE AlertRulesAssumption
<1>1. body.channel # {} => (CHOOSE c \in body.channel : TRUE) \in Channel
  BY DEF RuleRow
<1>2. body.target # {} => (CHOOSE t \in body.target : TRUE) \in Target
  BY DEF RuleRow
<1>3. body \in NewRule => body.channel # {} /\ body.target # {}
  OBVIOUS
<1>4. QED
  BY <1>1, <1>2, <1>3 DEF Merged, RuleRow

\* A request that executes its statement, holding l, holds what suits afterwards.
LEMMA Popped ==
    ASSUME NEW urls, NEW l \in RulesRequest, HoldsSuiting(l, urls), l.todo # <<>>,
           l.row = Nothing => Head(l.todo) \notin {"load", "fetch"}
    PROVE  LET m == [l EXCEPT !.todo = Tail(@), !.state = IF Len(l.todo) = 1 THEN "ok" ELSE @]
           IN  m \in RulesRequest /\ HoldsSuiting(m, urls)
<1> DEFINE m == [l EXCEPT !.todo = Tail(@), !.state = IF Len(l.todo) = 1 THEN "ok" ELSE @]
<1>1. /\ l.todo \in Seq(Statement) /\ Len(l.todo) \in Nat \ {0}
      /\ Tail(l.todo) \in Seq(Statement) /\ Len(Tail(l.todo)) = Len(l.todo) - 1
      /\ \A i \in 1..Len(Tail(l.todo)) : Tail(l.todo)[i] = l.todo[i + 1]
      /\ Head(l.todo) = l.todo[1]
  BY DEF RulesRequest
<1>2. m \in RulesRequest
  BY <1>1 DEF RulesRequest, RequestState
<1>3. m.row = l.row /\ m.body = l.body /\ m.posted = l.posted /\ m.todo = Tail(l.todo)
  BY DEF RulesRequest
<1>4. ASSUME NEW i \in 1..Len(m.todo), m.row = Nothing, m.todo[i] \in {"save", "route", "post"}
      PROVE  Precedes(m.todo, {"load", "fetch"}, i)
  <2>1. i + 1 \in 1..Len(l.todo) /\ l.todo[i + 1] = m.todo[i]
    BY <1>1, <1>3
  <2>2. PICK j \in 1..i : l.todo[j] \in {"load", "fetch"}
    BY <1>3, <1>4, <2>1 DEF HoldsSuiting, Precedes
  <2>3. j # 1
    BY <1>1, <1>3, <1>4, <2>2
  <2>4. i \in Nat /\ j \in Nat /\ j - 1 \in 1..(i - 1) /\ j - 1 \in 1..Len(m.todo)
    BY <1>1, <1>3, <2>2, <2>3
  <2>6. m.todo[j - 1] = l.todo[(j - 1) + 1]
    BY <1>1, <1>3, <2>4
  <2>7. m.todo[j - 1] \in {"load", "fetch"}
    BY <2>2, <2>4, <2>6
  <2>5. QED
    BY <2>4, <2>7 DEF Precedes
<1>5. ASSUME NEW i \in 1..Len(m.todo)
      PROVE  /\ m.todo[i] = "insert" => m.body \in NewRule
             /\ m.todo[i] = "save" => m.body \in Patch
  BY <1>1, <1>3 DEF HoldsSuiting
<1>6. QED
  BY <1>2, <1>3, <1>4, <1>5 DEF HoldsSuiting

\* A request that goes on, or ends, leaves every request as the invariant wants it.
RequestsHold == req \in [Request -> RulesRequest] /\ \A q \in Request : HoldsSuiting(req[q], vouched)

\* A URL that was found public once still was later.
LEMMA MoreFits ==
    ASSUME NEW urls, NEW more, urls \subseteq more, NEW row, Fits(row, urls)
    PROVE  Fits(row, more)
BY DEF Fits

\* A row that passes validation is vouched for by what the validation found.
LEMMA SuitsVouched ==
    ASSUME NEW row, Suits(row), NEW urls, Vouches(row) \subseteq urls
    PROVE  Fits(row, urls)
BY DEF Suits, Vouches, Fits

\* So what a request holds still suits.
LEMMA StillHolds ==
    ASSUME NEW urls, NEW more, urls \subseteq more, NEW l, HoldsSuiting(l, urls)
    PROVE  HoldsSuiting(l, more)
<1>1. l.row # Nothing => Fits(l.row, more)
  BY MoreFits DEF HoldsSuiting
<1>2. QED
  BY <1>1 DEF HoldsSuiting

\* A request goes on with what suits.
LEMMA Continues ==
    ASSUME RequestsHold, vouched \subseteq vouched', NEW r \in Request, NEW l \in RulesRequest,
           HoldsSuiting(l, vouched), l.todo # <<>>,
           l.row = Nothing => Head(l.todo) \notin {"load", "fetch"}, Continue(r, l)
    PROVE  RequestsHold'
<1> DEFINE m == [l EXCEPT !.todo = Tail(@), !.state = IF Len(l.todo) = 1 THEN "ok" ELSE @]
<1>1. m \in RulesRequest /\ HoldsSuiting(m, vouched)
  BY Popped
<1>2. req' = [req EXCEPT ![r] = m]
  BY DEF Continue
<1> HIDE DEF m
<1>3. HoldsSuiting(m, vouched')
  BY <1>1, StillHolds
<1>4. \A q \in Request : HoldsSuiting(req[q], vouched')
  BY StillHolds DEF RequestsHold
<1>5. req' \in [Request -> RulesRequest] /\ \A q \in Request : req'[q] = m \/ req'[q] = req[q]
  BY <1>1, <1>2 DEF RequestsHold
<1>6. QED
  BY <1>3, <1>4, <1>5 DEF RequestsHold

\* A request ends.
LEMMA Ends ==
    ASSUME RequestsHold, vouched \subseteq vouched', NEW r \in Request, NEW state \in RequestState,
           End(r, state)
    PROVE  RequestsHold'
<1> DEFINE m == [req[r] EXCEPT !.state = state]
<1>1. req' = [req EXCEPT ![r] = m]
  BY DEF End
<1>2. req[r] \in RulesRequest
  BY DEF RequestsHold
<1>3. /\ m \in RulesRequest /\ m.row = req[r].row /\ m.posted = req[r].posted
      /\ m.todo = req[r].todo /\ m.body = req[r].body
  BY <1>2 DEF RulesRequest
<1>4. HoldsSuiting(m, vouched)
  BY <1>3 DEF RequestsHold, HoldsSuiting
<1> HIDE DEF m
<1>5. HoldsSuiting(m, vouched') /\ \A q \in Request : HoldsSuiting(req[q], vouched')
  BY <1>4, StillHolds DEF RequestsHold
<1>6. req' \in [Request -> RulesRequest] /\ \A q \in Request : req'[q] = m \/ req'[q] = req[q]
  BY <1>1, <1>3 DEF RequestsHold
<1>7. QED
  BY <1>5, <1>6 DEF RequestsHold

\* The host of a URL comes to resolve to other addresses, or nothing happens.
LEMMA NobodyMoves ==
    ASSUME RequestsHold, vouched' = vouched, req' = req
    PROVE  RequestsHold'
BY DEF RequestsHold

\* What a request about to execute a statement holds.
LEMMA Holding ==
    ASSUME RequestsHold, NEW r \in Request, NEW s, At(r, s)
    PROVE  /\ req[r] \in RulesRequest /\ HoldsSuiting(req[r], vouched)
           /\ req[r].todo # <<>> /\ Head(req[r].todo) = s
           /\ s = "insert" => req[r].body \in NewRule
           /\ s = "save" => req[r].body \in Patch
           /\ s \in {"save", "route", "post"} => req[r].row \in RuleRow /\ Fits(req[r].row, vouched)
<1> DEFINE l == req[r]
<1>1. l \in RulesRequest /\ HoldsSuiting(l, vouched) /\ l.todo # <<>> /\ Head(l.todo) = s
  BY DEF RequestsHold, At
<1>2. 1 \in 1..Len(l.todo) /\ l.todo[1] = s
  BY <1>1 DEF RulesRequest
<1>3. ~ Precedes(l.todo, {"load", "fetch"}, 1)
  BY DEF Precedes
<1>4. QED
  BY <1>1, <1>2, <1>3 DEF HoldsSuiting, RulesRequest

\* The invariant holds of the first states.
LEMMA InitHolds == RulesInit => RulesInv
<1> SUFFICES ASSUME RulesInit PROVE RulesInv
  OBVIOUS
<1> USE AlertRulesAssumption
<1>1. PICK row \in Creatable : /\ rules = [o \in Origin |-> IF o = Earlier THEN row ELSE Nothing]
                               /\ vouched = Vouches(row)
  BY DEF RulesInit
<1>2. row \in RuleRow /\ Fits(row, vouched) /\ vouched \subseteq Url
  BY <1>1, MergedIsRow, SuitsVouched DEF Creatable, Vouches, PublicUrls
<1>3. /\ rules \in [Origin -> RuleRow \cup {Nothing}]
      /\ \A o \in Origin : rules[o] # Nothing => Fits(rules[o], vouched)
  BY <1>1, <1>2 DEF Origin
<1>4. RulesLocals \in RulesRequest /\ HoldsSuiting(RulesLocals, vouched)
  BY DEF RulesLocals, RulesRequest, HoldsSuiting, RequestState, RulesPlan, Origin
<1>5. slack \in Origin \cup {Nothing}
  BY DEF RulesInit, Origin
<1>6. QED
  BY <1>2, <1>3, <1>4, <1>5 DEF RulesInit, RulesInv, AlertRulesTypeOK

\* Every step keeps it.
LEMMA StepHolds == RulesInv /\ [RulesNext]_rulesVars => RulesInv'
<1> SUFFICES ASSUME RulesInv, [RulesNext]_rulesVars PROVE RulesInv'
  OBVIOUS
<1> USE AlertRulesAssumption
<1> DEFINE RowsHold == /\ rules \in [Origin -> RuleRow \cup {Nothing}] /\ slack \in Origin \cup {Nothing}
                       /\ hosts \in Resolutions /\ vouched \subseteq Url
                       /\ \A o \in Origin : rules[o] # Nothing => Fits(rules[o], vouched)
<1>0. vouched \subseteq vouched'
  BY DEF RulesNext, rulesVars, DnsChanges, Arrive, Permit, InsertRule, LoadRule, SaveRule, RemoveRule,
         ExchangeCode, StoreToken, ReadStatus, Route, PostToRoom, Post, Kill
<1>1. RowsHold /\ RequestsHold /\ vouched \subseteq vouched'
  BY <1>0 DEF RulesInv, AlertRulesTypeOK, RequestsHold
<1>2. SUFFICES RowsHold' /\ RequestsHold'
  BY DEF RulesInv, AlertRulesTypeOK, RequestsHold
<1>3. UNCHANGED <<rules, slack, hosts, vouched>> => RowsHold'
  BY <1>1
<1>4. CASE UNCHANGED rulesVars
  BY <1>1, <1>3, <1>4, NobodyMoves DEF rulesVars
<1>19. CASE DnsChanges
  <2>1. RowsHold'
    BY <1>1, <1>19 DEF DnsChanges
  <2>2. QED
    BY <1>1, <1>19, <2>1, NobodyMoves DEF DnsChanges
<1>5. ASSUME NEW r \in Request, Arrive(r) PROVE RowsHold' /\ RequestsHold'
  <2>1. PICK kind \in DOMAIN RulesPlan, body \in NewRule \cup Patch \cup {Nothing}, id \in Origin :
          /\ body \in (CASE kind = "create" -> NewRule [] kind = "patch" -> Patch [] OTHER -> {Nothing})
          /\ req' = [req EXCEPT ![r] =
                [RulesLocals EXCEPT !.kind = kind, !.state = "running", !.todo = RulesPlan[kind],
                    !.before = {q \in Request : req[q].state \in Ended}, !.id = id, !.body = body]]
    BY <1>5 DEF Arrive, Origin
  <2> DEFINE l == [RulesLocals EXCEPT !.kind = kind, !.state = "running", !.todo = RulesPlan[kind],
                    !.before = {q \in Request : req[q].state \in Ended}, !.id = id, !.body = body]
  <2>2. InOrder(kind, RulesPlan[kind])
    BY Plans
  <2>3. l \in RulesRequest
    BY <2>2 DEF InOrder, RulesLocals, RulesRequest, RequestState
  <2>4. l.row = Nothing /\ ~ l.posted /\ l.todo = RulesPlan[kind] /\ l.body = body
    BY DEF RulesLocals
  <2>5. (kind = "create" => body \in NewRule) /\ (kind = "patch" => body \in Patch)
    BY <2>1
  <2>6. HoldsSuiting(l, vouched)
    BY <2>2, <2>4, <2>5 DEF HoldsSuiting, InOrder
  <2>7. req' = [req EXCEPT ![r] = l]
    BY <2>1
  <2>10. vouched' = vouched
    BY <1>5 DEF Arrive
  <2> HIDE DEF l
  <2>8. RequestsHold'
    BY <1>1, <2>3, <2>6, <2>7, <2>10 DEF RequestsHold
  <2>9. QED
    BY <1>3, <1>5, <2>8 DEF Arrive
<1>6. ASSUME NEW r \in Request, Permit(r) PROVE RowsHold' /\ RequestsHold'
  <2>1. RequestsHold'
    BY <1>1, <1>6, Holding, Continues, Ends DEF Permit, RequestState
  <2>2. QED
    BY <1>3, <1>6, <2>1 DEF Permit
<1>7. ASSUME NEW r \in Request, InsertRule(r) PROVE RowsHold' /\ RequestsHold'
  <2>1. At(r, "insert")
    BY <1>7 DEF InsertRule
  <2>2. RequestsHold'
    BY <1>1, <1>7, <2>1, Holding, Continues, Ends DEF InsertRule, RequestState
  <2> DEFINE row == Merged(Nothing, req[r].body)
  <2>3. row \in RuleRow
    BY <1>1, <2>1, Holding, MergedIsRow
  <2>4. RowsHold'
    <3>1. CASE Suits(row)
      <4>1. rules' = [rules EXCEPT ![r] = row] /\ vouched' = vouched \cup Vouches(row)
            /\ UNCHANGED <<slack, hosts>>
        BY <1>7, <3>1 DEF InsertRule
      <4>2. Fits(row, vouched') /\ vouched' \subseteq Url
        BY <1>1, <3>1, <4>1, SuitsVouched DEF Vouches, PublicUrls
      <4>3. \A o \in Origin : rules[o] # Nothing => Fits(rules[o], vouched')
        BY <1>1, MoreFits
      <4> HIDE DEF row
      <4>4. QED
        BY <1>1, <2>3, <4>1, <4>2, <4>3 DEF Origin
    <3>2. CASE ~ Suits(row)
      BY <1>3, <1>7, <3>2 DEF InsertRule
    <3>3. QED
      BY <3>1, <3>2
  <2>5. QED
    BY <2>2, <2>4
<1>8. ASSUME NEW r \in Request, LoadRule(r) PROVE RowsHold' /\ RequestsHold'
  <2>1. CASE End(r, "refused")
    BY <1>1, <1>3, <1>8, <2>1, Ends DEF LoadRule, RequestState
  <2>2. ASSUME NEW row \in RuleFor(req[r].id), Continue(r, [req[r] EXCEPT !.row = row])
        PROVE  RowsHold' /\ RequestsHold'
    <3> DEFINE l == [req[r] EXCEPT !.row = row]
    <3>1. req[r] \in RulesRequest /\ HoldsSuiting(req[r], vouched) /\ req[r].todo # <<>>
      BY <1>1, <1>8, Holding DEF LoadRule
    <3>2. row \in RuleRow /\ Fits(row, vouched) /\ row # Nothing
      BY <1>1, <2>2, <3>1 DEF RuleFor, RulesRequest
    <3>3. /\ l \in RulesRequest /\ l.row = row /\ l.todo = req[r].todo /\ l.body = req[r].body
          /\ l.posted = req[r].posted
      BY <3>1, <3>2 DEF RulesRequest
    <3>4. HoldsSuiting(l, vouched)
      BY <3>1, <3>2, <3>3 DEF HoldsSuiting
    <3>5. RequestsHold'
      BY <1>1, <2>2, <3>1, <3>2, <3>3, <3>4, Continues
    <3>6. QED
      BY <1>3, <1>8, <3>5 DEF LoadRule
  <2>3. QED
    BY <1>8, <2>1, <2>2 DEF LoadRule
<1>9. ASSUME NEW r \in Request, SaveRule(r) PROVE RowsHold' /\ RequestsHold'
  <2>1. At(r, "save")
    BY <1>9 DEF SaveRule
  <2>2. RequestsHold'
    BY <1>1, <1>9, <2>1, Holding, Continues, Ends DEF SaveRule, RequestState
  <2> DEFINE row == Merged(req[r].row, req[r].body)
  <2>3. row \in RuleRow /\ req[r].id \in Origin
    BY <1>1, <2>1, Holding, MergedIsRow DEF RulesRequest
  <2>4. RowsHold'
    <3>1. CASE Suits(row)
      <4>1. rules' = [rules EXCEPT ![req[r].id] = row] /\ vouched' = vouched \cup Vouches(row)
            /\ UNCHANGED <<slack, hosts>>
        BY <1>9, <3>1 DEF SaveRule, Saved
      <4>2. Fits(row, vouched') /\ vouched' \subseteq Url
        BY <1>1, <3>1, <4>1, SuitsVouched DEF Vouches, PublicUrls
      <4>3. \A o \in Origin : rules[o] # Nothing => Fits(rules[o], vouched')
        BY <1>1, MoreFits
      <4> HIDE DEF row
      <4>4. QED
        BY <1>1, <2>3, <4>1, <4>2, <4>3
    <3>2. CASE ~ Suits(row)
      BY <1>3, <1>9, <3>2 DEF SaveRule
    <3>3. QED
      BY <3>1, <3>2
  <2>5. QED
    BY <2>2, <2>4
<1>10. ASSUME NEW r \in Request, RemoveRule(r) PROVE RowsHold' /\ RequestsHold'
  <2>1. At(r, "delete")
    BY <1>10 DEF RemoveRule
  <2>2. RequestsHold'
    BY <1>1, <1>10, <2>1, Holding, Continues DEF RemoveRule
  <2>3. RowsHold'
    BY <1>1, <1>10 DEF RemoveRule
  <2>4. QED
    BY <2>2, <2>3
<1>11. ASSUME NEW r \in Request, ExchangeCode(r) PROVE RowsHold' /\ RequestsHold'
  <2>1. At(r, "exchange")
    BY <1>11 DEF ExchangeCode
  <2>2. /\ req[r] \in RulesRequest /\ HoldsSuiting(req[r], vouched)
        /\ req[r].todo # <<>> /\ Head(req[r].todo) = "exchange"
    BY <1>1, <2>1, Holding
  <2> DEFINE l == [req[r] EXCEPT !.token = r]
  <2>3. /\ l \in RulesRequest /\ l.row = req[r].row /\ l.todo = req[r].todo
        /\ l.body = req[r].body /\ l.posted = req[r].posted
    BY <1>1, <2>2 DEF RulesRequest, Origin
  <2>4. HoldsSuiting(l, vouched)
    BY <2>2, <2>3 DEF HoldsSuiting
  <2>5. RequestsHold'
    BY <1>1, <1>11, <2>2, Continues, Ends, <2>3, <2>4 DEF ExchangeCode, RequestState
  <2>6. QED
    BY <1>3, <1>11, <2>5 DEF ExchangeCode
<1>12. ASSUME NEW r \in Request, StoreToken(r) PROVE RowsHold' /\ RequestsHold'
  <2>1. At(r, "store")
    BY <1>12 DEF StoreToken
  <2>2. /\ req[r] \in RulesRequest /\ HoldsSuiting(req[r], vouched)
        /\ req[r].todo # <<>> /\ Head(req[r].todo) = "store"
    BY <1>1, <2>1, Holding
  <2>5. RequestsHold'
    BY <1>1, <1>12, <2>2, Continues, Ends DEF StoreToken, RequestState
  <2>6. RowsHold'
    BY <1>1, <1>12, <2>2 DEF StoreToken, TokenToStore, RulesRequest
  <2>7. QED
    BY <2>5, <2>6
<1>13. ASSUME NEW r \in Request, ReadStatus(r) PROVE RowsHold' /\ RequestsHold'
  <2>1. At(r, "status")
    BY <1>13 DEF ReadStatus
  <2>2. /\ req[r] \in RulesRequest /\ HoldsSuiting(req[r], vouched)
        /\ req[r].todo # <<>> /\ Head(req[r].todo) = "status"
    BY <1>1, <2>1, Holding
  <2> DEFINE l == [req[r] EXCEPT !.token = slack]
  <2>3. /\ l \in RulesRequest /\ l.row = req[r].row /\ l.todo = req[r].todo
        /\ l.body = req[r].body /\ l.posted = req[r].posted
    BY <1>1, <2>2 DEF RulesRequest, Origin
  <2>4. HoldsSuiting(l, vouched)
    BY <2>2, <2>3 DEF HoldsSuiting
  <2>5. RequestsHold'
    BY <1>1, <1>13, <2>2, Continues, Ends, <2>3, <2>4 DEF ReadStatus, RequestState
  <2>6. QED
    BY <1>3, <1>13, <2>5 DEF ReadStatus
<1>14. ASSUME NEW r \in Request, Route(r) PROVE RowsHold' /\ RequestsHold'
  <2>1. At(r, "route")
    BY <1>14 DEF Route
  <2>2. /\ req[r] \in RulesRequest /\ HoldsSuiting(req[r], vouched)
        /\ req[r].todo # <<>> /\ Head(req[r].todo) = "route"
    BY <1>1, <2>1, Holding
  <2> DEFINE l == [req[r] EXCEPT !.token = slack]
  <2>3. /\ l \in RulesRequest /\ l.row = req[r].row /\ l.todo = req[r].todo
        /\ l.body = req[r].body /\ l.posted = req[r].posted
    BY <1>1, <2>2 DEF RulesRequest, Origin
  <2>4. HoldsSuiting(l, vouched)
    BY <2>2, <2>3 DEF HoldsSuiting
  <2>5. RequestsHold'
    BY <1>1, <1>14, <2>2, Continues, Ends, <2>3, <2>4 DEF Route, RequestState
  <2>6. QED
    BY <1>3, <1>14, <2>5 DEF Route
<1>15. ASSUME NEW r \in Request, PostToRoom(r) PROVE RowsHold' /\ RequestsHold'
  <2>1. At(r, "post")
    BY <1>15 DEF PostToRoom
  <2>2. /\ req[r] \in RulesRequest /\ HoldsSuiting(req[r], vouched)
        /\ req[r].todo # <<>> /\ Head(req[r].todo) = "post"
    BY <1>1, <2>1, Holding
  <2> DEFINE l == [req[r] EXCEPT !.posted = TRUE]
  <2>3. /\ l \in RulesRequest /\ l.row = req[r].row /\ l.todo = req[r].todo
        /\ l.body = req[r].body
    BY <2>2 DEF RulesRequest
  <2>4. HoldsSuiting(l, vouched)
    <3>1. req[r].row # Nothing
      BY <1>1, <2>1, Holding
    <3>2. QED
      BY <2>2, <2>3, <3>1 DEF HoldsSuiting
  <2>5. RequestsHold'
    BY <1>1, <1>15, <2>2, Continues, Ends, <2>3, <2>4 DEF PostToRoom, RequestState
  <2>6. QED
    BY <1>3, <1>15, <2>5 DEF PostToRoom
<1>16. ASSUME NEW r \in Request, Post(r) PROVE RowsHold' /\ RequestsHold'
  <2>1. At(r, "post")
    BY <1>16 DEF Post
  <2>2. /\ req[r] \in RulesRequest /\ HoldsSuiting(req[r], vouched)
        /\ req[r].todo # <<>> /\ Head(req[r].todo) = "post"
    BY <1>1, <2>1, Holding
  <2> DEFINE l == [req[r] EXCEPT !.posted = TRUE]
  <2>3. /\ l \in RulesRequest /\ l.row = req[r].row /\ l.todo = req[r].todo
        /\ l.body = req[r].body
    BY <2>2 DEF RulesRequest
  <2>4. HoldsSuiting(l, vouched)
    <3>1. req[r].row # Nothing
      BY <1>1, <2>1, Holding
    <3>2. QED
      BY <2>2, <2>3, <3>1 DEF HoldsSuiting
  <2>5. RequestsHold'
    BY <1>1, <1>16, <2>2, Continues, Ends, <2>3, <2>4 DEF Post, RequestState
  <2>6. QED
    BY <1>3, <1>16, <2>5 DEF Post
<1>17. ASSUME NEW r \in Request, Kill(r) PROVE RowsHold' /\ RequestsHold'
  BY <1>1, <1>3, <1>17, Ends DEF Kill, Killed, RequestState
<1>18. QED
  BY <1>4, <1>5, <1>6, <1>7, <1>8, <1>9, <1>10, <1>11, <1>12, <1>13, <1>14, <1>15, <1>16, <1>17, <1>19
  DEF RulesNext

\* The channel and the target of every stored rule, and of the rule of every
\* delivered alert, fit each other, whatever edits overlap and however DNS
\* changes (alerts/serializers.py:105).
THEOREM RulesSendable == RulesSpec => []RulesStaySendable
<1>1. RulesInv => RulesStaySendable
  BY DEF RulesInv, RulesStaySendable, HoldsSuiting
<1>2. QED
  BY InitHolds, StepHolds, <1>1, PTL DEF RulesSpec

-----------------------------------------------------------------------------
(* Requests on their plans *)

\* What can be left to do of each plan.
Left == [create |-> {<<"permit", "insert">>, <<"insert">>, <<>>},
         patch |-> {<<"permit", "load", "save">>, <<"load", "save">>, <<"save">>, <<>>},
         delete |-> {<<"permit", "load", "delete">>, <<"load", "delete">>, <<"delete">>, <<>>},
         connect |-> {<<"permit", "exchange", "store">>, <<"exchange", "store">>, <<"store">>, <<>>},
         status |-> {<<"permit", "status">>, <<"status">>, <<>>},
         deliver |-> {<<"fetch", "route", "post">>, <<"route", "post">>, <<"post">>, <<>>}]

\* A request has the end of its plan left, nothing once it answered; a connection
\* past the exchange holds the token it came with; the requests that ended before
\* it have ended, and so has the one that created its rule.
OnPlan(r) ==
    /\ req[r].todo \in Left[req[r].kind]
    /\ req[r].state = "idle" => req[r].todo = <<>> /\ req[r].kind = "status"
    /\ req[r].state = "running" => req[r].todo # <<>>
    /\ req[r].todo = <<>> => req[r].state \in {"idle", "ok"}
    /\ req[r].state = "ok" => req[r].todo = <<>>
    /\ req[r].posted => EndedOk(r, "deliver")
    /\ req[r].kind = "connect" /\ req[r].todo \in {<<"store">>, <<>>} => req[r].token = r
    /\ \A q \in req[r].before : req[q].state \in Ended
    /\ req[r].id # Earlier => EndedOk(req[r].id, "create")

Progress == RulesInv /\ \A r \in Request : OnPlan(r)

\* A request arrives.
Comes(r) ==
    /\ req[r].state = "idle"
    /\ \A q \in Request \ {r} : req'[q] = req[q]
    /\ req'[r].kind \in DOMAIN RulesPlan /\ req'[r].todo = RulesPlan[req'[r].kind]
    /\ req'[r].state = "running" /\ req'[r].row = Nothing /\ req'[r].posted = FALSE
    /\ req'[r].before = {q \in Request : req[q].state \in Ended}
    /\ req'[r].id # Earlier => req'[r].id \in Request /\ EndedOk(req'[r].id, "create")
    /\ UNCHANGED <<rules, slack>>

\* A request executes the statement it is at, or stops at it.
GoesOn(r) ==
    /\ req'[r].todo = Tail(req[r].todo)
    /\ req'[r].state = IF Len(req[r].todo) = 1 THEN "ok" ELSE "running"
StopsAt(r) == req'[r].todo = req[r].todo /\ req'[r].state \in {"refused", "error", "killed"}
Moves(r) ==
    /\ req[r].state = "running" /\ req[r].todo # <<>>
    /\ \A q \in Request \ {r} : req'[q] = req[q]
    /\ req'[r].kind = req[r].kind /\ req'[r].id = req[r].id /\ req'[r].before = req[r].before
    /\ req'[r].row # req[r].row => Head(req[r].todo) \in {"load", "fetch"}
    /\ req'[r].token # req[r].token => Head(req[r].todo) \in {"exchange", "status", "route"}
    /\ req'[r].posted # req[r].posted => Head(req[r].todo) = "post" /\ GoesOn(r)
    /\ Head(req[r].todo) = "exchange" /\ GoesOn(r) => req'[r].token = r
    /\ GoesOn(r) \/ StopsAt(r)

\* An execution of a statement moves its request.
LEMMA ContinueMoves ==
    ASSUME RulesInv, NEW r \in Request, req[r].state = "running", req[r].todo # <<>>,
           NEW l \in RulesRequest, Continue(r, l),
           l.todo = req[r].todo, l.state = "running", l.kind = req[r].kind, l.id = req[r].id,
           l.before = req[r].before,
           l.row # req[r].row => Head(req[r].todo) \in {"load", "fetch"},
           l.token # req[r].token => Head(req[r].todo) \in {"exchange", "status", "route"},
           Head(req[r].todo) = "exchange" => l.token = r,
           l.posted # req[r].posted => Head(req[r].todo) = "post"
    PROVE  Moves(r) /\ GoesOn(r) /\ req'[r].row = l.row /\ req'[r].token = l.token
           /\ req'[r].posted = l.posted
<1> DEFINE m == [l EXCEPT !.todo = Tail(@), !.state = IF Len(l.todo) = 1 THEN "ok" ELSE @]
<1>1. req \in [Request -> RulesRequest] /\ req[r] \in RulesRequest
  BY DEF RulesInv, AlertRulesTypeOK
<1>2. /\ m.todo = Tail(req[r].todo) /\ m.state = (IF Len(req[r].todo) = 1 THEN "ok" ELSE "running")
      /\ m.kind = req[r].kind /\ m.id = req[r].id /\ m.before = req[r].before
      /\ m.row = l.row /\ m.token = l.token /\ m.posted = l.posted
  BY <1>1 DEF RulesRequest
<1>3. req' = [req EXCEPT ![r] = m]
  BY DEF Continue
<1> HIDE DEF m
<1>4. req'[r] = m /\ \A q \in Request \ {r} : req'[q] = req[q]
  BY <1>1, <1>3
<1>5. GoesOn(r)
  BY <1>2, <1>4 DEF GoesOn
<1>6. QED
  BY <1>2, <1>4, <1>5 DEF Moves

\* So does one that changes nothing the request holds.
LEMMA PlainMoves ==
    ASSUME RulesInv, NEW r \in Request, req[r].state = "running", req[r].todo # <<>>,
           Head(req[r].todo) # "exchange", Continue(r, req[r])
    PROVE  Moves(r) /\ GoesOn(r) /\ req'[r].row = req[r].row /\ req'[r].token = req[r].token
           /\ req'[r].posted = req[r].posted
<1>1. req[r] \in RulesRequest
  BY DEF RulesInv, AlertRulesTypeOK
<1>2. QED
  BY <1>1, ContinueMoves

\* A request that stops moves.
LEMMA StopMoves ==
    ASSUME RulesInv, NEW r \in Request, req[r].state = "running", req[r].todo # <<>>,
           NEW state \in {"refused", "error", "killed"}, End(r, state)
    PROVE  Moves(r) /\ StopsAt(r) /\ ~ GoesOn(r) /\ req'[r].row = req[r].row /\ req'[r].token = req[r].token
           /\ req'[r].posted = req[r].posted
<1>1. req \in [Request -> RulesRequest] /\ req[r] \in RulesRequest
  BY DEF RulesInv, AlertRulesTypeOK
<1>2. req'[r] = [req[r] EXCEPT !.state = state] /\ \A q \in Request \ {r} : req'[q] = req[q]
  BY <1>1 DEF End
<1>3. /\ req'[r].todo = req[r].todo /\ req'[r].state = state /\ req'[r].kind = req[r].kind
      /\ req'[r].id = req[r].id /\ req'[r].before = req[r].before /\ req'[r].row = req[r].row
      /\ req'[r].token = req[r].token /\ req'[r].posted = req[r].posted
  BY <1>1, <1>2 DEF RulesRequest
<1>4. StopsAt(r)
  BY <1>3 DEF StopsAt
<1>5. ~ GoesOn(r)
  BY <1>3, TailOf DEF GoesOn
<1>6. QED
  BY <1>2, <1>3, <1>4, <1>5 DEF Moves

\* What a request about to execute a statement is, and has left after it.
AtItsPlan(r, s) ==
    /\ s = "permit" => /\ req[r].kind # "deliver" /\ Tail(req[r].todo) # <<>>
                       /\ Tail(req[r].todo) # <<"store">>
    /\ s = "insert" => req[r].kind = "create" /\ Tail(req[r].todo) = <<>>
    /\ s = "load" => req[r].kind \in {"patch", "delete"} /\ Tail(req[r].todo) # <<>>
    /\ s = "fetch" => req[r].kind = "deliver" /\ Tail(req[r].todo) = <<"route", "post">>
    /\ s = "save" => req[r].kind = "patch" /\ Tail(req[r].todo) = <<>>
    /\ s = "delete" => req[r].kind = "delete" /\ Tail(req[r].todo) = <<>>
    /\ s = "exchange" => req[r].kind = "connect" /\ Tail(req[r].todo) = <<"store">>
    /\ s = "store" => /\ req[r].kind = "connect" /\ req[r].todo = <<"store">>
                      /\ Tail(req[r].todo) = <<>>
    /\ s = "status" => req[r].kind = "status" /\ Tail(req[r].todo) = <<>>
    /\ s = "route" => req[r].kind = "deliver" /\ Tail(req[r].todo) = <<"post">>
    /\ s = "post" => /\ req[r].kind = "deliver" /\ req[r].todo = <<"post">>
                     /\ Tail(req[r].todo) = <<>>

\* The first statement of a list, and the rest.
LEMMA Cut ==
    ASSUME NEW a, NEW b, NEW c
    PROVE  /\ Head(<<a, b, c>>) = a /\ Tail(<<a, b, c>>) = <<b, c>> /\ <<b, c>> # <<>>
           /\ Head(<<b, c>>) = b /\ Tail(<<b, c>>) = <<c>> /\ <<c>> # <<>>
           /\ Head(<<c>>) = c /\ Tail(<<c>>) = <<>>
OBVIOUS

\* A statement is at its place in the plans.
LEMMA AtPlan ==
    ASSUME Progress, NEW r \in Request, req[r].todo # <<>>
    PROVE  /\ req[r].kind \in DOMAIN RulesPlan /\ AtItsPlan(r, Head(req[r].todo))
           /\ Head(req[r].todo) \in Statement
           /\ Tail(req[r].todo) \in Left[req[r].kind]
           /\ Len(req[r].todo) = 1 <=> Tail(req[r].todo) = <<>>
<1> DEFINE todo == req[r].todo
           kind == req[r].kind
<1>1. kind \in DOMAIN RulesPlan /\ todo \in Left[kind] /\ todo # <<>> /\ todo \in Seq(Statement)
  BY DEF Progress, RulesInv, AlertRulesTypeOK, RulesRequest, OnPlan
<1>2. Head(todo) \in Statement /\ (Len(todo) = 1 <=> Tail(todo) = <<>>)
  BY <1>1, TailOf
<1>3. kind \in {"create", "patch", "delete", "connect", "status", "deliver"}
  BY <1>1 DEF RulesPlan
<1>4. AtItsPlan(r, Head(todo)) /\ Tail(todo) \in Left[kind]
  <2>1. CASE kind = "create"
    <3> DEFINE left == Left["create"]
    <3>1. left = {<<"permit", "insert">>, <<"insert">>, <<>>}
      BY DEF Left
    <3>2. CASE todo = <<"permit", "insert">>
      <4>1. Head(todo) = "permit" /\ Tail(todo) = <<"insert">>
        BY <3>2, Cut
      <4>2. Tail(todo) \in left
        BY <3>1, <4>1
      <4>3. Tail(todo) # <<>> /\ Tail(todo) # <<"store">>
        BY <4>1, Cut
      <4>4. QED
        BY <2>1, <3>2, <4>1, <4>2, <4>3 DEF AtItsPlan
    <3>3. CASE todo = <<"insert">>
      <4>1. Head(todo) = "insert" /\ Tail(todo) = <<>>
        BY <3>3, Cut
      <4>2. Tail(todo) \in left
        BY <3>1, <4>1
      <4>3. QED
        BY <2>1, <3>3, <4>1, <4>2 DEF AtItsPlan
    <3>4. QED
      BY <1>1, <2>1, <3>1, <3>2, <3>3
  <2>2. CASE kind = "patch"
    <3> DEFINE left == Left["patch"]
    <3>1. left = {<<"permit", "load", "save">>, <<"load", "save">>, <<"save">>, <<>>}
      BY DEF Left
    <3>2. CASE todo = <<"permit", "load", "save">>
      <4>1. Head(todo) = "permit" /\ Tail(todo) = <<"load", "save">>
        BY <3>2, Cut
      <4>2. Tail(todo) \in left
        BY <3>1, <4>1
      <4>3. Tail(todo) # <<>> /\ Tail(todo) # <<"store">>
        BY <4>1, Cut
      <4>4. QED
        BY <2>2, <3>2, <4>1, <4>2, <4>3 DEF AtItsPlan
    <3>3. CASE todo = <<"load", "save">>
      <4>1. Head(todo) = "load" /\ Tail(todo) = <<"save">>
        BY <3>3, Cut
      <4>2. Tail(todo) \in left
        BY <3>1, <4>1
      <4>3. Tail(todo) # <<>>
        BY <4>1, Cut
      <4>4. QED
        BY <2>2, <3>3, <4>1, <4>2, <4>3 DEF AtItsPlan
    <3>4. CASE todo = <<"save">>
      <4>1. Head(todo) = "save" /\ Tail(todo) = <<>>
        BY <3>4, Cut
      <4>2. Tail(todo) \in left
        BY <3>1, <4>1
      <4>3. QED
        BY <2>2, <3>4, <4>1, <4>2 DEF AtItsPlan
    <3>5. QED
      BY <1>1, <2>2, <3>1, <3>2, <3>3, <3>4
  <2>3. CASE kind = "delete"
    <3> DEFINE left == Left["delete"]
    <3>1. left = {<<"permit", "load", "delete">>, <<"load", "delete">>, <<"delete">>, <<>>}
      BY DEF Left
    <3>2. CASE todo = <<"permit", "load", "delete">>
      <4>1. Head(todo) = "permit" /\ Tail(todo) = <<"load", "delete">>
        BY <3>2, Cut
      <4>2. Tail(todo) \in left
        BY <3>1, <4>1
      <4>3. Tail(todo) # <<>> /\ Tail(todo) # <<"store">>
        BY <4>1, Cut
      <4>4. QED
        BY <2>3, <3>2, <4>1, <4>2, <4>3 DEF AtItsPlan
    <3>3. CASE todo = <<"load", "delete">>
      <4>1. Head(todo) = "load" /\ Tail(todo) = <<"delete">>
        BY <3>3, Cut
      <4>2. Tail(todo) \in left
        BY <3>1, <4>1
      <4>3. Tail(todo) # <<>>
        BY <4>1, Cut
      <4>4. QED
        BY <2>3, <3>3, <4>1, <4>2, <4>3 DEF AtItsPlan
    <3>4. CASE todo = <<"delete">>
      <4>1. Head(todo) = "delete" /\ Tail(todo) = <<>>
        BY <3>4, Cut
      <4>2. Tail(todo) \in left
        BY <3>1, <4>1
      <4>3. QED
        BY <2>3, <3>4, <4>1, <4>2 DEF AtItsPlan
    <3>5. QED
      BY <1>1, <2>3, <3>1, <3>2, <3>3, <3>4
  <2>4. CASE kind = "connect"
    <3> DEFINE left == Left["connect"]
    <3>1. left = {<<"permit", "exchange", "store">>, <<"exchange", "store">>, <<"store">>, <<>>}
      BY DEF Left
    <3>2. CASE todo = <<"permit", "exchange", "store">>
      <4>1. Head(todo) = "permit" /\ Tail(todo) = <<"exchange", "store">>
        BY <3>2, Cut
      <4>2. Tail(todo) \in left
        BY <3>1, <4>1
      <4>3. Tail(todo) # <<>> /\ Tail(todo) # <<"store">>
        BY <4>1, Cut
      <4>4. QED
        BY <2>4, <3>2, <4>1, <4>2, <4>3 DEF AtItsPlan
    <3>3. CASE todo = <<"exchange", "store">>
      <4>1. Head(todo) = "exchange" /\ Tail(todo) = <<"store">>
        BY <3>3, Cut
      <4>2. Tail(todo) \in left
        BY <3>1, <4>1
      <4>3. Tail(todo) # <<>>
        BY <4>1, Cut
      <4>4. QED
        BY <2>4, <3>3, <4>1, <4>2, <4>3 DEF AtItsPlan
    <3>4. CASE todo = <<"store">>
      <4>1. Head(todo) = "store" /\ Tail(todo) = <<>>
        BY <3>4, Cut
      <4>2. Tail(todo) \in left
        BY <3>1, <4>1
      <4>3. QED
        BY <2>4, <3>4, <4>1, <4>2 DEF AtItsPlan
    <3>5. QED
      BY <1>1, <2>4, <3>1, <3>2, <3>3, <3>4
  <2>5. CASE kind = "status"
    <3> DEFINE left == Left["status"]
    <3>1. left = {<<"permit", "status">>, <<"status">>, <<>>}
      BY DEF Left
    <3>2. CASE todo = <<"permit", "status">>
      <4>1. Head(todo) = "permit" /\ Tail(todo) = <<"status">>
        BY <3>2, Cut
      <4>2. Tail(todo) \in left
        BY <3>1, <4>1
      <4>3. Tail(todo) # <<>> /\ Tail(todo) # <<"store">>
        BY <4>1, Cut
      <4>4. QED
        BY <2>5, <3>2, <4>1, <4>2, <4>3 DEF AtItsPlan
    <3>3. CASE todo = <<"status">>
      <4>1. Head(todo) = "status" /\ Tail(todo) = <<>>
        BY <3>3, Cut
      <4>2. Tail(todo) \in left
        BY <3>1, <4>1
      <4>3. QED
        BY <2>5, <3>3, <4>1, <4>2 DEF AtItsPlan
    <3>4. QED
      BY <1>1, <2>5, <3>1, <3>2, <3>3
  <2>6. CASE kind = "deliver"
    <3> DEFINE left == Left["deliver"]
    <3>1. left = {<<"fetch", "route", "post">>, <<"route", "post">>, <<"post">>, <<>>}
      BY DEF Left
    <3>2. CASE todo = <<"fetch", "route", "post">>
      <4>1. Head(todo) = "fetch" /\ Tail(todo) = <<"route", "post">>
        BY <3>2, Cut
      <4>2. Tail(todo) \in left
        BY <3>1, <4>1
      <4>3. Tail(todo) # <<>>
        BY <4>1, Cut
      <4>4. QED
        BY <2>6, <3>2, <4>1, <4>2, <4>3 DEF AtItsPlan
    <3>3. CASE todo = <<"route", "post">>
      <4>1. Head(todo) = "route" /\ Tail(todo) = <<"post">>
        BY <3>3, Cut
      <4>2. Tail(todo) \in left
        BY <3>1, <4>1
      <4>3. Tail(todo) # <<>>
        BY <4>1, Cut
      <4>4. QED
        BY <2>6, <3>3, <4>1, <4>2, <4>3 DEF AtItsPlan
    <3>4. CASE todo = <<"post">>
      <4>1. Head(todo) = "post" /\ Tail(todo) = <<>>
        BY <3>4, Cut
      <4>2. Tail(todo) \in left
        BY <3>1, <4>1
      <4>3. QED
        BY <2>6, <3>4, <4>1, <4>2 DEF AtItsPlan
    <3>5. QED
      BY <1>1, <2>6, <3>1, <3>2, <3>3, <3>4
  <2>7. QED
    BY <1>3, <2>1, <2>2, <2>3, <2>4, <2>5, <2>6
<1>5. QED
  BY <1>1, <1>2, <1>4

\* A request about to execute a statement.
LEMMA AtIs ==
    ASSUME Progress, NEW r \in Request, NEW s, At(r, s)
    PROVE  /\ req[r].state = "running" /\ req[r].todo # <<>> /\ Head(req[r].todo) = s
           /\ req[r] \in RulesRequest /\ RulesInv
BY DEF At, Progress, RulesInv, AlertRulesTypeOK

\* Every action of a request under way moves it.
LEMMA ActionMoves ==
    ASSUME Progress, NEW r \in Request,
           \/ Permit(r) \/ InsertRule(r) \/ LoadRule(r) \/ SaveRule(r) \/ RemoveRule(r)
           \/ ExchangeCode(r) \/ StoreToken(r) \/ ReadStatus(r)
           \/ Route(r) \/ PostToRoom(r) \/ Post(r) \/ Kill(r)
    PROVE  Moves(r)
<1>1. CASE Permit(r)
  BY <1>1, AtIs, PlainMoves, StopMoves DEF Permit
<1>2. CASE InsertRule(r)
  BY <1>2, AtIs, PlainMoves, StopMoves DEF InsertRule
<1>3. CASE SaveRule(r)
  BY <1>3, AtIs, PlainMoves, StopMoves DEF SaveRule
<1>4. CASE RemoveRule(r)
  BY <1>4, AtIs, PlainMoves, StopMoves DEF RemoveRule
<1>5. CASE StoreToken(r)
  BY <1>5, AtIs, PlainMoves, StopMoves DEF StoreToken
<1>6. CASE LoadRule(r)
  <2>1. PICK s \in {"load", "fetch"} : At(r, s)
    BY <1>6 DEF LoadRule
  <2>2. CASE End(r, "refused")
    BY <2>1, <2>2, AtIs, StopMoves
  <2>3. ASSUME NEW row \in RuleFor(req[r].id), Continue(r, [req[r] EXCEPT !.row = row])
        PROVE  Moves(r)
    <3> DEFINE l == [req[r] EXCEPT !.row = row]
    <3>1. req[r] \in RulesRequest /\ rules \in [Origin -> RuleRow \cup {Nothing}]
      BY <2>1, AtIs DEF RulesInv, AlertRulesTypeOK
    <3>2. row \in RuleRow
      BY <2>3, <3>1 DEF RuleFor, RulesRequest
    <3>3. /\ l \in RulesRequest /\ l.todo = req[r].todo /\ l.state = req[r].state
          /\ l.kind = req[r].kind /\ l.id = req[r].id /\ l.before = req[r].before
          /\ l.token = req[r].token /\ l.posted = req[r].posted
      BY <3>1, <3>2 DEF RulesRequest
    <3>4. Continue(r, l)
      BY <2>3
    <3> HIDE DEF l
    <3>5. QED
      BY <2>1, <3>3, <3>4, AtIs, ContinueMoves
  <2>4. QED
    BY <1>6, <2>2, <2>3 DEF LoadRule
<1>7. ASSUME NEW token \in Origin \cup {Nothing}, NEW s \in {"exchange", "status", "route"}, At(r, s),
             s = "exchange" => token = r, Continue(r, [req[r] EXCEPT !.token = token])
      PROVE  Moves(r)
  <2> DEFINE l == [req[r] EXCEPT !.token = token]
  <2>1. req[r] \in RulesRequest
    BY <1>7, AtIs
  <2>2. /\ l \in RulesRequest /\ l.todo = req[r].todo /\ l.state = req[r].state
        /\ l.kind = req[r].kind /\ l.id = req[r].id /\ l.before = req[r].before
        /\ l.token = token /\ l.posted = req[r].posted /\ l.row = req[r].row
    BY <2>1 DEF RulesRequest
  <2>3. Continue(r, l)
    BY <1>7
  <2> HIDE DEF l
  <2>4. QED
    BY <1>7, <2>2, <2>3, AtIs, ContinueMoves
<1>8. ASSUME At(r, "post"), Continue(r, [req[r] EXCEPT !.posted = TRUE]) PROVE Moves(r)
  <2> DEFINE l == [req[r] EXCEPT !.posted = TRUE]
  <2>1. req[r] \in RulesRequest
    BY <1>8, AtIs
  <2>2. /\ l \in RulesRequest /\ l.todo = req[r].todo /\ l.state = req[r].state
        /\ l.kind = req[r].kind /\ l.id = req[r].id /\ l.before = req[r].before
        /\ l.token = req[r].token /\ l.row = req[r].row
    BY <2>1 DEF RulesRequest
  <2>3. Continue(r, l)
    BY <1>8
  <2> HIDE DEF l
  <2>4. QED
    BY <1>8, <2>2, <2>3, AtIs, ContinueMoves
<1>9. slack \in Origin \cup {Nothing} /\ r \in Origin
  BY DEF Progress, RulesInv, AlertRulesTypeOK, Origin
<1>10. CASE ExchangeCode(r)
  BY <1>7, <1>9, <1>10, AtIs, StopMoves DEF ExchangeCode
<1>11. CASE ReadStatus(r)
  BY <1>7, <1>9, <1>11 DEF ReadStatus
<1>12. CASE Route(r)
  BY <1>7, <1>9, <1>12, AtIs, PlainMoves, StopMoves DEF Route
<1>13. CASE PostToRoom(r)
  BY <1>8, <1>13, AtIs, StopMoves DEF PostToRoom
<1>14. CASE Post(r)
  BY <1>8, <1>14, AtIs, StopMoves DEF Post
<1>15. CASE Kill(r)
  <2>1. req[r].todo # <<>> /\ RulesInv /\ req[r].state = "running" /\ End(r, "killed")
    BY <1>15 DEF Progress, OnPlan, Kill, Killed
  <2>2. QED
    BY <2>1, StopMoves
<1>16. QED
  BY <1>1, <1>2, <1>3, <1>4, <1>5, <1>6, <1>10, <1>11, <1>12, <1>13, <1>14, <1>15

\* A request arrives with its plan, and knows which requests had ended.
LEMMA ArriveComes == ASSUME Progress, NEW r \in Request, Arrive(r) PROVE Comes(r)
<1>1. PICK kind \in DOMAIN RulesPlan, body \in NewRule \cup Patch \cup {Nothing},
           id \in {Earlier} \cup {q \in Request : EndedOk(q, "create")} :
         req' = [req EXCEPT ![r] =
                [RulesLocals EXCEPT !.kind = kind, !.state = "running", !.todo = RulesPlan[kind],
                    !.before = {q \in Request : req[q].state \in Ended}, !.id = id, !.body = body]]
  BY Zenon DEF Arrive
<1> DEFINE before == {q \in Request : req[q].state \in Ended}
           l == [RulesLocals EXCEPT !.kind = kind, !.state = "running", !.todo = RulesPlan[kind],
                    !.before = before, !.id = id, !.body = body]
<1>2. /\ l.kind = kind /\ l.state = "running" /\ l.todo = RulesPlan[kind] /\ l.before = before
      /\ l.id = id /\ l.row = Nothing /\ l.posted = FALSE
  <2> HIDE DEF before
  <2>1. QED
    BY DEF RulesLocals
<1>3. req' = [req EXCEPT ![r] = l]
  BY <1>1, Zenon
<1>4. req \in [Request -> RulesRequest]
  BY DEF Progress, RulesInv, AlertRulesTypeOK
<1> HIDE DEF l
<1>5. req'[r] = l /\ \A q \in Request \ {r} : req'[q] = req[q]
  BY <1>3, <1>4
<1>6. req[r].state = "idle" /\ UNCHANGED <<rules, slack>>
  BY DEF Arrive
<1>7. l.id # Earlier => l.id \in Request /\ EndedOk(l.id, "create")
  BY <1>2
<1>8. QED
  BY <1>2, <1>5, <1>6, <1>7 DEF Comes

StepOf(r) == Comes(r) \/ Moves(r)

\* Every step is one of a request.
LEMMA NextIs ==
    ASSUME Progress, [RulesNext]_rulesVars
    PROVE  UNCHANGED <<rules, slack, req>> \/ \E r \in Request : StepOf(r)
BY ActionMoves, ArriveComes DEF RulesNext, StepOf, DnsChanges, rulesVars

\* A request that has ended stays as it is.
LEMMA EndedStays ==
    ASSUME NEW r \in Request, StepOf(r), NEW q \in Request, req[q].state \in Ended
    PROVE  q # r /\ req'[q] = req[q]
BY DEF StepOf, Comes, Moves, Ended

\* Requests stay on their plans.
LEMMA ProgressKept == Progress /\ [RulesNext]_rulesVars => Progress'
<1> SUFFICES ASSUME Progress, [RulesNext]_rulesVars PROVE Progress'
  OBVIOUS
<1>1. RulesInv'
  BY StepHolds DEF Progress
<1>2. CASE UNCHANGED <<rules, slack, req>>
  <2>1. \A r \in Request : OnPlan(r) /\ req' = req
    BY <1>2 DEF Progress
  <2>2. \A r \in Request : OnPlan(r)'
    BY <2>1 DEF OnPlan, EndedOk
  <2>3. QED
    BY <1>1, <2>2 DEF Progress
<1>3. ASSUME NEW r \in Request, StepOf(r) PROVE Progress'
  <2>0. \A q \in Request : OnPlan(q) /\ req[q].id \in Origin /\ req[q].before \subseteq Request
    BY DEF Progress, RulesInv, AlertRulesTypeOK, RulesRequest
  <2>1. \A q \in Request : req[q].state \in Ended => req'[q] = req[q]
    BY <1>3, EndedStays
  <2>2. \A q \in Request : EndedOk(q, "create") =>
           req'[q] = req[q] /\ req[q].state = "ok" /\ req[q].kind = "create"
    BY <2>1 DEF EndedOk, Ended
  <2>3. ASSUME NEW q \in Request, q # r PROVE OnPlan(q)'
    <3>1. req'[q] = req[q]
      BY <1>3, <2>3 DEF StepOf, Comes, Moves
    <3>2. \A p \in req[q].before : req'[p].state \in Ended
      BY <2>0, <2>1 DEF OnPlan
    <3>3. req[q].id # Earlier => req'[req[q].id].state = "ok" /\ req'[req[q].id].kind = "create"
      BY <2>0, <2>2 DEF OnPlan, Origin
    <3>4. QED
      BY <2>0, <3>1, <3>2, <3>3 DEF OnPlan, EndedOk
  <2>4. CASE Comes(r)
    <3>1. \A kind \in DOMAIN RulesPlan : RulesPlan[kind] \in Left[kind] /\ RulesPlan[kind] # <<>>
          /\ RulesPlan[kind] # <<"store">>
      BY DEF RulesPlan, Left, CreateRule, EditRule, DeleteRule, ConnectSlack, SlackStatus, Delivery
    <3>2. \A p \in req'[r].before : req'[p].state \in Ended
      BY <2>1, <2>4 DEF Comes
    <3>3. req'[r].id # Earlier => req'[req'[r].id].state = "ok" /\ req'[req'[r].id].kind = "create"
      BY <2>2, <2>4 DEF Comes
    <3>4. OnPlan(r)'
      BY <2>4, <3>1, <3>2, <3>3 DEF OnPlan, Comes, EndedOk
    <3>5. QED
      BY <1>1, <2>3, <3>4 DEF Progress
  <2>5. CASE Moves(r)
    <3>1. /\ req[r].kind \in DOMAIN RulesPlan /\ AtItsPlan(r, Head(req[r].todo))
          /\ Head(req[r].todo) \in Statement /\ Tail(req[r].todo) \in Left[req[r].kind]
          /\ Len(req[r].todo) = 1 <=> Tail(req[r].todo) = <<>>
      BY <2>5, AtPlan DEF Moves
    <3>2. \A p \in req'[r].before : req'[p].state \in Ended
      BY <2>0, <2>1, <2>5 DEF OnPlan, Moves
    <3>3. req'[r].id # Earlier => req'[req'[r].id].state = "ok" /\ req'[req'[r].id].kind = "create"
      BY <2>0, <2>2, <2>5 DEF OnPlan, Origin, Moves
    <3>4. req'[r].kind = req[r].kind /\ req[r].todo # <<>> /\ req[r].state = "running" /\ OnPlan(r)
      BY <2>0, <2>5 DEF Moves
    <3>5. ~ req[r].posted
      BY <3>4 DEF OnPlan, EndedOk
    <3>6. req'[r].posted => EndedOk(r, "deliver")'
      BY <2>5, <3>1, <3>4, <3>5 DEF Moves, AtItsPlan, GoesOn, EndedOk
    <3>7. req'[r].kind = "connect" /\ req'[r].todo \in {<<"store">>, <<>>} => req'[r].token = r
      <4>1. SUFFICES ASSUME req[r].kind = "connect", req'[r].todo \in {<<"store">>, <<>>}
                     PROVE  req'[r].token = r
        BY <3>4
      <4>2. CASE StopsAt(r)
        <5>1. req[r].todo = <<"store">> /\ req[r].token = r
          BY <3>4, <4>1, <4>2 DEF StopsAt, OnPlan
        <5>2. Head(req[r].todo) = "store"
          BY <5>1, Cut
        <5>3. QED
          BY <2>5, <5>1, <5>2 DEF Moves
      <4>3. CASE GoesOn(r)
        <5>1. Head(req[r].todo) = "exchange" \/ Head(req[r].todo) = "store"
          BY <3>1, <4>1, <4>3 DEF AtItsPlan, GoesOn, Statement
        <5>2. QED
          BY <2>5, <3>1, <3>4, <4>1, <4>3, <5>1 DEF Moves, AtItsPlan, OnPlan
      <4>4. QED
        BY <2>5, <4>2, <4>3 DEF Moves
    <3>8. OnPlan(r)'
      <4>1. req'[r].todo \in Left[req[r].kind] /\ req'[r].state \in {"running", "ok", "refused", "error", "killed"}
        BY <2>5, <3>1, <3>4 DEF Moves, GoesOn, StopsAt, OnPlan
      <4>2. /\ req'[r].state = "running" => req'[r].todo # <<>>
            /\ req'[r].todo = <<>> => req'[r].state = "ok"
            /\ req'[r].state = "ok" => req'[r].todo = <<>>
        BY <2>5, <3>1, <3>4 DEF Moves, GoesOn, StopsAt
      <4>3. QED
        BY <3>2, <3>3, <3>4, <3>6, <3>7, <4>1, <4>2 DEF OnPlan, EndedOk
    <3>9. QED
      BY <1>1, <2>3, <3>8 DEF Progress
  <2>6. QED
    BY <1>3, <2>4, <2>5 DEF StepOf
<1>4. QED
  BY <1>2, <1>3, NextIs

\* Every request of every behaviour is on its plan.
THEOREM RulesProgress == RulesSpec => []Progress
<1>1. RulesInit => Progress
  <2> SUFFICES ASSUME RulesInit PROVE Progress
    OBVIOUS
  <2>1. \A r \in Request : req[r] = RulesLocals
    BY DEF RulesInit
  <2>2. RulesLocals.todo = <<>> /\ RulesLocals.kind = "status" /\ RulesLocals.state = "idle"
        /\ RulesLocals.posted = FALSE /\ RulesLocals.before = {} /\ RulesLocals.id = Earlier
    BY DEF RulesLocals
  <2>3. \A r \in Request : OnPlan(r)
    BY <2>1, <2>2 DEF OnPlan, Left
  <2>4. QED
    BY <2>3, InitHolds DEF Progress
<1>2. QED
  BY <1>1, ProgressKept, PTL DEF RulesSpec

-----------------------------------------------------------------------------
(* What a statement reads and writes *)

\* A rule is stored by an insert or a save, and gone by a deletion; a copy is of
\* a stored rule; the workspace's token is replaced by a store, and what a
\* status or a delivery to a room reads is the workspace's token.
Effects(r) ==
    LET s == Head(req[r].todo)
    IN  /\ \A o \in Origin : rules'[o] # rules[o] /\ rules'[o] # Nothing =>
              GoesOn(r) /\ ((s = "insert" /\ o = r) \/ (s = "save" /\ o = req[r].id))
        /\ s = "delete" /\ GoesOn(r) => rules'[req[r].id] = Nothing
        /\ s = "save" => req[r].row # Nothing
        /\ req'[r].row # req[r].row => rules[req[r].id] # Nothing
        /\ slack' = IF s = "store" /\ GoesOn(r) THEN r ELSE slack
        /\ s = "status" /\ GoesOn(r) => req'[r].token = slack
        /\ s = "route" /\ GoesOn(r) /\ UsesToken(req'[r].row) => req'[r].token = slack

\* Every action has these effects.
LEMMA ActionEffects ==
    ASSUME Progress, NEW r \in Request,
           \/ Permit(r) \/ InsertRule(r) \/ LoadRule(r) \/ SaveRule(r) \/ RemoveRule(r)
           \/ ExchangeCode(r) \/ StoreToken(r) \/ ReadStatus(r)
           \/ Route(r) \/ PostToRoom(r) \/ Post(r) \/ Kill(r)
    PROVE  Effects(r)
<1>1. /\ rules \in [Origin -> RuleRow \cup {Nothing}] /\ slack \in Origin \cup {Nothing}
      /\ req \in [Request -> RulesRequest] /\ r \in Origin /\ req[r].id \in Origin
      /\ RulesInv /\ RequestsHold /\ Nothing \notin RuleRow
  BY AlertRulesAssumption
  DEF Progress, RulesInv, AlertRulesTypeOK, Origin, RulesRequest, RequestsHold
<1>2. CASE Permit(r)
  BY <1>2, AtIs, PlainMoves, StopMoves DEF Permit, Effects
<1>3. CASE InsertRule(r)
  BY <1>1, <1>3, AtIs, PlainMoves, StopMoves DEF InsertRule, Effects
<1>4. CASE LoadRule(r)
  <2>1. PICK s \in {"load", "fetch"} : At(r, s)
    BY <1>4 DEF LoadRule
  <2>2. CASE End(r, "refused")
    BY <1>4, <2>1, <2>2, AtIs, StopMoves DEF Effects, LoadRule
  <2>3. ASSUME RuleFor(req[r].id) # {} PROVE Effects(r)
    <3>1. rules[req[r].id] # Nothing /\ UNCHANGED <<rules, slack>>
      BY <1>4, <2>3 DEF RuleFor, LoadRule
    <3>2. QED
      BY <2>1, <3>1, AtIs DEF Effects
  <2>4. QED
    BY <1>4, <2>2, <2>3 DEF LoadRule
<1>5. CASE SaveRule(r)
  <2>1. At(r, "save") /\ req[r].row # Nothing
    BY <1>1, <1>5, Holding DEF SaveRule
  <2>2. QED
    BY <1>1, <1>5, <2>1, AtIs, PlainMoves, StopMoves DEF SaveRule, Effects
<1>6. CASE RemoveRule(r)
  BY <1>1, <1>6, AtIs, PlainMoves DEF RemoveRule, Effects
<1>7. ASSUME NEW token \in Origin \cup {Nothing}, NEW s \in {"exchange", "status", "route"}, At(r, s),
             s = "exchange" => token = r, Continue(r, [req[r] EXCEPT !.token = token])
      PROVE  req'[r].token = token /\ req'[r].row = req[r].row
  <2> DEFINE l == [req[r] EXCEPT !.token = token]
  <2>1. req[r] \in RulesRequest
    BY <1>7, AtIs
  <2>2. /\ l \in RulesRequest /\ l.todo = req[r].todo /\ l.state = req[r].state
        /\ l.kind = req[r].kind /\ l.id = req[r].id /\ l.before = req[r].before
        /\ l.token = token /\ l.posted = req[r].posted /\ l.row = req[r].row
    BY <2>1 DEF RulesRequest
  <2>3. Continue(r, l)
    BY <1>7
  <2> HIDE DEF l
  <2>4. QED
    BY <1>7, <2>2, <2>3, AtIs, ContinueMoves
<1>8. CASE ExchangeCode(r)
  BY <1>1, <1>7, <1>8, AtIs, StopMoves DEF ExchangeCode, Effects
<1>9. CASE StoreToken(r)
  <2>1. At(r, "store") /\ Head(req[r].todo) = "store" /\ req[r].todo # <<>>
    BY <1>9, AtIs DEF StoreToken
  <2>2. req[r].kind = "connect" /\ req[r].todo = <<"store">>
    BY <2>1, AtPlan DEF AtItsPlan
  <2>3. req[r].token = r
    BY <2>2 DEF Progress, OnPlan
  <2>4. QED
    BY <1>9, <2>1, <2>3, AtIs, PlainMoves DEF StoreToken, TokenToStore, Effects
<1>10. CASE ReadStatus(r)
  BY <1>1, <1>7, <1>10, AtIs DEF ReadStatus, Effects
<1>11. CASE Route(r)
  <2>1. At(r, "route") /\ Head(req[r].todo) = "route" /\ UNCHANGED <<rules, slack>>
        /\ req[r].state = "running" /\ req[r].todo # <<>>
    BY <1>11, AtIs DEF Route
  <2>2. CASE ~ UsesToken(req[r].row) /\ Continue(r, req[r])
    BY <1>1, <2>1, <2>2, PlainMoves DEF Effects
  <2>3. CASE Continue(r, [req[r] EXCEPT !.token = slack])
    BY <1>1, <1>7, <2>1, <2>3 DEF Effects
  <2>4. CASE End(r, "error")
    BY <1>1, <2>1, <2>4, StopMoves DEF Effects
  <2>5. QED
    BY <1>11, <2>2, <2>3, <2>4 DEF Route
<1>12. CASE PostToRoom(r) \/ Post(r)
  <2>1. Head(req[r].todo) = "post" /\ UNCHANGED <<rules, slack>>
    BY <1>12, AtIs DEF PostToRoom, Post
  <2>2. req'[r].row = req[r].row
    BY <1>12, <2>1, ActionMoves DEF Moves
  <2>3. QED
    BY <2>1, <2>2 DEF Effects
<1>13. CASE Kill(r)
  <2>1. req[r].todo # <<>> /\ req[r].state = "running" /\ End(r, "killed")
    BY <1>13 DEF Progress, OnPlan, Kill, Killed
  <2>2. UNCHANGED <<rules, slack>> /\ ~ GoesOn(r) /\ req'[r].row = req[r].row
    BY <1>1, <1>13, <2>1, StopMoves DEF Kill
  <2>3. req[r].todo # <<>> /\ Head(req[r].todo) = "save" => req[r].row # Nothing
    <3>1. Head(req[r].todo) = "save" => At(r, "save")
      BY <2>1 DEF At
    <3>2. QED
      BY <1>1, <3>1, Holding
  <2>4. QED
    BY <2>1, <2>2, <2>3 DEF Effects
<1>14. QED
  BY <1>2, <1>3, <1>4, <1>5, <1>6, <1>8, <1>9, <1>10, <1>11, <1>12, <1>13

\* What a step is, with its effects.
LEMMA StepIs ==
    ASSUME Progress, [RulesNext]_rulesVars
    PROVE  UNCHANGED <<rules, slack, req>> \/ \E r \in Request : StepOf(r) /\ (Moves(r) => Effects(r))
<1>1. \A r \in Request : Comes(r) => ~ Moves(r)
  BY DEF Comes, Moves
<1>2. QED
  BY <1>1, ActionMoves, ActionEffects, ArriveComes DEF RulesNext, StepOf, DnsChanges, rulesVars

-----------------------------------------------------------------------------
(* Deleted rules *)

\* Some edit of the rule that d deleted was under way when d ended.
UnderWay(d) == \E p \in Request : EndedOk(p, "patch") /\ req[p].id = req[d].id /\ d \notin req[p].before

\* A deleted rule is back only by such an edit, and only after one can an edit
\* that came later hold a copy of the rule.
Removed == \A d \in Request : EndedOk(d, "delete") =>
    /\ rules[req[d].id] # Nothing => UnderWay(d)
    /\ \A p \in Request :
          /\ req[p].kind = "patch" /\ req[p].id = req[d].id
          /\ d \in req[p].before /\ req[p].row # Nothing
          => UnderWay(d)

\* An edit that has ended stays.
LEMMA UnderWayStays ==
    ASSUME NEW r \in Request, StepOf(r), NEW d \in Request, EndedOk(d, "delete"), UnderWay(d)
    PROVE  UnderWay(d)'
<1>1. PICK p \in Request : EndedOk(p, "patch") /\ req[p].id = req[d].id /\ d \notin req[p].before
  BY DEF UnderWay
<1>2. req'[p] = req[p] /\ req'[d] = req[d]
  BY <1>1, EndedStays DEF EndedOk, Ended
<1>3. EndedOk(p, "patch")' /\ req'[p].id = req'[d].id /\ d \notin req'[p].before
  BY <1>1, <1>2 DEF EndedOk
<1>4. QED
  BY <1>3 DEF UnderWay

\* Only a request at its last statement ends well.
LEMMA EndsByLast ==
    ASSUME Progress, NEW r \in Request, StepOf(r), NEW q \in Request, NEW kind,
           EndedOk(q, kind)', ~ EndedOk(q, kind)
    PROVE  q = r /\ Moves(r) /\ GoesOn(r) /\ Tail(req[r].todo) = <<>> /\ req[r].kind = kind
<1>1. q = r
  BY DEF StepOf, Comes, Moves, EndedOk
<1>2. req'[r].state = "ok" /\ req'[r].kind = kind
  BY <1>1 DEF EndedOk
<1>3. Moves(r)
  BY <1>2 DEF StepOf, Comes
<1>4. GoesOn(r) /\ Len(req[r].todo) = 1 /\ req[r].kind = kind
  BY <1>2, <1>3 DEF Moves, GoesOn, StopsAt
<1>5. QED
  BY <1>1, <1>3, <1>4, AtPlan DEF Moves

\* What is deleted stays so, or an edit under way saves it.
LEMMA RemovedKept == ASSUME Progress, Removed, [RulesNext]_rulesVars PROVE Removed'
<1>1. CASE UNCHANGED <<rules, slack, req>>
  BY <1>1 DEF Removed, UnderWay, EndedOk
<1>2. ASSUME NEW r \in Request, StepOf(r), Moves(r) => Effects(r) PROVE Removed'
  <2>1. SUFFICES ASSUME NEW d \in Request, EndedOk(d, "delete")'
                 PROVE  /\ rules'[req'[d].id] # Nothing => UnderWay(d)'
                        /\ \A p \in Request :
                              /\ req'[p].kind = "patch" /\ req'[p].id = req'[d].id
                              /\ d \in req'[p].before /\ req'[p].row # Nothing
                              => UnderWay(d)'
    BY DEF Removed
  <2>2. \A q \in Request : OnPlan(q) /\ req[q].id \in Origin
    BY DEF Progress, RulesInv, AlertRulesTypeOK, RulesRequest
  <2>3. CASE ~ EndedOk(d, "delete")
    <3>1. /\ d = r /\ Moves(r) /\ GoesOn(r) /\ req[r].todo # <<>> /\ Tail(req[r].todo) = <<>>
          /\ req[r].kind = "delete"
      BY <1>2, <2>1, <2>3, EndsByLast DEF Moves
    <3>2. Head(req[r].todo) = "delete"
      BY <3>1, AtPlan DEF AtItsPlan, Statement
    <3>3. rules'[req'[d].id] = Nothing
      BY <1>2, <3>1, <3>2 DEF Effects, Moves
    <3>4. \A p \in Request : d \notin req'[p].before
      BY <2>2, <3>1 DEF Moves, OnPlan, Ended
    <3>5. QED
      BY <3>3, <3>4
  <2>4. CASE EndedOk(d, "delete")
    <3>1. d # r /\ req'[d] = req[d] /\ (UnderWay(d) => UnderWay(d)')
      BY <1>2, <2>4, EndedStays, UnderWayStays DEF EndedOk, Ended
    <3>2. rules[req[d].id] # Nothing => UnderWay(d)
      BY <2>4 DEF Removed
    <3>3. ASSUME rules'[req'[d].id] # Nothing PROVE UnderWay(d)'
      <4>1. CASE rules'[req[d].id] = rules[req[d].id]
        BY <3>1, <3>2, <3>3, <4>1
      <4>2. CASE rules'[req[d].id] # rules[req[d].id]
        <5>1. Moves(r) /\ GoesOn(r)
          BY <1>2, <2>2, <3>1, <3>3, <4>2 DEF StepOf, Comes, Effects
        <5>2. \/ Head(req[r].todo) = "insert" /\ req[d].id = r
              \/ Head(req[r].todo) = "save" /\ req[d].id = req[r].id /\ req[r].row # Nothing
          BY <1>2, <2>2, <3>1, <3>3, <4>2, <5>1 DEF Effects
        <5>3. req[d].id # r
          <6>1. req[r].state = "running" /\ r # Earlier
            BY <5>1, AlertRulesAssumption DEF Moves
          <6>2. QED
            BY <2>2, <6>1 DEF OnPlan, EndedOk
        <5>4. /\ Head(req[r].todo) = "save" /\ req[d].id = req[r].id /\ req[r].row # Nothing
              /\ req[r].kind = "patch" /\ Tail(req[r].todo) = <<>> /\ Len(req[r].todo) = 1
          BY <5>1, <5>2, <5>3, AtPlan DEF Moves, AtItsPlan
        <5>5. CASE d \in req[r].before
          BY <2>4, <3>1, <5>4, <5>5 DEF Removed
        <5>6. CASE d \notin req[r].before
          <6>1. req'[r].state = "ok" /\ req'[r].kind = "patch" /\ req'[r].id = req'[d].id
                /\ d \notin req'[r].before
            BY <3>1, <5>1, <5>4, <5>6 DEF GoesOn, Moves
          <6>2. EndedOk(r, "patch")'
            BY <6>1 DEF EndedOk
          <6>3. QED
            BY <6>1, <6>2 DEF UnderWay
        <5>7. QED
          BY <5>5, <5>6
      <4>3. QED
        BY <4>1, <4>2
    <3>4. ASSUME NEW p \in Request, req'[p].kind = "patch", req'[p].id = req'[d].id,
                 d \in req'[p].before, req'[p].row # Nothing
          PROVE  UnderWay(d)'
      <4>1. CASE req'[p] = req[p]
        BY <2>4, <3>1, <3>4, <4>1 DEF Removed
      <4>2. CASE req'[p] # req[p]
        <5>1. p = r /\ Moves(r) /\ Effects(r)
          BY <1>2, <3>4, <4>2 DEF StepOf, Comes, Moves
        <5>2. req[p].kind = "patch" /\ req[p].id = req[d].id /\ d \in req[p].before
          BY <3>1, <3>4, <5>1 DEF Moves
        <5>3. req[p].row # Nothing \/ rules[req[d].id] # Nothing
          BY <3>4, <5>1, <5>2 DEF Effects
        <5>4. QED
          BY <2>4, <3>1, <3>2, <5>2, <5>3 DEF Removed
      <4>3. QED
        BY <4>1, <4>2
    <3>5. QED
      BY <3>3, <3>4
  <2>5. QED
    BY <2>3, <2>4
<1>3. QED
  BY <1>1, <1>2, StepIs

\* Nothing is deleted in the first states.
LEMMA NothingEnded == ASSUME RulesInit PROVE \A r \in Request, kind \in DOMAIN RulesPlan : ~ EndedOk(r, kind)
BY DEF RulesInit, RulesLocals, EndedOk

\* A deleted rule is back only by an edit that was under way when the deletion
\* ended, for any number of edits and deletions (alerts/views.py:219).
THEOREM DeletionsLast == RulesSpec => []DeletedStaysDeleted
<1>1. RulesInit => Removed
  BY NothingEnded DEF Removed, RulesPlan
<1>2. Removed => DeletedStaysDeleted
  BY DEF Removed, DeletedStaysDeleted, UnderWay
<1>3. QED
  BY <1>1, <1>2, RemovedKept, RulesProgress, PTL DEF RulesSpec

-----------------------------------------------------------------------------
(* The workspace's token *)

\* A token that is not from before c.
Newer(c, token) == token \notin req[c].before \cup {Earlier, Nothing}

\* A request that has read the token it uses.
Routed(r) ==
    \/ EndedOk(r, "status")
    \/ req[r].kind = "deliver" /\ req[r].todo \in {<<"post">>, <<>>} /\ UsesToken(req[r].row)

\* After a connection, the workspace and whoever came later have newer tokens.
Replaced == \A c \in Request : EndedOk(c, "connect") =>
    /\ Newer(c, slack)
    /\ \A r \in Request : c \in req[r].before /\ Routed(r) => Newer(c, req[r].token)

\* A connection replaces the token, and nothing brings an older one back.
LEMMA ReplacedKept == ASSUME Progress, Replaced, [RulesNext]_rulesVars PROVE Replaced'
<1>1. CASE UNCHANGED <<rules, slack, req>>
  BY <1>1 DEF Replaced, Newer, Routed, EndedOk
<1>2. ASSUME NEW r \in Request, StepOf(r), Moves(r) => Effects(r) PROVE Replaced'
  <2>1. SUFFICES ASSUME NEW c \in Request, EndedOk(c, "connect")'
                 PROVE  /\ slack' \notin req'[c].before \cup {Earlier, Nothing}
                        /\ \A q \in Request : c \in req'[q].before /\ Routed(q)' =>
                              req'[q].token \notin req'[c].before \cup {Earlier, Nothing}
    BY DEF Replaced, Newer
  <2>2. \A q \in Request : OnPlan(q) /\ q \notin {Earlier, Nothing}
    BY AlertRulesAssumption DEF Progress, Origin
  <2>3. CASE ~ EndedOk(c, "connect")
    <3>1. /\ c = r /\ Moves(r) /\ GoesOn(r) /\ req[r].todo # <<>> /\ Tail(req[r].todo) = <<>>
          /\ req[r].kind = "connect" /\ req[r].state = "running"
      BY <1>2, <2>1, <2>3, EndsByLast DEF Moves
    <3>2. Head(req[r].todo) = "store"
      BY <3>1, AtPlan DEF AtItsPlan, Statement
    <3>3. slack' = c /\ req'[c].before = req[c].before
      BY <1>2, <3>1, <3>2 DEF Effects, Moves
    <3>4. \A p \in Request : c \notin req'[p].before
      BY <2>2, <3>1 DEF Moves, OnPlan, Ended
    <3>5. QED
      BY <2>2, <3>3, <3>4
  <2>4. CASE EndedOk(c, "connect")
    <3>1. c # r /\ req'[c] = req[c] /\ Newer(c, slack)
      BY <1>2, <2>4, EndedStays DEF EndedOk, Ended, Replaced
    <3>2. (slack' = r /\ req[r].state = "running") \/ slack' = slack
      BY <1>2 DEF StepOf, Comes, Moves, Effects
    <3>3. r \notin req[c].before \/ req[r].state # "running"
      BY <2>2 DEF OnPlan, Ended
    <3>4. slack' \notin req'[c].before \cup {Earlier, Nothing}
      BY <2>2, <3>1, <3>2, <3>3 DEF Newer
    <3>5. ASSUME NEW q \in Request, c \in req'[q].before, Routed(q)'
          PROVE  req'[q].token \notin req'[c].before \cup {Earlier, Nothing}
      <4>1. CASE req'[q] = req[q]
        <5>1. Routed(q) /\ c \in req[q].before
          BY <3>5, <4>1 DEF Routed, EndedOk
        <5>2. Newer(c, req[q].token)
          BY <2>4, <5>1 DEF Replaced
        <5>3. QED
          BY <3>1, <4>1, <5>2 DEF Newer
      <4>2. CASE req'[q] # req[q]
        <5>1. q = r
          BY <1>2, <4>2 DEF StepOf, Comes, Moves
        <5>2. ~ Comes(r)
          <6>1. \A kind \in DOMAIN RulesPlan : RulesPlan[kind] \notin {<<"post">>, <<>>}
            BY DEF RulesPlan, CreateRule, EditRule, DeleteRule, ConnectSlack, SlackStatus, Delivery
          <6>2. QED
            BY <3>5, <5>1, <6>1 DEF Comes, Routed, EndedOk
        <5>3. Moves(r) /\ Effects(r) /\ req[r].todo # <<>> /\ c \in req[r].before
          BY <1>2, <3>5, <5>1, <5>2 DEF StepOf, Moves
        <5>4. AtItsPlan(r, Head(req[r].todo)) /\ Head(req[r].todo) \in Statement
              /\ (Len(req[r].todo) = 1 <=> Tail(req[r].todo) = <<>>)
          BY <5>3, AtPlan
        <5>5. CASE EndedOk(r, "status")'
          <6>1. GoesOn(r) /\ req[r].kind = "status" /\ Tail(req[r].todo) = <<>>
            BY <1>2, <5>3, <5>5, EndsByLast DEF EndedOk, Moves
          <6>2. Head(req[r].todo) = "status"
            BY <5>4, <6>1 DEF AtItsPlan, Statement
          <6>3. req'[r].token = slack
            BY <5>3, <6>1, <6>2 DEF Effects
          <6>4. QED
            BY <3>1, <5>1, <6>3 DEF Newer
        <5>6. CASE ~ EndedOk(r, "status")'
          <6>1. req[r].kind = "deliver" /\ req'[r].todo \in {<<"post">>, <<>>} /\ UsesToken(req'[r].row)
            BY <3>5, <5>1, <5>3, <5>6 DEF Routed, Moves
          <6>2. CASE Head(req[r].todo) = "route" /\ GoesOn(r)
            <7>1. req'[r].token = slack
              BY <5>3, <6>1, <6>2 DEF Effects
            <7>2. QED
              BY <3>1, <5>1, <7>1 DEF Newer
          <6>3. CASE Head(req[r].todo) = "post"
            <7>1. req[r].todo = <<"post">> /\ req'[r].row = req[r].row /\ req'[r].token = req[r].token
              BY <5>3, <5>4, <6>3 DEF AtItsPlan, Moves
            <7>2. Routed(r)
              BY <6>1, <7>1 DEF Routed
            <7>3. Newer(c, req[r].token)
              BY <2>4, <5>3, <7>2 DEF Replaced
            <7>4. QED
              BY <3>1, <5>1, <7>1, <7>3 DEF Newer
          <6>4. CASE Head(req[r].todo) = "fetch" \/ (Head(req[r].todo) = "route" /\ ~ GoesOn(r))
            <7>1. req'[r].todo \notin {<<"post">>, <<>>}
              <8>1. /\ <<"route", "post">> \notin {<<"post">>, <<>>}
                    /\ <<"post">> # <<>>
                OBVIOUS
              <8>2. Head(<<"post">>) = "post"
                OBVIOUS
              <8>3. QED
                BY <5>3, <5>4, <6>4, <8>1, <8>2 DEF AtItsPlan, Moves, GoesOn, StopsAt
            <7>2. QED
              BY <6>1, <7>1
          <6>5. QED
            BY <5>4, <6>1, <6>2, <6>3, <6>4 DEF AtItsPlan, Statement
        <5>7. QED
          BY <5>5, <5>6
      <4>3. QED
        BY <4>1, <4>2
    <3>6. QED
      BY <3>4, <3>5
  <2>5. QED
    BY <2>3, <2>4
<1>3. QED
  BY <1>1, <1>2, StepIs

\* No status and no alert that comes after a connection uses a token from before
\* it, for any number of connections ("Reconnecting replaces the stored token",
\* integrations/views.py:37).
THEOREM ReconnectionsReplace == RulesSpec => []ReconnectReplaces
<1>1. RulesInit => Replaced
  BY NothingEnded DEF Replaced, RulesPlan
<1>2. Progress /\ Replaced => ReconnectReplaces
  <2> SUFFICES ASSUME Progress, Replaced, NEW r \in Request, NEW c \in Request,
                      EndedOk(c, "connect"), c \in req[r].before,
                      (req[r].posted /\ UsesToken(req[r].row)) \/ EndedOk(r, "status")
               PROVE  req[r].token \notin req[c].before \cup {Earlier, Nothing}
    BY DEF ReconnectReplaces
  <2>1. req[r].posted => req[r].kind = "deliver" /\ req[r].todo = <<>>
    BY DEF Progress, OnPlan, EndedOk
  <2>2. Routed(r)
    BY <2>1 DEF Routed
  <2>3. QED
    BY <2>2 DEF Replaced, Newer
<1>3. QED
  BY <1>1, <1>2, ReplacedKept, RulesProgress, PTL DEF RulesSpec
=============================================================================
