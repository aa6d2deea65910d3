\* Two evaluations beside edits, deleted rules, failed deliveries and kills.
SPECIFICATION Spec
CONSTANTS
  a = a  b = b  i = i  high = high  low = low  e1 = e1  e2 = e2  e3 = e3
  Rule = {a, b}
  Incident = {i}
  State = {high, low}
  Evaluation = {e1, e2}
  Condition <- MCCondition
  Cooldown <- MCCooldown
  MaxClock = 2
  NoRule = NoRule  NoIncident = NoIncident
SYMMETRY Evaluations
INVARIANTS CooldownOfKnown EveryMatchAlerted LogFaithful
