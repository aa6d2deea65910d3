\* Ingests and workflow operations interleaved, with kills and lock conflicts.
SPECIFICATION Spec
CONSTANTS
  r1 = r1  r2 = r2  r3 = r3  r4 = r4
  g1 = g1  g2 = g2  f1 = f1  low = low  high = high
  Request = {r1, r2, r3, r4}
  Group = {g1}
  Fingerprint = {f1}
  Severity = {low, high}
  MaxIncident = 3
  NoGroup = NoGroup  Unused = Unused  Deleted = Deleted  Unset = Unset
  Killable <- OneIngest
  LockConflicts = TRUE
  Seeds <- MixedSeeds
  Ingesters <- TwoIngest
  Editors <- TwoEdit
  Arriving = {f1}
  Ops <- MixedOps
INVARIANTS EditsReportedInOrder ResolvedAtMatchesStatus
PROPERTIES StatusChangeOwesEntry KeepsTheLedger
CHECK_DEADLOCK FALSE
