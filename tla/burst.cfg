\* Concurrent ingests of one error, nobody editing.
SPECIFICATION Spec
CONSTANTS
  r1 = r1  r2 = r2  r3 = r3  r4 = r4
  g1 = g1  g2 = g2  f1 = f1  low = low  high = high
  Request = {r1, r2, r3, r4}
  Group = {g1, g2}
  Fingerprint = {f1}
  Severity = {low}
  MaxIncident = 4
  NoGroup = NoGroup  Unused = Unused  Deleted = Deleted  Unset = Unset
  Killable <- Nobody
  LockConflicts = FALSE
  Seeds <- BurstSeeds
  Ingesters <- AllIngest
  Editors <- Nobody
  Arriving = {f1}
  Ops <- Nobody
INVARIANT BurstDeduplicated
CHECK_DEADLOCK FALSE
