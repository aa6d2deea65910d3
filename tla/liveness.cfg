\* Every request ends and every status change gets its timeline entry.
SPECIFICATION FairSpec
CONSTANTS
  r1 = r1  r2 = r2  r3 = r3  r4 = r4
  g1 = g1  g2 = g2  f1 = f1  low = low  high = high
  Request = {r1, r2, r3, r4}
  Group = {g1}
  Fingerprint = {f1}
  Severity = {low, high}
  MaxIncident = 2
  NoGroup = NoGroup  Unused = Unused  Deleted = Deleted  Unset = Unset
  Killable <- Nobody
  LockConflicts = TRUE
  Seeds <- SmallSeeds
  Ingesters <- TwoIngest
  Editors <- TwoEdit
  Arriving = {f1}
  Ops <- MixedOps
PROPERTIES EveryRequestEnds OwedEntryWritten
CHECK_DEADLOCK FALSE
