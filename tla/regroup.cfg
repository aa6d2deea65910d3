\* Regroup, from every mix of incident states, beside ingests and workflow operations.
SPECIFICATION RegroupSpec
CONSTANTS
  a = a  b = b  c = c  d = d  job = job  low = low
  g1 = g1  g2 = g2  g3 = g3  g4 = g4  f1 = f1  f2 = f2  fnew = fnew  fother = fother
  Request = {a, b, c, d, job}
  Group = {g1, g2, g3, g4}
  Fingerprint = {f1, f2, fnew, fother}
  Severity = {low}
  MaxIncident = 4
  NoGroup = NoGroup  Unused = Unused  Deleted = Deleted  Unset = Unset
  Killable <- TheJob
  LockConflicts = FALSE
  Seeds <- AllSeeds
  Ingesters = {c, d}
  Editors = {d}
  Arriving = {fnew, fother}
  Ops <- EditOps
  Regroupers = {job, d}
  CurrentFp <- MCCurrentFp
INVARIANTS OneOpenPerGroup Consolidates
PROPERTY MergedGroupStaysOpen
CHECK_DEADLOCK FALSE
