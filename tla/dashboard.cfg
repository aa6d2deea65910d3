\* Every kind of write of one project, whose counter is missing at first.
SPECIFICATION ExpiringSpec
CONSTANTS
  p1 = p1  w1 = w1  w2 = w2   r1 = r1  r2 = r2
  Project = {p1}
  Writer = {w1, w2}
  ProjectOf <- OneProject
  Reader = {r1, r2}
  Kinds = {"saved", "transaction", "silent"}
  NoVersion = NoVersion
INVARIANT FreshAfterBump
PROPERTY CommittedWriteShows
