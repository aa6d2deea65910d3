\* Requests of three workers under one address key and one project key.
SPECIFICATION ThrottleSpec
CONSTANTS
  w1 = w1  w2 = w2  w3 = w3  ip = ip  project = project
  Client = {w1, w2, w3}
  IpKey = {ip}
  ProjectKey = {project}
  Cap <- MCCap
  MaxHits = 5
  NoFurtherKey = NoFurtherKey
SYMMETRY Workers
INVARIANT CapNearlyHolds
PROPERTY DeniedOnlyAtCap
