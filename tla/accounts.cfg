SPECIFICATION Spec
CONSTANTS
  r1 = r1  r2 = r2  r3 = r3
  Request = {r1, r2, r3}
  Email = {e1, e2}  Username = {n1, n2}
  Earlier = Earlier  Wrong = Wrong
  DevCodes = {Master}  GoogleVerifies = TRUE
  MaxAttempts = 2
SYMMETRY Requests
INVARIANTS AddressProven NewCodeVoidsOld LockedAfterAttempts ResetVoidsCodes SpentTokenRefused
CHECK_DEADLOCK FALSE
