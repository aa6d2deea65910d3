SPECIFICATION WorkspaceSpec
CONSTANTS
  r1 = r1  r2 = r2  r3 = r3
  u1 = u1  u2 = u2
  Request = {r1, r2, r3}
  User = {u1, u2}
  Nobody = Nobody  Earlier = Earlier
  Invitable = {"viewer"}
  Notices = {"incident_assigned", "incident_created"}
  MaxGiven = 1  MaxInbox = 2
SYMMETRY Symmetric
INVARIANTS InvitedAsAddressed AdmitsOnce ReinviteVoids ManagersManage ToggleKept AssignedOnlyIsKept
CHECK_DEADLOCK FALSE
