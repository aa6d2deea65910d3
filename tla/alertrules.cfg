\* Edits, deletions and deliveries of rules, and connections to Slack.
SPECIFICATION RulesSpec
CONSTANTS
  mail = mail  hook = hook  room = room
  r1 = r1  r2 = r2  r3 = r3
  Request = {r1, r2, r3}
  Address = {mail}  Url = {hook}  Room = {room}
  Resolutions <- MCResolutions
  NewRule <- MCNewRule
  Patch <- MCPatch
  Earlier = Earlier  Nothing = Nothing
SYMMETRY Symmetric
INVARIANTS RulesStaySendable DeletedStaysDeleted ReconnectReplaces
CHECK_DEADLOCK FALSE
