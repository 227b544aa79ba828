SPECIFICATION Spec
CONSTANTS
  Permissions = {p1, p2}
  Requests = {r1, r2}
  Kinds = {"sync"}
  MaxFaults = 0
PROPERTY SyncReplaces
CHECK_DEADLOCK FALSE
