SPECIFICATION FairSpec
CONSTANTS
  Permissions = {p1, p2}
  Requests = {r1, r2}
  Kinds = {"read", "assign", "revoke", "sync", "delete_role", "delete_permission"}
  MaxFaults = 1
INVARIANTS TypeOK StaleIsCleared SyncsKeepApart
PROPERTY RevokedInTheEnd
