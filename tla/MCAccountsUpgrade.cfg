SPECIFICATION MCSpec
CONSTANTS
  Users = {"u1", "u2"}
  Names = {"a", "b", "c"}
  Local = "local"
  Sso = "sso"
  Joined = "a,b"
  JoinedUids = {"a", "b"}
  None = None
  Null = Null
  MaxRequests = 2
  Requests <- MCRequests
  Accounts <- MCAccounts
  Stages = 3
  Migrations = {"m1", "m2"}
  Fingerprints = {"f1", "f2"}
  Absent = Absent
  Late = Late
  Checkouts <- MCCheckouts
  Policies <- MCPolicies
  Histories <- MCHistories
INVARIANTS
  NothingLeftBehind
  PassIsEarned
PROPERTIES
  StoredAsAsked
  ValidIsApplied
CHECK_DEADLOCK FALSE
