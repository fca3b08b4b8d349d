SPECIFICATION MCSpec
CONSTANTS
  WorkloadIdentity = TRUE
  AocInstance = FALSE
  Unchangeable = {}
  Workers = {w1, w2}
  PrefOrder <- MCPrefOrder
  Priv = "jwt_private_key"
  Pub = "jwt_public_key"
  Encrypted <- MCEncrypted
  ReadOnly <- MCReadOnly
  Inspecting = TRUE
  Excluded = {"custom_login_info", "custom_logo"}
  Rows = {"column", "config", "unloadable"}
  Values = {"v1", "v2"}
  Empty = "empty"
  Keys = {k1, k2, k3}
  Plain = "plaintext"
  FirstKey = k1
  ColumnOrder <- MCColumnOrder
  ConfigOrder <- MCConfigOrder
  PrefIds <- MCPrefIds
  Unloadable = {"unloadable"}
  BatchSize = 2
  Requests <- MCRequests
INVARIANTS
  ServedAsStored
  PairMatches
  OneKnownKey
  StartsAfterRotation
SYMMETRY
  Symmetry
CONSTRAINT
  Focus
