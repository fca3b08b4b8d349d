SPECIFICATION HandleFairSpec
CONSTANTS
  Service <- MCService
  ServiceOrder <- MCServiceOrder
  Worker = {w1, w2}
  Gateway = "gateway"
  Item <- MCItem
  ServiceOf <- MCServiceOf
  TypeOf <- MCTypeOf
  NameOf <- MCNameOf
  ParentOf <- MCParentOf
  NoParent = "none"
  Name <- MCName
  AnsibleId <- MCAnsibleId
  InitialAid <- MCInitialAid
  InitialGateways <- MCInitialGateways
  SystemUser = {"sysH"}
  Uncorrectable = {}
  PageSize = 2
  MaxBulkChunkSize = 2
  NoService = "nobody"
INVARIANTS
  FlagMeansComplete
  NoServiceBeforeCompletion
PROPERTIES
  GateOpens
