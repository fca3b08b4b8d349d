SPECIFICATION FairSpec
CONSTANTS
  Service <- MCService
  Gateway = "gateway"
  Item <- MCItem
  ServiceOf <- MCServiceOf
  TypeOf <- MCTypeOf
  NameOf <- MCNameOf
  ParentOf <- MCParentOf
  NoParent = "none"
  Name <- MCName
  AnsibleId <- MCAnsibleId
  InitialAid <- MCInitialAid
  InitialGateways <- MCInitialGateways
  SystemUser = {"sysA"}
  Uncorrectable = {"eveB"}
  PageSize = 2
  MaxBulkChunkSize = 1
  NoService = "nobody"
INVARIANTS
  TeamsFindTheirOrganization
  DoneMeansMigrated
  ManagedByGateway
PROPERTY
  Terminates
