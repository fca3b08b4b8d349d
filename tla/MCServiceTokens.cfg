SPECIFICATION MCSpec
CONSTANTS
  Editors = {e1, e2}
  Clusters <- MCClusters
  MaxActive = 2
  MaxKeys = 4
  Threads = {t1, t2}
  ProbeOrder <- MCProbeOrder
  Ids = {"i1", "i2", "i3"}
  NoId = "none"
  Reports <- MCReports
  InitialIds <- MCInitialIds
  Cooldown = 1
  MaxEntries = 1
  MaxProbes = 2
  MaxTime = 3
  Savers = {s1}
  Admins = {a1, a2}
  TypeOf <- MCTypeOf
  ClusterOfNode <- MCClusterOfNode
  ApiPort = "api"
  OtherPorts = {"other"}
  InitialRoutes <- MCInitialRoutes
  InitialTags <- MCInitialTags
  InitialFloor = 1
  Posts <- MCPosts
  Patches <- MCPatches
  Configs <- MCConfigs
  TagSets = {{"a"}, {}}
  Floors = {1, 3}
  MaxWrites = 2
INVARIANTS
  ActiveBounded
  AcceptedForIssuer
  TableBounded
  EndpointsAsTagged
  InternalGuarded
  RulesKept
PROPERTIES
  NewKeyReplaces
CONSTRAINT
  OneAtATime

SYMMETRY
  Symmetry
