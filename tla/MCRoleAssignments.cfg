SPECIFICATION FairSpec
CONSTANTS
  MaxPk = 3
  InitialPk <- MCInitialPk
  PageSize = 2
  GlobalRow <- MCGlobalRow
  Unresolvable <- MCUnresolvable
  ObjectRole <- MCObjectRole
  ObjectRoleOf <- MCObjectRoleOf
  AlreadyAssigned <- MCAlreadyAssigned
INVARIANTS
  NoAssignmentLost
  NoDuplicateAssignment
  RunRebuiltCache
PROPERTIES
  RunEnds
  EmptyPageMeansComplete
