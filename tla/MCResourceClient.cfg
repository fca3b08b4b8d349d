SPECIFICATION MCSpec
CONSTANTS
  Processes = {p1, p2}
  Services = {"s1"}
  Resources = {"org"}
  Grants = {"member", "admin"}
  Owned = {"job"}
  Owner <- MCOwner
  PoolSize = 2
  MaxChanges = 3
INVARIANTS
  DivergenceExplained
PROPERTIES
  ImplementsRegistry
