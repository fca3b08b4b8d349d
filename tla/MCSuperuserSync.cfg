SPECIFICATION Spec
CONSTANTS
  Users = {u1, u2}
  Controller = controller
  HubEda = {hub, eda}
  MaxRuns = 2
  MaxChanges = 1
CHECK_DEADLOCK FALSE
SYMMETRY Permuted
INVARIANTS
  NoEscalation
  NoSuperuserBeyondGateway
