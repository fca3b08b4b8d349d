SPECIFICATION SessionSpec
CONSTANTS
  Worker = {w1, w2}
  MaxSession = 5
  Limits <- MCLimits
INVARIANTS
  ExcessBounded
PROPERTIES
  LoginCompletes
CHECK_DEADLOCK FALSE
