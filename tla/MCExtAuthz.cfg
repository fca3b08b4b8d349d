SPECIFICATION Spec
CONSTANTS
  Threads = {t1}
  Savers = {s1}
  Values = {a, b}
  NoValue = none
  Requests <- MCRequests
  TicksPerSecond = 2
  Expirations = {0, 2}
  Buffer = 1
  MaxDelay = 1
  MaxTime = 4
  MaxChanges = 2
  MaxSettings = 1
INVARIANTS
  InternalNeedsServiceToken
  LiveInCache
  StaleAtMostLifetime
SYMMETRY ValuesAreAlike
