SPECIFICATION Spec
CONSTANTS
  c1 = c1
  h1 = h1
  e1 = e1
  e2 = e2
  Accounts = {c1, h1, e1, e2}
  ServiceOrder <- MCServiceOrder
  Histories <- MCHistories
  Home <- MCHome
  Originals <- MCOriginals
  ServicePrefixes <- MCServicePrefixes
  UpstreamFails = TRUE
  MaxRuns = 3
CHECK_DEADLOCK FALSE
INVARIANTS
  MergeIsComplete
  NoAccountDropped
