SPECIFICATION FairSpec
CONSTANTS
  Workers = {w1}
  Writers = {p1}
  Keys = {"cds", "lds", "sds"}
  MaxWrites = 1
  MaxDeaths = 1
INVARIANTS
  StaleOnlyIfOvertaken
PROPERTY
  EventuallyFresh
