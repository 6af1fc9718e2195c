SPECIFICATION FairSpec
CONSTANTS
  Callers = {c1, c2}
  MaxVersion = 2
  MaxDelay = 2
  Empty = Empty
INVARIANTS
  MissesCoalesce
  ForcedIsFresh
  StaleHasCrossed
PROPERTIES
  BackoffStopsReads
  CallsReturn
