SPECIFICATION FairSpec
CONSTANTS
  Requests = {r1, r2}
  aggregates = aggregates
  soe = soe
  Endpoints = {aggregates, soe}
  Routes = {aggregates}
  Threshold = 2
  MaxVersion = 1
  None = None
INVARIANTS
  HealthFollowsCalls
  KnownIsServed
PROPERTIES
  CacheGoesForward
  RequestsReturn
