SPECIFICATION FairSpec
CONSTANTS
  Callers = {c1}
  op = op
  vitals = vitals
  Apis = {op, vitals}
  Vitals = vitals
  Requests <- AloneRequests
  Sessions = {s1, s2}
  NoSession = NoSession
  MaxWrites = 2
INVARIANTS
  RepresentationMatches
  PostTellsWhatItDid
PROPERTIES
  CallsReturn
CHECK_DEADLOCK FALSE
