SPECIFICATION Spec
CONSTANTS
  Callers = {c1, c2}
  op = op
  vitals = vitals
  Apis = {op, vitals}
  Vitals = vitals
  Requests <- ConfigRequests
  Sessions = {s1}
  NoSession = NoSession
  MaxWrites = 1
INVARIANTS
  TypeOK
  StaleHasACause
  ForcedPollIsFresh
SYMMETRY Symmetry
CHECK_DEADLOCK FALSE
