SPECIFICATION Spec
CONSTANTS
  Callers = {c1, c2, c3}
  MaxToken = 2
  MaxCrashes = 1
  NoFile = NoFile
  Torn = Torn
INVARIANTS
  RefreshIsNotified
  BehindHasACause
  FileSurvives
SYMMETRY Symmetry
CHECK_DEADLOCK FALSE
