SPECIFICATION Spec
CONSTANTS
  Callers = {c1, c2}
  MaxToken = 2
  MaxCrashes = 1
  NoFile = NoFile
  Torn = Torn
INVARIANTS
  SurvivesRestart
SYMMETRY Symmetry
CHECK_DEADLOCK FALSE
