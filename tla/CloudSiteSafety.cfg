SPECIFICATION PolledSpec
CONSTANTS
  Callers = {c1, c2}
  Ids = {s1, s2}
  Sites = {s1, s2}
  Keys = {data}
  Configured = None
  None = None
  Blank = Blank
  MaxCrashes = 1
INVARIANTS
  OldSiteHasCrossed
PROPERTIES
  ReadsReturn
  SiteIsFound
