SPECIFICATION FairSpec
CHECK_DEADLOCK FALSE
CONSTANTS
  Bits = 4
  Given = {5, 13}
  Ones = {1, 2, 3, 4}
  Threads = 2
  None = None
  Torn = Torn
INVARIANTS
  HostsAreUsable
  ProbesAreBounded
  OnlyCutShortLoses
  OneProbeAfterCancel
PROPERTIES
  ScanReturns
