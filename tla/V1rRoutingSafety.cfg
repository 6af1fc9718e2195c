SPECIFICATION FairSpec
CONSTANT
  Callers = {c1, c2}
INVARIANTS
  StrictIsSigned
  SuccessIsTakenOnce
  EventIsReplaced
PROPERTIES
  WiFiWriteIsProbed
  RequestsReturn
