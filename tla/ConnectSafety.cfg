SPECIFICATION FairSpec
CONSTANTS
  Backends = {b1, b2, b3}
  NoBackend = NoBackend
  Callers = {u1, u2}
  MaxRounds = 1
INVARIANTS
  TypeOK
  InUseIsOpen
  TEDAPISlotIsActive
  ErrorNamesConfiguredMode
  SubModeFitsConnection
PROPERTIES
  ImplementsActiveBackend
  ConnectReturns
