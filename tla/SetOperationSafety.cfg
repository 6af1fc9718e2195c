SPECIFICATION Spec
CONSTANTS
  Callers = {c1, c2}
  Values = {v1, v2}
  Reset = Reset
  Default = Default
  None = None
  MaxSwitch = 2
PROPERTIES
  OtherFieldKept
  RemoteSuccessIsComplete
SYMMETRY Symmetry
