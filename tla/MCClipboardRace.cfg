CONSTANTS
  Clients = {a, b}
  MaxSelections = 2
  MaxPastes = 0
SPECIFICATION Spec
INVARIANT DevicesSeeClipboard
CHECK_DEADLOCK FALSE
