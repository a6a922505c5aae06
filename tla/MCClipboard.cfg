CONSTANTS
  Clients = {a, b}
  MaxSelections = 2
  MaxPastes = 1
SPECIFICATION FairSpec
INVARIANTS TypeOK DevicesAgree OwnersAreAsked
PROPERTY SelectionReachesDevices
CHECK_DEADLOCK FALSE
