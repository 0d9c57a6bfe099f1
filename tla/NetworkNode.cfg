SPECIFICATION Spec
CONSTANTS
  Calls = {c1, c2}
  Peers = {p1, p2}
  Capacity = 1
  MaxDials = 2
  NoCall = NoCall
  NoPeer = NoPeer
INVARIANTS
  TypeOK
  WaiterTracked
  NeverDropped
  OwnDial
  NoneMeansMissing
PROPERTIES
  Answered
  PendingDrains
  ServiceSpec
CHECK_DEADLOCK FALSE
