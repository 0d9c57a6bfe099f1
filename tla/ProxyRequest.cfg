SPECIFICATION Spec
CONSTANTS
  Labels = {Empty, At, kin, com}
  Empty = Empty
  At = At
  MaxLabels = 4
  Requested <- MCRequested
  Registered = {kin}
  ZoneLists <- MCZoneLists
  NoList = NoList
INVARIANTS
  TypeOK
  ErrorsHaveNoEffect
  ResponseIsOfTarget
  AllTried
  AsksForTheName
PROPERTIES
  EndsOrHangs
CHECK_DEADLOCK FALSE
