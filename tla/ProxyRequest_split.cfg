SPECIFICATION Safety
CONSTANTS
  Labels = {Empty, At, kin, com}
  Empty = Empty
  At = At
  MaxLabels = 4
  Requested <- MCRequested
  Registered = {kin}
  ZoneLists <- MCZoneLists
  NoList = NoList
INVARIANTS
  AnyNameSplits
CHECK_DEADLOCK FALSE
