SPECIFICATION Spec
CONSTANTS
  Hashes = {h1, h2, h3, h4}
  Lists <- MCLists
  Addresses = {a1, a2, a3}
  MaxLookups = 3
  MaxAddrs = 2
  NoHash = NoHash
INVARIANTS
  TypeOK
  LookupsBounded
  OneBranchOver
  Sound
  Complete
PROPERTIES
  Terminates
CHECK_DEADLOCK FALSE
