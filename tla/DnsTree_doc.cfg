SPECIFICATION Safety
CONSTANTS
  Hashes = {h1, h2}
  Lists <- MCLists
  Addresses = {a1, a2}
  MaxLookups = 3
  MaxAddrs = 2
  NoHash = NoHash
INVARIANTS
  FlatIsFallback
CHECK_DEADLOCK FALSE
