SPECIFICATION Spec
CONSTANTS
  Tlds = {kin, fork}
  Seeded = {kin}
  Requests = {r1, r2}
  Nodes = {n1, n2, n3}
  IdleTimeout = 0
  NoTld = NoTld
  NoNode = NoNode
INVARIANTS TypeOK LiveSenders
PROPERTIES NeverReplaced PoolSpec AcquireEnds UnreachableStops IdleReclaimed
