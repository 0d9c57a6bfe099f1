SPECIFICATION AtlasSpec
CONSTANTS
  kin = kin
  fork = fork
  a = a
  a2 = a2
  b = b
  Tlds = {kin, fork}
  Seeded = {kin}
  Requests = {r1}
  Nodes = {n1, n2}
  IdleTimeout = 1
  NoTld = NoTld
  NoNode = NoNode
  Configs = {a, a2, b}
  ConfigsOf <- MCConfigsOf
  NoConfig = NoConfig
PROPERTY
  ReloadTakesEffect
