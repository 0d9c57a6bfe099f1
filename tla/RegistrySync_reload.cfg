SPECIFICATION Spec
CONSTANTS
  Files = {f1, f2}
  a = a
  a2 = a2
  b = b
  ta = ta
  tb = tb
  Tlds = {ta, tb}
  Configs = {a, a2, b}
  Tld <- MCTld
  Signed = {a, b}
  Allowed = {ta, tb}
  Garbage = Garbage
  NoContent = NoContent
  Earlier = {a2, NoContent}
  NoFile = NoFile
  MaxPublishes = 2
  MaxTroubles = 0
PROPERTIES
  UpdatesLoaded
