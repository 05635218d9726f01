SPECIFICATION Spec
CONSTANTS
  Orders = {o1}
  Drivers = {d1, d2}
  Codes = {k1, k2}
  Viewers = {v1, v2}
  Decliners = {d1, d2}
  MaxFailures = 2
  LegacyFailed = {}
  Unpinned = {}
  NoDriver = NoDriver
  NoCode = NoCode
  NoOrder = NoOrder
  AtFarm = AtFarm
  AtBuyer = AtBuyer
SYMMETRY MCSymmetry
INVARIANT LockoutSound
PROPERTIES
  CustodyFixed
  CodeNotSilentlyReplaced
