SPECIFICATION Spec
CONSTANTS
  Orders = {o1, o2}
  Drivers = {d1, d2}
  Codes = {k1, k2}
  Viewers = {}
  Decliners = {}
  MaxFailures = 1
  LegacyFailed = {o1, o2}
  Unpinned = {o2}
  NoDriver = NoDriver
  NoCode = NoCode
  NoOrder = NoOrder
  AtFarm = AtFarm
  AtBuyer = AtBuyer
SYMMETRY MCSymmetry
INVARIANTS
  TypeOK
  OneActiveDelivery
  OrderMatchesShipment
  EarnedOrRefunded
  SuspendedHoldsNothing
PROPERTY ImplementsLifecycle
