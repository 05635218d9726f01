SPECIFICATION FairSpec
CONSTANTS
  o1 = o1
  o2 = o2
  p1 = p1
  p2 = p2
  b1 = b1
  f1 = f1
  Orders = {o1, o2}
  Products = {p1, p2}
  Users = {b1, f1}
  Calls = {c1}
  Refs = {r1}
  Cart <- MCCart2
  Buyer <- MCBuyer
  Farmer <- MCFarmer2
  InitialStock <- MCStock2
  MaxStock = 1
  SimulatorEnabled = TRUE
  NoPayment = NoPayment
  MockRef = MockRef
  NoOrder = NoOrder
CHECK_DEADLOCK FALSE
INVARIANT StockConserved
PROPERTIES
  ImplementsLifecycle
  CapturedSettles
