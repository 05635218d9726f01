SPECIFICATION Spec
CONSTANTS
  o1 = o1
  o2 = o2
  p1 = p1
  p2 = p2
  b1 = b1
  f1 = f1
  Orders = {o1, o2}
  Products = {p1}
  Users = {b1, f1}
  Calls = {c1}
  Refs = {r1, r2}
  Cart <- MCCart
  Buyer <- MCBuyer
  Farmer <- MCFarmer
  InitialStock <- MCStock
  MaxStock = 1
  SimulatorEnabled = FALSE
  NoPayment = NoPayment
  MockRef = MockRef
  NoOrder = NoOrder
CHECK_DEADLOCK FALSE
PROPERTY OnlyPendingReceivesPayment
