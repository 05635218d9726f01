SPECIFICATION Spec
CONSTANTS
  e1 = e1
  e2 = e2
  e3 = e3
  d1 = d1
  d2 = d2
  o1 = o1
  Earnings = {e1, e2, e3}
  Drivers = {d1, d2}
  Orders = {o1}
  Requests = {q1, q2}
  Calls = {c1, c2}
  Owner <- MCOwner
  Amount <- MCAmount
  Price <- MCPrice
  None = None
SYMMETRY MCSymmetry
INVARIANTS
  PaidOnce
  SuccessIsRecorded
  BooksBalance
