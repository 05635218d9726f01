SPECIFICATION LoanSpec
CONSTANTS
  Farmers = {f1}
  Loans = {l1}
  Calls = {c1, c2, c3}
  Amounts = {7, 8}
  MaxDuration = 3
  Dates <- MCDates
  NoOne = NoOne
  NoLoan = NoLoan
  NoDate = NoDate
  Admins = {a1, a2}
  Applicants = {f1}
  LimitAmounts = {1, 2}
  defaultLoanMin = 1
  defaultLoanMax = 2
  Unset = Unset
  Seeds <- MCSeeds
  ATTEMPTS = 2
  MaxSaves = 2
CHECK_DEADLOCK FALSE
SYMMETRY MCSymmetry
INVARIANTS
  ScheduleCoversLoan
  DecidedOnce
  PageIsOneRevision
  NoSaveLost
PROPERTIES
  RepaymentsKept
  TakenWithinLimits
