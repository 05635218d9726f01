SPECIFICATION TraceSpec
CONSTANTS
  r1 = r1
  r2 = r2
  Records = {r1, r2}
  Recorded = {r2}
  Listed = r1
  Workers = {w1, w2}
  MAX_RETRIES = 3
  MaxCrashes = 2
  NoWorker = NoWorker
  NoRecord = NoRecord
CHECK_DEADLOCK FALSE
INVARIANTS
  ConfirmedOnLedger
  TraceTrue
PROPERTIES
  Final
  EventuallyDecided
