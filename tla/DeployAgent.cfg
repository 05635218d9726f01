SPECIFICATION FairSpec
CONSTANTS
  Images <- MCImages
  Last <- MCLast
  Content <- MCContent
  Broken <- MCBroken
  Unfit <- MCUnfit
  MaxFaults = 2
INVARIANTS ReceiptTrue NothingHalfDone
PROPERTIES OneUndoableActivation Recovers ReleaseDecided
