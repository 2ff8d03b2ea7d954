SPECIFICATION MCSpec
CONSTANTS
  Wide = 4
  Narrow = 2
  Structs <- MCStructs
  Lower <- MCLower
  Results <- MCResults
  Calls <- MCCalls
  MaxReads = 2
  NoEntry = NoEntry
INVARIANTS NullsBecomeZero
CHECK_DEADLOCK FALSE
