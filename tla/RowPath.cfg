SPECIFICATION MCSpec
CONSTANTS
  Wide = 4
  Narrow = 2
  Structs <- MCStructs
  Lower <- MCLower
  Results <- MCResults
  Calls <- MCCalls
  MaxReads = 2
  NoEntry = NoEntry
INVARIANTS HitsAgree DirectAgrees IntegersKept OnlyBytesShared MetadataFits LookupsAgree
CHECK_DEADLOCK FALSE
