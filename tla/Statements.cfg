SPECIFICATION StatementsSpec
CONSTANTS
  Quotes = {"sq", "dq"}
  Idents = {"a"}
  Others = {}
  MaxLen = 5
  Names = {"a", "b"}
  Words = {"(", ")", ","}
  Args <- MCArgs
  Expand = TRUE
  Longest = 5
INVARIANTS
  PlacesInOrder FindsThePlaceholders StableUnderBinding
  BindsAsMeant KeyDeterminesArgs BatchRepeatsGroup InvalidationFindsKey
PROPERTY ReadsToTheEnd
CHECK_DEADLOCK FALSE
