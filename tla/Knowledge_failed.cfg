SPECIFICATION KnowSpec
CONSTANTS
  Documents = {"d1", "d2"}
  MaxChunks = 2
CHECK_DEADLOCK FALSE
INVARIANTS
  EndedIngestsShow
