SPECIFICATION FairSpec
CONSTANTS
  c1 = c1 c2 = c2
  t1 = t1 t2 = t2 t3 = t3
  None = None
  Chats = {c1, c2}
  Turns = {t1, t2}
  IsSqlite = TRUE
  MaxText = 1
INVARIANTS
  WritesInv
PROPERTIES
  EndedTurnsSettle
