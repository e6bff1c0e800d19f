SPECIFICATION Spec
CONSTANTS
  c1 = c1 c2 = c2
  t1 = t1 t2 = t2 t3 = t3
  None = None
  Chats = {c1}
  Turns = {t1, t2}
  IsSqlite = FALSE
  MaxText = 2
PROPERTIES
  ImplementsLife
