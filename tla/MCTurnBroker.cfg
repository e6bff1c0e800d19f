SPECIFICATION MCSpec
CONSTANTS
  c = c
  t1 = t1 t2 = t2
  r1 = r1 r2 = r2
  s1 = s1 s2 = s2
  None = None
  Chats = {c}
  Turns = {t1, t2}
  Readers = {r1, r2}
  Stoppers = {s1, s2}
  MaxBuffer = 2
CHECK_DEADLOCK FALSE
INVARIANTS
  ReadersInv
  TurnsInv
PROPERTIES
  EndedTurnsAreFrozen
  StopsAreAnswered
  ReadersFinish
  ImplementsLog
