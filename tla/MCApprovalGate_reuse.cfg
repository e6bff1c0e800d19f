SPECIFICATION Spec
CONSTANTS
  t1 = t1 t2 = t2
  i1 = i1 i2 = i2
  clock = clock notes = notes mail = mail
  None = None
  Turns = {t1, t2}
  Ids = {i1}
  Tools <- MCTools
  Mode <- MCMode
  ReusesIds = TRUE
  MaxCalls = 2
  MaxClicks = 3
CHECK_DEADLOCK FALSE
PROPERTY RunsOnConsent
