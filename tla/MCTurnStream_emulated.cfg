SPECIFICATION FairSpec
CONSTANTS
  t = t
  u = u
  none = none
  c0 = c0
  c1 = c1
  clock = clock
  notes = notes
  ghost = ghost
  Tokens = {t, u}
  Names <- MCNames
  CallIn <- MCCallIn
  ToolKind <- MCOnce
  CallIds = {}
  Native = FALSE
  MaxIterations = 3
  MaxPieces = 4
  None = none
PROPERTIES ImplementsReply TurnsEnd
