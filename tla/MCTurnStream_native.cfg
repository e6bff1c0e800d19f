SPECIFICATION Spec
CONSTANTS
  t = t
  u = u
  none = none
  c0 = c0
  c1 = c1
  clock = clock
  notes = notes
  ghost = ghost
  Tokens = {t}
  Names <- MCNames
  CallIn <- MCNoCall
  ToolKind <- MCToolKind
  CallIds = {c0, c1}
  Native = TRUE
  MaxIterations = 2
  MaxPieces = 2
  None = none
INVARIANTS ShownInv RequestsAreAnswered
