SPECIFICATION MCSpec
CONSTANTS
  t1 = t1 t2 = t2 k1 = k1 k2 = k2
  person = person local = local
  None = None
  CTurns = {t1, t2}
  Compactors = {k1, k2}
  MaxIds = 4
  MaxEdits = 2
  Window = 3
  PageLimit = 1
  People = {person}
  LocalUser = local
  Tabs = {t1, t2}
  OpenRegistration = FALSE
  Serialised = TRUE
  MaxTokens = 3
  MaxAdminSteps = 2
CHECK_DEADLOCK FALSE
SYMMETRY Symmetric
INVARIANTS
  ConvInv
  CalmTurnsContinueTheirBranch
  PagesJoin
  AccountsInv
