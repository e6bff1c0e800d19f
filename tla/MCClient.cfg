SPECIFICATION MCSpec
CONSTANTS
  a = a b = b f1 = f1 f2 = f2 g1 = g1
  Nobody = Nobody
  Folders = {f1, f2}
  Tags = {g1}
  Filters <- MCFilters
  MessageHits <- MCHits
  MaxChats = 2
  MaxClock = 1
  MaxShelving = 4
  PageSize = 1
  NoChat = NoChat
  Screens = {a, b}
  MaxFollows = 2
  MaxViews = 2
  MaxEvents = 1
  ItemHeights = {6, 12}
  BaseEstimate = 6
  Overscan = 0
  Viewport = 8
  MaxItems = 3
  Tokens = {"x", "n", "fence", "longfence"}
  MaxTokens = 3
  MaxRenders = 2
CHECK_DEADLOCK FALSE
INVARIANTS
  LibraryInv
  ScreenInv
  WindowsCoverTheView
  ShownIsTheLatest
PROPERTIES
  StreamingEnds
