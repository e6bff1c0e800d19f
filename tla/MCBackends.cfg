SPECIFICATION MCSpec
CONSTANTS
  backendA = backendA urlA = urlA listerA = listerA serverA = serverA operationA = operationA
  None = None Keep = Keep
  Providers = {backendA}
  Urls = {urlA}
  Loopback = urlA
  Keys = {}
  Admins = {}
  Discoverers = {}
  Listers = {listerA}
  Operators = {}
  MaxChanges = 1
  MaxJobs = 2
  MaxLines = 1
  MaxFinished = 1
  MaxAnswers = 1
  MaxTexts = 1
  MaxCalls = 2
  MaxParts = 2
  MaxRounds = 2
  QueueSize = 2
  MaxVersions = 2
  Probers = {"p1", "p2"}
  Servers = {serverA}
  Operations = {operationA}
  Transports = {"stdio", "http_sse", "sse", "http_auto"}
  MaxServerEdits = 3
  lt = lt slash = slash gt = gt
  Characters = {lt, slash, gt}
  Open <- MCOpen
  Close <- MCClose
  MaxLength = 7
CHECK_DEADLOCK FALSE
INVARIANTS
  JobsInv
  AdaptersInv
  ConnectionsInv
  SplitInv
PROPERTIES
  FollowersAreTold
  OperationsEnd
