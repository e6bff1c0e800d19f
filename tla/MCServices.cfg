SPECIFICATION MCSpec
CONSTANTS
  v1 = v1 v2 = v2 w1 = w1 w2 = w2 z1 = z1 z2 = z2
  u1 = u1 u2 = u2 key = key kind = kind
  operator = operator
  None = None Keep = Keep Absent = Absent NoClient = NoClient
  Providers = {z1, z2}
  Urls = {u1, u2}
  Loopback = u1
  Keys = {key}
  Admins = {v1, v2}
  Discoverers = {operator}
  Listers = {z1, z2}
  Operators = {operator}
  MaxChanges = 2
  ParamKeys = {z1, z2}
  Kinds = {kind}
  Lookups = {v1, v2}
  Savers = {w1, w2}
  CacheEntries = 1
  MaxSaves = 2
  Documents = {v1, v2}
  MaxChunks = 2
  SuffixCount = 3
  MaxMoment = 2
  Texts <- MCTexts
  MaxChars = 5
  OverlapChars = 2
  Exports <- MCExports
  SourceIds = {"s1", "s2", "m1", "m2", "m3", "f1", "f2"}
  TagNames = {"g"}
  FolderNames = {"f1"}
  MaxChats = 2
  Instances = {"old", "new", "other"}
  Newest <- MCNewest
  Statements = 2
  Tasks = {"t1", "t2", "t3"}
  MaxClients = 3
  Owners = {operator, kind}
  Viewer = operator
  Slugs = {key}
  Presets = {u1}
  Plain = None
  Sends = {z1, z2}
  Toggles = {v1, v2}
  Refs = {z1, z2}
  MaxModels = 2
  MaxStarted = 2
  Uploaders = {v1, v2}
  Contents = {u1, u2}
  Pictures = {u1}
  OneWriter = TRUE
  MaxFiles = 2
CHECK_DEADLOCK FALSE
SYMMETRY Symmetric
INVARIANTS
  RegistryInv
  SettingsInv
  CollectionsInv
  ChunksCoverTheText
  ImportsKeepChats
  StartupInv
  SavedInv
  UploadsInv
PROPERTIES
  CalmIdsIncrease
