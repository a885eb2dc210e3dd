SPECIFICATION ToolsSpec
CONSTANTS
  Runners = {v1, v2}
  Readers = {a1}
  Keepers = {k1}
  Nobody = Nobody
  Cap = 3
  Sizes = {2}
  PruneEvery = 10
  Proxies = {v1, v2}
  Blocks = {b1, b2, b3}
  Room = 2
  StoreEvery = 2
  l1 = l1
  l2 = l2
  l3 = l3
  Rows <- MCRows
  Scans <- MCScans
  Texts = {v1, v2}
  c1 = c1
  c2 = c2
  Clients <- MCClients
  Helpers = {c1}
  Blind = {c2}
  Proxied = {c2}
  MaxEdits = 1
  MaxMessages = 5
  MaxCalls = 3
  Turns = {0, 1}
  MaxBlock = 6
  MinBlock = 2
  Threshold = 5
  HeadLen = 2
  TailLen = 1
  Repeats = 3
  Blanks = 1
  Numbers = {"one"}
  MaxTotal = 8
  Gate = 5
  Chunk = 3
  Most = 3
  Limits = {2, 4}
  Agents = {g1}
  Memories = {v1, v2}
  Digest = {}
  MaxRows = 2
SYMMETRY MCAlike
INVARIANTS
  ToolsTypeOK
  NoTornRead
  
  ReadToTheEnd
  SyncReachesAll
  NoLinkLeft
  RevertRestoresConfigs
  PairsStayWhole
  CompactIsIdempotent
  ActiveTurnSurvives
  FailClosed
  InjectionIsFresh
PROPERTIES
  
  RecentOriginalsSurvive
  OldMemoriesSurvive
CHECK_DEADLOCK FALSE
