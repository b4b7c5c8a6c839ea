SPECIFICATION MCSpec
CONSTANTS
  Requesters = {g1, g2}
  Bodies <- SomeBodies
  Settings <- FirstSettings
  Present = {"eth0", "eth1"}
  MaxRequests = 2
  MaxBoots = 2
  MaxFaults = 1
  e1 = e1  e2 = e2
  Loops = {g1, g2}
  Engines = {e1}
  Endpoints = {1, 2, 3}
  Local = {1}
  Connections <- InAndOut
  EngineFor <- OneEngine
  PacketKinds = {"SYN", "SYN-ACK", "data", "FIN"}
  Length = 2
  MaxFlows = 1
  IdleTimeout = 2
  MinPackets = 1
  MLInterval = 2
  HandlerLag = 1
  MaxFlowPackets = 3
  MaxFlowTime = 3
  Modulus = 16
  MaxDepth = 4
  MaxChunks = 1
  Sent <- FiveBytes
  Segments <- ShortSegments
  ISNs = {0, 12}
  Workers = {g1, g2}
  Kinds = {"ssh", "lateral"}
  Keys = {k1, k2}
  Window = 1
  KeyWindow = 2
  Retain = 3
  ScanMemory = 2
  FewPorts = 1
  Threshold <- AboveOne
  MaxLag = 1
  MaxPackets = 4
  MaxTime = 4
  Bytes <- Letters
  Raw = {"x"}
  LowerCase <- SmallLetters
  Replacement <- ReplacementBytes
  RuleTexts <- SomeRules
  Payloads <- ShortPayloads
  MaxRules = 2
  IdleGap = 1
  MinBulk = 2
  MaxEntries = 2
  Sizes = {0, 2}
  Gaps = {0, 1, 2}
  MaxLog = 4
SYMMETRY MCSymmetry
INVARIANTS
  ComponentsTypeOK
  AppliedIsRunning NoTraceLeft NoOrphanCapture 
  HeldIsTracked StreamsOfOneSide MLSpacing BlameFollowsOpener
  Complete
  NothingLiveForgotten  
  SearchFindsAll PrefilterLosesNothing 
   TimesAddUp
PROPERTIES DeliversByteStream
\* Traffic, requests and process starts are bounded.
CHECK_DEADLOCK FALSE
