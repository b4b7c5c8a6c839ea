SPECIFICATION FlowSpec
CONSTANTS
  e1 = e1  e2 = e2
  Loops = {g1}
  Engines = {e1, e2}
  Endpoints = {1, 2, 3}
  Local = {1}
  Connections <- InAndOut
  EngineFor <- ByDirection
  PacketKinds = {"SYN", "SYN-ACK", "data"}
  Length = 2
  MaxFlows = 2
  IdleTimeout = 2
  MinPackets = 1
  MLInterval = 2
  HandlerLag = 1
  MaxFlowPackets = 3
  MaxFlowTime = 3
  Modulus = 8
  MaxDepth = 2
  MaxChunks = 1
INVARIANT VisitedServerNotBlamed
CHECK_DEADLOCK FALSE
