CONSTANTS
  Nil = Nil
  Streamers = {"u1"}
  Places = {"p1", "p2"}
  Sessions = {"s1"}
  Tokens = {"t1"}
  Untokened = Untokened
  NoMarker = NoMarker
  Shutdown = Shutdown
  MaxTokens = 1
  Skew = 1
  GateTime = 3
  Outcomes = {"durable", "lost"}
  Faults = {"process", "host", "marker"}
  Owners = {"v1"}
  Shadows = {}
  Unmanaged = {"w1"}
  Codecs = {"VP9", "H264"}
  Policies <- PrefersVP9
  MaxSubscribers = 1
  MaxGeneration = 2
  ControlTypes = TRUE
  ReadySoak = 1
  MaxStreamer = 5
  MaxIdle = 1
  MaxGate = 1
  MaxFails = 1
  MaxQueue = 2
  SfuPlayers = {"p1"}
  MaxLosses = 4
  MaxMoves = 3
  Requests = {"r1"}
  Request <- OneRequest
  FaultAfter = 2
  PruneAfter = 2
  NegotiationTime = 6
  Types = {"host", "relay"}
  MaxTracked = 2
  MaxMedia = 2
  Customers = {"r1", "r2"}
  Actives = {"a1", "a2"}
  Wrong = {"signature", "audience", "host"}
  Sockets = {1, 2}
  MaxFaults = 2
  MaxMissedPongs = 3
  Latency = 3
  Static = Static
  TtlSeconds = 1
  ConfiguredOnce = 2
  TurnTime = 2
  Programs = {"a", "b", "c"}
  Wanted <- Names
  Default <- Prefix
  Largest = 1
  MaxSockets = 1
  MaxAsks = 1
SPECIFICATION Spec
INVARIANTS
  StatusIsEarned
  TimersAreSound
  OwnershipIsEarned
  
PROPERTIES
  RecoveryCompletes
  PendingSettles
  TagSettles
  RelayResumes
CHECK_DEADLOCK FALSE
