CONSTANTS
  Nil = Nil
  VideoSizes = {"hd", "sd"}
  Governance = {TRUE, FALSE}
  AutoPlay = TRUE
  Afk = TRUE
  Wait = TRUE
  MaxReconnectAttempts = 1
  MaxClicks = 1
  MaxFaults = 1
  MaxConfirms = 2
  MaxManager = 2
  MaxDrops = 1
  Patience = 2
  MaxSources = 2
  MaxEvents = 2
  MouseButtons = {"left", "right"}
  Primary = "left"
  Keys = {"w"}
  Touch = {t1, t2}
  Fingers = {0, 1, 2}
  MaxMisses = 2
  Indices = {0, 1}
  MaxRounds = 4
  Sessions = {"r1", "r2"}
  Queries = {"q1"}
  MaxLoads = 3
  PeerIds = {1, 2}
  ReportEvery = 2
  AcceptEvery = 1
  EvidenceTime = 2
  MaxPeers = 2
  MaxReports = 4
  MaxFails = 2
  MaxSize = 3
  Values = {0, 9, 10, 11, 12, 13, 14, 16, 20}
  MaxSends = 1
  Projections = {"p"}
  Positions <- TwoPositions
  Eyes = {"left", "right"}
  Hands = {"left", "right"}
  XrButtons = {"a"}
  MaxSessions = 2
SPECIFICATION Spec
INVARIANTS
  InputsAreTracked
  
  
  StaleIsUnused
  NobodyIsStranded
PROPERTIES
  EndedIsForgotten
  ShownIsReal
  WaitsEnd
CHECK_DEADLOCK FALSE
