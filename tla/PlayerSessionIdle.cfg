SPECIFICATION Spec
CONSTANTS
  Governance <- BothKinds
  AutoPlay = TRUE
  Afk = TRUE
  Wait = TRUE
  MaxReconnectAttempts = 1
  MaxClicks = 2
  MaxFaults = 1
INVARIANTS IdleStaysOut
CHECK_DEADLOCK FALSE
