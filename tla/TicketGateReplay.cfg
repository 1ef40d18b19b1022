CONSTANTS
  Sessions = {s1}
  NoSession = NoSession
  Tokens = {t1}
  Untokened = Untokened
  NoMarker = NoMarker
  Shutdown = Shutdown
  MaxTokens = 1
  Skew = 1
  MaxTime = 5
  Outcomes = {"durable"}
  Faults = {"process"}
SPECIFICATION Spec
PROPERTY RecoveryNeedsReplacement
CHECK_DEADLOCK FALSE
