CONSTANTS
  Sessions = {s1, s2}
  NoSession = NoSession
  Tokens = {t1}
  Untokened = Untokened
  NoMarker = NoMarker
  Shutdown = Shutdown
  MaxTokens = 1
  Skew = 1
  MaxTime = 5
  Outcomes = {"durable", "renamed", "lost"}
  Faults = {"host"}
SPECIFICATION Spec
INVARIANTS
  OneCustomerPerRuntime
PROPERTIES
  RecoveryNeedsReplacement
  ReleaseOnlyUnused
SYMMETRY Symmetry
CHECK_DEADLOCK FALSE
