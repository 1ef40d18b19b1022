CONSTANTS
  Sessions = {s1}
  NoSession = NoSession
  Tokens = {t1, t2}
  Untokened = Untokened
  NoMarker = NoMarker
  Shutdown = Shutdown
  MaxTokens = 1
  Skew = 1
  MaxTime = 4
  Outcomes = {"durable", "renamed", "lost"}
  Faults = {"process", "host", "marker"}
SPECIFICATION Spec
INVARIANTS
  TypeOK
  FencedTicketsStayOut
  
  ReopenedRecycleIsFenced
PROPERTIES
  DurableCutoffNeverRegresses
  ReopenAdmitsNewTickets
SYMMETRY Symmetry
CHECK_DEADLOCK FALSE
