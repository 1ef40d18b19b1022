CONSTANTS
  Managed = {m1}
  Claimless = {c1}
  MaxAttempts = 2
  Outcomes <- OneFault
  Modes = {"on", "off"}
SPECIFICATION FairSpec
INVARIANTS
  NobodyAfterDeadline
  TeardownIsOrderly
  WindowsEnd
 
CHECK_DEADLOCK FALSE
