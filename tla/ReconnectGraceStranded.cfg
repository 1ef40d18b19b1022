CONSTANTS
  Managed = {m1}
  Claimless = {}
  MaxAttempts = 2
  Outcomes <- StopFailsToo
  Modes = {"on", "off"}
SPECIFICATION FairSpec
PROPERTY ElapsedEnds
CHECK_DEADLOCK FALSE
