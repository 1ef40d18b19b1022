CONSTANTS
  Recycles = {r1}
  Shutdowns = {}
  None = None
  Passive = Passive
  MaxListed = 1
  MaxEvents = 2
SPECIFICATION FairSpec
PROPERTIES
  CommandsEnd
  RecoveryEnds
CHECK_DEADLOCK FALSE
