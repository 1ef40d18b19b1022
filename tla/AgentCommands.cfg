CONSTANTS
  Recycles = {r1}
  Shutdowns = {h1}
  None = None
  Passive = Passive
  MaxListed = 1
  MaxEvents = 2
SPECIFICATION Spec
INVARIANT DoneWasDone
PROPERTY ReplacedOnce
CHECK_DEADLOCK FALSE
