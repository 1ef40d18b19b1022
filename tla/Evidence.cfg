CONSTANTS
  None = None  Reset = Reset
  l1 = l1  l2 = l2  l3 = l3  q1 = q1  q2 = q2  e1 = e1  e2 = e2
  f1 = f1  c1 = c1  c2 = c2  r1 = r1  r2 = r2
  Lives = {l1, l2, l3}  Qualities = {q1, q2}  Evidences = {e1, e2}  Poison = {e1}
  Faults = {f1}  Codecs = {c1, c2}  Customers = {r1, r2}
  Workloads <- Mixed  Writes = {"ok", "failed"}
  MaxPending = 2  MaxFiles = 1  MaxBatch = 2  MaxCodecs = 2  MaxFaults = 1
  Managers = {"logs", "shots"}  ArtifactIds = {1, 2}  Undeliverable = {1}
  MaxDrain = 2  MaxSelected = 1  MaxSessions = 2  MaxShots = 1  MaxLines = 2
  MaxCaptures = 2  MaxArtifactFaults = 1
SPECIFICATION EitherSpec
INVARIANT EvidenceIsKept
PROPERTIES
  Delivered
  AllIsDelivered
CHECK_DEADLOCK FALSE
