SPECIFICATION Spec
CONSTANTS
  Recordings = {r1}
  Destinations = {d1, d2}
  Workers = {w1}
  Scanners = {w1}
  Handlers = {}
  None = None
  SlowRuns = FALSE
  MaxFaults = 0
INVARIANTS ArtifactIsTheFile
CHECK_DEADLOCK FALSE
