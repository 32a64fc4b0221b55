SPECIFICATION Spec
CONSTANTS
  Recordings = {r1}
  Destinations = {d1}
  Workers = {w1}
  Scanners = {w1}
  Handlers = {h1}
  None = None
  SlowRuns = FALSE
  MaxFaults = 0
PROPERTIES CompletedIsFinal
CHECK_DEADLOCK FALSE
