SPECIFICATION FairSpec
CONSTANTS
  Recordings = {r1}
  Destinations = {d1}
  Workers = {w1}
  Scanners = {w1}
  Handlers = {}
  None = None
  SlowRuns = FALSE
  MaxFaults = 1
PROPERTIES MarkedCompletes
CHECK_DEADLOCK FALSE
