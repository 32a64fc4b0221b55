SPECIFICATION Spec
CONSTANTS
  Recordings = {r1, r2}
  Destinations = {d1}
  Workers = {w1}
  Scanners = {w1}
  Handlers = {h1}
  None = None
  SlowRuns = TRUE
  MaxFaults = 1
INVARIANTS RecordedFileIsOurs
PROPERTIES NoOverwrite CardsAreForInterviews
CHECK_DEADLOCK FALSE
