SPECIFICATION FairSpec
CONSTANTS
  Recordings = {r1}
  Destinations = {d1, d2}
  Workers = {w1, w2}
  Scanners = {w1}
  Handlers = {}
  None = None
  SlowRuns = FALSE
  MaxFaults = 2
INVARIANTS TypeOK StatusIsEarned OneRunPerRecording FileInChosenFolder
PROPERTIES ImplementsLifecycle MarkAfterCard RunsSettle
CHECK_DEADLOCK FALSE
