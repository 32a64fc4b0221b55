SPECIFICATION ServicesSpec
CONSTANTS
  None = None
  Tracks = {t1, t2}
  Handled = {t1}
  Workers = {w1, w2}
  MaxJobs = 2
  MaxTrackVersion = 2
  Files = {f1}
  Previews = {v1, v2}
  Confirms = {c1, c2}
  Fingerprints = {h1}
  MaxFileVersion = 1
  MaxConfirmStops = 1
  SummaryKeys = {k2}
  RouteKeys = {k3}
  ScanKeys = {k4}
  Senders = {s1, s2}
  MaxFileChanges = 1
  Callers = {y1, y2}
  MaxTokens = 3
  Calendars = {b1, b2}
  SourceKeys = {d1, d2}
  Searchers = {q1, q2}
  SourceCacheSize = 1
  MaxSources = 2
  EventCalendars = {m1, u1}
  Monitored = {m1}
  Meetings = {g1, g2}
  MaxEvents = 2
  MaxCards = 2
  MaxSpots = 2
  MaxChoices = 3
INVARIANTS
  ServicesTypeOK OneOpenJob MovesAreTraced DeletedIsGone
  ResponseMatchesCommits NoNeedlessGrant ActiveHasDefault AutomaticIsUnambiguous
PROPERTIES
  JobsDecide ConfirmationEnds ScansRecover SearchesRecover
CHECK_DEADLOCK FALSE
