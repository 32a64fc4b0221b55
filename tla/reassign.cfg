SPECIFICATION Spec
CONSTANTS
  Folders = {home}
  Home = home
  Shared = {}
  Pages = {g1, g2, g3}
  FirstPage = g1
  Keys = {}
  Proposals = {q1, q2}
  Requests = {}
  Confirmers = {c1}
  None = None
  SlowRequests = FALSE
  MaxFaults = 3
  MaxEdits = 0
INVARIANTS LinkOnSomeCard
CHECK_DEADLOCK FALSE
