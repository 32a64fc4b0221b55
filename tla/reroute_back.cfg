SPECIFICATION Spec
CONSTANTS
  Folders = {home, other}
  Home = home
  Shared = {}
  Pages = {g1}
  FirstPage = g1
  Keys = {k1, k2}
  Proposals = {}
  Requests = {p1}
  Confirmers = {}
  None = None
  SlowRequests = FALSE
  MaxFaults = 0
  MaxEdits = 0
PROPERTIES MovedIsRecorded
CHECK_DEADLOCK FALSE
