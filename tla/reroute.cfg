SPECIFICATION Spec
CONSTANTS
  Folders = {home, other, third}
  Home = home
  Shared = {home, other}
  Pages = {g1}
  FirstPage = g1
  Keys = {k1, k2}
  Proposals = {}
  Requests = {p1, p2}
  Confirmers = {}
  None = None
  SlowRequests = FALSE
  MaxFaults = 2
  MaxEdits = 1
INVARIANTS TypeOK MoveIsOnRecord NothingLost OneRequestAtATime
PROPERTIES ImplementsRelocation SwitchAfterProof OthersUntouched RequestsEnd
CHECK_DEADLOCK FALSE
