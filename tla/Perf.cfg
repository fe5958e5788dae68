SPECIFICATION PerfSpec
CONSTANTS
  Task = {t1, t2}
  Slot = {s1, s2, s3, s4}
  Conn = {c1, c2, c3, c4}
  NoSlot = NoSlot
  NoConn = NoConn
  N = 2
  CursorMod = 2
  Hung = {1}
  Clients = {"rust", "python"}
  Caller = {u, v}
  gw = gw
  user = user
  Server = {gw}
  User = {user}
  NoUser = NoUser
  None = None
  Proxy <- MCProxy
  Used <- MCUsed
  TTLs <- MCTTLs
  Timeout = 1
  Horizon = 2
INVARIANTS TypeOK SingleFlight NoCrossEndpoint GeoTypeOK BoundedAge OwnExitInRust
PROPERTY CallsReturn
