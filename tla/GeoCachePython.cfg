SPECIFICATION GeoSpec
CONSTANTS
  Clients = {"python"}
  Caller = {u, v}
  gw = gw
  user = user
  Server = {gw}
  User = {user}
  NoUser = NoUser
  None = None
  Proxy <- MCProxy
  Used <- MCUsed
  TTLs <- MCTTLs
  Timeout = 1
  Horizon = 2
INVARIANTS OwnExit
