SPECIFICATION Spec
CONSTANTS
  Task = {t1, t2}
  Endpoints <- MCEndpoints
  NoConn = NoConn
  MaxConns = 4
INVARIANT ClosesAll
CHECK_DEADLOCK FALSE
