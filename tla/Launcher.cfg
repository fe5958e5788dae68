SPECIFICATION Spec
CONSTANTS
  Launch = {l1, l2}
  Port = {"9222", "9223"}
  Held = {"9222"}
  Nobody = nobody
  Stranger = stranger
  Model = {"models"}
  Timeout = 3
  ReadTimeout = 2
  Sleep = 1
  MaxCalls = 3
  Launched <- MCLaunched
  MaxPieces = 1
  Var <- MCVar
  ProxyVar <- MCProxyVar
  Inherited <- MCInherited
  Assignment <- MCAssignment
  HandFlag <- MCHandFlag
  Tuning <- MCTuning
INVARIANTS TypeOK LaunchedAsAsked FailedLeavesNothing Prompt
PROPERTIES LaunchEnds
CHECK_DEADLOCK FALSE
