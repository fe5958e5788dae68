SPECIFICATION FairSpec
CONSTANTS
  Task = {t1, t2, t3}
  Conn = {c1}
  Server = {p, q}
  t1 = t1
  t2 = t2
  NoTask = NoTask
  ViaSession = {t1, t2}
  WithId = {t3}
  Impatient = {t1, t3}
  Loops <- MCLoops
INVARIANTS TypeOK OwnCredentials NothingLeftPending DisturbedOnlyByLeftover
PROPERTIES CallsReturn
\* The system stops: each task makes one call.
CHECK_DEADLOCK FALSE
