SPECIFICATION FairSpec
CONSTANTS
  Task <- MCTask
  Key = {"p", "q"}
  Thread <- MCThread
  NoTask = NoTask
  NoKey = NoKey
  ThreadOf <- MCThreadOf
  KeysOf <- MCTogether
  Async <- MCAsync
  Turns = {}
\* The deadlock is the point: the property is checked instead.
CHECK_DEADLOCK FALSE
PROPERTY CallersServed
