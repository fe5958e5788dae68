CONSTANTS
  Clients <- PythonAsyncOnly
  Overlapping <- PythonAsyncOnly
  Waiter = {w1, w2}
  MaxDoc = 1
  MaxFeed = 2
  NoDoc = NoDoc
  NoState = NoState
SPECIFICATION Spec
INVARIANT OneAnswer
CHECK_DEADLOCK FALSE
