SPECIFICATION FairSpec
CONSTANTS
  Task <- MCTask
  Key = {"p", "q"}
  Thread <- MCThread
  NoTask = NoTask
  NoKey = NoKey
  ThreadOf <- MCThreadOf
  KeysOf <- MCApart
  Async <- MCAsync
  Turns = {"loop2"}
INVARIANT TypeOK
PROPERTIES CallersServed ImplementsProxyLock
