SPECIFICATION LocksSpec
CONSTANTS
  Key = {k1, k2}
  NoKey = NoKey
  Task = {t1, t2, t3}
  Slot = {s1, s2, s3, s4, s5}
  NoSlot = NoSlot
  Cancellable = {t1, t2}
  Caller = {c1, c2, c3, c4}
  NoCaller = NoCaller
INVARIANTS TypeOK MutualExclusion NobodyStranded OnlyCancellationLeaks
  ChainTypeOK FirstComeFirstServed
PROPERTIES WaitersServed ImplementsProxyLock CallsServed ChainImplementsProxyLock
