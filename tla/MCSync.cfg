SPECIFICATION SyncSpec
CONSTANTS
  Threads = {t1, t2, t3}
  t1 = t1
  t2 = t2
  t3 = t3
  p1 = p1
  p2 = p2
  None = None
  Panicky = {t1}
  MaxCalls = 2
INVARIANTS WordsExact SleepersRemembered PoisonSeen QueueWellFormed NodesAlive OpensWhenFull
           ScopeOutlivesThreads
PROPERTIES ImplementsLock ImplementsRwLock ImplementsParking ImplementsOnce EveryoneReturns
