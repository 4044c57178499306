SPECIFICATION FairSpec
CONSTANTS
  Threads = {t1, t2}
  Requests = {r1, r2, r3}
  REQUEST_STACK_SIZE = 2
  NoRequest = NoRequest
  NoThread = NoThread
INVARIANTS
  ExclusiveOwnership
  LiveAreOwned
  IInv
PROPERTIES
  HeadersLostOnlyInFailedSetup
  MutexReleased
  ImplementsIdlePool
