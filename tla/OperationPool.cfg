\* One or two threads use a pool of four slots, twice the operations a thread
\* holds; the counter wraps at 6, which is no multiple of 4.
CONSTANTS
  Nobody = Nobody
  Threads = {t1, t2}
  PoolSize = 4
  IndexSpan = 6
  HoldLimit = 2
SPECIFICATION FairSpec
INVARIANTS TypeOK ExclusiveOwnership FlagsMatchOwners ContentIntact NeverStarved
PROPERTIES AcquireReturns
