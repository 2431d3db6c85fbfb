\* A depth of 2 and therefore 4 operations; every limit of the code is small
\* enough to be reached, the batch limit before the depth.
CONSTANTS
  Ops = {o1, o2, o3, o4}
  NoOp = NoOp
  TargetDepth = 2
  BatchMax = 1
  MaxRetries = 2
  MaxErrors = 2
  MaxReconnects = 2
  DrainMax = 2
  DeferredCap = 2
SPECIFICATION FairSpec
INVARIANTS TypeOK PoolAccounting PoolSuffices OutstandingExact QpairAccounting SettledBeforeReconnect DeferredBounded
PROPERTIES NoSubmissionAfterLoop StopEndsThread IdleWorkerResumes KeepsContract
