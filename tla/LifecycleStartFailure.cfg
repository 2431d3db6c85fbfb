\* start() fails while a worker runs.
CONSTANTS
  MaxCores = 2
  Inputs <- MCTwoWorkers
  MaxCommands = {64}
  Wrap32 = 4096
SPECIFICATION Spec
INVARIANTS StopReachesThreads
