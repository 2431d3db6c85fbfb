\* A drain gives up while a command is in flight.
CONSTANTS
  MaxCores = 2
  Inputs <- MCTwoWorkers
  MaxCommands = {64}
  Wrap32 = 4096
SPECIFICATION Spec
INVARIANTS PoolOutlivesCommands
