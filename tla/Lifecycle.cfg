\* Up to three workers: start() may fail at any of them while the others run.
CONSTANTS
  MaxCores = 3
  Inputs <- MCInputs
  MaxCommands <- MCMaxCommands
  Wrap32 = 4096
SPECIFICATION FairSpec
INVARIANTS TypeOK PoolHeldWhileRunning QpairValid DetachedAfterJoin WorkersSpread
PROPERTIES ShutdownTerminates WorkersWithinContract
