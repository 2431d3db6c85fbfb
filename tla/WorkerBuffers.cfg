\* A generation that fails for good, and a later use of the same operation.
CONSTANTS
  Ops = {o1, o2}
  NoOp = NoOp
  TargetDepth = 1
  BatchMax = 1
  MaxRetries = 2
  MaxErrors = 2
  MaxReconnects = 1
  DrainMax = 1
  DeferredCap = 1
SPECIFICATION Spec
INVARIANTS CommandsBacked
