\* One worker copies from another namespace.
CONSTANTS
  Workers = {w1}
  Depth = 1
  NamespaceSize = 5
  NsSize <- MCNsSize
  Configs <- MCCrossConfigs
  MaxRangeSize = 3
  MaxRetries = 2
  Wrap = 16
  Wrap32 = 4096
SPECIFICATION Spec
INVARIANTS ReadsChosenNamespace
