\* One worker writes from a start near 2^64.
CONSTANTS
  Workers = {w1}
  Depth = 1
  NamespaceSize = 5
  NsSize <- MCNsSize
  Configs <- MCBoundsConfigs
  MaxRangeSize = 3
  MaxRetries = 2
  Wrap = 16
  Wrap32 = 4096
SPECIFICATION Spec
INVARIANTS DestinationInNamespace
