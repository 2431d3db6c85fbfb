\* Two workers generate commands for a namespace of 5 blocks, for eight
\* configurations; callbacks of status code 8 move the cursor at any time.
CONSTANTS
  Workers = {w1, w2}
  Depth = 1
  NamespaceSize = 5
  NsSize <- MCNsSize
  Configs <- MCConfigs
  MaxRangeSize = 3
  MaxRetries = 2
  Wrap = 16
  Wrap32 = 4096
SPECIFICATION FairSpec
INVARIANTS TypeOK CommandsInBounds NoSelfOverlap DestinationsDisjoint
PROPERTIES ClearSourcesSucceed
