\* Two threads reserve, reset and move the cursor on a namespace of 4 blocks;
\* the range is the whole namespace, a part of it, or begins at the last 64-bit address and ends beyond the namespace.
CONSTANTS
  Threads = {t1, t2}
  NamespaceSize = 4
  Wrap = 16
  Blocks = {1, 3}
  Ranges <- MCRanges
SPECIFICATION FairSpec
INVARIANTS TypeOK LapDisjoint GrantsInRange
PROPERTIES SomeCallReturns RefinesAtomic
