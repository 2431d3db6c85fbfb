---------------------------- MODULE MCGenerator ----------------------------
(* Namespaces and configurations for model checking Generator.             *)
EXTENDS Generator, TLC

\* The destination, a smaller namespace, and one that does not exist.
MCNsSize == (1 :> 5) @@ (2 :> 3) @@ (3 :> 0)

\* parse_args() for one address and ranges of one block, unless given says otherwise.
With(given) == Parsed(given @@ ("traddrs" :> 1) @@ ("range_size" :> 1))

MCConfigs == {
  \* The whole namespace.
  With([max_ranges |-> 2]),
  \* A part of it, which one command may exceed.
  With([max_ranges |-> 3, dst_lba_start |-> 1, dst_lba_end |-> 3]),
  \* The last block of it, beyond every source, and a fixed number of ranges.
  With([max_ranges |-> 2, fixed_ranges |-> 1, dst_lba_start |-> 4]),
  \* Copies from the other namespaces too.
  With([range_size |-> 2, enable_cross_namespace |-> TRUE, src_nsids |-> {1, 2, 3}]),
  \* A start far beyond the namespace, so that sums wrap.
  With([range_size |-> 2, dst_lba_start |-> 14, dst_lba_end |-> 9]),
  \* A range longer than a descriptor can say, one longer than the namespace,
  \* and more ranges than the buffer holds, which validate() refuses.
  With([range_size |-> 4]),
  With([range_size |-> 5]),
  With([fixed_ranges |-> 2])}

\* Only the start near 2^64 = Wrap.
MCBoundsConfigs ==
  {With([range_size |-> 2, dst_lba_start |-> 14, dst_lba_end |-> 9])}

\* Only the copies between two namespaces.
MCCrossConfigs ==
  {With([enable_cross_namespace |-> TRUE, src_nsids |-> {2}])}
=============================================================================
