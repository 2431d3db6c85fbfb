--------------------------- MODULE Configuration ---------------------------
(***************************************************************************)
(* The options of the program (src/config_manager.cpp): their defaults,    *)
(* their conversion to the widths of the fields of Config, what validate() *)
(* accepts, and the depth of each worker that start() computes from them.  *)
(* An address is one of many; only their number, traddrs, matters here.    *)
(***************************************************************************)
EXTENDS Integers

CONSTANT Wrap32  \* number of values of a uint32_t

ASSUME ConfigurationAssumption == Wrap32 \in Nat \ (0 .. 2048)

\* The constructor of Config.
Defaults ==
  [traddrs |-> 0, runtime_sec |-> 10, iodepth |-> 64, num_cores |-> 1,
   max_ranges |-> 1, fixed_ranges |-> 0, dst_nsid |-> 1, src_nsids |-> {},
   dst_lba_start |-> 0, dst_lba_end |-> 0, range_size |-> 2048,
   enable_cross_namespace |-> FALSE]

\* The fields that a 64-bit number is narrowed to.
Fields32 == {"iodepth", "num_cores", "max_ranges", "fixed_ranges", "dst_nsid"}

\* parse_args() for the numbers the user gives to some of the options: the
\* fields wrap silently, and the destination is the default source.
Parsed(given) ==
  LET narrowed ==
        [f \in DOMAIN Defaults |->
           IF f \notin DOMAIN given THEN Defaults[f]
           ELSE IF f \in Fields32 THEN given[f] % Wrap32
           ELSE IF f = "src_nsids" THEN {n % Wrap32 : n \in given[f]}
           ELSE given[f]]
  IN IF narrowed.src_nsids = {}
     THEN [narrowed EXCEPT !.src_nsids = {narrowed.dst_nsid}]
     ELSE narrowed

\* Config::validate()
Accepted(c) ==
  /\ c.traddrs > 0 /\ c.iodepth > 0 /\ c.num_cores > 0
  /\ c.max_ranges \in 1 .. 16 /\ c.fixed_ranges \in 0 .. 16
  /\ c.fixed_ranges <= c.max_ranges
  /\ c.dst_nsid > 0 /\ c.range_size > 0

\* The depth start() gives to every worker; maxcmd is what the first
\* controller reports.
PerThreadDepth(c, maxcmd) ==
  LET share == IF c.iodepth \div c.num_cores < 4 THEN 4 ELSE c.iodepth \div c.num_cores
      capped == IF share > maxcmd THEN maxcmd ELSE share
  IN IF capped > 1024 THEN 1024 ELSE capped
=============================================================================
