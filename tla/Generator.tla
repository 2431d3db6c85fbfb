------------------------------ MODULE Generator ------------------------------
(***************************************************************************)
(* XcopyGenerator::generate() (src/xcopy_generator.cpp) as the workers run *)
(* it concurrently over the one destination cursor, with the retries of    *)
(* submit_next_io_pooled() and the completions that send the cursor back   *)
(* (src/poll_thread_manager.cpp).                                          *)
(*                                                                         *)
(* Everything generate() draws is a free choice: the workers share its     *)
(* random engine without a lock, and the distributions keep whatever the   *)
(* engine returns in their ranges.  A reservation is one step, as module   *)
(* AtomicLba promises and LbaManager implements.                           *)
(***************************************************************************)
EXTENDS LbaCursor, Configuration, FiniteSets

CONSTANTS
  Workers,
  Depth,         \* commands a worker has in flight at most
  Configs,       \* the configurations the program may be given
  NsSize,        \* the blocks of each namespace; 0 for one that does not exist
  MaxRangeSize,  \* the blocks a range descriptor can hold (0x10000)
  MaxRetries     \* calls of generate() per submission (10)

ASSUME GeneratorAssumption ==
  /\ Depth \in Nat \ {0} /\ MaxRetries \in Nat \ {0} /\ MaxRangeSize \in Nat
  /\ 2 * NamespaceSize < Wrap
  /\ NsSize \in [DOMAIN NsSize -> Nat]
  /\ \A c \in Configs :
       /\ c.dst_nsid \in DOMAIN NsSize /\ NsSize[c.dst_nsid] = NamespaceSize
       /\ c.src_nsids \subseteq DOMAIN NsSize
       /\ c.dst_lba_start \in Lbas /\ c.dst_lba_end \in Lbas
       /\ c.max_ranges \in Nat /\ c.fixed_ranges \in Nat /\ c.range_size \in Nat

VARIABLES
  config,
  start, end, current,  \* the cursor of the LBA manager
  pc,                   \* where each worker's submission is
  retry_count,          \* its failed calls of generate()
  op,                   \* the command it generates
  commands              \* the commands in flight, by worker and queue entry

bounds == <<config, start, end>>
vars == <<bounds, current, pc, retry_count, op, commands>>

Slots == 1 .. Depth

\* A command: the first blocks of its source ranges and their namespace, the
\* blocks it copies and where it writes them; once it is sent, the namespace
\* from which the device reads; and, as history, whether the cursor was at the
\* start of the range since the destination was reserved.
NoCommand ==
  [sources |-> {}, nsid |-> 0, blocks |-> 0, dst |-> 0, reads |-> 0, lapped |-> TRUE]

Commands ==
  [sources : SUBSET Nat, nsid : DOMAIN NsSize \cup {0}, blocks : 0 .. NamespaceSize,
   dst : Lbas, reads : DOMAIN NsSize \cup {0}, lapped : BOOLEAN]

TypeOK ==
  /\ config \in Configs
  /\ start \in Lbas /\ end \in 0 .. NamespaceSize /\ current \in Lbas
  /\ pc \in [Workers -> {"idle", "draw", "reserve", "issue"}]
  /\ retry_count \in [Workers -> 0 .. MaxRetries - 1]
  /\ op \in [Workers -> Commands]
  /\ commands \in [Workers -> [Slots -> Commands]]

\* main() has parsed and validated the options and found the destination.
Init ==
  /\ config \in {c \in Configs : Accepted(c)}
  /\ start = config.dst_lba_start
  /\ end = EffectiveEnd(config.dst_lba_end)
  /\ current = start
  /\ pc = [w \in Workers |-> "idle"]
  /\ retry_count = [w \in Workers |-> 0]
  /\ op = [w \in Workers |-> NoCommand]
  /\ commands = [w \in Workers |-> [s \in Slots |-> NoCommand]]

Goto(w, label) == pc' = [pc EXCEPT ![w] = label]

\* The worker has room for a command and starts to generate one.
Submit(w) ==
  /\ pc[w] = "idle"
  /\ \E s \in Slots : commands[w][s] = NoCommand
  /\ Goto(w, "draw")
  /\ UNCHANGED <<bounds, current, retry_count, op, commands>>

\* A faulty variant of Retry: one call too many.
RetryLate(w) ==
  IF retry_count[w] + 1 <= MaxRetries
  THEN Goto(w, "draw") /\ retry_count' = [retry_count EXCEPT ![w] = @ + 1]
  ELSE Goto(w, "idle") /\ retry_count' = [retry_count EXCEPT ![w] = 0]

\* generate() has returned -1: it is called again, unless this was the last time.
Retry(w) ==
  IF retry_count[w] + 1 < MaxRetries
  THEN Goto(w, "draw") /\ retry_count' = [retry_count EXCEPT ![w] = @ + 1]
  ELSE Goto(w, "idle") /\ retry_count' = [retry_count EXCEPT ![w] = 0]

-----------------------------------------------------------------------------
(* generate() up to the reservation                                        *)

\* get_random_num_ranges()
RangeCounts ==
  IF config.fixed_ranges > 0 THEN {config.fixed_ranges} ELSE 1 .. config.max_ranges

\* The namespaces a command may copy from.  A context with a controller says of
\* every target that it supports copies between namespaces.
SourceNsids ==
  IF ~config.enable_cross_namespace \/ config.src_nsids = {}
  THEN {config.dst_nsid} ELSE config.src_nsids

\* LbaManager::get_random_src_lba(): in the first 90% of the destination
\* namespace, if they hold a range.
RandomSourceLbas ==
  LET safe == (NamespaceSize * 90) \div 100
      span == IF safe < config.range_size THEN NamespaceSize ELSE safe
  IN IF config.range_size >= NamespaceSize THEN {0} ELSE 0 .. span - config.range_size

\* A faulty variant of Clamped: the end of the range is not considered.
ClampedToStart(lba, nsid) == IF lba > NsSize[nsid] THEN NsSize[nsid] ELSE lba

\* A range that does not fit in its namespace is moved to the end of it.
Clamped(lba, nsid) ==
  IF lba + config.range_size > NsSize[nsid] THEN NsSize[nsid] - config.range_size ELSE lba

\* The tests that depend on the configuration and on what was drawn.
Drawable(nsid, count) ==
  /\ config.range_size < NsSize[nsid]
  /\ config.range_size <= MaxRangeSize
  /\ count * config.range_size <= NamespaceSize

\* One range per draw; the same may be drawn twice.
Draw(w, nsid, count, lbas) ==
  /\ pc[w] = "draw"
  /\ Drawable(nsid, count)
  /\ lbas # {} /\ Cardinality(lbas) <= count
  /\ op' = [op EXCEPT ![w] =
              [NoCommand EXCEPT !.sources = {Clamped(l, nsid) : l \in lbas},
                                !.nsid = nsid, !.blocks = count * config.range_size]]
  /\ Goto(w, "reserve")
  /\ UNCHANGED <<bounds, current, retry_count, commands>>

DrawFails(w) ==
  /\ pc[w] = "draw"
  /\ \E nsid \in SourceNsids, count \in RangeCounts : ~Drawable(nsid, count)
  /\ Retry(w)
  /\ UNCHANGED <<bounds, current, op, commands>>

-----------------------------------------------------------------------------
(* The reservation and the tests after it                                  *)

\* A faulty variant of Overlaps: only the first block of a source is compared.
OverlapsAtStart(c, dst) ==
  /\ c.nsid = config.dst_nsid
  /\ \E s \in c.sources : dst <= s /\ s < Add(dst, c.blocks)

\* A faulty variant of Overlaps: the namespaces are not compared.
OverlapsAnywhere(c, dst) ==
  \E s \in c.sources : s < Add(dst, c.blocks) /\ s + config.range_size > dst

\* Within one namespace no source may overlap the destination.
Overlaps(c, dst) ==
  /\ c.nsid = config.dst_nsid
  /\ \E s \in c.sources : s < Add(dst, c.blocks) /\ s + config.range_size > dst

\* generate() rejects a command for the place it was given.
Rejects(c, dst) == Add(dst, c.blocks) > NamespaceSize \/ Overlaps(c, dst)

\* The cursor is sent back to the start, or leaves it: what was reserved before
\* may be reserved again.
Lapped(c) == [c EXCEPT !.lapped = TRUE]

LapAll ==
  commands' = [w \in Workers |-> [s \in Slots |-> Lapped(commands[w][s])]]

OthersLapped(w, c) ==
  op' = [v \in Workers |-> IF v = w THEN c ELSE Lapped(op[v])]

\* The blocks are reserved also when the command is then rejected.
Reserve(w) ==
  LET blocks == op[w].blocks
      dst == Granted(start, end, current, blocks)
      placed == [op[w] EXCEPT !.dst = dst, !.lapped = FALSE]
      result == IF Rejects(op[w], dst) THEN NoCommand ELSE placed
  IN /\ pc[w] = "reserve"
     /\ current' = Advanced(start, end, current, blocks)
     /\ IF dst = start THEN LapAll /\ OthersLapped(w, result)
        ELSE UNCHANGED commands /\ op' = [op EXCEPT ![w] = result]
     /\ IF Rejects(op[w], dst) THEN Retry(w)
        ELSE Goto(w, "issue") /\ retry_count' = [retry_count EXCEPT ![w] = 0]
     /\ UNCHANGED bounds

-----------------------------------------------------------------------------
(* Submission and completion                                               *)

\* The command is sent to the destination namespace.  Its descriptors name no
\* source namespace, and the device reads where the command is sent.
Issue(w, s) ==
  /\ pc[w] = "issue"
  /\ commands[w][s] = NoCommand
  /\ commands' = [commands EXCEPT ![w][s] =
                    [op[w] EXCEPT !.sources = {}, !.reads = config.dst_nsid]]
  /\ op' = [op EXCEPT ![w] = NoCommand]
  /\ Goto(w, "idle")
  /\ UNCHANGED <<bounds, current, retry_count>>

\* A faulty variant of Refused: the worker gives its blocks back.
RefusedReturning(w) ==
  /\ pc[w] = "issue"
  /\ current' = op[w].dst
  /\ op' = [op EXCEPT ![w] = NoCommand]
  /\ Goto(w, "idle")
  /\ UNCHANGED <<bounds, retry_count, commands>>

\* The submission is refused: the command is dropped, its blocks stay reserved.
Refused(w) ==
  /\ pc[w] = "issue"
  /\ op' = [op EXCEPT ![w] = NoCommand]
  /\ Goto(w, "idle")
  /\ UNCHANGED <<bounds, current, retry_count, commands>>

\* The callback of a command whose status code is not 8.
Complete(w, s) ==
  /\ pc[w] = "idle"
  /\ commands[w][s] # NoCommand
  /\ commands' = [commands EXCEPT ![w][s] = NoCommand]
  /\ UNCHANGED <<bounds, current, pc, retry_count, op>>

\* With status code 8, also that of an abort, the cursor goes back to the start
\* under the reservations of every worker.
CompleteResetting(w, s) ==
  /\ pc[w] = "idle"
  /\ commands[w][s] # NoCommand
  /\ current' = start
  /\ commands' = [v \in Workers |-> [u \in Slots |->
                    IF v = w /\ u = s THEN NoCommand ELSE Lapped(commands[v][u])]]
  /\ op' = [v \in Workers |-> Lapped(op[v])]
  /\ UNCHANGED <<bounds, pc, retry_count>>

-----------------------------------------------------------------------------
Drawing(w) ==
  \E nsid \in SourceNsids, count \in RangeCounts, lbas \in SUBSET RandomSourceLbas :
    Draw(w, nsid, count, lbas)

\* The steps of one call of submit_next_io_pooled().
Submission(w) ==
  \/ Submit(w) \/ Drawing(w) \/ DrawFails(w) \/ Reserve(w) \/ Refused(w)
  \/ \E s \in Slots : Issue(w, s)

Next ==
  \E w \in Workers :
    \/ Submission(w)
    \/ \E s \in Slots : Complete(w, s) \/ CompleteResetting(w, s)

Spec == Init /\ [][Next]_vars

\* No source of the command is near the destination range.
Clear(nsid, lbas) ==
  nsid = config.dst_nsid =>
    \A l \in lbas : Clamped(l, nsid) + config.range_size <= start \/ end <= Clamped(l, nsid)

\* Such a command that fits in the range may be drawn.
ClearDraw(w) ==
  \E nsid \in SourceNsids, count \in RangeCounts, lbas \in SUBSET RandomSourceLbas :
    /\ Clear(nsid, lbas) /\ start + count * config.range_size <= end
    /\ Draw(w, nsid, count, lbas)

ClearDrawExists ==
  \E nsid \in SourceNsids, count \in RangeCounts, l \in RandomSourceLbas :
    /\ Drawable(nsid, count) /\ Clear(nsid, {l})
    /\ start + count * config.range_size <= end

\* A worker inside submit_next_io_pooled(), or with room, keeps executing, and
\* every draw that remains possible is made again and again.
FairSpec ==
  /\ Spec
  /\ \A w \in Workers : WF_vars(Submission(w)) /\ SF_vars(ClearDraw(w))

-----------------------------------------------------------------------------
(* Properties                                                              *)

\* The generated commands that occupy blocks of the destination.
Placed ==
  {<<w, 0>> : w \in {v \in Workers : pc[v] = "issue"}}
    \cup {p \in Workers \X Slots : commands[p[1]][p[2]] # NoCommand}

CommandOf(p) == IF p[2] = 0 THEN op[p[1]] ELSE commands[p[1]][p[2]]

Fits(c) == start + c.blocks <= end

\* A command that generate() returns has its descriptors in the buffer for
\* max_ranges of them and reads blocks of the namespace it has chosen, although
\* the source was drawn by the size of another one; and it writes inside the
\* configured range if it fits there, wherever the other workers and the resets
\* have sent the cursor.  That of a command that does not fit is the subject of
\* DestinationInNamespace.
CommandsInBounds ==
  \A w \in Workers : pc[w] = "issue" =>
    LET c == op[w] IN
      /\ c.blocks <= config.max_ranges * config.range_size
      /\ \A s \in c.sources : s + config.range_size <= NsSize[c.nsid]
      /\ Fits(c) => start <= c.dst /\ c.dst + c.blocks <= end

\* "Validate destination bounds" (xcopy_generator.cpp:210): a command that
\* generate() returns writes blocks that its namespace has.
DestinationInNamespace ==
  \A w \in Workers : pc[w] = "issue" => op[w].dst + op[w].blocks <= NamespaceSize

\* Of a command whose sources are drawn in the destination namespace, no source
\* block is one that it writes: the half-open intervals of check and command
\* agree, also for the place that a retry is given.  Block numbers do not wrap;
\* a command whose last block is past 2^64 is the subject of
\* DestinationInNamespace, and where a command drawn for another namespace reads
\* that of ReadsChosenNamespace.
NoSelfOverlap ==
  \A w \in Workers : pc[w] = "issue" /\ op[w].nsid = config.dst_nsid =>
    \A s \in op[w].sources :
      (s .. s + config.range_size - 1)
         \cap (op[w].dst .. op[w].dst + op[w].blocks - 1) = {}

\* No two commands on their way write the same block until the cursor returns
\* to the start, although rejected attempts and refused submissions
\* of all workers take part of the range, and resets come at any time.
DestinationsDisjoint ==
  \A p, q \in Placed :
    LET c == CommandOf(p)
        d == CommandOf(q)
    IN (p # q /\ ~c.lapped /\ ~d.lapped /\ Fits(c) /\ Fits(d)) =>
         c.dst + c.blocks <= d.dst \/ d.dst + d.blocks <= c.dst

\* If the configuration leaves sources clear of the destination range, a worker
\* that generates gets a command, however often ten attempts are rejected and
\* wherever the other workers move the cursor.
ClearSourcesSucceed ==
  \A w \in Workers : (ClearDrawExists /\ pc[w] = "draw") ~> pc[w] = "issue"

\* "Enable cross-namespace copy (format 2, requires TP4130 support)"
\* (config_manager.cpp:142): a command reads the namespace chosen for it.
ReadsChosenNamespace ==
  \A p \in Placed : p[2] # 0 => CommandOf(p).reads = CommandOf(p).nsid
=============================================================================
