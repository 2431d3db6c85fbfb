----------------------------- MODULE Statistics -----------------------------
(***************************************************************************)
(* The statistics object of src/statistics.cpp with its latency buffer     *)
(* (include/statistics.h) and its error counter (src/error_handler.cpp).   *)
(* The workers' completion callbacks record into one object without locks, *)
(* one atomic access at a time.  After the workers have been joined (see   *)
(* Lifecycle) main() takes a snapshot and reports from it.                 *)
(*                                                                         *)
(* The counters are 64 bits wide and do not wrap within centuries; reset() *)
(* is never called.                                                        *)
(***************************************************************************)
EXTENDS Integers, Sequences, FiniteSets, Bags, Functions

CONSTANTS
  Workers,
  Completions,  \* the [bytes, latency] of commands that succeed
  Failures,     \* the [sct, sc] of commands that fail
  BufferSize,   \* BUFFER_SIZE (65536)
  Unset,        \* UINT64_MAX, what the minimum starts from
  MaxEvents     \* bound: the commands that end in a behaviour

ASSUME StatisticsAssumption ==
  /\ Completions \subseteq [bytes : Nat, latency : 1 .. Unset - 1]
  /\ Failures \subseteq [sct : 0 .. 7, sc : 0 .. 255]
  /\ Completions \cap Failures = {}
  /\ BufferSize \in Nat \ {0}
  /\ Unset \in Nat \ {0} /\ MaxEvents \in Nat

VARIABLES
  stats,     \* the shared object
  pc,        \* the next access of each worker
  job,       \* the event it records, 0 outside of a callback
  seen,      \* its local current_min or current_max
  slot,      \* its local idx
  log,       \* history: the events in the order their recording began
  snapshot   \* what get_snapshot() made, NoSnapshot before the report

vars == <<stats, pc, job, seen, slot, log, snapshot>>

Slots == 0 .. BufferSize - 1

\* The constructor.
Fresh ==
  [operations_completed |-> 0, operations_failed |-> 0, bytes_copied |-> 0,
   total_latency_ns |-> 0, min_latency_ns |-> Unset, max_latency_ns |-> 0,
   samples |-> [i \in Slots |-> 0], write_index |-> 0, sample_count |-> 0,
   latency_samples |-> <<>>,
   saturation_errors |-> 0, fatal_errors |-> 0, other_errors |-> 0,
   error_counts |-> EmptyBag]

NoSnapshot == <<>>

\* The two that are kept by exchange loops.
Extremes == {"min_latency_ns", "max_latency_ns"}

\* The next access: the counters, the loads and the loops of the extremes and
\* the latency buffer in record_completion(), and record_failure().
Labels ==
  {"idle", "completed", "bytes", "total", "loadMin", "loadMax"} \cup Extremes
    \cup {"draw", "store", "count", "failed", "classify", "code"}

\* The values the object may have, with the given map of error codes.
Objects(codes) ==
  [operations_completed : Nat, operations_failed : Nat, bytes_copied : Nat,
   total_latency_ns : Nat, min_latency_ns : 1 .. Unset,
   max_latency_ns : 0 .. Unset - 1, samples : [Slots -> 0 .. Unset - 1],
   write_index : Nat, sample_count : Nat, latency_samples : {<<>>},
   saturation_errors : Nat, fatal_errors : Nat, other_errors : Nat,
   error_counts : {codes}]

TypeOK ==
  /\ stats \in Objects(stats.error_counts)
  /\ IsABag(stats.error_counts)
  /\ log \in Seq(Completions \cup Failures)
  /\ pc \in [Workers -> Labels]
  /\ job \in [Workers -> 0 .. Len(log)]
  /\ seen \in [Workers -> 0 .. Unset]
  /\ slot \in [Workers -> Slots]

Init ==
  /\ stats = Fresh
  /\ pc = [w \in Workers |-> "idle"]
  /\ job = [w \in Workers |-> 0]
  /\ seen = [w \in Workers |-> 0]
  /\ slot = [w \in Workers |-> 0]
  /\ log = <<>>
  /\ snapshot = NoSnapshot

Event(w) == log[job[w]]

Goto(w, label) == pc' = [pc EXCEPT ![w] = label]

\* A completion callback calls record_completion() or record_failure().
Begin(w, event, label) ==
  /\ pc[w] = "idle"
  /\ snapshot = NoSnapshot /\ Len(log) < MaxEvents
  /\ log' = Append(log, event)
  /\ job' = [job EXCEPT ![w] = Len(log')]
  /\ Goto(w, label)
  /\ UNCHANGED <<stats, seen, slot, snapshot>>

\* An atomic addition to one of the counters.
Record(w, label, next, updated) ==
  /\ pc[w] = label
  /\ stats' = updated
  /\ Goto(w, next)
  /\ UNCHANGED <<job, seen, slot, log, snapshot>>

-----------------------------------------------------------------------------
(* Statistics::record_completion()                                         *)

CountCompletion(w) ==
  Record(w, "completed", "bytes", [stats EXCEPT !.operations_completed = @ + 1])

CountBytes(w) ==
  Record(w, "bytes", "total", [stats EXCEPT !.bytes_copied = @ + Event(w).bytes])

CountLatency(w) ==
  Record(w, "total", "loadMin",
         [stats EXCEPT !.total_latency_ns = @ + Event(w).latency])

LoadExtreme(w, label, cell) ==
  /\ pc[w] = label
  /\ seen' = [seen EXCEPT ![w] = stats[cell]]
  /\ Goto(w, cell)
  /\ UNCHANGED <<stats, job, slot, log, snapshot>>

\* The first condition of the loop.
Improves(w, cell) ==
  IF cell = "min_latency_ns" THEN Event(w).latency < seen[w]
                             ELSE Event(w).latency > seen[w]

AfterLoop(cell) == IF cell = "min_latency_ns" THEN "loadMax" ELSE "draw"

KeepExtreme(w, cell) ==
  /\ pc[w] = cell
  /\ ~Improves(w, cell)
  /\ Goto(w, AfterLoop(cell))
  /\ UNCHANGED <<stats, job, seen, slot, log, snapshot>>

\* A faulty variant of ExchangeExtreme: a plain store.
StoreExtreme(w, cell) ==
  /\ pc[w] = cell /\ Improves(w, cell)
  /\ Record(w, cell, AfterLoop(cell), [stats EXCEPT ![cell] = Event(w).latency])

ExchangeExtreme(w, cell) ==
  /\ pc[w] = cell /\ Improves(w, cell)
  /\ stats[cell] = seen[w]
  /\ Record(w, cell, AfterLoop(cell), [stats EXCEPT ![cell] = Event(w).latency])

\* The weak exchange finds another value, or fails spuriously.
ExchangeFails(w, cell) ==
  /\ pc[w] = cell
  /\ Improves(w, cell)
  /\ seen' = [seen EXCEPT ![w] = stats[cell]]
  /\ UNCHANGED <<stats, pc, job, slot, log, snapshot>>

\* A faulty variant of DrawSlot: the index is not reduced.
DrawSlotUnmasked(w) ==
  /\ pc[w] = "draw"
  /\ slot' = [slot EXCEPT ![w] = stats.write_index]
  /\ stats' = [stats EXCEPT !.write_index = @ + 1]
  /\ Goto(w, "store")
  /\ UNCHANGED <<job, seen, log, snapshot>>

\* LockFreeLatencyBuffer::record().
DrawSlot(w) ==
  /\ pc[w] = "draw"
  /\ slot' = [slot EXCEPT ![w] = stats.write_index % BufferSize]
  /\ stats' = [stats EXCEPT !.write_index = @ + 1]
  /\ Goto(w, "store")
  /\ UNCHANGED <<job, seen, log, snapshot>>

\* A faulty variant of StoreSample: the slot is chosen by the samples counted.
StoreSampleByCount(w) ==
  Record(w, "store", "count",
         [stats EXCEPT !.samples[stats.sample_count % BufferSize] = Event(w).latency])

StoreSample(w) ==
  Record(w, "store", "count", [stats EXCEPT !.samples[slot[w]] = Event(w).latency])

CountSample(w) ==
  /\ pc[w] = "count"
  /\ stats' = [stats EXCEPT !.sample_count = @ + 1]
  /\ Goto(w, "idle")
  /\ job' = [job EXCEPT ![w] = 0] /\ seen' = [seen EXCEPT ![w] = 0]
  /\ slot' = [slot EXCEPT ![w] = 0]
  /\ UNCHANGED <<log, snapshot>>

RecordCompletion(w) ==
  \/ \E event \in Completions : Begin(w, event, "completed")
  \/ CountCompletion(w) \/ CountBytes(w) \/ CountLatency(w)
  \/ LoadExtreme(w, "loadMin", "min_latency_ns")
  \/ LoadExtreme(w, "loadMax", "max_latency_ns")
  \/ \E cell \in Extremes :
       KeepExtreme(w, cell) \/ ExchangeExtreme(w, cell) \/ ExchangeFails(w, cell)
  \/ DrawSlot(w) \/ StoreSample(w) \/ CountSample(w)

-----------------------------------------------------------------------------
(* Statistics::record_failure()                                            *)

\* The callback passes cpl->status.sc, not the whole status.
StatusCode(event) == event.sc

IsSaturationError(code) == code % 256 \in {7, 137}

\* is_fatal_error() looks for the status code type in the bits 9 to 11.
IsFatalError(code) == (code \div 512) % 8 >= 2 \/ code % 256 \in {1, 2}

CountFailure(w) ==
  Record(w, "failed", "classify", [stats EXCEPT !.operations_failed = @ + 1])

\* The counter of record_error() for a code.
ErrorClass(code) ==
  IF IsSaturationError(code) THEN "saturation_errors"
  ELSE IF IsFatalError(code) THEN "fatal_errors" ELSE "other_errors"

\* A faulty variant of Classify: errors of no known class are not counted.
ClassifyKnown(w) ==
  LET class == ErrorClass(StatusCode(Event(w)))
  IN Record(w, "classify", "code",
            IF class = "other_errors" THEN stats ELSE [stats EXCEPT ![class] = @ + 1])

Classify(w) ==
  Record(w, "classify", "code",
         [stats EXCEPT ![ErrorClass(StatusCode(Event(w)))] = @ + 1])

\* error_counts_[status_code]++, under the counter's mutex.
CountCode(w) ==
  /\ pc[w] = "code"
  /\ stats' = [stats EXCEPT !.error_counts =
                 @ (+) SetToBag({StatusCode(Event(w))})]
  /\ Goto(w, "idle")
  /\ job' = [job EXCEPT ![w] = 0]
  /\ UNCHANGED <<seen, slot, log, snapshot>>

RecordFailure(w) ==
  \/ \E event \in Failures : Begin(w, event, "failed")
  \/ CountFailure(w) \/ Classify(w) \/ CountCode(w)

-----------------------------------------------------------------------------
(* The report                                                              *)

Quiet == \A w \in Workers : pc[w] = "idle"

\* get_samples(): the positive values in the slots in use.
GetSamples(s) ==
  LET count == IF s.sample_count < BufferSize THEN s.sample_count ELSE BufferSize
  IN [i \in {k \in 0 .. count - 1 : s.samples[k] > 0} |-> s.samples[i]]

GetTotalErrors(s) == s.saturation_errors + s.fatal_errors + s.other_errors

\* get_snapshot() into the fresh object of generate_report(), after the join.
Report ==
  /\ Quiet /\ snapshot = NoSnapshot
  /\ snapshot' = [Fresh EXCEPT
       !.operations_completed = stats.operations_completed,
       !.operations_failed = stats.operations_failed,
       !.bytes_copied = stats.bytes_copied,
       !.total_latency_ns = stats.total_latency_ns,
       !.min_latency_ns = stats.min_latency_ns,
       !.max_latency_ns = stats.max_latency_ns,
       !.latency_samples = GetSamples(stats)]
  /\ UNCHANGED <<stats, pc, job, seen, slot, log>>

Finished == snapshot # NoSnapshot /\ UNCHANGED vars

Next ==
  \/ \E w \in Workers : RecordCompletion(w) \/ RecordFailure(w)
  \/ Report \/ Finished

Spec == Init /\ [][Next]_vars

-----------------------------------------------------------------------------
(* Properties                                                              *)

Completed == {i \in DOMAIN log : log[i] \in Completions}
Failed == DOMAIN log \ Completed

\* What the events add to the sums, and how many of some events have each code.
Bytes == [i \in Completed |-> log[i].bytes]
Latencies == [i \in Completed |-> log[i].latency]
CodeOf(i) == StatusCode(log[i])
CodeCounts(events) ==
  [code \in {CodeOf(i) : i \in events} |-> Cardinality({i \in events : CodeOf(i) = code})]

\* When no worker is recording, the counters are those of the commands that
\* ended: no addition of a worker is lost or made twice, every failure belongs
\* to exactly one class, and the map counts the failures of every code.
CountersExact ==
  Quiet =>
    /\ stats.operations_completed = Cardinality(Completed)
    /\ stats.bytes_copied = SumFunction(Bytes)
    /\ stats.total_latency_ns = SumFunction(Latencies)
    /\ stats.operations_failed = Cardinality(Failed)
    /\ GetTotalErrors(stats) = Cardinality(Failed)
    /\ stats.error_counts = CodeCounts(Failed)

\* Event i is not on its way to or in the loop of the minimum, of the maximum.
BeforeMin == {"completed", "bytes", "total", "loadMin", "min_latency_ns"}
BeforeMax == BeforeMin \cup {"loadMax", "max_latency_ns"}
Past(i, labels) == \A w \in Workers : job[w] = i => pc[w] \notin labels

\* Whatever the other workers do between the load and the exchange, the minimum
\* and the maximum are latencies that were recorded, and no completion that has
\* left the loops lies outside of them.
ExtremesExact ==
  /\ \A i \in Completed : Past(i, BeforeMin) => stats.min_latency_ns <= log[i].latency
  /\ \A i \in Completed : Past(i, BeforeMax) => stats.max_latency_ns >= log[i].latency
  /\ \/ stats.min_latency_ns = Unset
     \/ \E i \in Completed : log[i].latency = stats.min_latency_ns
  /\ \/ stats.max_latency_ns = 0
     \/ \E i \in Completed : log[i].latency = stats.max_latency_ns

\* When no worker is recording, the buffer holds a sample of as many different
\* completions as fit: none is lost to another worker before the buffer is full,
\* and none is kept twice after it has wrapped.
SamplesExact ==
  LET samples == GetSamples(stats)
      n == Cardinality(Completed)
  IN Quiet =>
       /\ Cardinality(DOMAIN samples) = IF n < BufferSize THEN n ELSE BufferSize
       /\ \A k \in DOMAIN samples :
            Cardinality({j \in DOMAIN samples : samples[j] = samples[k]})
              <= Cardinality({i \in Completed : log[i].latency = samples[k]})

\* "Get snapshot (thread-safe copy)" (statistics.h:117): the report computes the
\* percentiles, the deviation and the errors from what the workers recorded.
ReportFaithful ==
  snapshot # NoSnapshot =>
    /\ GetSamples(snapshot) = GetSamples(stats)
    /\ GetTotalErrors(snapshot) = GetTotalErrors(stats)
=============================================================================
