-------------------------- MODULE StatisticsProofs --------------------------
(***************************************************************************)
(* Proofs about Statistics, for any number of workers and commands.        *)
(***************************************************************************)
EXTENDS Statistics, TLAPS

RecordingCompletion ==
  {"completed", "bytes", "total", "loadMin", "loadMax"} \cup Extremes
    \cup {"draw", "store", "count"}

\* A worker records an event of the kind its access belongs to.
JobInv ==
  \A w \in Workers :
    /\ pc[w] \in RecordingCompletion => job[w] \in Completed
    /\ pc[w] \in {"failed", "classify", "code"} => job[w] \in Failed

\* In a loop, the local copy is an old value of the cell, and values only improve.
SeenInv ==
  \A w \in Workers :
    /\ pc[w] = "min_latency_ns" => stats.min_latency_ns <= seen[w]
    /\ pc[w] = "max_latency_ns" => seen[w] <= stats.max_latency_ns

Inv == TypeOK /\ JobInv /\ SeenInv /\ ExtremesExact

\* A code counted once more leaves a bag.
LEMMA BagGrows ==
  ASSUME NEW B, IsABag(B), NEW e
  PROVE  IsABag(B (+) SetToBag({e}))
BY DEF IsABag, SetToBag, (+)

\* The invariant holds for the fresh object.
LEMMA InitInv == Init => Inv
<1> SUFFICES ASSUME Init PROVE Inv
  OBVIOUS
<1> USE StatisticsAssumption DEF Init, Fresh
<1>1. IsABag(stats.error_counts)
  BY DEF IsABag, EmptyBag, SetToBag
<1>2. TypeOK
  BY <1>1 DEF TypeOK, Objects, Slots, Labels
<1>3. JobInv /\ SeenInv
  BY DEF JobInv, SeenInv, RecordingCompletion, Extremes
<1>4. ExtremesExact
  BY DEF ExtremesExact, Completed
<1>5. QED
  BY <1>2, <1>3, <1>4 DEF Inv

\* What a step may store into a field of the object.
LEMMA StoreCounter ==
  ASSUME NEW codes, NEW s \in Objects(codes), NEW n \in Nat
  PROVE  /\ [s EXCEPT !.operations_completed = n] \in Objects(codes)
         /\ [s EXCEPT !.operations_failed = n] \in Objects(codes)
         /\ [s EXCEPT !.bytes_copied = n] \in Objects(codes)
         /\ [s EXCEPT !.total_latency_ns = n] \in Objects(codes)
         /\ [s EXCEPT !.write_index = n] \in Objects(codes)
         /\ [s EXCEPT !.sample_count = n] \in Objects(codes)
         /\ [s EXCEPT !.saturation_errors = n] \in Objects(codes)
         /\ [s EXCEPT !.fatal_errors = n] \in Objects(codes)
         /\ [s EXCEPT !.other_errors = n] \in Objects(codes)
<1>1. [s EXCEPT !.operations_completed = n] \in Objects(codes)
  BY DEF Objects
<1>2. [s EXCEPT !.operations_failed = n] \in Objects(codes)
  BY DEF Objects
<1>3. [s EXCEPT !.bytes_copied = n] \in Objects(codes)
  BY DEF Objects
<1>4. [s EXCEPT !.total_latency_ns = n] \in Objects(codes)
  BY DEF Objects
<1>5. [s EXCEPT !.write_index = n] \in Objects(codes)
  BY DEF Objects
<1>6. [s EXCEPT !.sample_count = n] \in Objects(codes)
  BY DEF Objects
<1>7. [s EXCEPT !.saturation_errors = n] \in Objects(codes)
  BY DEF Objects
<1>8. [s EXCEPT !.fatal_errors = n] \in Objects(codes)
  BY DEF Objects
<1>9. [s EXCEPT !.other_errors = n] \in Objects(codes)
  BY DEF Objects
<1>10. QED
  BY <1>1, <1>2, <1>3, <1>4, <1>5, <1>6, <1>7, <1>8, <1>9

\* Storing an extreme leaves an object of the type.
LEMMA StoreCell ==
  ASSUME NEW codes, NEW s \in Objects(codes), NEW cell \in Extremes, NEW v \in 1 .. Unset - 1
  PROVE  [s EXCEPT ![cell] = v] \in Objects(codes)
<1>1. v \in 1 .. Unset /\ v \in 0 .. Unset - 1
  BY StatisticsAssumption
<1>2. [s EXCEPT !.min_latency_ns = v] \in Objects(codes)
  BY <1>1 DEF Objects
<1>3. [s EXCEPT !.max_latency_ns = v] \in Objects(codes)
  BY <1>1 DEF Objects
<1>4. QED
  BY <1>2, <1>3 DEF Extremes

\* Storing a sample leaves an object of the type.
LEMMA StoreSlot ==
  ASSUME NEW codes, NEW s \in Objects(codes), NEW i \in Slots, NEW v \in 0 .. Unset - 1
  PROVE  [s EXCEPT !.samples[i] = v] \in Objects(codes)
BY DEF Objects

\* Storing the map of codes leaves an object of the type.
LEMMA StoreCodes ==
  ASSUME NEW codes, NEW s \in Objects(codes), NEW c
  PROVE  [s EXCEPT !.error_counts = c] \in Objects(c)
BY DEF Objects

\* The types of its fields.
LEMMA Fields ==
  ASSUME NEW codes, NEW s \in Objects(codes)
  PROVE  /\ s.error_counts = codes
         /\ s.operations_completed \in Nat /\ s.operations_failed \in Nat
         /\ s.bytes_copied \in Nat /\ s.total_latency_ns \in Nat
         /\ s.write_index \in Nat /\ s.sample_count \in Nat
         /\ s.min_latency_ns \in 1 .. Unset /\ s.max_latency_ns \in 0 .. Unset - 1
         /\ s.saturation_errors \in Nat /\ s.fatal_errors \in Nat
         /\ s.other_errors \in Nat
BY DEF Objects

\* The type of the event a worker records.
LEMMA EventType ==
  ASSUME Inv, NEW w \in Workers
  PROVE  /\ pc[w] \in RecordingCompletion =>
              Event(w).bytes \in Nat /\ Event(w).latency \in 1 .. Unset - 1
         /\ pc[w] \in {"failed", "classify", "code"} => Event(w).sc \in 0 .. 255
<1>1. CASE pc[w] \in RecordingCompletion
  <2>1. Event(w) \in [bytes : Nat, latency : 1 .. Unset - 1]
    BY <1>1, StatisticsAssumption DEF Inv, JobInv, Completed, Event
  <2>2. pc[w] \notin {"failed", "classify", "code"}
    BY <1>1 DEF RecordingCompletion, Extremes
  <2>3. QED
    BY <2>1, <2>2
<1>2. CASE pc[w] \in {"failed", "classify", "code"}
  <2>1. log[job[w]] \in Completions \cup Failures /\ log[job[w]] \notin Completions
    BY <1>2 DEF Inv, TypeOK, JobInv, Completed, Failed
  <2>2. Event(w) \in [sct : 0 .. 7, sc : 0 .. 255]
    BY <2>1, StatisticsAssumption DEF Event
  <2>3. pc[w] \notin RecordingCompletion
    BY <1>2 DEF RecordingCompletion, Extremes
  <2>4. QED
    BY <2>2, <2>3
<1>3. QED
  BY <1>1, <1>2

\* Every step preserves the types.
LEMMA NextTypeOK == Inv /\ Next => TypeOK'
<1> SUFFICES ASSUME Inv, Next PROVE TypeOK'
  OBVIOUS
<1> USE StatisticsAssumption DEF Inv, TypeOK
<1>1. ASSUME stats' \in Objects(stats.error_counts)
      PROVE  stats' \in Objects(stats'.error_counts) /\ IsABag(stats'.error_counts)
  BY <1>1, Fields
<1>2. ASSUME NEW w \in Workers, NEW label \in Labels,
             NEW s \in Objects(stats.error_counts), pc' = [pc EXCEPT ![w] = label],
             stats' = s, UNCHANGED <<job, seen, slot, log>>
      PROVE  TypeOK'
  BY <1>1, <1>2
<1>3. ASSUME NEW w \in Workers, NEW event \in Completions \cup Failures,
             NEW label \in {"completed", "failed"}, Begin(w, event, label)
      PROVE  TypeOK'
  <2>1. log' \in Seq(Completions \cup Failures) /\ Len(log') = Len(log) + 1
    BY <1>3 DEF Begin
  <2>2. pc' \in [Workers -> Labels]
    BY <1>3 DEF Begin, Goto, Labels
  <2>3. job' \in [Workers -> 0 .. Len(log')]
    BY <1>3, <2>1 DEF Begin
  <2>4. QED
    BY <1>3, <2>1, <2>2, <2>3 DEF Begin
<1>4. ASSUME NEW w \in Workers,
             CountCompletion(w) \/ CountBytes(w) \/ CountLatency(w) \/ CountFailure(w)
      PROVE  TypeOK'
  <2>1. pc[w] \in {"bytes", "total"} => Event(w).bytes \in Nat /\ Event(w).latency \in Nat
    BY EventType DEF RecordingCompletion
  <2>2. CASE CountCompletion(w)
    <3>1. stats.operations_completed + 1 \in Nat
      BY Fields
    <3>2. QED
      BY <2>2, <3>1, <1>2, StoreCounter DEF CountCompletion, Record, Goto, Labels
  <2>3. CASE CountBytes(w)
    <3>1. stats.bytes_copied + Event(w).bytes \in Nat
      BY <2>1, <2>3, Fields DEF CountBytes, Record
    <3>2. QED
      BY <2>3, <3>1, <1>2, StoreCounter DEF CountBytes, Record, Goto, Labels
  <2>4. CASE CountLatency(w)
    <3>1. stats.total_latency_ns + Event(w).latency \in Nat
      BY <2>1, <2>4, Fields DEF CountLatency, Record
    <3>2. QED
      BY <2>4, <3>1, <1>2, StoreCounter DEF CountLatency, Record, Goto, Labels
  <2>5. CASE CountFailure(w)
    <3>1. stats.operations_failed + 1 \in Nat
      BY Fields
    <3>2. QED
      BY <2>5, <3>1, <1>2, StoreCounter DEF CountFailure, Record, Goto, Labels
  <2>6. QED
    BY <1>4, <2>2, <2>3, <2>4, <2>5
<1>5. ASSUME NEW w \in Workers, NEW cell \in Extremes, NEW label,
             LoadExtreme(w, label, cell) \/ ExchangeFails(w, cell)
      PROVE  TypeOK'
  <2>1. stats[cell] \in 0 .. Unset
    BY Fields DEF Extremes
  <2>2. QED
    BY <1>5, <2>1 DEF LoadExtreme, ExchangeFails, Goto, Labels
<1>6. ASSUME NEW w \in Workers, NEW cell \in Extremes, KeepExtreme(w, cell)
      PROVE  TypeOK'
  BY <1>6 DEF KeepExtreme, AfterLoop, Goto, Labels
<1>7. ASSUME NEW w \in Workers, NEW cell \in Extremes, ExchangeExtreme(w, cell)
      PROVE  TypeOK'
  <2>1. Event(w).latency \in 1 .. Unset - 1
    BY <1>7, EventType DEF RecordingCompletion, ExchangeExtreme
  <2>2. [stats EXCEPT ![cell] = Event(w).latency] \in Objects(stats.error_counts)
    BY <2>1, StoreCell
  <2>3. QED
    BY <1>7, <2>2, <1>2 DEF ExchangeExtreme, AfterLoop, Record, Goto, Labels
<1>8. ASSUME NEW w \in Workers, DrawSlot(w)
      PROVE  TypeOK'
  <2>1. stats.write_index \in Nat /\ stats.write_index + 1 \in Nat
    BY Fields
  <2>2. stats' \in Objects(stats.error_counts)
    BY <1>8, <2>1, StoreCounter DEF DrawSlot
  <2>3. stats.write_index % BufferSize \in Slots
    BY <2>1 DEF Slots
  <2>4. QED
    BY <1>8, <2>2, <2>3, <1>1 DEF DrawSlot, Goto, Labels
<1>9. ASSUME NEW w \in Workers, StoreSample(w)
      PROVE  TypeOK'
  <2>1. Event(w).latency \in 1 .. Unset - 1
    BY <1>9, EventType DEF RecordingCompletion, StoreSample, Record
  <2>2. [stats EXCEPT !.samples[slot[w]] = Event(w).latency] \in Objects(stats.error_counts)
    BY <2>1, StoreSlot
  <2>3. QED
    BY <1>9, <2>2, <1>2 DEF StoreSample, Record, Goto, Labels
<1>10. ASSUME NEW w \in Workers, CountSample(w)
       PROVE  TypeOK'
  <2>1. stats.sample_count + 1 \in Nat
    BY Fields
  <2>2. stats' \in Objects(stats.error_counts)
    BY <1>10, <2>1, StoreCounter DEF CountSample
  <2>3. 0 \in Slots
    BY DEF Slots
  <2>4. QED
    BY <1>10, <2>2, <2>3, <1>1 DEF CountSample, Goto, Labels
<1>11. ASSUME NEW w \in Workers, Classify(w)
       PROVE  TypeOK'
  <2> DEFINE class == ErrorClass(StatusCode(Event(w)))
  <2>1. class \in {"saturation_errors", "fatal_errors", "other_errors"}
    BY DEF ErrorClass
  <2>2. stats' = [stats EXCEPT ![class] = stats[class] + 1]
    BY <1>11 DEF Classify, Record
  <2> HIDE DEF class
  <2>3. stats.saturation_errors + 1 \in Nat /\ stats.fatal_errors + 1 \in Nat
          /\ stats.other_errors + 1 \in Nat
    BY Fields
  <2>4. stats' \in Objects(stats.error_counts)
    BY <2>1, <2>2, <2>3, StoreCounter
  <2>5. QED
    BY <1>11, <2>4, <1>2 DEF Classify, Record, Goto, Labels
<1>12. ASSUME NEW w \in Workers, CountCode(w)
       PROVE  TypeOK'
  <2> DEFINE codes == stats.error_counts (+) SetToBag({StatusCode(Event(w))})
  <2>1. IsABag(codes)
    BY BagGrows
  <2>2. stats' = [stats EXCEPT !.error_counts = codes]
    BY <1>12 DEF CountCode
  <2> HIDE DEF codes
  <2>3. stats' \in Objects(codes) /\ stats'.error_counts = codes
    BY <2>2, StoreCodes, Fields
  <2>4. QED
    BY <1>12, <2>1, <2>3 DEF CountCode, Goto, Labels
<1>13. CASE Report \/ Finished
  BY <1>13 DEF Report, Finished, vars
<1> HIDE DEF Inv, TypeOK
<1>14. ASSUME NEW w \in Workers, RecordCompletion(w) PROVE TypeOK'
  <2>1. \A event \in Completions : event \in Completions \cup Failures
    OBVIOUS
  <2>2. "min_latency_ns" \in Extremes /\ "max_latency_ns" \in Extremes
    BY DEF Extremes
  <2>3. QED
    BY <1>14, <2>1, <2>2, <1>3, <1>4, <1>5, <1>6, <1>7, <1>8, <1>9, <1>10 DEF RecordCompletion
<1>15. ASSUME NEW w \in Workers, RecordFailure(w) PROVE TypeOK'
  BY <1>15, <1>3, <1>4, <1>11, <1>12 DEF RecordFailure
<1>16. QED
  BY <1>13, <1>14, <1>15 DEF Next

\* Every step leaves each worker with an event of the kind of its next access.
LEMMA NextJobInv == Inv /\ Next => JobInv'
<1> SUFFICES ASSUME Inv, Next PROVE JobInv'
  OBVIOUS
<1> USE DEF Inv, TypeOK, JobInv, RecordingCompletion, Extremes
<1>1. ASSUME NEW w \in Workers, NEW event \in Completions \cup Failures, NEW label,
             Begin(w, event, label),
             \/ event \in Completions /\ label = "completed"
             \/ event \in Failures /\ label = "failed"
      PROVE  JobInv'
  <2>1. /\ DOMAIN log' = DOMAIN log \cup {Len(log) + 1}
        /\ log'[Len(log) + 1] = event
        /\ \A i \in DOMAIN log : log'[i] = log[i]
        /\ Len(log') = Len(log) + 1
    BY <1>1 DEF Begin
  <2>2. event \in Completions <=> label = "completed"
    BY <1>1, StatisticsAssumption
  <2>3. Completed \subseteq Completed' /\ Failed \subseteq Failed'
    BY <2>1 DEF Completed, Failed
  <2>4. Len(log') \in IF event \in Completions THEN Completed' ELSE Failed'
    BY <2>1 DEF Completed, Failed
  <2>5. pc' = [pc EXCEPT ![w] = label] /\ job' = [job EXCEPT ![w] = Len(log')]
    BY <1>1 DEF Begin, Goto
  <2>6. QED
    BY <1>1, <2>2, <2>3, <2>4, <2>5
<1>2. ASSUME NEW w \in Workers, UNCHANGED log,
             \A x \in Workers \ {w} : pc'[x] = pc[x] /\ job'[x] = job[x],
             \/ pc'[w] = "idle"
             \/ /\ job'[w] = job[w]
                /\ \/ pc[w] \in RecordingCompletion /\ pc'[w] \in RecordingCompletion
                   \/ /\ pc[w] \in {"failed", "classify"}
                      /\ pc'[w] \in {"classify", "code"}
      PROVE  JobInv'
  <2>1. Completed' = Completed /\ Failed' = Failed
    BY <1>2 DEF Completed, Failed
  <2>2. QED
    BY <1>2, <2>1
<1>3. ASSUME NEW w \in Workers, RecordCompletion(w) \/ RecordFailure(w),
             ~(\E event \in Completions : Begin(w, event, "completed")),
             ~(\E event \in Failures : Begin(w, event, "failed"))
      PROVE  JobInv'
  BY <1>2, <1>3 DEF RecordCompletion, CountCompletion, CountBytes, CountLatency,
     LoadExtreme, KeepExtreme, ExchangeExtreme, ExchangeFails, AfterLoop, DrawSlot,
     StoreSample, CountSample, RecordFailure, CountFailure, Classify, CountCode,
     Record, Goto
<1>4. CASE Report \/ Finished
  BY <1>4 DEF Report, Finished, vars, Completed, Failed
<1>5. QED
  BY <1>1, <1>3, <1>4 DEF Next

\* What a step does to the extremes and to the workers on their way to them.
Exchanges(w, cell) ==
  /\ pc[w] = cell
  /\ Event(w).latency \in 1 .. Unset - 1
  /\ stats[cell] = seen[w] /\ Improves(w, cell)
  /\ stats' = [stats EXCEPT ![cell] = Event(w).latency]
  /\ pc' = [pc EXCEPT ![w] = AfterLoop(cell)]
  /\ UNCHANGED <<job, seen, log>>

Keeps(w, cell) ==
  /\ pc[w] = cell
  /\ ~Improves(w, cell)
  /\ pc' = [pc EXCEPT ![w] = AfterLoop(cell)]
  /\ UNCHANGED <<stats, job, seen, log>>

Starts(w) ==
  /\ pc[w] = "idle"
  /\ pc'[w] \in {"completed", "failed"}
  /\ \E event \in Completions \cup Failures :
       log' = Append(log, event) /\ (event \in Completions <=> pc'[w] = "completed")
  /\ job' = [job EXCEPT ![w] = Len(log')]
  /\ UNCHANGED stats

Advances(w) ==
  /\ UNCHANGED <<log, stats.min_latency_ns, stats.max_latency_ns>>
  /\ pc[w] \in BeforeMin => pc'[w] \in BeforeMin /\ job'[w] = job[w]
  /\ pc[w] \in BeforeMax => pc'[w] \in BeforeMax /\ job'[w] = job[w]
  /\ \/ pc'[w] \notin Extremes
     \/ pc'[w] = "min_latency_ns" /\ seen'[w] = stats.min_latency_ns
     \/ pc'[w] = "max_latency_ns" /\ seen'[w] = stats.max_latency_ns
  /\ job'[w] \in {0, job[w]}

Others(w) ==
  \A x \in Workers \ {w} : pc'[x] = pc[x] /\ job'[x] = job[x] /\ seen'[x] = seen[x]

\* Storing into another field leaves the extremes alone.
LEMMA OtherFields ==
  ASSUME NEW codes, NEW s \in Objects(codes), NEW v,
         NEW f \in {"operations_completed", "operations_failed", "bytes_copied",
                    "total_latency_ns", "samples", "write_index", "sample_count",
                    "saturation_errors", "fatal_errors", "other_errors", "error_counts"}
  PROVE  /\ [s EXCEPT ![f] = v].min_latency_ns = s.min_latency_ns
         /\ [s EXCEPT ![f] = v].max_latency_ns = s.max_latency_ns
BY DEF Objects

\* A step of a worker starts a recording, goes on outside of the extremes, exchanges an
\* extreme, or leaves or stays in a loop without an exchange.
LEMMA StepShape ==
  ASSUME Inv, NEW w \in Workers, RecordCompletion(w) \/ RecordFailure(w)
  PROVE  /\ Others(w)
         /\ \/ Starts(w) \/ Advances(w)
            \/ \E cell \in Extremes : Exchanges(w, cell) \/ Keeps(w, cell)
<1> USE DEF Inv, TypeOK
<1>1. ASSUME NEW event \in Completions \cup Failures, NEW label, Begin(w, event, label),
             \/ event \in Completions /\ label = "completed"
             \/ event \in Failures /\ label = "failed"
      PROVE  Others(w) /\ Starts(w)
  BY <1>1, StatisticsAssumption DEF Begin, Goto, Others, Starts
<1>2. ASSUME NEW cell \in Extremes, ExchangeExtreme(w, cell)
      PROVE  Others(w) /\ Exchanges(w, cell)
  BY <1>2, EventType DEF ExchangeExtreme, Record, Goto, Others, Exchanges,
     RecordingCompletion
<1>3. ASSUME NEW cell \in Extremes, KeepExtreme(w, cell)
      PROVE  Others(w) /\ Keeps(w, cell)
  BY <1>3 DEF KeepExtreme, Goto, Others, Keeps
<1>4. ASSUME NEW cell \in Extremes, ExchangeFails(w, cell)
      PROVE  Others(w) /\ Advances(w)
  BY <1>4 DEF ExchangeFails, Others, Advances, Extremes, BeforeMin, BeforeMax
<1>5. ASSUME LoadExtreme(w, "loadMin", "min_latency_ns")
               \/ LoadExtreme(w, "loadMax", "max_latency_ns")
      PROVE  Others(w) /\ Advances(w)
  BY <1>5 DEF LoadExtreme, Goto, Others, Advances, Extremes, BeforeMin, BeforeMax
<1>6. ASSUME NEW f \in {"operations_completed", "operations_failed", "bytes_copied",
                        "total_latency_ns", "samples", "write_index", "sample_count",
                        "saturation_errors", "fatal_errors", "other_errors",
                        "error_counts"},
             NEW v, stats' = [stats EXCEPT ![f] = v], NEW label, pc' = [pc EXCEPT ![w] = label],
             UNCHANGED log, Others(w),
             \/ job' = job /\ label \notin Extremes
                /\ (pc[w] \in BeforeMin => label \in BeforeMin)
                /\ (pc[w] \in BeforeMax => label \in BeforeMax)
             \/ label = "idle" /\ job'[w] = 0 /\ pc[w] \notin BeforeMax
      PROVE  Advances(w)
  <2>1. UNCHANGED <<stats.min_latency_ns, stats.max_latency_ns>>
    BY <1>6, OtherFields
  <2>2. QED
    BY <1>6, <2>1 DEF Advances, BeforeMin, BeforeMax, Extremes
<1>7. ASSUME \/ CountCompletion(w) \/ CountBytes(w) \/ CountLatency(w) \/ CountFailure(w)
             \/ Classify(w)
      PROVE  Others(w) /\ Advances(w)
  <2>1. Others(w)
    BY <1>7 DEF CountCompletion, CountBytes, CountLatency, CountFailure, Classify,
       Record, Goto, Others
  <2>2. CASE CountCompletion(w)
    BY <2>1, <2>2, <1>6 DEF CountCompletion, Record, Goto, BeforeMin, BeforeMax, Extremes
  <2>3. CASE CountBytes(w)
    BY <2>1, <2>3, <1>6 DEF CountBytes, Record, Goto, BeforeMin, BeforeMax, Extremes
  <2>4. CASE CountLatency(w)
    BY <2>1, <2>4, <1>6 DEF CountLatency, Record, Goto, BeforeMin, BeforeMax, Extremes
  <2>5. CASE CountFailure(w)
    BY <2>1, <2>5, <1>6 DEF CountFailure, Record, Goto, BeforeMin, BeforeMax, Extremes
  <2>6. CASE Classify(w)
    <3>1. ErrorClass(StatusCode(Event(w))) \in
            {"saturation_errors", "fatal_errors", "other_errors"}
      BY DEF ErrorClass
    <3>2. QED
      BY <2>1, <2>6, <3>1, <1>6 DEF Classify, Record, Goto, BeforeMin, BeforeMax, Extremes
  <2>7. QED
    BY <1>7, <2>1, <2>2, <2>3, <2>4, <2>5, <2>6
<1>8. ASSUME DrawSlot(w) \/ StoreSample(w) \/ CountSample(w) \/ CountCode(w)
      PROVE  Others(w) /\ Advances(w)
  <2>1. Others(w)
    BY <1>8 DEF DrawSlot, StoreSample, CountSample, CountCode, Record, Goto, Others
  <2>2. CASE DrawSlot(w)
    BY <2>1, <2>2, <1>6 DEF DrawSlot, Goto, BeforeMin, BeforeMax, Extremes
  <2>3. CASE StoreSample(w)
    BY <2>1, <2>3, <1>6 DEF StoreSample, Record, Goto, BeforeMin, BeforeMax, Extremes
  <2>4. CASE CountSample(w)
    BY <2>1, <2>4, <1>6 DEF CountSample, Goto, BeforeMin, BeforeMax, Extremes
  <2>5. CASE CountCode(w)
    BY <2>1, <2>5, <1>6 DEF CountCode, Goto, BeforeMin, BeforeMax, Extremes
  <2>6. QED
    BY <1>8, <2>1, <2>2, <2>3, <2>4, <2>5
<1>9. QED
  BY <1>1, <1>2, <1>3, <1>4, <1>5, <1>7, <1>8 DEF RecordCompletion, RecordFailure

\* The fields after an exchange.
LEMMA Exchanged ==
  ASSUME Inv, NEW w \in Workers, NEW cell \in Extremes, Exchanges(w, cell)
  PROVE  /\ Event(w).latency \in Int
         /\ cell = "min_latency_ns" =>
              /\ stats'.min_latency_ns = Event(w).latency
              /\ stats'.min_latency_ns < stats.min_latency_ns
              /\ stats'.max_latency_ns = stats.max_latency_ns
         /\ cell = "max_latency_ns" =>
              /\ stats'.max_latency_ns = Event(w).latency
              /\ stats'.max_latency_ns > stats.max_latency_ns
              /\ stats'.min_latency_ns = stats.min_latency_ns
<1>1. CASE cell = "min_latency_ns"
  BY <1>1 DEF Inv, TypeOK, Objects, Exchanges, Improves
<1>2. CASE cell = "max_latency_ns"
  BY <1>2 DEF Inv, TypeOK, Objects, Exchanges, Improves
<1>3. Event(w).latency \in Int
  BY StatisticsAssumption DEF Exchanges
<1>4. QED
  BY <1>1, <1>2, <1>3 DEF Extremes

\* Every step leaves the local copies no better than the cells.
LEMMA NextSeenInv == Inv /\ Next => SeenInv'
<1> SUFFICES ASSUME Inv, Next PROVE SeenInv'
  OBVIOUS
<1>1. /\ stats.min_latency_ns \in 1 .. Unset /\ stats.max_latency_ns \in 0 .. Unset - 1
      /\ seen \in [Workers -> 0 .. Unset] /\ pc \in [Workers -> Labels]
  BY Fields DEF Inv, TypeOK
<1>2. ASSUME NEW w \in Workers, Others(w), Starts(w) \/ Advances(w)
      PROVE  SeenInv'
  BY <1>1, <1>2 DEF Inv, SeenInv, Others, Starts, Advances, Extremes
<1>3. ASSUME NEW w \in Workers, Others(w), NEW cell \in Extremes, Exchanges(w, cell)
      PROVE  SeenInv'
  <2>1. /\ stats'.min_latency_ns <= stats.min_latency_ns
        /\ stats'.max_latency_ns >= stats.max_latency_ns
        /\ stats'.min_latency_ns \in Int /\ stats'.max_latency_ns \in Int
    <3>1. stats.min_latency_ns \in Int /\ stats.max_latency_ns \in Int
      BY <1>1, StatisticsAssumption
    <3>2. QED
      BY <1>3, <3>1, Exchanged DEF Extremes
  <2>2. pc'[w] \notin Extremes /\ seen' = seen
    BY <1>1, <1>3 DEF Exchanges, AfterLoop, Extremes
  <2>3. QED
    BY <1>1, <1>3, <2>1, <2>2 DEF Inv, SeenInv, Others, Extremes
<1>4. ASSUME NEW w \in Workers, Others(w), NEW cell \in Extremes, Keeps(w, cell)
      PROVE  SeenInv'
  BY <1>1, <1>4 DEF Inv, SeenInv, Others, Keeps, AfterLoop, Extremes
<1>5. CASE Report \/ Finished
  BY <1>5 DEF Inv, SeenInv, Report, Finished, vars
<1>6. QED
  BY <1>2, <1>3, <1>4, <1>5, StepShape DEF Next

\* Every step keeps the extremes exact.
LEMMA NextExtremesExact == Inv /\ Next => ExtremesExact'
<1> SUFFICES ASSUME Inv, Next PROVE ExtremesExact'
  OBVIOUS
<1>1. /\ stats.min_latency_ns \in 1 .. Unset /\ stats.max_latency_ns \in 0 .. Unset - 1
      /\ seen \in [Workers -> 0 .. Unset] /\ pc \in [Workers -> Labels]
      /\ job \in [Workers -> 0 .. Len(log)] /\ log \in Seq(Completions \cup Failures)
  BY Fields DEF Inv, TypeOK
<1>2. \A i \in Completed : log[i].latency \in 1 .. Unset - 1
  BY StatisticsAssumption DEF Completed
<1>3. ASSUME NEW w \in Workers, Others(w), Starts(w)
      PROVE  ExtremesExact'
  <2>1. PICK event \in Completions \cup Failures :
          log' = Append(log, event) /\ (event \in Completions <=> pc'[w] = "completed")
    BY <1>3 DEF Starts
  <2>2. /\ DOMAIN log' = DOMAIN log \cup {Len(log) + 1}
        /\ log'[Len(log) + 1] = event
        /\ \A i \in DOMAIN log : log'[i] = log[i]
        /\ Len(log') = Len(log) + 1 /\ Len(log) + 1 \notin DOMAIN log
    BY <1>1, <2>1
  <2>3. Completed \subseteq Completed' /\ Completed' \subseteq Completed \cup {Len(log) + 1}
    BY <2>2 DEF Completed
  <2>4. \A i \in Completed : log'[i] = log[i]
    BY <2>2 DEF Completed
  <2>5. job'[w] = Len(log) + 1 /\ (Len(log) + 1 \in Completed' => pc'[w] = "completed")
    BY <1>1, <1>3, <2>1, <2>2 DEF Starts, Completed
  <2>6. ASSUME NEW i \in Completed', Past(i, BeforeMin)' \/ Past(i, BeforeMax)'
        PROVE  /\ i \in Completed
               /\ Past(i, BeforeMin)' => Past(i, BeforeMin)
               /\ Past(i, BeforeMax)' => Past(i, BeforeMax)
    <3>1. i \in Completed
      BY <2>3, <2>5, <2>6 DEF Past, BeforeMin, BeforeMax
    <3>2. pc[w] \notin BeforeMin /\ pc[w] \notin BeforeMax
      BY <1>3 DEF Starts, BeforeMin, BeforeMax, Extremes
    <3>3. QED
      BY <1>3, <3>1, <3>2 DEF Past, Others
  <2>7. stats' = stats
    BY <1>3 DEF Starts
  <2>8. QED
    BY <2>3, <2>4, <2>6, <2>7 DEF Inv, ExtremesExact
<1>4. ASSUME NEW w \in Workers, Others(w), Advances(w)
      PROVE  ExtremesExact'
  <2>1. Completed' = Completed /\ log' = log
    BY <1>4 DEF Advances, Completed
  <2>2. /\ stats'.min_latency_ns = stats.min_latency_ns
        /\ stats'.max_latency_ns = stats.max_latency_ns
    BY <1>4 DEF Advances
  <2>3. ASSUME NEW i \in Completed
        PROVE  /\ Past(i, BeforeMin)' => stats.min_latency_ns <= log[i].latency
               /\ Past(i, BeforeMax)' => stats.max_latency_ns >= log[i].latency
    <3>1. /\ Past(i, BeforeMin)' => Past(i, BeforeMin)
          /\ Past(i, BeforeMax)' => Past(i, BeforeMax)
      BY <1>4 DEF Past, Others, Advances
    <3>2. QED
      BY <3>1 DEF Inv, ExtremesExact
  <2>4. QED
    BY <2>1, <2>2, <2>3 DEF Inv, ExtremesExact
<1>5. ASSUME NEW w \in Workers, Others(w), NEW cell \in Extremes,
             Exchanges(w, cell) \/ Keeps(w, cell)
      PROVE  ExtremesExact'
  <2>1. Completed' = Completed /\ log' = log /\ job' = job
    BY <1>5 DEF Exchanges, Keeps, Completed
  <2>2. job[w] \in Completed
    BY <1>5 DEF Inv, JobInv, RecordingCompletion, Extremes, Exchanges, Keeps
  <2>3. CASE cell = "min_latency_ns"
    <3>1. /\ pc'[w] = "loadMax" /\ pc[w] = "min_latency_ns"
          /\ stats'.max_latency_ns = stats.max_latency_ns
          /\ stats'.min_latency_ns \in Int
          /\ stats'.min_latency_ns <= stats.min_latency_ns
          /\ stats'.min_latency_ns <= log[job[w]].latency
          /\ stats'.min_latency_ns \in {stats.min_latency_ns, log[job[w]].latency}
      <4>1. CASE Exchanges(w, cell)
        <5>1. stats'[cell] = log[job[w]].latency /\ log[job[w]].latency \in Int
          BY <2>3, <4>1, Exchanged DEF Event
        <5>2. pc'[w] = AfterLoop(cell) /\ pc[w] = cell
          BY <1>1, <4>1 DEF Exchanges
        <5>3. stats.min_latency_ns \in Int /\ stats.max_latency_ns \in Int
          BY <1>1, StatisticsAssumption
        <5>4. QED
          BY <2>3, <4>1, <5>1, <5>2, <5>3, Exchanged DEF AfterLoop
      <4>2. CASE Keeps(w, cell)
        BY <1>1, <1>2, <2>2, <2>3, <4>2 DEF Keeps, Improves, Event, AfterLoop, Inv, SeenInv
      <4>3. QED
        BY <1>5, <4>1, <4>2
    <3>2. \A i \in Completed : Past(i, BeforeMax)' => Past(i, BeforeMax)
      BY <1>5, <2>1, <3>1 DEF Past, Others, BeforeMin, BeforeMax
    <3>3. \A i \in Completed : Past(i, BeforeMin)' => i = job[w] \/ Past(i, BeforeMin)
      BY <1>5, <2>1 DEF Past, Others
    <3>4. \A i \in Completed : Past(i, BeforeMin)' => stats'.min_latency_ns <= log[i].latency
      BY <1>1, <1>2, <3>1, <3>3 DEF Inv, ExtremesExact
    <3>5. \/ stats'.min_latency_ns = Unset
          \/ \E i \in Completed : log[i].latency = stats'.min_latency_ns
      BY <2>2, <3>1 DEF Inv, ExtremesExact
    <3>6. QED
      BY <2>1, <3>1, <3>2, <3>4, <3>5 DEF Inv, ExtremesExact
  <2>4. CASE cell = "max_latency_ns"
    <3>1. /\ pc'[w] = "draw" /\ pc[w] = "max_latency_ns"
          /\ stats'.min_latency_ns = stats.min_latency_ns
          /\ stats'.max_latency_ns \in Int
          /\ stats'.max_latency_ns >= stats.max_latency_ns
          /\ stats'.max_latency_ns >= log[job[w]].latency
          /\ stats'.max_latency_ns \in {stats.max_latency_ns, log[job[w]].latency}
      <4>1. CASE Exchanges(w, cell)
        <5>1. stats'[cell] = log[job[w]].latency /\ log[job[w]].latency \in Int
          BY <2>4, <4>1, Exchanged DEF Event
        <5>2. pc'[w] = AfterLoop(cell) /\ pc[w] = cell
          BY <1>1, <4>1 DEF Exchanges
        <5>3. stats.min_latency_ns \in Int /\ stats.max_latency_ns \in Int
          BY <1>1, StatisticsAssumption
        <5>4. QED
          BY <2>4, <4>1, <5>1, <5>2, <5>3, Exchanged DEF AfterLoop
      <4>2. CASE Keeps(w, cell)
        BY <1>1, <1>2, <2>2, <2>4, <4>2 DEF Keeps, Improves, Event, AfterLoop, Inv, SeenInv
      <4>3. QED
        BY <1>5, <4>1, <4>2
    <3>2. \A i \in Completed : Past(i, BeforeMin)' => Past(i, BeforeMin)
      BY <1>5, <2>1, <3>1 DEF Past, Others, BeforeMin
    <3>3. \A i \in Completed : Past(i, BeforeMax)' => i = job[w] \/ Past(i, BeforeMax)
      BY <1>5, <2>1 DEF Past, Others
    <3>4. \A i \in Completed : Past(i, BeforeMax)' => stats'.max_latency_ns >= log[i].latency
      BY <1>1, <1>2, <3>1, <3>3 DEF Inv, ExtremesExact
    <3>5. \/ stats'.max_latency_ns = 0
          \/ \E i \in Completed : log[i].latency = stats'.max_latency_ns
      BY <2>2, <3>1 DEF Inv, ExtremesExact
    <3>6. QED
      BY <2>1, <3>1, <3>2, <3>4, <3>5 DEF Inv, ExtremesExact
  <2>5. QED
    BY <2>3, <2>4 DEF Extremes
<1>6. CASE Report \/ Finished
  BY <1>6 DEF Inv, ExtremesExact, Completed, Past, Report, Finished, vars
<1>7. QED
  BY <1>3, <1>4, <1>5, <1>6, StepShape DEF Next

\* The inductive invariant: types, the kind of event each worker records, the
\* age of the local copies, and the exactness of the extremes.
THEOREM StatisticsInvariant == Spec => []Inv
<1>1. Inv /\ UNCHANGED vars => Inv'
  BY DEF vars, Inv, TypeOK, JobInv, SeenInv, ExtremesExact, Completed, Failed, Past
<1>2. Inv /\ [Next]_vars => Inv'
  BY <1>1, NextTypeOK, NextJobInv, NextSeenInv, NextExtremesExact DEF Inv
<1>3. QED
  BY InitInv, <1>2, PTL DEF Spec

\* Every counter, cell and slot keeps its type: a sample is stored in the buffer.
THEOREM StatisticsTypeCorrect == Spec => []TypeOK
BY StatisticsInvariant, PTL DEF Inv

\* Minimum and maximum are exact, whatever the order of the workers' loads and
\* exchanges.
THEOREM StatisticsExtremesExact == Spec => []ExtremesExact
BY StatisticsInvariant, PTL DEF Inv
=============================================================================
