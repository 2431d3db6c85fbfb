--------------------------- MODULE StatisticsCountProofs --------------------
(***************************************************************************)
(* Proofs that Statistics counts, adds and samples exactly, for any number *)
(* of workers and commands.  They begin with what they need of sums over   *)
(* finite sets, SumFunctionOnSet of module Functions: its recursion has a  *)
(* solution, and the order in which it takes the elements does not matter. *)
(* Induction is by way of a smallest counterexample, which theorem WFMin   *)
(* provides.                                                               *)
(***************************************************************************)
EXTENDS StatisticsProofs, FiniteSetTheorems, WellFoundedInduction

-----------------------------------------------------------------------------
(* Sums over finite sets                                                   *)

\* A set of finite sets that is not empty has a smallest element.
LEMMA SmallestSet ==
  ASSUME NEW S, IsFiniteSet(S), NEW Bad \in SUBSET (SUBSET S), Bad # {}
  PROVE  \E T \in Bad : \A U \in SUBSET T : U # T => U \notin Bad
<1> DEFINE R == StrictSubsetOrdering(S)
<1>1. IsWellFoundedOn(R, FiniteSubsetsOf(S))
  BY FS_StrictSubsetOrderingWellFounded
<1>2. FiniteSubsetsOf(S) = SUBSET S
  BY FS_FiniteSubsetsOfFinite
<1> HIDE DEF R
<1>3. PICK T \in Bad : \A U \in Bad : ~ (<<U, T>> \in R)
  BY <1>1, <1>2, WFMin
<1>4. ASSUME NEW U \in SUBSET T, U # T PROVE U \notin Bad
  BY <1>3, <1>4 DEF R, StrictSubsetOrdering
<1> QED BY <1>4

Chosen(s) == CHOOSE x \in s : TRUE

\* g is the table of the sums of f over the subsets of S.
IsTable(g, f, S) ==
  g = [s \in SUBSET S |-> IF s = {} THEN 0 ELSE f[Chosen(s)] + g[s \ {Chosen(s)}]]

Table(f, S) == CHOOSE g : IsTable(g, f, S)

\* The sum over a set is the value of its table at the set.
LEMMA SumIsTable ==
  ASSUME NEW f, NEW S
  PROVE  SumFunctionOnSet(f, S) = Table(f, S)[S]
BY DEF SumFunctionOnSet, FoldFunctionOnSet, MapThenFoldSet, Table, IsTable, Chosen

\* Tables agree where both are defined.
LEMMA TablesAgree ==
  ASSUME NEW f, NEW S, IsFiniteSet(S), NEW g, NEW h, NEW T,
         IsTable(g, f, S), IsTable(h, f, T), NEW s \in SUBSET S, s \in SUBSET T
  PROVE  g[s] = h[s]
<1> DEFINE Bad == {u \in SUBSET S : u \in SUBSET T /\ g[u] # h[u]}
<1>1. SUFFICES ASSUME Bad # {} PROVE FALSE
  OBVIOUS
<1>2. PICK u \in Bad : \A v \in SUBSET u : v # u => v \notin Bad
  BY <1>1, SmallestSet
<1>3. u # {} 
  BY <1>2 DEF IsTable
<1>4. Chosen(u) \in u
  BY <1>3 DEF Chosen
<1>5. g[u \ {Chosen(u)}] = h[u \ {Chosen(u)}]
  BY <1>2, <1>4
<1>6. /\ g[u] = f[Chosen(u)] + g[u \ {Chosen(u)}]
      /\ h[u] = f[Chosen(u)] + h[u \ {Chosen(u)}]
  BY <1>3 DEF IsTable
<1> QED BY <1>5, <1>6, <1>2

\* The recursion has a solution over every finite set.
LEMMA TableExists ==
  ASSUME NEW f, NEW S, IsFiniteSet(S)
  PROVE  IsTable(Table(f, S), f, S)
<1> DEFINE Bad == {T \in SUBSET S : ~ \E g : IsTable(g, f, T)}
<1>1. SUFFICES ASSUME Bad # {} PROVE FALSE
  <2>1. S \notin Bad
    BY <1>1
  <2> QED BY <2>1 DEF Table
<1>2. PICK T \in Bad : \A U \in SUBSET T : U # T => U \notin Bad
  <2>1. Bad \in SUBSET (SUBSET S)
    OBVIOUS
  <2> HIDE DEF Bad
  <2> QED BY <1>1, <2>1, SmallestSet
<1> DEFINE h == [s \in SUBSET T |->
                  IF s = {} THEN 0
                  ELSE f[Chosen(s)] + Table(f, s \ {Chosen(s)})[s \ {Chosen(s)}]]
<1>3. ASSUME NEW U \in SUBSET T, U # T PROVE IsTable(Table(f, U), f, U)
  <2>1. \E g : IsTable(g, f, U)
    BY <1>2, <1>3
  <2> QED BY <2>1 DEF Table
<1>4. ASSUME NEW U \in SUBSET T, U # T PROVE h[U] = Table(f, U)[U]
  <2>1. CASE U = {}
    BY <1>3, <1>4, <2>1 DEF IsTable
  <2>2. CASE U # {}
    <3> DEFINE V == U \ {Chosen(U)}
    <3>1. Chosen(U) \in U /\ V \in SUBSET U /\ V \in SUBSET T /\ V # T
      BY <2>2, <1>4 DEF Chosen
    <3>2. IsFiniteSet(U) /\ IsTable(Table(f, U), f, U) /\ IsTable(Table(f, V), f, V)
      BY <3>1, <1>3, <1>4, FS_Subset
    <3>3. Table(f, U)[V] = Table(f, V)[V]
      <4> HIDE DEF V
      <4> QED BY <3>1, <3>2, TablesAgree
    <3>4. Table(f, U)[U] = f[Chosen(U)] + Table(f, U)[V]
      BY <1>3, <1>4, <2>2 DEF IsTable
    <3> QED BY <3>3, <3>4, <2>2
  <2> QED BY <2>1, <2>2
<1>5. IsTable(h, f, T)
  <2>1. ASSUME NEW s \in SUBSET T, s # {}
        PROVE  Table(f, s \ {Chosen(s)})[s \ {Chosen(s)}] = h[s \ {Chosen(s)}]
    <3>1. Chosen(s) \in s
      BY <2>1 DEF Chosen
    <3> HIDE DEF h
    <3> QED BY <1>4, <3>1
  <2> DEFINE k == [s \in SUBSET T |-> IF s = {} THEN 0 ELSE f[Chosen(s)] + h[s \ {Chosen(s)}]]
  <2>2. h = k
    BY <2>1
  <2> QED BY <2>2 DEF IsTable
<1> QED BY <1>2, <1>5

-----------------------------------------------------------------------------
\* The sum over no element.
LEMMA SumEmpty ==
  ASSUME NEW f PROVE SumFunctionOnSet(f, {}) = 0
<1>1. IsTable(Table(f, {}), f, {})
  BY TableExists, FS_EmptySet
<1> QED BY <1>1, SumIsTable DEF IsTable

\* The definition takes out the chosen element first.
LEMMA SumStep ==
  ASSUME NEW f, NEW S, IsFiniteSet(S), S # {}
  PROVE  SumFunctionOnSet(f, S) = f[Chosen(S)] + SumFunctionOnSet(f, S \ {Chosen(S)})
<1> DEFINE V == S \ {Chosen(S)}
<1>1. IsFiniteSet(V) /\ V \in SUBSET S
  BY FS_Subset
<1>2. IsTable(Table(f, S), f, S) /\ IsTable(Table(f, V), f, V)
  BY <1>1, TableExists
<1>3. Table(f, S)[V] = Table(f, V)[V]
  <2> HIDE DEF V
  <2> QED BY <1>1, <1>2, TablesAgree
<1>4. Table(f, S)[S] = f[Chosen(S)] + Table(f, S)[V]
  BY <1>2 DEF IsTable
<1> QED BY <1>3, <1>4, SumIsTable

\* A sum of numbers is a number.
LEMMA SumType ==
  ASSUME NEW f, NEW S, IsFiniteSet(S), \A x \in S : f[x] \in Nat
  PROVE  SumFunctionOnSet(f, S) \in Nat
<1> DEFINE Bad == {T \in SUBSET S : SumFunctionOnSet(f, T) \notin Nat}
<1>1. SUFFICES ASSUME Bad # {} PROVE FALSE
  OBVIOUS
<1>2. PICK T \in Bad : \A U \in SUBSET T : U # T => U \notin Bad
  <2>1. Bad \in SUBSET (SUBSET S)
    OBVIOUS
  <2> HIDE DEF Bad
  <2> QED BY <1>1, <2>1, SmallestSet
<1>3. T # {}
  <2>1. SumFunctionOnSet(f, {}) \in Nat
    BY SumEmpty
  <2> QED BY <1>2, <2>1
<1>4. Chosen(T) \in T /\ IsFiniteSet(T)
  BY <1>2, <1>3, FS_Subset DEF Chosen
<1>5. SumFunctionOnSet(f, T \ {Chosen(T)}) \in Nat
  BY <1>2, <1>4
<1> QED BY <1>2, <1>3, <1>4, <1>5, SumStep

\* Any element may be taken out first.
THEOREM SumRemove ==
  ASSUME NEW f, NEW S, IsFiniteSet(S), \A x \in S : f[x] \in Nat, NEW e \in S
  PROVE  SumFunctionOnSet(f, S) = f[e] + SumFunctionOnSet(f, S \ {e})
<1> DEFINE Sum(T) == SumFunctionOnSet(f, T)
           Bad == {T \in SUBSET S : \E x \in T : Sum(T) # f[x] + Sum(T \ {x})}
<1>1. SUFFICES ASSUME Bad # {} PROVE FALSE
  OBVIOUS
<1>2. PICK T \in Bad : \A U \in SUBSET T : U # T => U \notin Bad
  <2>1. Bad \in SUBSET (SUBSET S)
    OBVIOUS
  <2> HIDE DEF Bad
  <2> QED BY <1>1, <2>1, SmallestSet
<1>3. PICK x \in T : Sum(T) # f[x] + Sum(T \ {x})
  BY <1>2
<1> DEFINE y == Chosen(T)
<1>4. y \in T /\ IsFiniteSet(T)
  BY <1>2, <1>3, FS_Subset DEF Chosen
<1>5. Sum(T) = f[y] + Sum(T \ {y})
  BY <1>3, <1>4, SumStep
<1> HIDE DEF y
<1>6. x # y
  BY <1>3, <1>5
<1> DEFINE V == T \ {x, y}
<1>7. (T \ {y}) \ {x} = V /\ (T \ {x}) \ {y} = V
  OBVIOUS
<1>8. ASSUME NEW U \in SUBSET T, U # T, NEW z \in U
      PROVE  Sum(U) = f[z] + Sum(U \ {z})
  BY <1>2, <1>8
<1>9. Sum(T \ {y}) = f[x] + Sum(V) /\ Sum(T \ {x}) = f[y] + Sum(V)
  <2>1. /\ T \ {y} \in SUBSET T /\ T \ {y} # T /\ x \in T \ {y}
        /\ T \ {x} \in SUBSET T /\ T \ {x} # T /\ y \in T \ {x}
    BY <1>4, <1>6
  <2> HIDE DEF Sum, Bad, V
  <2> QED BY <2>1, <1>7, <1>8
<1>10. Sum(V) \in Nat /\ f[x] \in Nat /\ f[y] \in Nat
  <2>1. IsFiniteSet(V)
    BY <1>4, FS_Subset
  <2> QED BY <1>2, <1>4, <2>1, SumType
<1> HIDE DEF Sum
<1> QED BY <1>3, <1>5, <1>9, <1>10

\* One more element adds its value.
THEOREM SumAdd ==
  ASSUME NEW f, NEW S, IsFiniteSet(S), \A x \in S : f[x] \in Nat, NEW e, e \notin S, f[e] \in Nat
  PROVE  SumFunctionOnSet(f, S \cup {e}) = SumFunctionOnSet(f, S) + f[e]
<1>1. IsFiniteSet(S \cup {e}) /\ (S \cup {e}) \ {e} = S
  BY FS_AddElement
<1>2. SumFunctionOnSet(f, S \cup {e}) = f[e] + SumFunctionOnSet(f, S)
  BY <1>1, SumRemove
<1> QED BY <1>2, SumType

\* The sum depends on the values at the elements only.
THEOREM SumSame ==
  ASSUME NEW S, IsFiniteSet(S), NEW f, NEW g, \A x \in S : f[x] = g[x]
  PROVE  SumFunctionOnSet(f, S) = SumFunctionOnSet(g, S)
<1> DEFINE Bad == {T \in SUBSET S : SumFunctionOnSet(f, T) # SumFunctionOnSet(g, T)}
<1>1. SUFFICES ASSUME Bad # {} PROVE FALSE
  OBVIOUS
<1>2. PICK T \in Bad : \A U \in SUBSET T : U # T => U \notin Bad
  <2>1. Bad \in SUBSET (SUBSET S)
    OBVIOUS
  <2> HIDE DEF Bad
  <2> QED BY <1>1, <2>1, SmallestSet
<1>3. T # {}
  BY <1>2, SumEmpty
<1>4. Chosen(T) \in T /\ IsFiniteSet(T)
  BY <1>2, <1>3, FS_Subset DEF Chosen
<1>5. SumFunctionOnSet(f, T \ {Chosen(T)}) = SumFunctionOnSet(g, T \ {Chosen(T)})
  BY <1>2, <1>4
<1> QED BY <1>2, <1>3, <1>4, <1>5, SumStep

-----------------------------------------------------------------------------
(* The steps of a worker, and the events whose recording has passed an access *)

\* The accesses up to one of a counter, and the events that have made it.
ToBytes == {"completed", "bytes"}
ToTotal == ToBytes \cup {"total"}
ToDraw == BeforeMax \cup {"draw"}
ToStore == ToDraw \cup {"store"}
ToCount == ToStore \cup {"count"}
ToClassify == {"failed", "classify"}
ToCode == ToClassify \cup {"code"}

Done(events, labels) == {i \in events : Past(i, labels)}

\* Two workers never record the same event.
JobsApart == \A v, w \in Workers : job[v] = job[w] /\ job[v] # 0 => v = w

\* Every counter is the count or the sum over the events whose recording has
\* passed its access.
CountersInv ==
  /\ stats.operations_completed = Cardinality(Done(Completed, {"completed"}))
  /\ stats.bytes_copied = SumFunctionOnSet(Bytes, Done(Completed, ToBytes))
  /\ stats.total_latency_ns = SumFunctionOnSet(Latencies, Done(Completed, ToTotal))
  /\ stats.sample_count = Cardinality(Done(Completed, ToCount))
  /\ stats.write_index = Cardinality(Done(Completed, ToDraw))
  /\ stats.operations_failed = Cardinality(Done(Failed, {"failed"}))
  /\ GetTotalErrors(stats) = Cardinality(Done(Failed, ToClassify))
  /\ stats.error_counts = CodeCounts(Done(Failed, ToCode))

\* The completion each sample is from; no completion has two samples.
Owns(owner) ==
  /\ \A s \in Slots :
       \/ owner[s] = 0 /\ stats.samples[s] = 0
       \/ owner[s] \in Done(Completed, ToStore) /\ stats.samples[s] = log[owner[s]].latency
  /\ \A s, t \in Slots : owner[s] = owner[t] /\ owner[s] # 0 => s = t

\* A slot that was drawn holds a sample or is about to be written.
SamplesInv ==
  /\ \E owner \in [Slots -> 0 .. Len(log)] : Owns(owner)
  /\ \A s \in Slots :
       s < stats.write_index =>
         stats.samples[s] # 0 \/ \E w \in Workers : pc[w] = "store" /\ slot[w] = s

\* What a step of a worker does besides starting to record an event.
Edges ==
  {<<"completed", "bytes">>, <<"bytes", "total">>, <<"total", "loadMin">>,
   <<"loadMin", "min_latency_ns">>, <<"min_latency_ns", "min_latency_ns">>,
   <<"min_latency_ns", "loadMax">>, <<"loadMax", "max_latency_ns">>,
   <<"max_latency_ns", "max_latency_ns">>, <<"max_latency_ns", "draw">>,
   <<"draw", "store">>, <<"store", "count">>, <<"count", "idle">>,
   <<"failed", "classify">>, <<"classify", "code">>, <<"code", "idle">>}

Moves(w) ==
  /\ UNCHANGED log
  /\ <<pc[w], pc'[w]>> \in Edges
  /\ job'[w] = IF pc'[w] = "idle" THEN 0 ELSE job[w]
  /\ pc[w] = "draw" => slot'[w] = stats.write_index % BufferSize

Updates(w) ==
  /\ stats'.operations_completed =
       stats.operations_completed + (IF pc[w] = "completed" THEN 1 ELSE 0)
  /\ stats'.bytes_copied = stats.bytes_copied + (IF pc[w] = "bytes" THEN Event(w).bytes ELSE 0)
  /\ stats'.total_latency_ns =
       stats.total_latency_ns + (IF pc[w] = "total" THEN Event(w).latency ELSE 0)
  /\ stats'.write_index = stats.write_index + (IF pc[w] = "draw" THEN 1 ELSE 0)
  /\ stats'.sample_count = stats.sample_count + (IF pc[w] = "count" THEN 1 ELSE 0)
  /\ stats'.operations_failed = stats.operations_failed + (IF pc[w] = "failed" THEN 1 ELSE 0)
  /\ GetTotalErrors(stats') = GetTotalErrors(stats) + (IF pc[w] = "classify" THEN 1 ELSE 0)
  /\ stats'.error_counts =
       IF pc[w] = "code" THEN stats.error_counts (+) SetToBag({StatusCode(Event(w))})
                         ELSE stats.error_counts
  /\ stats'.samples = IF pc[w] = "store"
                        THEN [stats.samples EXCEPT ![slot[w]] = Event(w).latency]
                        ELSE stats.samples

Steady(w) == \A x \in Workers \ {w} : pc'[x] = pc[x] /\ job'[x] = job[x] /\ slot'[x] = slot[x]

\* A store of a field leaves the others alone.
LEMMA StoreField ==
  ASSUME NEW codes, NEW s \in Objects(codes), NEW f, NEW v, NEW g \in DOMAIN s
  PROVE  [s EXCEPT ![f] = v][g] = IF f = g THEN v ELSE s[g]
BY DEF Objects

\* The names of the fields.
LEMMA FieldNames ==
  ASSUME NEW codes, NEW s \in Objects(codes)
  PROVE  DOMAIN s = {"operations_completed", "operations_failed", "bytes_copied",
           "total_latency_ns", "min_latency_ns", "max_latency_ns", "samples", "write_index",
           "sample_count", "latency_samples", "saturation_errors", "fatal_errors",
           "other_errors", "error_counts"}
BY DEF Objects

\* Every step of a worker starts to record an event or makes one access.
LEMMA StepUpdates ==
  ASSUME Inv, NEW w \in Workers, RecordCompletion(w) \/ RecordFailure(w)
  PROVE  /\ Steady(w)
         /\ \/ Starts(w) /\ UNCHANGED slot
            \/ Moves(w) /\ Updates(w)
<1>0. /\ stats \in Objects(stats.error_counts) /\ log \in Seq(Completions \cup Failures)
      /\ pc \in [Workers -> Labels] /\ job \in [Workers -> 0 .. Len(log)]
      /\ seen \in [Workers -> 0 .. Unset] /\ slot \in [Workers -> Slots]
  BY DEF Inv, TypeOK
<1>1. ASSUME NEW event \in Completions \cup Failures, NEW label \in {"completed", "failed"},
             Begin(w, event, label), event \in Completions <=> label = "completed"
      PROVE  Steady(w) /\ Starts(w) /\ UNCHANGED slot
  BY <1>0, <1>1 DEF Begin, Goto, Steady, Starts
<1>2. /\ stats.operations_completed \in Nat /\ stats.operations_failed \in Nat
      /\ stats.bytes_copied \in Nat /\ stats.total_latency_ns \in Nat
      /\ stats.write_index \in Nat /\ stats.sample_count \in Nat
      /\ stats.saturation_errors \in Nat /\ stats.fatal_errors \in Nat
      /\ stats.other_errors \in Nat
  BY <1>0, Fields
<1>3. ASSUME UNCHANGED stats,
             pc[w] \in {"loadMin", "loadMax", "min_latency_ns", "max_latency_ns"}
      PROVE  Updates(w)
  <2>1. pc[w] \notin {"completed", "bytes", "total", "draw", "count", "failed", "classify",
                      "code", "store"}
    BY <1>3
  <2> QED BY <1>2, <1>3, <2>1 DEF Updates, GetTotalErrors
<1>4. CASE \/ LoadExtreme(w, "loadMin", "min_latency_ns")
           \/ LoadExtreme(w, "loadMax", "max_latency_ns")
           \/ \E cell \in Extremes : KeepExtreme(w, cell) \/ ExchangeFails(w, cell)
  BY <1>0, <1>3, <1>4 DEF LoadExtreme, KeepExtreme, ExchangeFails, Goto, AfterLoop, Extremes,
     Steady, Moves, Edges
<1> DEFINE D == DOMAIN stats
<1>5. D = {"operations_completed", "operations_failed", "bytes_copied",
           "total_latency_ns", "min_latency_ns", "max_latency_ns", "samples", "write_index",
           "sample_count", "latency_samples", "saturation_errors", "fatal_errors",
           "other_errors", "error_counts"}
  BY <1>0, FieldNames
<1>6. ASSUME NEW f \in D, NEW v, stats' = [stats EXCEPT ![f] = v]
      PROVE  \A g \in D : stats'[g] = IF f = g THEN v ELSE stats[g]
  BY <1>0, <1>6, StoreField
<1>7. ASSUME NEW cell \in Extremes, ExchangeExtreme(w, cell)
      PROVE  Steady(w) /\ Moves(w) /\ Updates(w)
  <2>1. Steady(w) /\ Moves(w)
    BY <1>0, <1>7 DEF ExchangeExtreme, Record, Goto, AfterLoop, Extremes, Steady, Moves, Edges
  <2>2. cell \in D /\ stats' = [stats EXCEPT ![cell] = Event(w).latency]
    BY <1>5, <1>7 DEF ExchangeExtreme, Record, Extremes
  <2>3. \A g \in D : g # cell => stats'[g] = stats[g]
    BY <1>6, <2>2
  <2>4. pc[w] = cell /\ cell \in {"min_latency_ns", "max_latency_ns"}
    BY <1>7 DEF ExchangeExtreme, Extremes
  <2> HIDE DEF D
  <2>5. Updates(w)
    BY <1>2, <1>5, <2>3, <2>4 DEF Updates, GetTotalErrors
  <2> QED BY <2>1, <2>5
<1>8. ASSUME CountCompletion(w) PROVE Steady(w) /\ Moves(w) /\ Updates(w)
  <2>1. Steady(w) /\ Moves(w)
    BY <1>0, <1>8 DEF CountCompletion, Record, Goto, Steady, Moves, Edges
  <2>2. \A g \in D : stats'[g] = IF g = "operations_completed" THEN stats.operations_completed + 1
                                                              ELSE stats[g]
    BY <1>5, <1>6, <1>8 DEF CountCompletion, Record
  <2> HIDE DEF D
  <2>3. Updates(w)
    BY <1>2, <1>5, <1>8, <2>2 DEF CountCompletion, Record, Updates, GetTotalErrors
  <2> QED BY <2>1, <2>3
<1>9. ASSUME CountBytes(w) PROVE Steady(w) /\ Moves(w) /\ Updates(w)
  <2>1. Steady(w) /\ Moves(w)
    BY <1>0, <1>9 DEF CountBytes, Record, Goto, Steady, Moves, Edges
  <2>2. \A g \in D : stats'[g] = IF g = "bytes_copied" THEN stats.bytes_copied + Event(w).bytes ELSE stats[g]
    BY <1>5, <1>6, <1>9 DEF CountBytes, Record
  <2> HIDE DEF D
  <2>3. Updates(w)
    BY <1>2, <1>5, <1>9, <2>2 DEF CountBytes, Record, Updates, GetTotalErrors
  <2> QED BY <2>1, <2>3
<1>10. ASSUME CountLatency(w) PROVE Steady(w) /\ Moves(w) /\ Updates(w)
  <2>1. Steady(w) /\ Moves(w)
    BY <1>0, <1>10 DEF CountLatency, Record, Goto, Steady, Moves, Edges
  <2>2. \A g \in D : stats'[g] = IF g = "total_latency_ns" THEN stats.total_latency_ns + Event(w).latency ELSE stats[g]
    BY <1>5, <1>6, <1>10 DEF CountLatency, Record
  <2> HIDE DEF D
  <2>3. Updates(w)
    BY <1>2, <1>5, <1>10, <2>2 DEF CountLatency, Record, Updates, GetTotalErrors
  <2> QED BY <2>1, <2>3
<1>11. ASSUME DrawSlot(w) PROVE Steady(w) /\ Moves(w) /\ Updates(w)
  <2>1. Steady(w) /\ Moves(w)
    BY <1>0, <1>11 DEF DrawSlot, Record, Goto, Steady, Moves, Edges
  <2>2. \A g \in D : stats'[g] = IF g = "write_index" THEN stats.write_index + 1 ELSE stats[g]
    BY <1>5, <1>6, <1>11 DEF DrawSlot, Record
  <2> HIDE DEF D
  <2>3. Updates(w)
    BY <1>2, <1>5, <1>11, <2>2 DEF DrawSlot, Record, Updates, GetTotalErrors
  <2> QED BY <2>1, <2>3
<1>12. ASSUME StoreSample(w) PROVE Steady(w) /\ Moves(w) /\ Updates(w)
  <2>1. Steady(w) /\ Moves(w)
    BY <1>0, <1>12 DEF StoreSample, Record, Goto, Steady, Moves, Edges
  <2>2. \A g \in D : stats'[g] = IF g = "samples" THEN [stats.samples EXCEPT ![slot[w]] = Event(w).latency] ELSE stats[g]
    BY <1>5, <1>6, <1>12 DEF StoreSample, Record
  <2> HIDE DEF D
  <2>3. Updates(w)
    BY <1>2, <1>5, <1>12, <2>2 DEF StoreSample, Record, Updates, GetTotalErrors
  <2> QED BY <2>1, <2>3
<1>13. ASSUME CountSample(w) PROVE Steady(w) /\ Moves(w) /\ Updates(w)
  <2>1. Steady(w) /\ Moves(w)
    BY <1>0, <1>13 DEF CountSample, Record, Goto, Steady, Moves, Edges
  <2>2. \A g \in D : stats'[g] = IF g = "sample_count" THEN stats.sample_count + 1 ELSE stats[g]
    BY <1>5, <1>6, <1>13 DEF CountSample, Record
  <2> HIDE DEF D
  <2>3. Updates(w)
    BY <1>2, <1>5, <1>13, <2>2 DEF CountSample, Record, Updates, GetTotalErrors
  <2> QED BY <2>1, <2>3
<1>14. ASSUME CountFailure(w) PROVE Steady(w) /\ Moves(w) /\ Updates(w)
  <2>1. Steady(w) /\ Moves(w)
    BY <1>0, <1>14 DEF CountFailure, Record, Goto, Steady, Moves, Edges
  <2>2. \A g \in D : stats'[g] = IF g = "operations_failed" THEN stats.operations_failed + 1 ELSE stats[g]
    BY <1>5, <1>6, <1>14 DEF CountFailure, Record
  <2> HIDE DEF D
  <2>3. Updates(w)
    BY <1>2, <1>5, <1>14, <2>2 DEF CountFailure, Record, Updates, GetTotalErrors
  <2> QED BY <2>1, <2>3
<1>15. ASSUME CountCode(w) PROVE Steady(w) /\ Moves(w) /\ Updates(w)
  <2>1. Steady(w) /\ Moves(w)
    BY <1>0, <1>15 DEF CountCode, Record, Goto, Steady, Moves, Edges
  <2>2. \A g \in D : stats'[g] = IF g = "error_counts" THEN stats.error_counts (+) SetToBag({StatusCode(Event(w))}) ELSE stats[g]
    BY <1>5, <1>6, <1>15 DEF CountCode, Record
  <2> HIDE DEF D
  <2>3. Updates(w)
    BY <1>2, <1>5, <1>15, <2>2 DEF CountCode, Record, Updates, GetTotalErrors
  <2> QED BY <2>1, <2>3
<1>16. ASSUME Classify(w) PROVE Steady(w) /\ Moves(w) /\ Updates(w)
  <2>1. Steady(w) /\ Moves(w)
    BY <1>0, <1>16 DEF Classify, Record, Goto, Steady, Moves, Edges
  <2> DEFINE class == ErrorClass(StatusCode(Event(w)))
  <2>2. class \in {"saturation_errors", "fatal_errors", "other_errors"}
    BY DEF ErrorClass
  <2>3. stats' = [stats EXCEPT ![class] = stats[class] + 1]
    BY <1>16 DEF Classify, Record
  <2> HIDE DEF class
  <2>4. \A g \in D : stats'[g] = IF g = class THEN stats[g] + 1 ELSE stats[g]
    BY <1>5, <1>6, <2>2, <2>3
  <2> HIDE DEF D
  <2>5. Updates(w)
    BY <1>2, <1>5, <1>16, <2>2, <2>4 DEF Classify, Record, Updates, GetTotalErrors
  <2> QED BY <2>1, <2>5
<1>17. CASE \/ \E event \in Completions : Begin(w, event, "completed")
            \/ \E event \in Failures : Begin(w, event, "failed")
  <2>1. CASE \E event \in Completions : Begin(w, event, "completed")
    <3>1. PICK event \in Completions : Begin(w, event, "completed")
      BY <2>1
    <3>2. event \in Completions \cup Failures
      OBVIOUS
    <3> QED BY <1>1, <3>1, <3>2
  <2>2. CASE \E event \in Failures : Begin(w, event, "failed")
    <3>1. PICK event \in Failures : Begin(w, event, "failed")
      BY <2>2
    <3>2. event \in Completions \cup Failures /\ event \notin Completions
      BY StatisticsAssumption
    <3> QED BY <1>1, <3>1, <3>2
  <2> QED BY <1>17, <2>1, <2>2
<1>18. CASE \E cell \in Extremes : ExchangeExtreme(w, cell)
  BY <1>7, <1>18
<1> QED BY <1>4, <1>8, <1>9, <1>10, <1>11, <1>12, <1>13, <1>14, <1>15, <1>16, <1>17, <1>18
       DEF RecordCompletion, RecordFailure

\* A worker that leaves the last access of some labels takes its event past them.
LEMMA PastMoves ==
  ASSUME Inv, JobsApart, NEW w \in Workers, Steady(w), Moves(w),
         NEW labels, NEW label \in labels, "idle" \notin labels,
         pc'[w] \in labels <=> pc[w] \in labels \ {label}
  PROVE  /\ \A i \in DOMAIN log :
              Past(i, labels)' <=> Past(i, labels) \/ (pc[w] = label /\ i = job[w])
         /\ pc[w] = label => ~ Past(job[w], labels)
<1>1. \A i \in DOMAIN log : i # 0
  BY DEF Inv, TypeOK
<1>2. \A i \in DOMAIN log : Past(i, labels)' => Past(i, labels) \/ (pc[w] = label /\ i = job[w])
  BY DEF Past, Steady, Moves
<1>3. \A i \in DOMAIN log : Past(i, labels) => Past(i, labels)'
  BY <1>1 DEF Past, Steady, Moves
<1>4. \A i \in DOMAIN log : pc[w] = label /\ i = job[w] => Past(i, labels)'
  BY <1>1 DEF Past, Steady, Moves, JobsApart
<1> QED BY <1>2, <1>3, <1>4 DEF Past

\* A new event is not past the accesses that its recording starts with.
LEMMA PastStarts ==
  ASSUME Inv, NEW w \in Workers, Steady(w), Starts(w), NEW labels, "idle" \notin labels
  PROVE  /\ \A i \in DOMAIN log : Past(i, labels)' <=> Past(i, labels)
         /\ pc'[w] \in labels => \A i : i = Len(log) + 1 => ~ Past(i, labels)'
<1>1. job'[w] = Len(log) + 1 /\ Len(log) + 1 \notin DOMAIN log
  BY DEF Inv, TypeOK, Starts
<1>2. \A i \in DOMAIN log : i # job'[w]
  BY <1>1
<1>3. pc[w] \notin labels
  BY DEF Starts
<1>4. ASSUME NEW i \in DOMAIN log PROVE Past(i, labels)' <=> Past(i, labels)
  BY <1>2, <1>3 DEF Past, Steady
<1>5. ASSUME pc'[w] \in labels, NEW i, i = Len(log) + 1 PROVE ~ Past(i, labels)'
  BY <1>1, <1>5 DEF Past
<1> QED BY <1>4, <1>5

\* Starting to record an event leaves the events past an access alone.
LEMMA DoneStarts ==
  ASSUME Inv, NEW w \in Workers, Steady(w), Starts(w), NEW labels, "idle" \notin labels
  PROVE  /\ "completed" \in labels => Done(Completed, labels)' = Done(Completed, labels)
         /\ "failed" \in labels => Done(Failed, labels)' = Done(Failed, labels)
<1>1. PICK event \in Completions \cup Failures :
        log' = Append(log, event) /\ (event \in Completions <=> pc'[w] = "completed")
  BY DEF Starts
<1>2. log \in Seq(Completions \cup Failures)
  BY DEF Inv, TypeOK
<1>3. /\ DOMAIN log' = DOMAIN log \cup {Len(log) + 1}
      /\ log'[Len(log) + 1] = event
      /\ \A i \in DOMAIN log : log'[i] = log[i]
      /\ Len(log) + 1 \notin DOMAIN log
  BY <1>1, <1>2
<1>4. pc'[w] = "completed" \/ pc'[w] = "failed"
  BY DEF Starts
<1>5. /\ \A i \in DOMAIN log : Past(i, labels)' <=> Past(i, labels)
      /\ pc'[w] \in labels => \A i : i = Len(log) + 1 => ~ Past(i, labels)'
  BY PastStarts
<1>6. CASE event \in Completions
  <2>1. Completed' = Completed \cup {Len(log) + 1} /\ Failed' = Failed
    BY <1>3, <1>6 DEF Completed, Failed
  <2>2. Completed \subseteq DOMAIN log /\ Failed \subseteq DOMAIN log
    BY DEF Completed, Failed
  <2>3. pc'[w] = "completed"
    BY <1>1, <1>6
  <2> QED BY <1>5, <2>1, <2>2, <2>3 DEF Done
<1>7. CASE event \notin Completions
  <2>1. Completed' = Completed /\ Failed' = Failed \cup {Len(log) + 1}
    BY <1>3, <1>7 DEF Completed, Failed
  <2>2. Completed \subseteq DOMAIN log /\ Failed \subseteq DOMAIN log
    BY DEF Completed, Failed
  <2>3. pc'[w] = "failed"
    BY <1>1, <1>4, <1>7
  <2> QED BY <1>5, <2>1, <2>2, <2>3 DEF Done
<1> QED BY <1>6, <1>7

\* What a step does to the events past an access.
LEMMA DoneMoves ==
  ASSUME Inv, JobsApart, NEW w \in Workers, Steady(w), Moves(w),
         NEW labels, NEW label \in labels, "idle" \notin labels,
         pc'[w] \in labels <=> pc[w] \in labels \ {label}
  PROVE  /\ Done(Completed, labels)' =
              IF pc[w] = label /\ job[w] \in Completed
                THEN Done(Completed, labels) \cup {job[w]} ELSE Done(Completed, labels)
         /\ Done(Failed, labels)' =
              IF pc[w] = label /\ job[w] \in Failed
                THEN Done(Failed, labels) \cup {job[w]} ELSE Done(Failed, labels)
         /\ pc[w] = label => job[w] \notin Done(Completed, labels) \cup Done(Failed, labels)
<1>1. Completed' = Completed /\ Failed' = Failed
  BY DEF Moves, Completed, Failed
<1>2. Completed \subseteq DOMAIN log /\ Failed \subseteq DOMAIN log
  BY DEF Completed, Failed
<1> QED BY <1>1, <1>2, PastMoves DEF Done

-----------------------------------------------------------------------------
(* The counters                                                            *)

\* There are finitely many events.
LEMMA EventsFinite ==
  ASSUME Inv
  PROVE  /\ IsFiniteSet(Completed) /\ IsFiniteSet(Failed)
         /\ \A labels : IsFiniteSet(Done(Completed, labels)) /\ IsFiniteSet(Done(Failed, labels))
<1>1. DOMAIN log = 1 .. Len(log) /\ Len(log) \in Nat
  BY DEF Inv, TypeOK
<1>2. IsFiniteSet(DOMAIN log)
  BY <1>1, FS_Interval
<1>3. IsFiniteSet(Completed) /\ IsFiniteSet(Failed)
  BY <1>2, FS_Subset DEF Completed, Failed
<1>4. \A labels : Done(Completed, labels) \subseteq Completed /\ Done(Failed, labels) \subseteq Failed
  BY DEF Done
<1> QED BY <1>3, <1>4, FS_Subset

\* The values that are summed.
LEMMA Summands ==
  ASSUME Inv
  PROVE  \A i \in Completed : Bytes[i] \in Nat /\ Latencies[i] \in Nat
BY StatisticsAssumption DEF Completed, Bytes, Latencies

\* One more event with a code.
LEMMA CodeCountsAdd ==
  ASSUME Inv, NEW E \in SUBSET DOMAIN log, NEW j \in DOMAIN log, j \notin E
  PROVE  CodeCounts(E \cup {j}) = CodeCounts(E) (+) SetToBag({CodeOf(j)})
<1> DEFINE S(c) == {i \in E : CodeOf(i) = c}
           T(c) == {i \in E \cup {j} : CodeOf(i) = c}
           B == CodeCounts(E)
           K == SetToBag({CodeOf(j)})
<1>1. IsFiniteSet(E)
  <2>1. DOMAIN log = 1 .. Len(log) /\ Len(log) \in Nat
    BY DEF Inv, TypeOK
  <2>2. IsFiniteSet(DOMAIN log)
    BY <2>1, FS_Interval
  <2> QED BY <2>2, FS_Subset
<1>2. \A c : IsFiniteSet(S(c)) /\ Cardinality(S(c)) \in Nat
  BY <1>1, FS_Subset, FS_CardinalityType
<1>3. Cardinality(T(CodeOf(j))) = Cardinality(S(CodeOf(j))) + 1
  <2>1. T(CodeOf(j)) = S(CodeOf(j)) \cup {j} /\ j \notin S(CodeOf(j))
    OBVIOUS
  <2> HIDE DEF S, T
  <2> QED BY <1>2, <2>1, FS_AddElement
<1>4. \A c : c # CodeOf(j) => T(c) = S(c)
  OBVIOUS
<1>5. CodeOf(j) \notin {CodeOf(i) : i \in E} => Cardinality(S(CodeOf(j))) = 0
  BY FS_EmptySet
<1>6. /\ DOMAIN B = {CodeOf(i) : i \in E} /\ DOMAIN K = {CodeOf(j)}
      /\ \A c \in DOMAIN B : B[c] = Cardinality(S(c))
      /\ K[CodeOf(j)] = 1
  BY DEF CodeCounts, SetToBag
<1>7. {CodeOf(i) : i \in E \cup {j}} = DOMAIN B \cup DOMAIN K
  BY <1>6
<1>8. B (+) K = [c \in DOMAIN B \cup DOMAIN K |-> Cardinality(T(c))]
  <2>1. ASSUME NEW c \in DOMAIN B \cup DOMAIN K
        PROVE  (IF c \in DOMAIN B THEN B[c] ELSE 0) + (IF c \in DOMAIN K THEN K[c] ELSE 0)
                 = Cardinality(T(c))
    <3> HIDE DEF S, T, B, K
    <3>1. CASE c = CodeOf(j)
      BY <1>2, <1>3, <1>5, <1>6, <3>1
    <3>2. CASE c # CodeOf(j)
      BY <1>2, <1>4, <1>6, <3>2
    <3> QED BY <3>1, <3>2
  <2> HIDE DEF S, T, B, K
  <2> QED BY <2>1 DEF (+)
<1> QED BY <1>7, <1>8 DEF CodeCounts

\* Every step keeps the recorded events of the workers apart.
LEMMA NextJobsApart == Inv /\ JobsApart /\ Next => JobsApart'
<1> SUFFICES ASSUME Inv, JobsApart, Next PROVE JobsApart'
  OBVIOUS
<1>1. ASSUME NEW w \in Workers, Steady(w), Starts(w) PROVE JobsApart'
  <2>1. job'[w] = Len(log) + 1 /\ \A x \in Workers : job[x] \in 0 .. Len(log)
    BY <1>1 DEF Inv, TypeOK, Starts
  <2> QED BY <1>1, <2>1 DEF JobsApart, Steady, Inv, TypeOK
<1>2. ASSUME NEW w \in Workers, Steady(w), Moves(w) PROVE JobsApart'
  BY <1>2 DEF JobsApart, Steady, Moves
<1>3. CASE Report \/ Finished
  BY <1>3 DEF JobsApart, Report, Finished, vars
<1> QED BY <1>1, <1>2, <1>3, StepUpdates DEF Next

\* Every step keeps the counters equal to what the events past their access add up to.
LEMMA NextCountersInv == Inv /\ JobsApart /\ CountersInv /\ Next => CountersInv'
<1> SUFFICES ASSUME Inv, JobsApart, CountersInv, Next PROVE CountersInv'
  OBVIOUS
<1>1. ASSUME NEW w \in Workers, Steady(w), Starts(w) PROVE CountersInv'
  <2>1. /\ Done(Completed, {"completed"})' = Done(Completed, {"completed"})
        /\ Done(Completed, ToBytes)' = Done(Completed, ToBytes)
        /\ Done(Completed, ToTotal)' = Done(Completed, ToTotal)
        /\ Done(Completed, ToDraw)' = Done(Completed, ToDraw)
        /\ Done(Completed, ToCount)' = Done(Completed, ToCount)
        /\ Done(Failed, {"failed"})' = Done(Failed, {"failed"})
        /\ Done(Failed, ToClassify)' = Done(Failed, ToClassify)
        /\ Done(Failed, ToCode)' = Done(Failed, ToCode)
    BY <1>1, DoneStarts DEF ToBytes, ToTotal, ToDraw, ToStore, ToCount, ToClassify, ToCode,
       BeforeMax, BeforeMin
  <2>2. stats' = stats
    BY <1>1 DEF Starts
  <2>3. \A i \in DOMAIN log : i \in DOMAIN log' /\ log'[i] = log[i]
    <3>1. log \in Seq(Completions \cup Failures)
      BY DEF Inv, TypeOK
    <3> QED BY <1>1, <3>1 DEF Starts
  <2>4. Completed \subseteq DOMAIN log /\ Failed \subseteq DOMAIN log
    BY DEF Completed, Failed
  <2>5. \A i \in Completed : Bytes'[i] = Bytes[i] /\ Latencies'[i] = Latencies[i]
    BY <2>3, <2>4 DEF Bytes, Latencies, Completed
  <2>6. SumFunctionOnSet(Bytes, Done(Completed, ToBytes))'
          = SumFunctionOnSet(Bytes, Done(Completed, ToBytes))
    <3>1. \A i \in Done(Completed, ToBytes) : Bytes'[i] = Bytes[i]
      BY <2>5 DEF Done
    <3> QED BY <2>1, <3>1, EventsFinite, SumSame
  <2>7. SumFunctionOnSet(Latencies, Done(Completed, ToTotal))'
          = SumFunctionOnSet(Latencies, Done(Completed, ToTotal))
    <3>1. \A i \in Done(Completed, ToTotal) : Latencies'[i] = Latencies[i]
      BY <2>5 DEF Done
    <3> QED BY <2>1, <3>1, EventsFinite, SumSame
  <2>8. CodeCounts(Done(Failed, ToCode))' = CodeCounts(Done(Failed, ToCode))
    <3>1. \A i \in Done(Failed, ToCode) : CodeOf(i)' = CodeOf(i)
      BY <2>3, <2>4 DEF Done, CodeOf
    <3> DEFINE E == Done(Failed, ToCode)
    <3>2. E' = E
      BY <2>1
    <3> QED BY <3>1, <3>2 DEF CodeCounts
  <2> QED BY <2>1, <2>2, <2>6, <2>7, <2>8 DEF CountersInv
<1>2. ASSUME NEW w \in Workers, Steady(w), Moves(w), Updates(w) PROVE CountersInv'
  <2>1. /\ pc[w] \in {"completed", "bytes", "total", "draw", "count"} => job[w] \in Completed
        /\ pc[w] \in {"failed", "classify", "code"} => job[w] \in Failed
    BY DEF Inv, JobInv, RecordingCompletion
  <2> DEFINE Counts(labels, label) ==
        /\ label \in labels /\ "idle" \notin labels
        /\ pc'[w] \in labels <=> pc[w] \in labels \ {label}
  <2>2. /\ Counts({"completed"}, "completed") /\ Counts(ToBytes, "bytes")
        /\ Counts(ToTotal, "total") /\ Counts(ToDraw, "draw") /\ Counts(ToCount, "count")
        /\ Counts({"failed"}, "failed") /\ Counts(ToClassify, "classify")
        /\ Counts(ToCode, "code")
    BY <1>2 DEF Moves, Edges, ToBytes, ToTotal, ToDraw, ToStore, ToCount, ToClassify, ToCode,
       BeforeMax, BeforeMin
  <2> HIDE DEF Counts
  <2>3. ASSUME NEW labels, NEW label, Counts(labels, label), pc[w] # label
        PROVE  /\ Done(Completed, labels)' = Done(Completed, labels)
               /\ Done(Failed, labels)' = Done(Failed, labels)
    BY <1>2, <2>3, DoneMoves DEF Counts
  <2>4. ASSUME NEW labels, NEW label, Counts(labels, label), pc[w] = label, job[w] \in Completed
        PROVE  /\ Done(Completed, labels)' = Done(Completed, labels) \cup {job[w]}
               /\ job[w] \notin Done(Completed, labels)
    BY <1>2, <2>4, DoneMoves DEF Counts
  <2>5. ASSUME NEW labels, NEW label, Counts(labels, label), pc[w] = label, job[w] \in Failed
        PROVE  /\ Done(Failed, labels)' = Done(Failed, labels) \cup {job[w]}
               /\ job[w] \notin Done(Failed, labels)
    BY <1>2, <2>5, DoneMoves DEF Counts
  <2>6. ASSUME NEW labels, NEW label, Counts(labels, label), pc[w] = label => job[w] \in Completed
        PROVE  Cardinality(Done(Completed, labels)')
                 = Cardinality(Done(Completed, labels)) + (IF pc[w] = label THEN 1 ELSE 0)
    <3>1. /\ IsFiniteSet(Done(Completed, labels))
          /\ Cardinality(Done(Completed, labels)) \in Nat
      BY EventsFinite, FS_CardinalityType
    <3>2. CASE pc[w] = label
      BY <2>4, <2>6, <3>1, <3>2, FS_AddElement
    <3>3. CASE pc[w] # label
      BY <2>3, <2>6, <3>1, <3>3
    <3> QED BY <3>2, <3>3
  <2>7. ASSUME NEW labels, NEW label, Counts(labels, label), pc[w] = label => job[w] \in Failed
        PROVE  Cardinality(Done(Failed, labels)')
                 = Cardinality(Done(Failed, labels)) + (IF pc[w] = label THEN 1 ELSE 0)
    <3>1. /\ IsFiniteSet(Done(Failed, labels))
          /\ Cardinality(Done(Failed, labels)) \in Nat
      BY EventsFinite, FS_CardinalityType
    <3>2. CASE pc[w] = label
      BY <2>5, <2>7, <3>1, <3>2, FS_AddElement
    <3>3. CASE pc[w] # label
      BY <2>3, <2>7, <3>1, <3>3
    <3> QED BY <3>2, <3>3
  <2>8. Bytes' = Bytes /\ Latencies' = Latencies
    BY <1>2 DEF Moves, Bytes, Latencies, Completed
  <2>9. SumFunctionOnSet(Bytes, Done(Completed, ToBytes)') =
          SumFunctionOnSet(Bytes, Done(Completed, ToBytes))
            + (IF pc[w] = "bytes" THEN Event(w).bytes ELSE 0)
    <3> DEFINE S == Done(Completed, ToBytes)
    <3>1. IsFiniteSet(S) /\ \A i \in S : Bytes[i] \in Nat
      BY EventsFinite, Summands DEF Done
    <3>2. CASE pc[w] = "bytes"
      <4>1. S' = S \cup {job[w]} /\ job[w] \notin S /\ job[w] \in Completed
        BY <2>1, <2>2, <2>4, <3>2
      <4>2. Bytes[job[w]] = Event(w).bytes /\ Bytes[job[w]] \in Nat
        BY <4>1, Summands DEF Bytes, Event
      <4> HIDE DEF S
      <4>3. SumFunctionOnSet(Bytes, S \cup {job[w]}) = SumFunctionOnSet(Bytes, S) + Bytes[job[w]]
        BY <3>1, <4>1, <4>2, SumAdd
      <4> QED BY <3>2, <4>1, <4>2, <4>3 DEF S
    <3>3. CASE pc[w] # "bytes"
      <4>1. S' = S
        BY <2>2, <2>3, <3>3
      <4>2. SumFunctionOnSet(Bytes, S) \in Nat
        BY <3>1, SumType
      <4> QED BY <3>3, <4>1, <4>2
    <3> QED BY <3>2, <3>3
  <2>10. SumFunctionOnSet(Latencies, Done(Completed, ToTotal)') =
          SumFunctionOnSet(Latencies, Done(Completed, ToTotal))
            + (IF pc[w] = "total" THEN Event(w).latency ELSE 0)
    <3> DEFINE S == Done(Completed, ToTotal)
    <3>1. IsFiniteSet(S) /\ \A i \in S : Latencies[i] \in Nat
      BY EventsFinite, Summands DEF Done
    <3>2. CASE pc[w] = "total"
      <4>1. S' = S \cup {job[w]} /\ job[w] \notin S /\ job[w] \in Completed
        BY <2>1, <2>2, <2>4, <3>2
      <4>2. Latencies[job[w]] = Event(w).latency /\ Latencies[job[w]] \in Nat
        BY <4>1, Summands DEF Latencies, Event
      <4> HIDE DEF S
      <4>3. SumFunctionOnSet(Latencies, S \cup {job[w]})
              = SumFunctionOnSet(Latencies, S) + Latencies[job[w]]
        BY <3>1, <4>1, <4>2, SumAdd
      <4> QED BY <3>2, <4>1, <4>2, <4>3 DEF S
    <3>3. CASE pc[w] # "total"
      <4>1. S' = S
        BY <2>2, <2>3, <3>3
      <4>2. SumFunctionOnSet(Latencies, S) \in Nat
        BY <3>1, SumType
      <4> QED BY <3>3, <4>1, <4>2
    <3> QED BY <3>2, <3>3
  <2>11. CodeCounts(Done(Failed, ToCode))' =
           IF pc[w] = "code"
             THEN CodeCounts(Done(Failed, ToCode)) (+) SetToBag({StatusCode(Event(w))})
             ELSE CodeCounts(Done(Failed, ToCode))
    <3> DEFINE E == Done(Failed, ToCode)
    <3>1. CodeCounts(E)' = CodeCounts(E')
      BY <1>2 DEF Moves, CodeCounts, CodeOf
    <3>2. CASE pc[w] = "code"
      <4>1. E' = E \cup {job[w]} /\ job[w] \notin E /\ job[w] \in DOMAIN log /\ E \subseteq DOMAIN log
        BY <2>1, <2>2, <2>5, <3>2 DEF Done, Failed
      <4>2. CodeOf(job[w]) = StatusCode(Event(w))
        BY DEF CodeOf, Event
      <4> HIDE DEF E
      <4>3. CodeCounts(E \cup {job[w]}) = CodeCounts(E) (+) SetToBag({CodeOf(job[w])})
        BY <4>1, CodeCountsAdd
      <4> QED BY <3>1, <3>2, <4>1, <4>2, <4>3 DEF E
    <3>3. CASE pc[w] # "code"
      BY <2>2, <2>3, <3>1, <3>3
    <3> QED BY <3>2, <3>3
  <2>12. /\ stats'.operations_completed = Cardinality(Done(Completed, {"completed"})')
         /\ stats'.sample_count = Cardinality(Done(Completed, ToCount)')
         /\ stats'.write_index = Cardinality(Done(Completed, ToDraw)')
    BY <1>2, <2>1, <2>2, <2>6 DEF CountersInv, Updates
  <2>13. /\ stats'.operations_failed = Cardinality(Done(Failed, {"failed"})')
         /\ GetTotalErrors(stats') = Cardinality(Done(Failed, ToClassify)')
    BY <1>2, <2>1, <2>2, <2>7 DEF CountersInv, Updates
  <2>14. /\ stats'.bytes_copied = SumFunctionOnSet(Bytes, Done(Completed, ToBytes)')
         /\ stats'.total_latency_ns = SumFunctionOnSet(Latencies, Done(Completed, ToTotal)')
    BY <1>2, <2>9, <2>10 DEF CountersInv, Updates
  <2>15. stats'.error_counts = CodeCounts(Done(Failed, ToCode))'
    BY <1>2, <2>11 DEF CountersInv, Updates
  <2> QED BY <2>8, <2>12, <2>13, <2>14, <2>15 DEF CountersInv
<1>3. CASE Report \/ Finished
  <2>1. stats' = stats /\ log' = log /\ pc' = pc /\ job' = job
    BY <1>3 DEF Report, Finished, vars
  <2>2. Completed' = Completed /\ Failed' = Failed /\ Bytes' = Bytes /\ Latencies' = Latencies
    BY <2>1 DEF Completed, Failed, Bytes, Latencies
  <2>3. \A labels : /\ Done(Completed, labels)' = Done(Completed, labels)
                    /\ Done(Failed, labels)' = Done(Failed, labels)
    BY <2>1, <2>2 DEF Done, Past
  <2>4. CodeCounts(Done(Failed, ToCode))' = CodeCounts(Done(Failed, ToCode))
    BY <2>1, <2>3 DEF CodeCounts, CodeOf
  <2> QED BY <2>1, <2>2, <2>3, <2>4 DEF CountersInv
<1> QED BY <1>1, <1>2, <1>3, StepUpdates DEF Next

-----------------------------------------------------------------------------
(* The samples                                                             *)

\* A number below the modulus is its own remainder.
LEMMA SmallRemainder ==
  ASSUME NEW b \in Nat \ {0}, NEW i \in Nat, i < b
  PROVE  i % b = i
OBVIOUS

\* The values in the buffer, and the latency that a worker stores.
LEMMA SampleTypes ==
  ASSUME Inv
  PROVE  /\ stats.samples \in [Slots -> 0 .. Unset - 1] /\ slot \in [Workers -> Slots]
         /\ stats.write_index \in Nat /\ stats.sample_count \in Nat
         /\ pc \in [Workers -> Labels]
         /\ \A w \in Workers : pc[w] = "store" => Event(w).latency \in Nat \ {0}
<1>1. \A w \in Workers : pc[w] = "store" => Event(w).latency \in 1 .. Unset - 1
  BY EventType DEF RecordingCompletion
<1>2. \A n \in 1 .. Unset - 1 : n \in Nat \ {0}
  BY StatisticsAssumption
<1>3. stats \in Objects(stats.error_counts)
  BY DEF Inv, TypeOK
<1>4. stats.samples \in [Slots -> 0 .. Unset - 1]
  BY <1>3 DEF Objects
<1>5. stats.write_index \in Nat /\ stats.sample_count \in Nat
  BY <1>3, Fields
<1>6. slot \in [Workers -> Slots] /\ pc \in [Workers -> Labels]
  BY DEF Inv, TypeOK
<1> QED BY <1>1, <1>2, <1>4, <1>5, <1>6

\* Every step leaves each sample with an owner, and each drawn slot filled or pending.
LEMMA NextSamplesInv == Inv /\ JobsApart /\ SamplesInv /\ Next => SamplesInv'
<1> SUFFICES ASSUME Inv, JobsApart, SamplesInv, Next PROVE SamplesInv'
  OBVIOUS
<1>1. PICK owner \in [Slots -> 0 .. Len(log)] : Owns(owner)
  BY DEF SamplesInv
<1>2. Len(log) \in Nat /\ DOMAIN log = 1 .. Len(log) /\ log \in Seq(Completions \cup Failures)
  BY DEF Inv, TypeOK
<1>3. \A s \in Slots : s < stats.write_index =>
        stats.samples[s] # 0 \/ \E w \in Workers : pc[w] = "store" /\ slot[w] = s
  BY DEF SamplesInv
<1>4. ASSUME NEW w \in Workers, Steady(w), Starts(w), UNCHANGED slot PROVE SamplesInv'
  <2>1. Done(Completed, ToStore)' = Done(Completed, ToStore)
    BY <1>4, DoneStarts DEF ToDraw, ToStore, BeforeMax, BeforeMin
  <2>2. stats' = stats /\ slot' = slot /\ pc[w] = "idle"
    BY <1>4 DEF Starts
  <2>3. Len(log') = Len(log) + 1 /\ \A i \in DOMAIN log : log'[i] = log[i]
    BY <1>2, <1>4 DEF Starts
  <2>4. owner \in [Slots -> 0 .. Len(log')]
    BY <1>2, <2>3
  <2>5. \A i \in Done(Completed, ToStore) : log'[i] = log[i]
    BY <2>3 DEF Done, Completed
  <2>6. Owns(owner)'
    BY <1>1, <2>1, <2>2, <2>5 DEF Owns
  <2>7. \A s \in Slots : s < stats'.write_index =>
          stats'.samples[s] # 0 \/ \E x \in Workers : pc'[x] = "store" /\ slot'[x] = s
    BY <1>3, <1>4, <2>2 DEF Steady
  <2> QED BY <2>4, <2>6, <2>7 DEF SamplesInv
<1>5. ASSUME NEW w \in Workers, Steady(w), Moves(w), Updates(w), pc[w] = "store"
      PROVE  SamplesInv'
  <2>1. pc'[w] = "count"
    BY <1>5 DEF Moves, Edges
  <2>2. job[w] \in Completed /\ job[w] \in 0 .. Len(log) /\ job[w] # 0
    BY <1>2, <1>5 DEF Inv, TypeOK, JobInv, RecordingCompletion, Completed
  <2>3. /\ Done(Completed, ToStore)' = Done(Completed, ToStore) \cup {job[w]}
        /\ job[w] \notin Done(Completed, ToStore)
    <3>1. /\ "store" \in ToStore /\ "idle" \notin ToStore
          /\ pc'[w] \in ToStore <=> pc[w] \in ToStore \ {"store"}
      BY <1>5, <2>1 DEF ToStore, ToDraw, BeforeMax, BeforeMin
    <3> QED BY <1>5, <2>2, <3>1, DoneMoves
  <2>4. /\ stats'.samples = [stats.samples EXCEPT ![slot[w]] = log[job[w]].latency]
        /\ stats'.write_index = stats.write_index
        /\ log[job[w]].latency \in Nat \ {0}
        /\ slot[w] \in Slots
    BY <1>5, SampleTypes DEF Updates, Event
  <2>0. PICK owner2 : owner2 = [owner EXCEPT ![slot[w]] = job[w]]
    OBVIOUS
  <2>5. owner2 \in [Slots -> 0 .. Len(log')] /\ log' = log
    BY <1>5, <2>0, <2>2, <2>4 DEF Moves
  <2>6. ASSUME NEW s \in Slots
        PROVE  \/ owner2[s] = 0 /\ stats'.samples[s] = 0
               \/ /\ owner2[s] \in Done(Completed, ToStore)'
                  /\ stats'.samples[s] = log'[owner2[s]].latency
    <3>1. CASE s = slot[w]
      BY <2>0, <2>3, <2>4, <2>5, <3>1, SampleTypes
    <3>2. CASE s # slot[w]
      <4>1. owner2[s] = owner[s] /\ stats'.samples[s] = stats.samples[s]
        BY <2>0, <2>4, <3>2, SampleTypes
      <4> QED BY <1>1, <2>3, <2>5, <4>1 DEF Owns
    <3> QED BY <3>1, <3>2
  <2>7. \A s, t \in Slots : owner2[s] = owner2[t] /\ owner2[s] # 0 => s = t
    <3>1. \A s \in Slots : owner[s] # job[w]
      BY <1>1, <2>2, <2>3 DEF Owns
    <3> QED BY <1>1, <2>0, <3>1 DEF Owns
  <2>8. Owns(owner2)'
    BY <2>6, <2>7 DEF Owns
  <2>9. ASSUME NEW s \in Slots, s < stats'.write_index
        PROVE  stats'.samples[s] # 0 \/ \E x \in Workers : pc'[x] = "store" /\ slot'[x] = s
    <3>1. CASE s = slot[w]
      BY <2>4, <3>1, SampleTypes
    <3>2. CASE s # slot[w]
      <4>1. stats'.samples[s] = stats.samples[s]
        BY <2>4, <3>2, SampleTypes
      <4> QED BY <1>3, <1>5, <2>4, <2>9, <3>2, <4>1 DEF Steady
    <3> QED BY <3>1, <3>2
  <2> QED BY <2>5, <2>8, <2>9 DEF SamplesInv
<1>6. ASSUME NEW w \in Workers, Steady(w), Moves(w), Updates(w), pc[w] # "store"
      PROVE  SamplesInv'
  <2>1. log' = log /\ stats'.samples = stats.samples
    BY <1>6 DEF Moves, Updates
  <2>2. Done(Completed, ToStore)' = Done(Completed, ToStore)
    <3>1. /\ "store" \in ToStore /\ "idle" \notin ToStore
          /\ pc'[w] \in ToStore <=> pc[w] \in ToStore \ {"store"}
      BY <1>6 DEF Moves, Edges, ToStore, ToDraw, BeforeMax, BeforeMin
    <3> QED BY <1>6, <3>1, DoneMoves
  <2>3. Owns(owner)'
    BY <1>1, <2>1, <2>2 DEF Owns
  <2>4. ASSUME NEW s \in Slots, s < stats'.write_index, stats'.samples[s] = 0
        PROVE  \E x \in Workers : pc'[x] = "store" /\ slot'[x] = s
    <3>1. CASE s < stats.write_index
      BY <1>3, <1>6, <2>1, <2>4, <3>1 DEF Steady
    <3>2. CASE ~ (s < stats.write_index)
      <4>1. s \in Nat /\ s < BufferSize /\ stats.write_index \in Nat
        BY StatisticsAssumption, SampleTypes DEF Slots
      <4>2. pc[w] = "draw" /\ s = stats.write_index
        BY <1>6, <2>4, <3>2, <4>1 DEF Updates
      <4>3. stats.write_index % BufferSize = stats.write_index
        BY <4>1, <4>2, SmallRemainder, StatisticsAssumption
      <4>4. slot'[w] = s /\ pc'[w] = "store"
        BY <1>6, <4>2, <4>3 DEF Moves, Edges
      <4> QED BY <4>4
    <3> QED BY <3>1, <3>2
  <2> QED BY <1>1, <2>1, <2>3, <2>4 DEF SamplesInv
<1>7. CASE Report \/ Finished
  <2>1. stats' = stats /\ log' = log /\ pc' = pc /\ job' = job /\ slot' = slot
    BY <1>7 DEF Report, Finished, vars
  <2>2. Done(Completed, ToStore)' = Done(Completed, ToStore)
    BY <2>1 DEF Done, Past, Completed
  <2>3. Owns(owner)'
    BY <1>1, <2>1, <2>2 DEF Owns
  <2> QED BY <1>1, <1>3, <2>1, <2>3 DEF SamplesInv
<1> QED BY <1>4, <1>5, <1>6, <1>7, StepUpdates DEF Next

-----------------------------------------------------------------------------
\* The inductive invariant.
CountInv == Inv /\ JobsApart /\ CountersInv /\ SamplesInv

\* The invariant holds initially.
LEMMA InitCountInv == Init => CountInv
<1> SUFFICES ASSUME Init PROVE CountInv
  OBVIOUS
<1>1. Inv
  BY InitInv
<1>2. log = <<>> /\ DOMAIN log = {} /\ Completed = {} /\ Failed = {}
  BY DEF Init, Completed, Failed
<1>3. \A labels : Done(Completed, labels) = {} /\ Done(Failed, labels) = {}
  BY <1>2 DEF Done
<1>4. JobsApart
  BY DEF Init, JobsApart
<1>5. CountersInv
  <2>1. CodeCounts({}) = EmptyBag
    BY DEF CodeCounts, EmptyBag, SetToBag
  <2>2. SumFunctionOnSet(Bytes, {}) = 0 /\ SumFunctionOnSet(Latencies, {}) = 0
    BY SumEmpty
  <2>3. Cardinality({}) = 0
    BY FS_EmptySet
  <2>4. /\ stats.operations_completed = 0 /\ stats.operations_failed = 0
        /\ stats.bytes_copied = 0 /\ stats.total_latency_ns = 0
        /\ stats.write_index = 0 /\ stats.sample_count = 0
        /\ GetTotalErrors(stats) = 0 /\ stats.error_counts = EmptyBag
    BY DEF Init, Fresh, GetTotalErrors
  <2> QED BY <1>3, <2>1, <2>2, <2>3, <2>4 DEF CountersInv
<1>6. SamplesInv
  <2> DEFINE owner == [s \in Slots |-> 0]
  <2>1. owner \in [Slots -> 0 .. Len(log)] /\ Owns(owner)
    BY <1>2 DEF Owns, Init, Fresh
  <2>2. \A s \in Slots : ~ (s < stats.write_index)
    BY StatisticsAssumption DEF Init, Fresh, Slots
  <2> QED BY <2>1, <2>2 DEF SamplesInv
<1> QED BY <1>1, <1>4, <1>5, <1>6 DEF CountInv

\* The inductive invariant of the counters and of the samples.
THEOREM StatisticsCounts == Spec => []CountInv
<1>1. CountInv /\ UNCHANGED vars => CountInv'
  <2> SUFFICES ASSUME CountInv, UNCHANGED vars PROVE CountInv'
    OBVIOUS
  <2>1. Inv'
    BY DEF CountInv, vars, Inv, TypeOK, JobInv, SeenInv, ExtremesExact, Completed, Failed, Past
  <2>2. stats' = stats /\ log' = log /\ pc' = pc /\ job' = job /\ slot' = slot
    BY DEF vars
  <2>3. Completed' = Completed /\ Failed' = Failed /\ Bytes' = Bytes /\ Latencies' = Latencies
    BY <2>2 DEF Completed, Failed, Bytes, Latencies
  <2>4. \A labels : /\ Done(Completed, labels)' = Done(Completed, labels)
                    /\ Done(Failed, labels)' = Done(Failed, labels)
    BY <2>2, <2>3 DEF Done, Past
  <2>5. CodeCounts(Done(Failed, ToCode))' = CodeCounts(Done(Failed, ToCode))
    BY <2>2, <2>4 DEF CodeCounts, CodeOf
  <2>6. CountersInv'
    BY <2>2, <2>3, <2>4, <2>5 DEF CountInv, CountersInv
  <2>7. SamplesInv'
    BY <2>2, <2>4 DEF CountInv, SamplesInv, Owns
  <2> QED BY <2>1, <2>2, <2>6, <2>7 DEF CountInv, JobsApart
<1>2. CountInv /\ Next => CountInv'
  <2> SUFFICES ASSUME CountInv, Next PROVE CountInv'
    OBVIOUS
  <2>1. Inv'
    BY NextTypeOK, NextJobInv, NextSeenInv, NextExtremesExact DEF CountInv, Inv
  <2> QED BY <2>1, NextJobsApart, NextCountersInv, NextSamplesInv DEF CountInv
<1> QED BY <1>1, <1>2, InitCountInv, PTL DEF Spec

\* When no worker is recording, every event has passed every access.
LEMMA QuietDone ==
  ASSUME Quiet, NEW labels, "idle" \notin labels
  PROVE  Done(Completed, labels) = Completed /\ Done(Failed, labels) = Failed
BY DEF Quiet, Done, Past

\* When the workers are quiet, all events are past all accesses.
LEMMA CountersFollow == CountInv => CountersExact
<1> SUFFICES ASSUME CountInv, Quiet PROVE CountersExact
  BY DEF CountersExact
<1>1. /\ Done(Completed, {"completed"}) = Completed /\ Done(Failed, {"failed"}) = Failed
      /\ Done(Completed, ToBytes) = Completed /\ Done(Completed, ToTotal) = Completed
      /\ Done(Failed, ToClassify) = Failed /\ Done(Failed, ToCode) = Failed
  BY QuietDone DEF ToBytes, ToTotal, ToClassify, ToCode
<1>2. DOMAIN Bytes = Completed /\ DOMAIN Latencies = Completed
  BY DEF Bytes, Latencies
<1> QED BY <1>1, <1>2 DEF CountInv, CountersInv, CountersExact, SumFunction

\* The owners of the samples are as many completions as there are slots in use.
LEMMA SamplesFollow == CountInv => SamplesExact
<1> DEFINE n == Cardinality(Completed)
           m == IF n < BufferSize THEN n ELSE BufferSize
           samples == GetSamples(stats)
<1> SUFFICES ASSUME CountInv, Quiet
             PROVE  /\ Cardinality(DOMAIN samples) = m
                    /\ \A k \in DOMAIN samples :
                         Cardinality({j \in DOMAIN samples : samples[j] = samples[k]})
                           <= Cardinality({i \in Completed : log[i].latency = samples[k]})
  BY DEF SamplesExact
<1>1. n \in Nat /\ m \in Nat /\ m <= BufferSize /\ m <= n /\ IsFiniteSet(Completed)
  BY EventsFinite, FS_CardinalityType, StatisticsAssumption DEF CountInv
<1>2. stats.sample_count = n /\ stats.write_index = n
  BY QuietDone DEF CountInv, CountersInv, ToCount, ToStore, ToDraw, BeforeMax, BeforeMin
<1>3. \A k \in 0 .. m - 1 : k \in Slots /\ k < n
  BY <1>1, StatisticsAssumption DEF Slots
<1>4. \A k \in 0 .. m - 1 : stats.samples[k] > 0
  <2>1. \A k \in Slots : stats.samples[k] \in Nat
    BY SampleTypes, StatisticsAssumption DEF CountInv
  <2>2. \A k \in 0 .. m - 1 : stats.samples[k] # 0
    BY <1>2, <1>3 DEF CountInv, SamplesInv, Quiet
  <2> QED BY <1>3, <2>1, <2>2
<1>5. samples = [k \in 0 .. m - 1 |-> stats.samples[k]]
  BY <1>2, <1>4 DEF GetSamples
<1>6. Cardinality(0 .. m - 1) = m
  <2>1. m \in Nat
    BY <1>1
  <2> HIDE DEF m
  <2> QED BY <2>1, FS_Interval
<1>7. PICK owner \in [Slots -> 0 .. Len(log)] : Owns(owner)
  BY DEF CountInv, SamplesInv
<1> HIDE DEF m, samples
<1>8. ASSUME NEW k \in 0 .. m - 1
      PROVE  Cardinality({j \in 0 .. m - 1 : samples[j] = samples[k]})
               <= Cardinality({i \in Completed : log[i].latency = samples[k]})
  <2> DEFINE J == {j \in 0 .. m - 1 : samples[j] = samples[k]}
             I == {i \in Completed : log[i].latency = samples[k]}
             f == [j \in J |-> owner[j]]
  <2>1. IsFiniteSet(I)
    BY <1>1, FS_Subset
  <2>2. \A j \in J : owner[j] \in I /\ owner[j] # 0
    <3>1. \A j \in J : j \in Slots /\ stats.samples[j] = samples[k] /\ stats.samples[j] > 0
      BY <1>3, <1>4, <1>5
    <3>2. \A i \in Completed : i # 0
      BY DEF CountInv, Inv, TypeOK, Completed
    <3> QED BY <1>7, <3>1, <3>2 DEF Owns, Done
  <2>3. f \in Injection(J, I)
    <3>1. f \in [J -> I]
      BY <2>2
    <3>2. \A a, b \in J : f[a] = f[b] => a = b
      BY <1>3, <1>7, <2>2 DEF Owns
    <3> QED BY <3>1, <3>2 DEF Injection, IsInjective
  <2> HIDE DEF I, J, f
  <2>4. Cardinality(J) <= Cardinality(I)
    BY <2>1, <2>3, FS_Injection
  <2> QED BY <2>4 DEF I, J
<1> QED BY <1>5, <1>6, <1>8

\* When the workers are quiet, the counters, the sums, the classes and the map of
\* the codes are exactly those of the commands that ended.
THEOREM StatisticsCountersExact == Spec => []CountersExact
BY StatisticsCounts, CountersFollow, PTL

\* When the workers are quiet, the buffer holds one sample of as many completions
\* as fit.
THEOREM StatisticsSamplesExact == Spec => []SamplesExact
BY StatisticsCounts, SamplesFollow, PTL

-----------------------------------------------------------------------------
(* The report                                                              *)

\* Once the report is made, no worker records, and it stays what it was.
SnapshotOf(s) ==
  [Fresh EXCEPT
     !.operations_completed = s.operations_completed,
     !.operations_failed = s.operations_failed,
     !.bytes_copied = s.bytes_copied,
     !.total_latency_ns = s.total_latency_ns,
     !.min_latency_ns = s.min_latency_ns,
     !.max_latency_ns = s.max_latency_ns,
     !.latency_samples = GetSamples(s)]

ReportInv == snapshot # NoSnapshot => Quiet /\ snapshot = SnapshotOf(stats)

\* Every step keeps it.
LEMMA NextReportInv == ReportInv /\ [Next]_vars => ReportInv'
<1> SUFFICES ASSUME ReportInv, [Next]_vars PROVE ReportInv'
  OBVIOUS
<1>1. CASE Report
  BY <1>1 DEF Report, ReportInv, SnapshotOf, Quiet
<1>2. ASSUME NEW w \in Workers, RecordCompletion(w) \/ RecordFailure(w) PROVE ReportInv'
  <2>1. CASE snapshot = NoSnapshot
    <3>1. snapshot' = snapshot
      BY <1>2 DEF RecordCompletion, Begin, CountCompletion, CountBytes, CountLatency, LoadExtreme,
         KeepExtreme, ExchangeExtreme, ExchangeFails, DrawSlot, StoreSample, CountSample,
         RecordFailure, CountFailure, Classify, CountCode, Record
    <3> QED BY <2>1, <3>1 DEF ReportInv
  <2>2. CASE snapshot # NoSnapshot
    <3>1. pc[w] = "idle"
      BY <2>2 DEF ReportInv, Quiet
    <3>2. FALSE
      BY <1>2, <2>2, <3>1 DEF RecordCompletion, Begin, CountCompletion, CountBytes, CountLatency,
         LoadExtreme, KeepExtreme, ExchangeExtreme, ExchangeFails, DrawSlot, StoreSample,
         CountSample, RecordFailure, CountFailure, Classify, CountCode, Record, Extremes
    <3> QED BY <3>2
  <2> QED BY <2>1, <2>2
<1>3. CASE UNCHANGED vars
  BY <1>3 DEF vars, ReportInv, Quiet, SnapshotOf, GetSamples
<1> QED BY <1>1, <1>2, <1>3 DEF Next, Finished

\* The fields of a report.
LEMMA SnapshotFields ==
  ASSUME NEW s
  PROVE  /\ SnapshotOf(s).operations_completed = s.operations_completed
         /\ SnapshotOf(s).operations_failed = s.operations_failed
         /\ SnapshotOf(s).bytes_copied = s.bytes_copied
         /\ SnapshotOf(s).total_latency_ns = s.total_latency_ns
         /\ SnapshotOf(s).min_latency_ns = s.min_latency_ns
         /\ SnapshotOf(s).max_latency_ns = s.max_latency_ns
         /\ SnapshotOf(s).sample_count = 0 /\ GetTotalErrors(SnapshotOf(s)) = 0
BY DEF SnapshotOf, Fresh, GetTotalErrors

\* What the report takes from the shared object is what the commands add up to:
\* how many completed and failed, the bytes, the latencies, and the extremes.
ReportCounts ==
  snapshot # NoSnapshot =>
    /\ snapshot.operations_completed = Cardinality(Completed)
    /\ snapshot.operations_failed = Cardinality(Failed)
    /\ snapshot.bytes_copied = SumFunction(Bytes)
    /\ snapshot.total_latency_ns = SumFunction(Latencies)
    /\ \A i \in Completed :
         snapshot.min_latency_ns <= log[i].latency /\ log[i].latency <= snapshot.max_latency_ns

\* get_snapshot() after the join copies exact counters, sums and extremes.
THEOREM StatisticsReportCounts == Spec => []ReportCounts
<1>1. CountInv /\ ReportInv => ReportCounts
  <2> SUFFICES ASSUME CountInv, ReportInv, snapshot # NoSnapshot PROVE ReportCounts
    BY DEF ReportCounts
  <2>1. Quiet /\ snapshot = SnapshotOf(stats)
    BY DEF ReportInv
  <2>2. \A i \in Completed : Past(i, BeforeMin) /\ Past(i, BeforeMax)
    BY <2>1 DEF Quiet, Past, BeforeMin, BeforeMax
  <2>3. \A i \in Completed :
          stats.min_latency_ns <= log[i].latency /\ stats.max_latency_ns >= log[i].latency
    BY <2>2 DEF CountInv, Inv, ExtremesExact
  <2>4. /\ stats.max_latency_ns \in Int /\ \A i \in Completed : log[i].latency \in Int
    <3>1. stats.max_latency_ns \in 0 .. Unset - 1
      BY Fields DEF CountInv, Inv, TypeOK
    <3> QED BY <3>1, StatisticsAssumption DEF Completed
  <2> QED BY <2>1, <2>3, <2>4, CountersFollow, SnapshotFields DEF CountersExact, ReportCounts
<1>2. Init => ReportInv
  BY DEF Init, ReportInv
<1> QED BY <1>1, <1>2, NextReportInv, StatisticsCounts, PTL DEF Spec

\* The snapshot carries neither the samples nor the classes of the errors to the
\* report: ReportFaithful holds of a report exactly when no command has ended.
THEOREM StatisticsReportFaithful ==
  Spec => [](snapshot # NoSnapshot => (ReportFaithful <=> log = <<>>))
<1>1. CountInv /\ ReportInv => (snapshot # NoSnapshot => (ReportFaithful <=> log = <<>>))
  <2> SUFFICES ASSUME CountInv, ReportInv, snapshot # NoSnapshot
               PROVE  ReportFaithful <=> log = <<>>
    OBVIOUS
  <2>1. Quiet /\ snapshot = SnapshotOf(stats)
    BY DEF ReportInv
  <2>2. snapshot.sample_count = 0 /\ GetTotalErrors(snapshot) = 0
    BY <2>1, SnapshotFields
  <2>3. DOMAIN GetSamples(snapshot) = {}
    BY <2>2, StatisticsAssumption DEF GetSamples
  <2> DEFINE n == Cardinality(Completed)
  <2>4. /\ Cardinality(DOMAIN GetSamples(stats)) = IF n < BufferSize THEN n ELSE BufferSize
        /\ GetTotalErrors(stats) = Cardinality(Failed)
    BY <2>1, CountersFollow, SamplesFollow DEF CountersExact, SamplesExact
  <2>5. DOMAIN log = Completed \cup Failed /\ log \in Seq(Completions \cup Failures)
    BY DEF Completed, Failed, CountInv, Inv, TypeOK
  <2>6. IsFiniteSet(Completed) /\ IsFiniteSet(Failed)
    BY EventsFinite DEF CountInv
  <2>7. ASSUME ReportFaithful PROVE log = <<>>
    <3>1. DOMAIN GetSamples(stats) = {} /\ GetTotalErrors(stats) = 0
      BY <2>2, <2>3, <2>7 DEF ReportFaithful
    <3>2. n = 0 /\ Cardinality(Failed) = 0
      BY <2>4, <3>1, FS_EmptySet, StatisticsAssumption
    <3>3. Completed = {} /\ Failed = {}
      BY <2>6, <3>2, FS_EmptySet
    <3> QED BY <2>5, <3>3
  <2>8. ASSUME log = <<>> PROVE ReportFaithful
    <3>1. Completed = {} /\ Failed = {}
      BY <2>8 DEF Completed, Failed
    <3>2. GetTotalErrors(stats) = 0
      BY <2>4, <3>1, FS_EmptySet
    <3>3. stats.sample_count = 0
      <4>1. Done(Completed, ToCount) = {}
        BY <3>1 DEF Done
      <4> QED BY <4>1, FS_EmptySet DEF CountInv, CountersInv
    <3>4. \A s : s.sample_count = 0 => GetSamples(s) = [i \in {} |-> 0]
      BY StatisticsAssumption DEF GetSamples
    <3> QED BY <2>2, <3>2, <3>3, <3>4 DEF ReportFaithful
  <2> QED BY <2>7, <2>8
<1>2. Init => ReportInv
  BY DEF Init, ReportInv
<1> QED BY <1>1, <1>2, NextReportInv, StatisticsCounts, PTL DEF Spec
=============================================================================
