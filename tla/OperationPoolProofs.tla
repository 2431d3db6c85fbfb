------------------------ MODULE OperationPoolProofs ------------------------
(***************************************************************************)
(* Proofs about OperationPool, for any number of threads and slots and any *)
(* width of the counter.                                                   *)
(***************************************************************************)
EXTENDS OperationPool, FiniteSetTheorems, TLAPS

\* The operation a thread is filling is one it holds, and a claim is one of the
\* PoolSize attempts.
SlotsInvariant ==
  \A t \in Threads :
    /\ pc[t] = "fill" => slot[t] \in held[t]
    /\ pc[t] = "claim" => attempts[t] < PoolSize

\* init() allocates the buffers of the first slots.
PhaseInvariant ==
  phase = "init" => \E k \in 0 .. PoolSize : buffers = 0 .. k - 1

Inv ==
  /\ TypeOK
  /\ PhaseInvariant
  /\ SlotsInvariant
  /\ ExclusiveOwnership
  /\ FlagsMatchOwners
  /\ ContentIntact

\* A slot number drawn from the counter is a slot.
LEMMA SlotInPool ==
  ASSUME NEW i \in Nat PROVE i % PoolSize \in Ops
BY PoolAssumption DEF Ops

\* The invariant holds for a pool not initialised yet.
LEMMA InitInv == Init => Inv
<1> SUFFICES ASSUME Init PROVE Inv
  OBVIOUS
<1> USE PoolAssumption DEF Init, Ops
<1>1. TypeOK
  BY DEF TypeOK
<1>2. PhaseInvariant
  <2>1. \E k \in 0 .. PoolSize : buffers = 0 .. k - 1
    <3>1. 0 \in 0 .. PoolSize /\ buffers = 0 .. 0 - 1
      OBVIOUS
    <3>2. QED
      BY <3>1
  <2>2. QED
    BY <2>1 DEF PhaseInvariant
<1>3. SlotsInvariant /\ ExclusiveOwnership /\ FlagsMatchOwners /\ ContentIntact
  BY DEF SlotsInvariant, ExclusiveOwnership, FlagsMatchOwners, ContentIntact, Owned
<1>4. QED
  BY <1>1, <1>2, <1>3 DEF Inv

\* Every step preserves the types.
LEMMA NextTypeOK == Inv /\ Next => TypeOK'
<1> SUFFICES ASSUME Inv, Next PROVE TypeOK'
  OBVIOUS
<1> USE PoolAssumption DEF Inv, TypeOK
<1>1. CASE AllocBuffer
  <2>1. PICK k \in 0 .. PoolSize : buffers = 0 .. k - 1
    BY <1>1 DEF PhaseInvariant, AllocBuffer
  <2>2. k < PoolSize
    BY <1>1, <2>1 DEF AllocBuffer, Ops
  <2>3. Cardinality(buffers) = k
    BY <2>1, FS_Interval
  <2>4. QED
    BY <1>1, <2>2, <2>3 DEF AllocBuffer, Ops, poolVars, callVars, lifeVars
<1>2. CASE AllocFails
  BY <1>2 DEF AllocFails, poolVars, callVars
<1>3. CASE Destroy
  BY <1>3 DEF Destroy, poolVars, callVars
<1>4. CASE Done
  BY <1>4 DEF Done, vars, lifeVars, poolVars, callVars
<1>5. ASSUME NEW t \in Threads, Acquire(t) PROVE TypeOK'
  BY <1>5 DEF Acquire, lifeVars, poolVars
<1>6. ASSUME NEW t \in Threads, FetchIndex(t) PROVE TypeOK'
  <2>1. nextIndex % PoolSize \in Ops
    <3>1. nextIndex \in Nat
      OBVIOUS
    <3>2. QED
      BY <3>1, SlotInPool
  <2>2. (nextIndex + 1) % IndexSpan \in 0 .. IndexSpan - 1
    OBVIOUS
  <2>3. QED
    BY <1>6, <2>1, <2>2 DEF FetchIndex, lifeVars
<1>7. ASSUME NEW t \in Threads, ReturnNull(t) PROVE TypeOK'
  BY <1>7 DEF ReturnNull, lifeVars, poolVars
<1>8. ASSUME NEW t \in Threads, ClaimFree(t) PROVE TypeOK'
  BY <1>8 DEF ClaimFree, lifeVars
<1>9. ASSUME NEW t \in Threads, ClaimBusy(t) PROVE TypeOK'
  BY <1>9 DEF ClaimBusy, lifeVars, poolVars, SlotsInvariant
<1>10. ASSUME NEW t \in Threads, Reset(t) PROVE TypeOK'
  BY <1>10 DEF Reset, lifeVars
<1>11. ASSUME NEW t \in Threads, Fill(t) PROVE TypeOK'
  BY <1>11 DEF Fill, lifeVars
<1>12. ASSUME NEW t \in Threads, NEW o \in Ops, Release(t, o) PROVE TypeOK'
  BY <1>12 DEF Release, lifeVars
<1> HIDE DEF Inv, TypeOK
<1>13. QED
  BY <1>1, <1>2, <1>3, <1>4, <1>5, <1>6, <1>7, <1>8, <1>9, <1>10, <1>11, <1>12
     DEF Next, InCall

\* Every step of init() allocates the buffer of the next slot.
LEMMA NextPhaseInvariant == Inv /\ Next => PhaseInvariant'
<1> SUFFICES ASSUME Inv, Next PROVE PhaseInvariant'
  OBVIOUS
<1> USE PoolAssumption DEF Inv
<1>1. CASE AllocBuffer
  <2>1. PICK k \in 0 .. PoolSize : buffers = 0 .. k - 1
    BY <1>1 DEF PhaseInvariant, AllocBuffer
  <2>2. k < PoolSize
    BY <1>1, <2>1 DEF AllocBuffer, Ops
  <2>3. Cardinality(buffers) = k
    BY <2>1, FS_Interval
  <2>4. buffers' = 0 .. (k + 1) - 1 /\ k + 1 \in 0 .. PoolSize
    BY <1>1, <2>1, <2>2, <2>3 DEF AllocBuffer
  <2>5. QED
    BY <2>4 DEF PhaseInvariant
<1>2. CASE AllocFails
  BY <1>2 DEF AllocFails, PhaseInvariant
<1>3. CASE Destroy
  BY <1>3 DEF Destroy, PhaseInvariant
<1>4. CASE Done
  BY <1>4 DEF Done, PhaseInvariant, vars, lifeVars
<1>5. ASSUME NEW t \in Threads,
             Acquire(t) \/ InCall(t) \/ \E o \in Ops : Release(t, o)
      PROVE  PhaseInvariant'
  <2>1. UNCHANGED <<phase, buffers>>
    BY <1>5 DEF Acquire, InCall, FetchIndex, ReturnNull, ClaimFree, ClaimBusy, Reset, Fill,
                Release, lifeVars
  <2>2. QED
    BY <2>1 DEF PhaseInvariant
<1>6. QED
  BY <1>1, <1>2, <1>3, <1>4, <1>5 DEF Next

Ownership ==
  SlotsInvariant /\ ExclusiveOwnership /\ FlagsMatchOwners /\ ContentIntact

\* A step that leaves claims, flags and contents alone keeps the ownership.
LEMMA OwnershipFrame ==
  ASSUME Inv, UNCHANGED <<inUse, user, pc, attempts, slot, held>>
  PROVE  Ownership'
BY DEF Inv, Ownership, SlotsInvariant, ExclusiveOwnership, FlagsMatchOwners, ContentIntact, Owned

\* Moving within the search for a slot changes no ownership.
LEMMA OwnershipSearch ==
  ASSUME Inv, NEW t \in Threads, UNCHANGED <<inUse, user, held>>,
         pc[t] \in {"idle", "fetch", "claim"}, pc'[t] \in {"idle", "fetch", "claim"},
         pc'[t] = "claim" => attempts'[t] < PoolSize,
         \A u \in Threads \ {t} :
           pc'[u] = pc[u] /\ slot'[u] = slot[u] /\ attempts'[u] = attempts[u]
  PROVE  Ownership'
<1> USE DEF Inv
<1>1. \A u \in Threads : Owned(u)' = Owned(u)
  BY DEF Owned
<1>2. SlotsInvariant'
  BY DEF SlotsInvariant
<1>3. ExclusiveOwnership' /\ FlagsMatchOwners'
  BY <1>1 DEF ExclusiveOwnership, FlagsMatchOwners
<1>4. ContentIntact'
  BY DEF ContentIntact
<1>5. QED
  BY <1>2, <1>3, <1>4 DEF Ownership

\* A claim takes an operation that nobody owned.
LEMMA ClaimFreeOwnership ==
  ASSUME Inv, NEW t \in Threads, ClaimFree(t) PROVE Ownership'
<1> USE DEF Inv, TypeOK
<1>1. slot[t] \in Ops /\ \A u \in Threads : slot[t] \notin Owned(u)
  BY DEF ClaimFree, FlagsMatchOwners
<1>2. Owned(t)' = Owned(t) \cup {slot[t]}
  BY DEF ClaimFree, Owned
<1>3. \A u \in Threads \ {t} : Owned(u)' = Owned(u)
  BY DEF ClaimFree, Owned
<1>4. SlotsInvariant'
  BY DEF ClaimFree, SlotsInvariant
<1>5. ExclusiveOwnership'
  BY <1>1, <1>2, <1>3 DEF ExclusiveOwnership
<1>6. FlagsMatchOwners'
  <2>1. SUFFICES ASSUME NEW o \in Ops
                 PROVE  inUse'[o] <=> \E u \in Threads : o \in Owned(u)'
    BY DEF FlagsMatchOwners
  <2>2. inUse' = [inUse EXCEPT ![slot[t]] = TRUE]
    BY DEF ClaimFree
  <2>3. CASE o = slot[t]
    BY <1>2, <2>2, <2>3
  <2>4. CASE o # slot[t]
    BY <1>2, <1>3, <2>2, <2>4 DEF FlagsMatchOwners
  <2>5. QED
    BY <2>3, <2>4
<1>7. ContentIntact'
  BY DEF ClaimFree, ContentIntact
<1>8. QED
  BY <1>4, <1>5, <1>6, <1>7 DEF Ownership

\* reset() and the return leave the owner of the operation as it is.
LEMMA ResetOwnership ==
  ASSUME Inv, NEW t \in Threads, Reset(t) PROVE Ownership'
<1> USE DEF Inv, TypeOK
<1>1. \A u \in Threads : Owned(u)' = Owned(u)
  BY DEF Reset, Owned
<1>2. SlotsInvariant'
  BY DEF Reset, SlotsInvariant
<1>3. ExclusiveOwnership' /\ FlagsMatchOwners'
  BY <1>1 DEF Reset, ExclusiveOwnership, FlagsMatchOwners
<1>4. ContentIntact'
  <2>1. \A u \in Threads \ {t} : slot[t] \notin held[u]
    BY DEF Reset, ExclusiveOwnership, Owned
  <2>2. QED
    BY <2>1 DEF Reset, ContentIntact
<1>5. QED
  BY <1>2, <1>3, <1>4 DEF Ownership

\* Filling an operation touches nobody else's.
LEMMA FillOwnership ==
  ASSUME Inv, NEW t \in Threads, Fill(t) PROVE Ownership'
<1> USE DEF Inv, TypeOK
<1>1. \A u \in Threads : Owned(u)' = Owned(u)
  BY DEF Fill, Owned
<1>2. SlotsInvariant'
  BY DEF Fill, SlotsInvariant
<1>3. ExclusiveOwnership' /\ FlagsMatchOwners'
  BY <1>1 DEF Fill, ExclusiveOwnership, FlagsMatchOwners
<1>4. ContentIntact'
  <2>1. \A u \in Threads \ {t} : slot[t] \notin held[u]
    BY DEF Fill, ExclusiveOwnership, SlotsInvariant, Owned
  <2>2. QED
    BY <2>1 DEF Fill, ContentIntact
<1>5. QED
  BY <1>2, <1>3, <1>4 DEF Ownership

\* A release takes the operation from its only owner.
LEMMA ReleaseOwnership ==
  ASSUME Inv, NEW t \in Threads, NEW o \in Ops, Release(t, o) PROVE Ownership'
<1> USE DEF Inv, TypeOK
<1>1. Owned(t)' = Owned(t) \ {o} /\ o \in Owned(t)
  BY DEF Release, Owned
<1>2. \A u \in Threads \ {t} : Owned(u)' = Owned(u) /\ o \notin Owned(u)
  BY <1>1 DEF Release, Owned, ExclusiveOwnership
<1>3. SlotsInvariant'
  BY DEF Release, SlotsInvariant
<1>4. ExclusiveOwnership'
  BY <1>1, <1>2 DEF ExclusiveOwnership
<1>5. FlagsMatchOwners'
  <2>1. SUFFICES ASSUME NEW p \in Ops
                 PROVE  inUse'[p] <=> \E u \in Threads : p \in Owned(u)'
    BY DEF FlagsMatchOwners
  <2>2. inUse' = [inUse EXCEPT ![o] = FALSE]
    BY DEF Release
  <2>3. CASE p = o
    BY <1>1, <1>2, <2>2, <2>3
  <2>4. CASE p # o
    BY <1>1, <1>2, <2>2, <2>4 DEF FlagsMatchOwners
  <2>5. QED
    BY <2>3, <2>4
<1>6. ContentIntact'
  BY DEF Release, ContentIntact
<1>7. QED
  BY <1>3, <1>4, <1>5, <1>6 DEF Ownership

\* Every step preserves exclusive ownership, the flags and the contents.
LEMMA NextOwnership == Inv /\ Next => Ownership'
<1> SUFFICES ASSUME Inv, Next PROVE Ownership'
  OBVIOUS
<1>1. CASE AllocBuffer \/ AllocFails \/ Destroy \/ Done
  BY <1>1, OwnershipFrame
     DEF AllocBuffer, AllocFails, Destroy, Done, vars, poolVars, callVars
<1>2. ASSUME NEW t \in Threads, Acquire(t) \/ FetchIndex(t) \/ ReturnNull(t) \/ ClaimBusy(t)
      PROVE  Ownership'
  <2>1. UNCHANGED <<inUse, user, held>>
    BY <1>2 DEF Acquire, FetchIndex, ReturnNull, ClaimBusy, poolVars
  <2>2. /\ pc[t] \in {"idle", "fetch", "claim"} /\ pc'[t] \in {"idle", "fetch", "claim"}
        /\ pc'[t] = "claim" => attempts'[t] < PoolSize
    BY <1>2 DEF Acquire, FetchIndex, ReturnNull, ClaimBusy, Inv, TypeOK
  <2>3. \A u \in Threads \ {t} :
          pc'[u] = pc[u] /\ slot'[u] = slot[u] /\ attempts'[u] = attempts[u]
    BY <1>2 DEF Acquire, FetchIndex, ReturnNull, ClaimBusy, Inv, TypeOK
  <2>4. QED
    BY <2>1, <2>2, <2>3, OwnershipSearch
<1>3. ASSUME NEW t \in Threads,
             ClaimFree(t) \/ Reset(t) \/ Fill(t) \/ \E o \in Ops : Release(t, o)
      PROVE  Ownership'
  BY <1>3, ClaimFreeOwnership, ResetOwnership, FillOwnership, ReleaseOwnership
<1>4. QED
  BY <1>1, <1>2, <1>3 DEF Next, InCall

\* The pool's state is well typed, and between any two steps of any threads
\* every operation has at most one owner, the flags agree with the owners, and
\* no operation loses the content its owner has written.
THEOREM PoolInvariant == Spec => []Inv
<1>1. Init => Inv
  BY InitInv
<1>2. Inv /\ [Next]_vars => Inv'
  <2> SUFFICES ASSUME Inv, [Next]_vars PROVE Inv'
    OBVIOUS
  <2>1. CASE Next
    BY <2>1, NextTypeOK, NextPhaseInvariant, NextOwnership DEF Inv, Ownership
  <2>2. CASE UNCHANGED vars
    BY <2>2 DEF vars, lifeVars, poolVars, callVars, Inv, TypeOK, PhaseInvariant, SlotsInvariant,
                ExclusiveOwnership, FlagsMatchOwners, ContentIntact, Owned
  <2>3. QED
    BY <2>1, <2>2
<1>3. QED
  BY <1>1, <1>2, PTL DEF Spec

\* TypeOK for every size of the pool and width of the counter.
THEOREM PoolTypeCorrect == Spec => []TypeOK
BY PoolInvariant, PTL DEF Inv

\* acquire() never hands one operation to two threads.
THEOREM PoolExclusive == Spec => []ExclusiveOwnership
BY PoolInvariant, PTL DEF Inv

\* No slot is lost and no owned slot is free.
THEOREM PoolFlags == Spec => []FlagsMatchOwners
BY PoolInvariant, PTL DEF Inv

\* An operation in use keeps what its owner wrote.
THEOREM PoolContent == Spec => []ContentIntact
BY PoolInvariant, PTL DEF Inv

-----------------------------------------------------------------------------
(* With one thread and the sizes of start() the attempts suffice.          *)

\* Fewer than half of the slots held at a call, and a counter that does not wrap
\* twice within one call.
WorkerSizes ==
  /\ 2 * HoldLimit <= PoolSize
  /\ PoolSize <= IndexSpan

\* The value of the counter j draws before it became n.
Before(n, j) == IF n >= j THEN n - j ELSE n - j + IndexSpan

Drawn(j) == Before(nextIndex, j) % PoolSize

\* Every slot the thread has drawn in this call was in use, and still is.
Draws(t) ==
  /\ attempts[t] < PoolSize
  /\ pc[t] \in {"fetch", "claim"} => Cardinality(held[t]) < HoldLimit
  /\ pc[t] = "fetch" => \A j \in 1 .. attempts[t] : inUse[Drawn(j)]
  /\ pc[t] = "claim" => /\ slot[t] = Drawn(1)
                        /\ \A j \in 2 .. attempts[t] + 1 : inUse[Drawn(j)]

\* No thread but the callers is inside a call or owns an operation.
OthersApart == \A u \in Threads \ callers : pc[u] = "idle" /\ held[u] = {}

DrawsInvariant ==
  OthersApart /\ \A t \in Threads : callers = {t} => Draws(t)

\* Division of a draw by the size of the pool.
LEMMA Remainder ==
  ASSUME NEW i \in Nat
  PROVE  /\ i % PoolSize \in 0 .. PoolSize - 1 /\ i \div PoolSize \in Nat
         /\ i = PoolSize * (i \div PoolSize) + (i % PoolSize)
BY PoolAssumption

\* Neighbouring draws do not give the same slot.
LEMMA NearDrawsDiffer ==
  ASSUME NEW a \in Nat, NEW b \in Nat, a < b, b < a + PoolSize
  PROVE  a % PoolSize # b % PoolSize
<1> SUFFICES ASSUME a % PoolSize = b % PoolSize PROVE FALSE
  OBVIOUS
<1> DEFINE p == a \div PoolSize
           q == b \div PoolSize
           r == a % PoolSize
<1>1. /\ p \in Nat /\ q \in Nat /\ r \in 0 .. PoolSize - 1
      /\ a = PoolSize * p + r /\ b = PoolSize * q + r
  BY Remainder
<1> HIDE DEF p, q, r
<1>2. PoolSize * (q - p) = b - a /\ PoolSize \in Nat \ {0}
  BY <1>1, PoolAssumption
<1>3. CASE q > p
  <2>1. PoolSize * (q - p) >= PoolSize
    BY <1>1, <1>2, <1>3
  <2> QED BY <1>2, <2>1
<1>4. CASE q <= p
  <2>1. PoolSize * (q - p) <= 0
    BY <1>1, <1>2, <1>4
  <2> QED BY <1>2, <2>1
<1> QED BY <1>1, <1>3, <1>4

\* PoolSize draws in a row give HoldLimit slots at least: those drawn before
\* the counter wrapped, or those drawn after it.
LEMMA DrawsCover ==
  ASSUME WorkerSizes, NEW n \in 0 .. IndexSpan - 1,
         NEW S, IsFiniteSet(S), \A j \in 1 .. PoolSize : Before(n, j) % PoolSize \in S
  PROVE  HoldLimit <= Cardinality(S)
<1> DEFINE base == IF n >= HoldLimit THEN n ELSE IndexSpan
           f == [j \in 1 .. HoldLimit |-> (base - j) % PoolSize]
<1>1. /\ PoolSize \in Nat \ {0} /\ IndexSpan \in Nat \ {0} /\ HoldLimit \in Nat
      /\ 2 * HoldLimit <= PoolSize /\ PoolSize <= IndexSpan /\ n \in Nat
      /\ base \in Nat /\ HoldLimit <= base
  BY PoolAssumption DEF WorkerSizes
<1>2. ASSUME NEW j \in 1 .. HoldLimit PROVE f[j] \in S
  <2>1. CASE n >= HoldLimit
    <3>1. j \in 1 .. PoolSize /\ Before(n, j) = base - j
      BY <1>1, <2>1 DEF Before
    <3> QED BY <3>1
  <2>2. CASE n < HoldLimit
    <3>1. n + j \in 1 .. PoolSize /\ Before(n, n + j) = base - j
      BY <1>1, <2>2 DEF Before
    <3> QED BY <3>1
  <2> QED BY <1>1, <2>1, <2>2
<1>3. ASSUME NEW i \in 1 .. HoldLimit, NEW j \in 1 .. HoldLimit, i < j
      PROVE  f[i] # f[j]
  <2>1. base - i \in Nat /\ base - j \in Nat /\ base - j < base - i /\ base - i < base - j + PoolSize
    BY <1>1, <1>3
  <2> QED BY <2>1, NearDrawsDiffer
<1>4. f \in Injection(1 .. HoldLimit, S)
  <2>1. f \in [1 .. HoldLimit -> S]
    BY <1>2
  <2>2. ASSUME NEW i \in 1 .. HoldLimit, NEW j \in 1 .. HoldLimit, f[i] = f[j] PROVE i = j
    BY <1>1, <1>3, <2>2
  <2> QED BY <2>1, <2>2 DEF Injection, IsInjective
<1>5. Cardinality(1 .. HoldLimit) <= Cardinality(S)
  BY <1>4, FS_Injection
<1>6. Cardinality(1 .. HoldLimit) = HoldLimit
  BY <1>1, FS_Interval
<1> QED BY <1>5, <1>6

\* A call whose PoolSize attempts all found their slot in use would have found
\* more operations in use than the thread holds.
LEMMA NotAllInUse ==
  ASSUME WorkerSizes, Inv, OthersApart, NEW t \in Threads, callers = {t}, pc[t] = "claim",
         Cardinality(held[t]) < HoldLimit
  PROVE  \E j \in 1 .. PoolSize : ~inUse[Drawn(j)]
<1> SUFFICES ASSUME \A j \in 1 .. PoolSize : inUse[Drawn(j)] PROVE FALSE
  OBVIOUS
<1>1. nextIndex \in 0 .. IndexSpan - 1 /\ held[t] \in SUBSET Ops
  BY DEF Inv, TypeOK
<1>2. IsFiniteSet(held[t]) /\ Cardinality(held[t]) \in Nat
  <2>1. IsFiniteSet(Ops)
    BY PoolAssumption, FS_Interval DEF Ops
  <2> QED BY <1>1, <2>1, FS_Subset, FS_CardinalityType
<1>3. ASSUME NEW j \in 1 .. PoolSize PROVE Before(nextIndex, j) % PoolSize \in held[t]
  <2>1. Before(nextIndex, j) \in Nat
    BY <1>1, PoolAssumption DEF WorkerSizes, Before
  <2>2. Drawn(j) \in Ops /\ inUse[Drawn(j)]
    BY <2>1, SlotInPool DEF Drawn
  <2>3. PICK u \in Threads : Drawn(j) \in Owned(u)
    BY <2>2 DEF Inv, FlagsMatchOwners
  <2>4. u = t
    BY <2>3 DEF OthersApart, Owned
  <2> QED BY <2>3, <2>4 DEF Owned, Drawn
<1>4. HoldLimit <= Cardinality(held[t])
  BY <1>1, <1>2, <1>3, DrawsCover
<1> QED BY <1>2, <1>4, PoolAssumption

\* One more draw moves every earlier one a place back.
LEMMA DrawsMove ==
  ASSUME NEW n \in 0 .. IndexSpan - 1, NEW j \in 0 .. IndexSpan - 1
  PROVE  Before((n + 1) % IndexSpan, j + 1) = Before(n, j) /\ Before(n, 0) = n
<1>1. (n + 1) % IndexSpan = IF n + 1 = IndexSpan THEN 0 ELSE n + 1
  BY PoolAssumption
<1> QED BY <1>1, PoolAssumption DEF Before

\* DrawsInvariant holds before the first call.
LEMMA DrawsInit == Init => DrawsInvariant
BY PoolAssumption DEF Init, DrawsInvariant, Draws, OthersApart

\* Only callers get into a call or release.
LEMMA OthersStayApart ==
  ASSUME Inv, OthersApart, [Next]_vars
  PROVE  OthersApart' /\ callers' = callers
<1>1. CASE AllocBuffer \/ AllocFails \/ Destroy \/ Done \/ UNCHANGED vars
  BY <1>1 DEF AllocBuffer, AllocFails, Destroy, Done, vars, lifeVars, callVars, OthersApart
<1>2. ASSUME NEW t \in Threads, Acquire(t) \/ InCall(t) \/ \E o \in Ops : Release(t, o)
      PROVE  OthersApart' /\ callers' = callers
  <2>1. t \in callers
    BY <1>2 DEF OthersApart, Acquire, InCall, FetchIndex, ReturnNull, ClaimFree, ClaimBusy,
                Reset, Fill, Release
  <2>2. callers' = callers /\ \A u \in Threads \ {t} : pc'[u] = pc[u] /\ held'[u] = held[u]
    BY <1>2 DEF Inv, TypeOK, Acquire, InCall, FetchIndex, ReturnNull, ClaimFree, ClaimBusy,
                Reset, Fill, Release, lifeVars
  <2> QED BY <2>1, <2>2 DEF OthersApart
<1> QED BY <1>1, <1>2 DEF Next

\* Every step of the only caller preserves what its draws have shown.
LEMMA DrawsNext ==
  ASSUME WorkerSizes, Inv, OthersApart, NEW t \in Threads, callers = {t}, Draws(t),
         Acquire(t) \/ InCall(t) \/ \E o \in Ops : Release(t, o)
  PROVE  Draws(t)'
<1>1. /\ PoolSize \in Nat \ {0} /\ IndexSpan \in Nat \ {0} /\ PoolSize <= IndexSpan
      /\ attempts \in [Threads -> 0 .. PoolSize] /\ nextIndex \in 0 .. IndexSpan - 1
      /\ pc \in [Threads -> {"idle", "fetch", "claim", "reset", "fill"}]
      /\ slot \in [Threads -> Ops] /\ attempts[t] \in 0 .. PoolSize
  BY PoolAssumption DEF WorkerSizes, Inv, TypeOK
<1>2. CASE Acquire(t)
  BY <1>1, <1>2 DEF Acquire, Draws
<1>3. CASE FetchIndex(t)
  <2>1. \A j \in 0 .. attempts[t] : Drawn(j + 1)' = Drawn(j)
    BY <1>1, <1>3, DrawsMove DEF FetchIndex, Drawn
  <2>2. Drawn(1)' = nextIndex % PoolSize
    <3>1. 0 \in 0 .. IndexSpan - 1 /\ 0 + 1 = 1
      BY <1>1
    <3>2. Before((nextIndex + 1) % IndexSpan, 1) = nextIndex
      BY <1>1, <3>1, DrawsMove
    <3> QED BY <1>3, <3>2 DEF FetchIndex, Drawn
  <2>3. \A j \in 2 .. attempts[t] + 1 : inUse[Drawn(j)']
    <3> SUFFICES ASSUME NEW j \in 2 .. attempts[t] + 1 PROVE inUse[Drawn(j)']
      OBVIOUS
    <3>1. j - 1 \in 1 .. attempts[t] /\ j = (j - 1) + 1
      BY <1>1
    <3> QED BY <1>3, <2>1, <3>1 DEF FetchIndex, Draws
  <2> QED BY <1>1, <1>3, <2>2, <2>3 DEF FetchIndex, Draws
<1>4. CASE ClaimBusy(t)
  <2>1. \A j \in 1 .. attempts[t] + 1 : Drawn(j)' = Drawn(j) /\ inUse[Drawn(j)]
    BY <1>1, <1>4 DEF ClaimBusy, Draws, Drawn, poolVars
  <2>2. attempts[t] + 1 < PoolSize
    BY <1>1, <1>4, <2>1, NotAllInUse DEF ClaimBusy, Draws
  <2> QED BY <1>1, <1>4, <2>1, <2>2 DEF ClaimBusy, Draws, poolVars
<1>5. CASE ReturnNull(t) \/ ClaimFree(t) \/ Reset(t) \/ Fill(t)
  BY <1>1, <1>5 DEF ReturnNull, ClaimFree, Reset, Fill, Draws
<1>6. CASE \E o \in Ops : Release(t, o)
  BY <1>1, <1>6 DEF Release, Draws
<1> QED BY <1>2, <1>3, <1>4, <1>5, <1>6 DEF InCall

\* With the sizes start() picks, acquire() never runs out of attempts in a pool
\* of one thread (NeverStarved), also across the wrap of the counter, for every
\* depth.
THEOREM PoolNeverStarved ==
  ASSUME PoolSize <= IndexSpan PROVE Spec => []NeverStarved
<1>1. ASSUME WorkerSizes, Inv, DrawsInvariant, [Next]_vars PROVE DrawsInvariant'
  <2>1. OthersApart' /\ callers' = callers
    BY <1>1, OthersStayApart DEF DrawsInvariant
  <2> SUFFICES ASSUME NEW t \in Threads, callers = {t} PROVE Draws(t)'
    BY <2>1 DEF DrawsInvariant
  <2>2. OthersApart /\ Draws(t)
    BY <1>1 DEF DrawsInvariant
  <2>3. CASE AllocBuffer \/ AllocFails \/ Destroy \/ Done \/ UNCHANGED vars
    BY <2>2, <2>3 DEF AllocBuffer, AllocFails, Destroy, Done, vars, poolVars, callVars, Draws, Drawn
  <2>4. ASSUME NEW v \in Threads, Acquire(v) \/ InCall(v) \/ \E o \in Ops : Release(v, o)
        PROVE  Draws(t)'
    <3>1. v \in callers
      BY <2>2, <2>4 DEF OthersApart, Acquire, InCall, FetchIndex, ReturnNull, ClaimFree,
        ClaimBusy, Reset, Fill, Release
    <3> QED BY <1>1, <2>2, <2>4, <3>1, DrawsNext
  <2> QED BY <1>1, <2>3, <2>4 DEF Next
<1>2. CASE 2 * HoldLimit <= PoolSize
  <2>1. WorkerSizes
    BY <1>2 DEF WorkerSizes
  <2>2. DrawsInvariant => NeverStarved
    BY DEF DrawsInvariant, Draws, NeverStarved
  <2>3. Inv /\ DrawsInvariant /\ [Next]_vars => DrawsInvariant'
    BY <1>1, <2>1
  <2> QED BY <2>2, <2>3, DrawsInit, PoolInvariant, PTL DEF Spec
<1>3. CASE ~(2 * HoldLimit <= PoolSize)
  <2>1. TypeOK => NeverStarved
    BY <1>3 DEF NeverStarved
  <2> QED BY <2>1, PoolTypeCorrect, PTL
<1> QED BY <1>2, <1>3
=============================================================================
