----------------------------- MODULE LbaManager -----------------------------
(***************************************************************************)
(* The shared destination cursor of src/lba_manager.cpp.  Three atomics,   *)
(* dst_start_, dst_end_ and dst_current_, are read and written one access  *)
(* at a time by every worker's submissions and completion callbacks.  A    *)
(* request of zero blocks reads or changes nothing and is left out.        *)
(***************************************************************************)
EXTENDS LbaCursor

CONSTANTS
  Threads,
  Blocks,       \* the sizes of the requests, total_blocks
  Ranges        \* the <<start, end>> pairs given to the constructor and set_dst_range()

ASSUME LbaManagerAssumption ==
  /\ Blocks \subseteq 1 .. Wrap - 1 - NamespaceSize
  /\ Ranges \subseteq Lbas \X Lbas

VARIABLES
  start, end, current,  \* dst_start_, dst_end_, dst_current_
  pending,   \* the call each thread is inside of
  pc,        \* its next access
  seen,      \* its locals start, end, current
  target,    \* the arguments of its set_dst_range()
  lap        \* history: the grants since the cursor last was at the start

cells == <<start, end, current>>
vars == <<cells, pending, pc, seen, target, lap>>

NoCall == [kind |-> "none", n |-> 0]
NoRange == <<0, 0>>
NoLocals == [start |-> 0, end |-> 0, current |-> 0]

Calls == {[kind |-> "reset", n |-> 0]}
           \cup [kind : {"reserve", "advance"}, n : Blocks]

Kinds == {"none", "reset", "reserve", "advance", "setRange"}

TypeOK ==
  /\ start \in Lbas /\ end \in 0 .. NamespaceSize /\ current \in Lbas
  /\ pending \in [Threads -> [kind : Kinds, n : Blocks \cup {0}]]
  /\ pc \in [Threads -> {"idle", "loadStart", "loadEnd", "loadCurrent",
                         "exchange", "store", "storeStart", "storeCurrent"}]
  /\ seen \in [Threads -> [start : Lbas, end : 0 .. NamespaceSize, current : Lbas]]
  /\ target \in [Threads -> Ranges \cup {NoRange}]
  /\ lap \in Seq([lba : Lbas, blocks : Blocks])

\* The constructor.
Init ==
  /\ \E r \in Ranges :
       start = r[1] /\ end = EffectiveEnd(r[2]) /\ current = r[1]
  /\ target = [t \in Threads |-> NoRange]
  /\ pending = [t \in Threads |-> NoCall]
  /\ pc = [t \in Threads |-> "idle"]
  /\ seen = [t \in Threads |-> NoLocals]
  /\ lap = <<>>

Goto(t, label) == pc' = [pc EXCEPT ![t] = label]

Return(t) ==
  /\ Goto(t, "idle")
  /\ pending' = [pending EXCEPT ![t] = NoCall]
  /\ seen' = [seen EXCEPT ![t] = NoLocals]

-----------------------------------------------------------------------------
(* get_and_advance_dst_lba(), advance_dst_lba() and reset_dst_lba() begin  *)
(* by reading the bounds.                                                  *)

Invoke(t, c) ==
  /\ pc[t] = "idle"
  /\ \A u \in Threads : pending[u].kind # "setRange"
  /\ pending' = [pending EXCEPT ![t] = c]
  /\ Goto(t, "loadStart")
  /\ UNCHANGED <<cells, seen, target, lap>>

LoadStart(t) ==
  /\ pc[t] = "loadStart"
  /\ seen' = [seen EXCEPT ![t].start = start]
  /\ Goto(t, IF pending[t].kind = "reset" THEN "store" ELSE "loadEnd")
  /\ UNCHANGED <<cells, pending, target, lap>>

LoadEnd(t) ==
  /\ pc[t] = "loadEnd"
  /\ seen' = [seen EXCEPT ![t].end = end]
  /\ Goto(t, "loadCurrent")
  /\ UNCHANGED <<cells, pending, target, lap>>

LoadCurrent(t) ==
  /\ pc[t] = "loadCurrent"
  /\ seen' = [seen EXCEPT ![t].current = current]
  /\ Goto(t, "exchange")
  /\ UNCHANGED <<cells, pending, target, lap>>

\* The next cursor value, computed from what the thread has read.
NextCursor(t) ==
  LET s == seen[t] IN
    IF pending[t].kind = "reserve"
    THEN Advanced(s.start, s.end, s.current, pending[t].n)
    ELSE Stepped(s.start, s.end, s.current, pending[t].n)

\* The effect of an exchange that stores its value; a reservation returns the
\* LBA it was granted.
Commit(t) ==
  /\ current' = NextCursor(t)
  /\ LET s == seen[t]
         n == pending[t].n
     IN lap' = IF pending[t].kind = "reserve"
               THEN LapAfterGrant(lap, s.start, s.end, s.current, n)
               ELSE LapAfterStep(lap, s.start, s.end, s.current, n)
  /\ Return(t)
  /\ UNCHANGED <<start, end, target>>

\* A faulty variant of ExchangeSucceeds: a plain store.
StoreBlindly(t) == pc[t] = "exchange" /\ Commit(t)

\* A faulty variant of ExchangeSucceeds: the loop runs while the exchange
\* succeeds.
LoopOnSuccess(t) ==
  /\ pc[t] = "exchange"
  /\ current = seen[t].current
  /\ current' = NextCursor(t)
  /\ Goto(t, "loadCurrent")
  /\ UNCHANGED <<start, end, pending, seen, target, lap>>

\* compare_exchange_weak finds the cursor as the thread has read it.
ExchangeSucceeds(t) ==
  /\ pc[t] = "exchange"
  /\ current = seen[t].current
  /\ Commit(t)

\* It fails, because the cursor has moved or spuriously: the loop starts over.
ExchangeFails(t) ==
  /\ pc[t] = "exchange"
  /\ Goto(t, "loadCurrent")
  /\ UNCHANGED <<cells, pending, seen, target, lap>>

\* A faulty variant of StoreReset: back to block 0, not to the start.
StoreZero(t) ==
  /\ pc[t] = "store"
  /\ current' = 0
  /\ lap' = <<>>
  /\ Return(t)
  /\ UNCHANGED <<start, end, target>>

StoreReset(t) ==
  /\ pc[t] = "store"
  /\ current' = seen[t].start
  /\ lap' = <<>>
  /\ Return(t)
  /\ UNCHANGED <<start, end, target>>

-----------------------------------------------------------------------------
(* set_dst_range() stores the end, then the start, then the cursor, while  *)
(* no other call is in progress, as lba_manager.h:35 asks of its callers.  *)

StoreEnd(t, r) ==
  /\ pc[t] = "idle"
  /\ \A u \in Threads : pc[u] = "idle"
  /\ end' = EffectiveEnd(r[2])
  /\ target' = [target EXCEPT ![t] = r]
  /\ pending' = [pending EXCEPT ![t] = [kind |-> "setRange", n |-> 0]]
  /\ Goto(t, "storeStart")
  /\ lap' = <<>>
  /\ UNCHANGED <<start, current, seen>>

StoreStart(t) ==
  /\ pc[t] = "storeStart"
  /\ start' = target[t][1]
  /\ Goto(t, "storeCurrent")
  /\ UNCHANGED <<end, current, pending, seen, target, lap>>

StoreCurrent(t) ==
  /\ pc[t] = "storeCurrent"
  /\ current' = target[t][1]
  /\ target' = [target EXCEPT ![t] = NoRange]
  /\ Return(t)
  /\ UNCHANGED <<start, end, lap>>

-----------------------------------------------------------------------------
InCall(t) ==
  \/ LoadStart(t) \/ LoadEnd(t) \/ LoadCurrent(t)
  \/ ExchangeSucceeds(t) \/ ExchangeFails(t)
  \/ StoreReset(t) \/ StoreStart(t) \/ StoreCurrent(t)

Next ==
  \E t \in Threads :
    \/ \E c \in Calls : Invoke(t, c)
    \/ \E r \in Ranges : StoreEnd(t, r)
    \/ InCall(t)

Spec == Init /\ [][Next]_vars

\* A thread inside a call keeps executing; a weak exchange does not fail
\* spuriously for ever, but it may lose to other threads for ever.
FairSpec ==
  /\ Spec
  /\ \A t \in Threads : WF_vars(InCall(t))
  /\ SF_vars(\E t \in Threads : ExchangeSucceeds(t))

-----------------------------------------------------------------------------
(* Properties                                                              *)

\* The blocks of a grant; LBAs are 64 bits wide.
BlocksOf(g) == {Add(g.lba, i) : i \in 0 .. g.blocks - 1}

\* The request fits in the configured range.
Fits(g) == start < end /\ g.blocks <= end - start

\* Two reservations of the same lap never share a block, whichever threads
\* made them and however their exchanges interleaved with resets: otherwise
\* two commands in flight would write to the same destination.
LapDisjoint ==
  \A i, j \in 1 .. Len(lap) :
    (i # j /\ Fits(lap[i]) /\ Fits(lap[j])) =>
      BlocksOf(lap[i]) \cap BlocksOf(lap[j]) = {}

\* A request that fits in the destination range is granted inside it.
GrantsInRange ==
  \A i \in 1 .. Len(lap) :
    Fits(lap[i]) =>
      start <= lap[i].lba /\ lap[i].lba + lap[i].blocks <= end

\* Lock-freedom: the threads do not keep each other inside their calls.
SomeCallReturns ==
  (\A t \in Threads : pc[t] # "idle") ~> (\E t \in Threads : pc[t] = "idle")

\* Every call takes effect at one instant: reservations and resets when the
\* cursor is written, set_dst_range() at its first store.
Setting(t) == pc[t] \in {"storeStart", "storeCurrent"}

Atomic ==
  INSTANCE AtomicLba WITH
    start <- IF \E t \in Threads : Setting(t)
             THEN target[CHOOSE t \in Threads : Setting(t)][1] ELSE start,
    current <- IF \E t \in Threads : Setting(t)
               THEN target[CHOOSE t \in Threads : Setting(t)][1] ELSE current

RefinesAtomic == Atomic!Spec
=============================================================================
