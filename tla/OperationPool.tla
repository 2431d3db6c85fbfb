--------------------------- MODULE OperationPool ---------------------------
(***************************************************************************)
(* The pool of pre-allocated XCOPY operations of include/operation_pool.h. *)
(*                                                                         *)
(* acquire() draws slot numbers from a shared counter and claims the first *)
(* slot whose in_use flag it can swing from false to true; it gives up     *)
(* after pool_size_ attempts.  Every atomic access of acquire() and        *)
(* release() is a step of its own, so that any number of threads may be    *)
(* inside the pool at once.  The callers fill the operations they are      *)
(* given and release them in any order; module Worker models the caller.   *)
(***************************************************************************)
EXTENDS Integers, FiniteSets

CONSTANTS
  Threads,    \* the threads that call acquire() and release()
  PoolSize,   \* pool_size_
  IndexSpan,  \* how many values next_index_ has before it wraps (2^32)
  HoldLimit,  \* a thread calls acquire() only while it holds fewer operations
  Nobody      \* a null user_data

ASSUME PoolAssumption ==
  /\ PoolSize \in Nat \ {0}
  /\ IndexSpan \in Nat \ {0}
  /\ HoldLimit \in 0 .. PoolSize
  /\ Nobody \notin Threads

Ops == 0 .. PoolSize - 1

VARIABLES
  phase,      \* "init": init() is running; "ready"; "gone": after cleanup()
  buffers,    \* the operations whose DMA buffer is allocated
  callers,    \* the threads that use this pool; in the program there is one
  inUse,      \* PooledOperation::in_use
  user,       \* PooledOperation::user_data, standing for all fields reset() clears
  nextIndex,  \* next_index_
  pc,         \* where each thread is inside acquire()
  attempts,   \* the loop counter of acquire()
  slot,       \* the local idx of acquire()
  held        \* the operations each thread was given and has not released

poolVars == <<inUse, user, nextIndex>>
callVars == <<pc, attempts, slot, held>>
lifeVars == <<phase, buffers, callers>>
vars == <<lifeVars, poolVars, callVars>>

TypeOK ==
  /\ phase \in {"init", "ready", "gone"}
  /\ buffers \in SUBSET Ops /\ callers \in SUBSET Threads
  /\ inUse \in [Ops -> BOOLEAN]
  /\ user \in [Ops -> Threads \cup {Nobody}]
  /\ nextIndex \in 0 .. IndexSpan - 1
  /\ pc \in [Threads -> {"idle", "fetch", "claim", "reset", "fill"}]
  /\ attempts \in [Threads -> 0 .. PoolSize]
  /\ slot \in [Threads -> Ops]
  /\ held \in [Threads -> SUBSET Ops]

Init ==
  /\ phase = "init"
  /\ buffers = {}
  /\ callers \in SUBSET Threads
  /\ inUse = [o \in Ops |-> FALSE]
  /\ user = [o \in Ops |-> Nobody]
  /\ nextIndex = 0
  /\ pc = [t \in Threads |-> "idle"]
  /\ attempts = [t \in Threads |-> 0]
  /\ slot = [t \in Threads |-> 0]
  /\ held = [t \in Threads |-> {}]

-----------------------------------------------------------------------------
(* Construction and destruction                                            *)

\* init() allocates the buffers in slot order.
AllocBuffer ==
  /\ phase = "init"
  /\ buffers # Ops
  /\ buffers' = buffers \cup {Cardinality(buffers)}
  /\ phase' = IF buffers' = Ops THEN "ready" ELSE "init"
  /\ UNCHANGED <<callers, poolVars, callVars>>

\* spdk_dma_malloc returns null: init() frees what it has allocated.
AllocFails ==
  /\ phase = "init"
  /\ buffers # Ops
  /\ phase' = "gone"
  /\ buffers' = {}
  /\ UNCHANGED <<callers, poolVars, callVars>>

\* ~OperationPool.  It looks neither at calls in progress nor at operations that
\* are still held: what a thread does with a pool that is gone is undefined and
\* not followed.
Destroy ==
  /\ phase = "ready"
  /\ phase' = "gone"
  /\ buffers' = {}
  /\ UNCHANGED <<callers, poolVars, callVars>>

-----------------------------------------------------------------------------
(* acquire()                                                               *)

Acquire(t) ==
  /\ phase = "ready" /\ t \in callers
  /\ pc[t] = "idle"
  /\ Cardinality(held[t]) < HoldLimit
  /\ pc' = [pc EXCEPT ![t] = "fetch"]
  /\ attempts' = [attempts EXCEPT ![t] = 0]
  /\ UNCHANGED <<lifeVars, poolVars, slot, held>>

\* A faulty variant of FetchIndex: the counter does not move.
FetchIndexStuck(t) ==
  /\ pc[t] = "fetch"
  /\ attempts[t] < PoolSize
  /\ slot' = [slot EXCEPT ![t] = nextIndex % PoolSize]
  /\ pc' = [pc EXCEPT ![t] = "claim"]
  /\ UNCHANGED <<lifeVars, poolVars, attempts, held>>

\* A faulty variant of FetchIndex: it retries for as long as it fails.
FetchIndexForever(t) ==
  /\ pc[t] = "fetch"
  /\ slot' = [slot EXCEPT ![t] = nextIndex % PoolSize]
  /\ nextIndex' = (nextIndex + 1) % IndexSpan
  /\ pc' = [pc EXCEPT ![t] = "claim"]
  /\ attempts' = [attempts EXCEPT ![t] = 0]
  /\ UNCHANGED <<lifeVars, inUse, user, held>>

\* A faulty variant of FetchIndex: the index is not reduced to a slot.
FetchIndexRaw(t) ==
  /\ pc[t] = "fetch"
  /\ attempts[t] < PoolSize
  /\ slot' = [slot EXCEPT ![t] = nextIndex]
  /\ nextIndex' = (nextIndex + 1) % IndexSpan
  /\ pc' = [pc EXCEPT ![t] = "claim"]
  /\ UNCHANGED <<lifeVars, inUse, user, attempts, held>>

\* idx = next_index_.fetch_add(1) % pool_size_
FetchIndex(t) ==
  /\ pc[t] = "fetch"
  /\ attempts[t] < PoolSize
  /\ slot' = [slot EXCEPT ![t] = nextIndex % PoolSize]
  /\ nextIndex' = (nextIndex + 1) % IndexSpan
  /\ pc' = [pc EXCEPT ![t] = "claim"]
  /\ UNCHANGED <<lifeVars, inUse, user, attempts, held>>

\* Every attempt failed: acquire() returns nullptr.
ReturnNull(t) ==
  /\ pc[t] = "fetch"
  /\ attempts[t] = PoolSize
  /\ pc' = [pc EXCEPT ![t] = "idle"]
  /\ UNCHANGED <<lifeVars, poolVars, attempts, slot, held>>

\* A faulty variant of ClaimFree: a plain store in place of the exchange.
ClaimUnconditionally(t) ==
  /\ pc[t] = "claim"
  /\ inUse' = [inUse EXCEPT ![slot[t]] = TRUE]
  /\ pc' = [pc EXCEPT ![t] = "reset"]
  /\ UNCHANGED <<lifeVars, user, nextIndex, attempts, slot, held>>

\* The compare_exchange_strong on in_use finds false and stores true.
ClaimFree(t) ==
  /\ pc[t] = "claim"
  /\ ~inUse[slot[t]]
  /\ inUse' = [inUse EXCEPT ![slot[t]] = TRUE]
  /\ pc' = [pc EXCEPT ![t] = "reset"]
  /\ UNCHANGED <<lifeVars, user, nextIndex, attempts, slot, held>>

\* The exchange finds the slot taken: next attempt.
ClaimBusy(t) ==
  /\ pc[t] = "claim"
  /\ inUse[slot[t]]
  /\ attempts' = [attempts EXCEPT ![t] = @ + 1]
  /\ pc' = [pc EXCEPT ![t] = "fetch"]
  /\ UNCHANGED <<lifeVars, poolVars, slot, held>>

\* reset() clears the fields, and acquire() returns the operation.
Reset(t) ==
  /\ pc[t] = "reset"
  /\ user' = [user EXCEPT ![slot[t]] = Nobody]
  /\ held' = [held EXCEPT ![t] = @ \cup {slot[t]}]
  /\ pc' = [pc EXCEPT ![t] = "fill"]
  /\ UNCHANGED <<lifeVars, inUse, nextIndex, attempts, slot>>

-----------------------------------------------------------------------------
(* The caller, and release()                                               *)

\* submit_next_io_pooled() writes the command into the operation.
Fill(t) ==
  /\ pc[t] = "fill"
  /\ user' = [user EXCEPT ![slot[t]] = t]
  /\ pc' = [pc EXCEPT ![t] = "idle"]
  /\ UNCHANGED <<lifeVars, inUse, nextIndex, attempts, slot, held>>

\* A faulty variant of Release: release() called a second time on an
\* operation that has been handed out again.
ReleaseStale(t, o) ==
  /\ phase = "ready"
  /\ pc[t] = "idle"
  /\ user[o] = t
  /\ inUse' = [inUse EXCEPT ![o] = FALSE]
  /\ held' = [held EXCEPT ![t] = @ \ {o}]
  /\ UNCHANGED <<lifeVars, user, nextIndex, pc, attempts, slot>>

Release(t, o) ==
  /\ phase = "ready"
  /\ pc[t] = "idle"
  /\ o \in held[t]
  /\ inUse' = [inUse EXCEPT ![o] = FALSE]
  /\ held' = [held EXCEPT ![t] = @ \ {o}]
  /\ UNCHANGED <<lifeVars, user, nextIndex, pc, attempts, slot>>

-----------------------------------------------------------------------------
InCall(t) ==
  /\ phase = "ready"
  /\ \/ FetchIndex(t) \/ ReturnNull(t)
     \/ ClaimFree(t) \/ ClaimBusy(t)
     \/ Reset(t) \/ Fill(t)

Done == phase = "gone" /\ UNCHANGED vars

Next ==
  \/ AllocBuffer \/ AllocFails \/ Destroy \/ Done
  \/ \E t \in Threads :
       \/ Acquire(t) \/ InCall(t)
       \/ \E o \in Ops : Release(t, o)

Spec == Init /\ [][Next]_vars

\* A thread that is inside acquire() keeps executing.
FairSpec == Spec /\ \A t \in Threads : WF_vars(InCall(t))

-----------------------------------------------------------------------------
(* Properties                                                              *)

\* What a thread has claimed: what it was given, and the slot acquire() has
\* won for it and not yet returned.
Owned(t) == held[t] \cup (IF pc[t] = "reset" THEN {slot[t]} ELSE {})

\* No operation belongs to two threads, not even between the exchange that
\* claims it and the return of acquire(): a second owner would overwrite the
\* descriptors of a command that is in flight.
ExclusiveOwnership ==
  \A t, u \in Threads : t # u => Owned(t) \cap Owned(u) = {}

\* in_use tells the truth: no slot is lost (flag set and nobody owns it) and
\* no owned slot is up for grabs.
FlagsMatchOwners ==
  \A o \in Ops : inUse[o] <=> \E t \in Threads : o \in Owned(t)

\* The completion callback finds its own context: from the moment the caller
\* filled an operation until it releases it, no other thread's reset() or
\* writes reach it.
ContentIntact ==
  \A t \in Threads : \A o \in held[t] :
    (pc[t] = "fill" /\ o = slot[t]) \/ user[o] = t

\* Used as in the program, by one thread, which holds fewer than half of the
\* operations at the call, acquire() never runs out of attempts, also when
\* next_index_ wraps at a value that is no multiple of PoolSize and the slots
\* drawn repeat.
NeverStarved ==
  \A t \in Threads :
    (callers = {t} /\ 2 * HoldLimit <= PoolSize) => attempts[t] < PoolSize

\* Every call of acquire() returns, unless the pool is destroyed under it.
AcquireReturns ==
  \A t \in Threads : pc[t] = "fetch" ~> (pc[t] = "idle" \/ phase = "gone")
=============================================================================
