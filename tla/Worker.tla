------------------------------- MODULE Worker -------------------------------
(***************************************************************************)
(* One worker thread of src/poll_thread_manager.cpp: thread_func() with    *)
(* everything it calls, submit_next_io_pooled(), the completion callback   *)
(* that SPDK runs inside the worker's polls, and reconnect_qpair().  The   *)
(* other parties are the main thread, which sets should_stop at any time,  *)
(* and SPDK with the device, which may complete commands in any order and  *)
(* with any status, refuse submissions, fail polls and fail connections.   *)
(*                                                                         *)
(* The pool hands out any free operation (module OperationPool shows that  *)
(* it does, for this use).  The statistics and the destination cursor that *)
(* the handlers update are shared between workers; they decide nothing the *)
(* worker does and are left to the modules about them.                     *)
(***************************************************************************)
EXTENDS Integers, FiniteSets

CONSTANTS
  Ops,           \* the operations of the worker's pool
  NoOp,
  TargetDepth,   \* target_iodepth
  BatchMax,      \* submissions per loop iteration (32)
  MaxRetries,    \* calls of generate() per submission (10)
  MaxErrors,     \* max_consecutive_errors (10)
  MaxReconnects, \* max_reconnect_attempts (10)
  DrainMax,      \* polls while draining (10000)
  DeferredCap    \* where handle_backpressure_pooled() stops counting (100)

ASSUME WorkerAssumption ==
  /\ NoOp \notin Ops
  /\ TargetDepth \in Nat \ {0}
  /\ IsFiniteSet(Ops) /\ Cardinality(Ops) = 2 * TargetDepth
  /\ BatchMax \in Nat \ {0} /\ MaxRetries \in Nat \ {0}
  /\ MaxErrors \in Nat \ {0} /\ MaxReconnects \in Nat
  /\ DrainMax \in Nat /\ DeferredCap \in Nat

VARIABLES
  should_stop,
  pc,             \* where thread_func() is
  call,           \* where submit_next_io_pooled() is, "none" outside of it
  op,             \* the operation it is preparing
  retry_count,
  submitted,      \* submissions of this iteration
  reaped,         \* completions delivered by the current poll
  outstanding_io,
  deferred_count,
  consecutive_errors,
  reconnect_attempts,
  drain_cycles,
  inUse,          \* the pool's operations with in_use set
  buffers,        \* the pool's operations whose DMA buffer is allocated
  qpair,          \* ctx->qpair is not null
  spdk_thread,    \* ctx->spdk_thread is not null
  qpairs,         \* SPDK: how many qpairs the worker has allocated and not freed
  inflight        \* SPDK: the operations whose command is not completed

submitVars == <<call, op, retry_count, inUse, buffers, deferred_count>>
counters == <<consecutive_errors, reconnect_attempts, drain_cycles>>
loopVars == <<pc, submitted, reaped, counters>>
connVars == <<qpair, qpairs, spdk_thread>>
ioVars == <<outstanding_io, inflight>>
vars == <<should_stop, submitVars, loopVars, connVars, ioVars>>

TypeOK ==
  /\ should_stop \in BOOLEAN
  /\ pc \in {"init", "loop", "batch", "poll", "delete", "reconnect", "connecting",
             "drain", "exit", "exited"}
  /\ call \in {"none", "check", "generate", "issue"}
  /\ op \in Ops \cup {NoOp}
  /\ retry_count \in 0 .. MaxRetries - 1
  /\ submitted \in 0 .. BatchMax
  /\ reaped \in 0 .. TargetDepth
  /\ outstanding_io \in 0 .. TargetDepth
  /\ deferred_count \in Nat
  /\ consecutive_errors \in 0 .. MaxErrors
  /\ reconnect_attempts \in 0 .. MaxReconnects
  /\ drain_cycles \in 0 .. DrainMax
  /\ inUse \in SUBSET Ops /\ buffers \in SUBSET Ops
  /\ qpair \in BOOLEAN /\ spdk_thread \in BOOLEAN
  /\ qpairs \in Nat
  /\ inflight \in SUBSET Ops

\* start() has created and connected the qpair and spawns the thread.
Init ==
  /\ should_stop = FALSE
  /\ pc = "init" /\ call = "none" /\ op = NoOp
  /\ retry_count = 0 /\ submitted = 0 /\ reaped = 0
  /\ outstanding_io = 0 /\ deferred_count = 0
  /\ consecutive_errors = 0 /\ reconnect_attempts = 0 /\ drain_cycles = 0
  /\ inUse = {} /\ buffers = Ops /\ inflight = {}
  /\ qpair = TRUE /\ qpairs = 1
  /\ spdk_thread = FALSE

-----------------------------------------------------------------------------
(* submit_next_io_pooled(), called by the loop and by the callback         *)

\* It returns 0: the loop's batch ends, a callback is over.
Return0 ==
  /\ call' = "none" /\ op' = NoOp /\ retry_count' = 0
  /\ pc' = IF pc = "batch" THEN "poll" ELSE pc

\* A faulty variant of MaySubmit: should_stop is not tested.
MaySubmitAlways == qpair /\ outstanding_io < TargetDepth

MaySubmit == ~should_stop /\ qpair /\ outstanding_io < TargetDepth

\* A fast-path check fails.
SubmitDeclined ==
  /\ call = "check"
  /\ ~MaySubmit
  /\ Return0
  /\ UNCHANGED <<should_stop, inUse, buffers, deferred_count, submitted, reaped,
                 counters, connVars, ioVars>>

\* A faulty variant of Undeferred: a deferral is never taken back.
UndeferredNever == deferred_count

\* fetch_sub, unless the count is zero.
Undeferred == IF deferred_count > 0 THEN deferred_count - 1 ELSE 0

\* acquire() returns a free operation, or none if the pool is exhausted.
Acquire ==
  /\ call = "check"
  /\ MaySubmit
  /\ deferred_count' = Undeferred
  /\ IF inUse = Ops
     THEN Return0 /\ UNCHANGED inUse
     ELSE /\ op' \in Ops \ inUse
          /\ inUse' = inUse \cup {op'}
          /\ call' = "generate" /\ retry_count' = 0
          /\ UNCHANGED pc
  /\ UNCHANGED <<should_stop, buffers, submitted, reaped, counters, connVars,
                 ioVars>>

\* generate() succeeds and the fields are copied into the operation.
Generated ==
  /\ call = "generate"
  /\ call' = "issue" /\ retry_count' = 0
  /\ UNCHANGED <<should_stop, op, inUse, buffers, deferred_count, loopVars,
                 connVars, ioVars>>

\* A faulty variant of GenerateFails: giving up does not release the operation.
GenerateFailsLeaking ==
  /\ call = "generate"
  /\ IF retry_count + 1 < MaxRetries
     THEN retry_count' = retry_count + 1 /\ UNCHANGED <<call, op, pc>>
     ELSE Return0
  /\ UNCHANGED <<should_stop, inUse, buffers, deferred_count, submitted, reaped,
                 counters, connVars, ioVars>>

\* It fails, at last for good: the operation is released, and the destructor of
\* temp_op, whose ranges still point to the operation's buffer, frees the buffer.
GenerateFails ==
  /\ call = "generate"
  /\ IF retry_count + 1 < MaxRetries
     THEN /\ retry_count' = retry_count + 1
          /\ UNCHANGED <<call, op, inUse, buffers, pc>>
     ELSE /\ inUse' = inUse \ {op}
          /\ buffers' = buffers \ {op}
          /\ Return0
  /\ UNCHANGED <<should_stop, deferred_count, submitted, reaped, counters,
                 connVars, ioVars>>

\* A faulty variant of NamespaceGone: it does not release the operation.
NamespaceGoneLeaking ==
  /\ call = "issue"
  /\ Return0
  /\ UNCHANGED <<should_stop, inUse, buffers, deferred_count, submitted, reaped,
                 counters, connVars, ioVars>>

\* get_ns() finds no such namespace.
NamespaceGone ==
  /\ call = "issue"
  /\ inUse' = inUse \ {op}
  /\ Return0
  /\ UNCHANGED <<should_stop, buffers, deferred_count, submitted, reaped,
                 counters, connVars, ioVars>>

\* spdk_nvme_ns_cmd_copy() returns 0; a qpair that is being freed accepts nothing.
Accepted ==
  /\ call = "issue"
  /\ pc # "delete"
  /\ inflight' = inflight \cup {op}
  /\ outstanding_io' = outstanding_io + 1
  /\ submitted' = IF pc = "batch" THEN submitted + 1 ELSE submitted
  /\ call' = "none" /\ op' = NoOp
  /\ UNCHANGED <<should_stop, buffers, retry_count, inUse, deferred_count, pc,
                 reaped, counters, connVars>>

\* A faulty variant of Rejected: it does not release the operation.
RejectedLeaking ==
  /\ call = "issue"
  /\ deferred_count' = IF deferred_count < DeferredCap THEN deferred_count + 1
                       ELSE deferred_count
  /\ Return0
  /\ UNCHANGED <<should_stop, inUse, buffers, submitted, reaped, counters,
                 connVars, ioVars>>

\* It fails: handle_backpressure_pooled().
Rejected ==
  /\ call = "issue"
  /\ inUse' = inUse \ {op}
  /\ deferred_count' = IF deferred_count < DeferredCap THEN deferred_count + 1
                       ELSE deferred_count
  /\ Return0
  /\ UNCHANGED <<should_stop, buffers, submitted, reaped, counters, connVars,
                 ioVars>>

Submitting ==
  \/ SubmitDeclined \/ Acquire
  \/ Generated \/ GenerateFails \/ NamespaceGone \/ Accepted \/ Rejected

-----------------------------------------------------------------------------
(* xcopy_complete_cb_pooled()                                              *)

\* The polls of the loop and of the drain deliver completions, at most one
\* per queue entry; freeing a qpair delivers an abort for every command.
Delivers ==
  \/ pc = "poll" /\ reaped < TargetDepth
  \/ pc = "drain" /\ reaped < TargetDepth /\ drain_cycles < DrainMax
  \/ pc = "delete"

\* A faulty variant of Complete: the error path forgets outstanding_io.
CompleteUncounted(o, saturated) ==
  /\ call = "none"
  /\ Delivers
  /\ o \in inflight
  /\ saturated => pc # "delete"
  /\ inflight' = inflight \ {o}
  /\ deferred_count' = IF saturated THEN deferred_count + 1 ELSE deferred_count
  /\ outstanding_io' = IF saturated THEN outstanding_io ELSE outstanding_io - 1
  /\ inUse' = inUse \ {o}
  /\ reaped' = IF pc = "delete" THEN reaped ELSE reaped + 1
  /\ call' = "check"
  /\ UNCHANGED <<should_stop, buffers, op, retry_count, pc, submitted, counters,
                 connVars>>

\* The callback, up to its call of submit_next_io_pooled().  saturated: the
\* status is one of those that is_saturation_error() recognises.
Complete(o, saturated) ==
  /\ call = "none"
  /\ Delivers
  /\ o \in inflight
  /\ saturated => pc # "delete"
  /\ inflight' = inflight \ {o}
  /\ deferred_count' = IF saturated THEN deferred_count + 1 ELSE deferred_count
  /\ outstanding_io' = outstanding_io - 1
  /\ inUse' = inUse \ {o}
  /\ reaped' = IF pc = "delete" THEN reaped ELSE reaped + 1
  /\ call' = "check"
  /\ UNCHANGED <<should_stop, buffers, op, retry_count, pc, submitted, counters,
                 connVars>>

-----------------------------------------------------------------------------
(* thread_func()                                                           *)

\* The thread gets an SPDK thread, if the library is enabled and has one.
Begin ==
  /\ pc = "init"
  /\ spdk_thread' \in BOOLEAN
  /\ pc' = "loop"
  /\ UNCHANGED <<should_stop, submitVars, submitted, reaped, counters, qpair,
                 qpairs, ioVars>>

\* The head of the loop, and the choice between submitting and reconnecting.
Iterate ==
  /\ pc = "loop"
  /\ submitted' = 0
  /\ \/ should_stop /\ pc' = (IF qpair THEN "drain" ELSE "exit")
                    /\ UNCHANGED reconnect_attempts
     \/ ~should_stop /\ qpair /\ pc' = "batch" /\ UNCHANGED reconnect_attempts
     \/ /\ ~should_stop /\ ~qpair
        /\ IF reconnect_attempts < MaxReconnects
           THEN pc' = "reconnect" /\ reconnect_attempts' = reconnect_attempts + 1
           ELSE UNCHANGED <<pc, reconnect_attempts>>
  /\ UNCHANGED <<should_stop, submitVars, reaped, consecutive_errors,
                 drain_cycles, connVars, ioVars>>

\* The batch loop calls submit_next_io_pooled() or is over.
Batch ==
  /\ pc = "batch" /\ call = "none"
  /\ IF outstanding_io < TargetDepth /\ submitted < BatchMax
     THEN call' = "check" /\ UNCHANGED pc
     ELSE pc' = "poll" /\ UNCHANGED call
  /\ UNCHANGED <<should_stop, buffers, op, retry_count, inUse, deferred_count,
                 submitted, reaped, counters, connVars, ioVars>>

\* spdk_nvme_qpair_process_completions() returns.
PollReturns ==
  /\ pc = "poll" /\ call = "none"
  /\ consecutive_errors' = 0
  /\ reaped' = 0
  /\ pc' = "loop"
  /\ UNCHANGED <<should_stop, submitVars, submitted, reconnect_attempts,
                 drain_cycles, connVars, ioVars>>

\* A faulty variant of PollFails: one error too late.
PollFailsLate ==
  /\ pc = "poll" /\ call = "none"
  /\ consecutive_errors' = consecutive_errors + 1
  /\ reaped' = 0
  /\ pc' = IF consecutive_errors' > MaxErrors THEN "delete" ELSE "loop"
  /\ UNCHANGED <<should_stop, submitVars, submitted, reconnect_attempts,
                 drain_cycles, connVars, ioVars>>

\* A faulty variant of PollFails: the qpair is dropped, not deleted.
PollFailsDropping ==
  /\ pc = "poll" /\ call = "none"
  /\ consecutive_errors' = consecutive_errors + 1
  /\ reaped' = 0
  /\ qpair' = (consecutive_errors' < MaxErrors)
  /\ pc' = "loop"
  /\ UNCHANGED <<should_stop, submitVars, submitted, reconnect_attempts,
                 drain_cycles, qpairs, spdk_thread, ioVars>>

\* It returns an error; after MaxErrors in a row the qpair is deleted.
PollFails ==
  /\ pc = "poll" /\ call = "none"
  /\ consecutive_errors' = consecutive_errors + 1
  /\ reaped' = 0
  /\ pc' = IF consecutive_errors' >= MaxErrors THEN "delete" ELSE "loop"
  /\ UNCHANGED <<should_stop, submitVars, submitted, reconnect_attempts,
                 drain_cycles, connVars, ioVars>>

\* delete_qpair() returns, every command aborted.
Deleted ==
  /\ pc = "delete" /\ call = "none"
  /\ inflight = {}
  /\ qpairs' = qpairs - 1
  /\ qpair' = FALSE
  /\ reconnect_attempts' = 0
  /\ pc' = "loop"
  /\ UNCHANGED <<should_stop, submitVars, submitted, reaped, consecutive_errors,
                 drain_cycles, spdk_thread, ioVars>>

-----------------------------------------------------------------------------
(* reconnect_qpair()                                                       *)

CreateQpair ==
  /\ pc = "reconnect"
  /\ \/ pc' = "connecting" /\ qpairs' = qpairs + 1
     \/ pc' = "loop" /\ UNCHANGED qpairs
  /\ UNCHANGED <<should_stop, submitVars, submitted, reaped, counters, qpair,
                 spdk_thread, ioVars>>

Connected ==
  /\ pc = "connecting"
  /\ qpair' = TRUE
  /\ consecutive_errors' = 0
  /\ reconnect_attempts' = 0
  /\ pc' = "loop"
  /\ UNCHANGED <<should_stop, submitVars, submitted, reaped, drain_cycles, qpairs,
                 spdk_thread, ioVars>>

\* A faulty variant of ConnectFails: the new qpair is not deleted.
ConnectFailsLeaking ==
  /\ pc = "connecting"
  /\ pc' = "loop"
  /\ UNCHANGED <<should_stop, submitVars, submitted, reaped, counters, connVars,
                 ioVars>>

\* The connection fails or times out.
ConnectFails ==
  /\ pc = "connecting"
  /\ qpairs' = qpairs - 1
  /\ pc' = "loop"
  /\ UNCHANGED <<should_stop, submitVars, submitted, reaped, counters, qpair,
                 spdk_thread, ioVars>>

-----------------------------------------------------------------------------
(* The end of thread_func()                                                *)

\* A faulty variant of DrainPoll: the cycles are not counted.
DrainPollForever ==
  /\ pc = "drain" /\ call = "none"
  /\ outstanding_io > 0
  /\ reaped' = 0
  /\ UNCHANGED <<should_stop, submitVars, pc, submitted, counters, connVars,
                 ioVars>>

\* A poll of the drain returns.
DrainPoll ==
  /\ pc = "drain" /\ call = "none"
  /\ outstanding_io > 0 /\ drain_cycles < DrainMax
  /\ drain_cycles' = drain_cycles + 1
  /\ reaped' = 0
  /\ UNCHANGED <<should_stop, submitVars, pc, submitted, consecutive_errors,
                 reconnect_attempts, connVars, ioVars>>

DrainEnds ==
  /\ pc = "drain" /\ call = "none"
  /\ outstanding_io = 0 \/ drain_cycles = DrainMax
  /\ pc' = "exit"
  /\ UNCHANGED <<should_stop, submitVars, submitted, reaped, counters, connVars,
                 ioVars>>

\* The SPDK thread exits and is destroyed; the context drops its qpair.
Exit ==
  /\ pc = "exit"
  /\ spdk_thread' = FALSE
  /\ qpair' = FALSE
  /\ pc' = "exited"
  /\ UNCHANGED <<should_stop, submitVars, submitted, reaped, counters, qpairs,
                 ioVars>>

\* PollThreadManager::stop() on the main thread.
Stop ==
  /\ ~should_stop
  /\ should_stop' = TRUE
  /\ UNCHANGED <<submitVars, loopVars, connVars, ioVars>>

-----------------------------------------------------------------------------
Loop == Begin \/ Iterate \/ Batch \/ PollReturns \/ PollFails \/ Deleted
Reconnecting == CreateQpair \/ Connected \/ ConnectFails
Ending == DrainPoll \/ DrainEnds \/ Exit
Callback == \E o \in Ops, saturated \in BOOLEAN : Complete(o, saturated)

Step == Submitting \/ Callback \/ Loop \/ Reconnecting \/ Ending

Finished == pc = "exited" /\ should_stop /\ UNCHANGED vars

Next == Step \/ Stop \/ Finished

Spec == Init /\ [][Next]_vars

\* The steps that happen whatever the device does: the thread runs, SPDK's
\* functions return, and freeing a qpair aborts its commands.  A command may
\* never complete otherwise.
Thread ==
  \/ Submitting \/ Loop \/ Reconnecting \/ Ending
  \/ pc = "delete" /\ Callback

FairSpec == Spec /\ WF_vars(Thread)

-----------------------------------------------------------------------------
(* Properties                                                              *)

\* The pool's flags are set for exactly the commands in flight and the
\* operation being prepared: no early return of the submission, no failure
\* and no abort loses an operation or frees one the device still uses.
PoolAccounting ==
  /\ inUse = inflight \cup (IF op = NoOp THEN {} ELSE {op})
  /\ op \notin inflight

\* Twice the depth is enough: a submission always finds a free operation.
PoolSuffices == call = "check" /\ MaySubmit => inUse # Ops

\* outstanding_io counts the commands in flight, through refusals, aborts, drains
\* and reconnections too, and never exceeds the depth, although the loop's batch
\* and every callback submit.
OutstandingExact ==
  outstanding_io = Cardinality(inflight) /\ outstanding_io <= TargetDepth

\* Until the thread ends it has one qpair, or none while it reconnects:
\* nothing is leaked by a failed attempt and no freed qpair is used.
QpairAccounting ==
  pc # "exited" => qpairs = IF qpair \/ pc = "connecting" THEN 1 ELSE 0

\* "Don't free temp_op.ranges - it points to pooled buffer"
\* (poll_thread_manager.cpp:164): the device reads no descriptors from memory
\* that has been freed.
CommandsBacked == inflight \subseteq buffers

\* A new qpair never inherits commands of the old one.
SettledBeforeReconnect ==
  (~qpair /\ pc \notin {"exit", "exited"}) => (inflight = {} /\ call = "none")

\* Every deferral stands for an entry of the queue that is free: the count stays
\* within the depth, although a saturated completion and the refusal of the
\* submission that follows it are both counted, one of them without the cap.
DeferredBounded == deferred_count + outstanding_io <= TargetDepth

\* Once the loop has ended nothing is submitted, although the callbacks of the
\* drain still call submit_next_io_pooled().
NoSubmissionAfterLoop ==
  [][(pc \in {"drain", "exit", "exited"}) => (inflight' \subseteq inflight)]_vars

\* stop() ends the thread, whatever the device does: also when it never
\* answers, or when the qpair is lost and cannot be reconnected.
StopEndsThread == should_stop ~> pc = "exited"

\* If generation and submission do not fail for ever, a connected worker with
\* no command in flight submits again, unless it is stopped or loses its qpair.
IdleWorkerResumes ==
  SF_vars(Generated) /\ SF_vars(Accepted) =>
    (qpair /\ inflight = {}) ~> (inflight # {} \/ should_stop \/ ~qpair)

\* The worker keeps the contract the rest of the program relies on.
Contract ==
  INSTANCE WorkerContract WITH
    phase <- IF pc = "init" THEN "new" ELSE IF pc = "exited" THEN "exited" ELSE "running",
    asked <- should_stop,
    busy <- inflight # {}

KeepsContract == Contract!Spec
=============================================================================
