---------------------------- MODULE WorkerProofs ----------------------------
(***************************************************************************)
(* Proofs about Worker, for every depth and every limit.                   *)
(***************************************************************************)
EXTENDS Worker, FiniteSetTheorems, TLAPS

\* The submission: which operation it holds, and that it has room.
CallInv ==
  /\ call # "none" => pc \in {"batch", "poll", "drain", "delete"}
  /\ call \in {"none", "check"} <=> op = NoOp
  /\ op # NoOp => outstanding_io < TargetDepth /\ pc # "drain"
  /\ (pc \in {"poll", "drain", "delete"} /\ call # "none") => outstanding_io < TargetDepth
  /\ (pc = "batch" /\ call # "none") => submitted < BatchMax

\* The thread: where it has a qpair, where it has been told to stop, and how
\* many errors it has seen.
ControlInv ==
  /\ pc \in {"init", "batch", "poll", "delete", "drain"} => qpair
  /\ pc \in {"reconnect", "connecting", "exited"} => ~qpair
  /\ pc \in {"drain", "exit", "exited"} => should_stop
  /\ (pc \in {"init", "loop", "batch", "poll"} /\ qpair) => consecutive_errors < MaxErrors
  /\ pc = "init" => inflight = {}

\* Backpressure: a submission under way has taken back a deferral, or there was
\* none, so that counting it again keeps within the depth.
DeferredInv ==
  /\ DeferredBounded
  /\ op # NoOp => deferred_count + outstanding_io < TargetDepth

Inv ==
  /\ TypeOK
  /\ CallInv
  /\ ControlInv
  /\ DeferredInv
  /\ PoolAccounting
  /\ OutstandingExact
  /\ QpairAccounting
  /\ SettledBeforeReconnect

\* The commands in flight are finitely many, and counted.
LEMMA InflightFinite == ASSUME TypeOK PROVE IsFiniteSet(inflight)
BY WorkerAssumption, FS_Subset DEF TypeOK

\* While a command is in flight, outstanding_io is positive.
LEMMA InflightCounted ==
  ASSUME Inv, NEW o \in inflight PROVE outstanding_io > 0
<1>1. IsFiniteSet(inflight)
  BY InflightFinite DEF Inv
<1>2. Cardinality(inflight) # 0
  BY <1>1, FS_EmptySet
<1>3. QED
  BY <1>2 DEF Inv, TypeOK, OutstandingExact

\* The invariant holds when start() creates the thread.
LEMMA InitInv == Init => Inv
<1> SUFFICES ASSUME Init PROVE Inv
  OBVIOUS
<1>1. Cardinality({}) = 0
  BY FS_EmptySet
<1>2. TypeOK
  <2>1. /\ op \in Ops \cup {NoOp} /\ inUse \in SUBSET Ops /\ inflight \in SUBSET Ops
        /\ should_stop \in BOOLEAN /\ qpair \in BOOLEAN /\ spdk_thread \in BOOLEAN
    BY DEF Init
  <2>2. QED
    BY <2>1, WorkerAssumption DEF Init, TypeOK
<1>3. CallInv /\ ControlInv /\ DeferredInv
  BY WorkerAssumption DEF Init, CallInv, ControlInv, DeferredInv, DeferredBounded
<1>4. PoolAccounting /\ OutstandingExact /\ QpairAccounting /\ SettledBeforeReconnect
  BY <1>1, WorkerAssumption
     DEF Init, PoolAccounting, OutstandingExact, QpairAccounting, SettledBeforeReconnect
<1>5. QED
  BY <1>2, <1>3, <1>4 DEF Inv

\* Every part of the invariant but the count of the commands in flight.
Shape ==
  /\ TypeOK
  /\ CallInv
  /\ ControlInv
  /\ DeferredInv
  /\ PoolAccounting
  /\ QpairAccounting
  /\ SettledBeforeReconnect

\* The steps of submit_next_io_pooled() preserve every part of the invariant but the count.
LEMMA SubmittingShape == Inv /\ Submitting => Shape'
<1> SUFFICES ASSUME Inv, Submitting PROVE Shape'
  OBVIOUS
<1> USE WorkerAssumption
    DEF Inv, Shape, TypeOK, CallInv, ControlInv, DeferredInv, DeferredBounded,
        PoolAccounting, QpairAccounting, SettledBeforeReconnect, Return0, MaySubmit,
        Undeferred, loopVars, counters, connVars, ioVars, submitVars
<1>1. CASE SubmitDeclined
  BY <1>1 DEF SubmitDeclined
<1>2. CASE Acquire
  BY <1>2 DEF Acquire
<1>3. CASE Generated
  BY <1>3 DEF Generated
<1>4. CASE GenerateFails
  BY <1>4 DEF GenerateFails
<1>5. CASE NamespaceGone
  BY <1>5 DEF NamespaceGone
<1>6. CASE Accepted
  BY <1>6 DEF Accepted
<1>7. CASE Rejected
  BY <1>7 DEF Rejected
<1>8. QED
  BY <1>1, <1>2, <1>3, <1>4, <1>5, <1>6, <1>7 DEF Submitting

\* The completion callback preserves the invariant but for the cardinalities.
LEMMA CallbackShape == Inv /\ Callback => Shape'
<1> SUFFICES ASSUME Inv, NEW o \in Ops, NEW saturated \in BOOLEAN, Complete(o, saturated)
             PROVE  Shape'
  BY DEF Callback
<1>1. outstanding_io > 0
  BY InflightCounted DEF Complete
<1>2. QED
  BY <1>1, WorkerAssumption
     DEF Complete, Delivers, Inv, Shape, TypeOK, CallInv, ControlInv, DeferredInv,
         DeferredBounded, PoolAccounting, OutstandingExact, QpairAccounting,
         SettledBeforeReconnect, connVars, counters

\* The steps of the loop preserve every part of the invariant but the count.
LEMMA LoopShape == Inv /\ Loop => Shape'
<1> SUFFICES ASSUME Inv, Loop PROVE Shape'
  OBVIOUS
<1> USE WorkerAssumption
    DEF Inv, Shape, TypeOK, CallInv, ControlInv, DeferredInv, DeferredBounded,
        PoolAccounting, QpairAccounting, SettledBeforeReconnect, counters, connVars,
        ioVars, submitVars
<1>1. CASE Begin
  BY <1>1 DEF Begin
<1>2. CASE Iterate
  BY <1>2 DEF Iterate
<1>3. CASE Batch
  BY <1>3 DEF Batch
<1>4. CASE PollReturns
  BY <1>4 DEF PollReturns
<1>5. CASE PollFails
  BY <1>5 DEF PollFails
<1>6. CASE Deleted
  <2>1. qpairs = 1 /\ qpairs' = 0
    BY <1>6 DEF Deleted
  <2>2. TypeOK'
    <3>1. inUse' \in SUBSET Ops /\ inflight' \in SUBSET Ops
      BY <1>6 DEF Deleted
    <3>2. qpair' \in BOOLEAN
      BY <1>6 DEF Deleted
    <3>3. qpairs' \in Nat
      BY <2>1
    <3>4. QED
      BY <1>6, <2>1, <3>1, <3>2, <3>3 DEF Deleted
  <2>3. CallInv' /\ ControlInv' /\ DeferredInv' /\ PoolAccounting'
    BY <1>6 DEF Deleted
  <2>4. QpairAccounting' /\ SettledBeforeReconnect'
    BY <1>6, <2>1 DEF Deleted
  <2>5. QED
    BY <2>2, <2>3, <2>4
<1>7. QED
  BY <1>1, <1>2, <1>3, <1>4, <1>5, <1>6 DEF Loop

\* Reconnection, drain, exit and stop preserve every part of the invariant but the count.
LEMMA OtherShape == Inv /\ (Reconnecting \/ Ending \/ Stop \/ Finished) => Shape'
<1> SUFFICES ASSUME Inv, Reconnecting \/ Ending \/ Stop \/ Finished PROVE Shape'
  OBVIOUS
<1> USE WorkerAssumption
    DEF Inv, Shape, TypeOK, CallInv, ControlInv, DeferredInv, DeferredBounded,
        PoolAccounting, QpairAccounting, SettledBeforeReconnect, counters, connVars,
        ioVars, submitVars, loopVars
<1>1. CASE CreateQpair
  BY <1>1 DEF CreateQpair
<1>2. CASE Connected
  BY <1>2 DEF Connected
<1>3. CASE ConnectFails
  BY <1>3 DEF ConnectFails
<1>4. CASE DrainPoll
  BY <1>4 DEF DrainPoll
<1>5. CASE DrainEnds
  BY <1>5 DEF DrainEnds
<1>6. CASE Exit
  BY <1>6 DEF Exit
<1>7. CASE Stop
  BY <1>7 DEF Stop
<1>8. CASE Finished
  BY <1>8 DEF Finished, vars
<1>9. QED
  BY <1>1, <1>2, <1>3, <1>4, <1>5, <1>6, <1>7, <1>8 DEF Reconnecting, Ending
\* The count of the commands in flight moves with the set of them.
LEMMA NextCounts == Inv /\ [Next]_vars => OutstandingExact'
<1> SUFFICES ASSUME Inv, [Next]_vars PROVE OutstandingExact'
  OBVIOUS
<1>1. IsFiniteSet(inflight)
  BY InflightFinite DEF Inv
<1>2. CASE Accepted
  <2>1. op \notin inflight /\ outstanding_io < TargetDepth
    BY <1>2 DEF Accepted, Inv, PoolAccounting, CallInv
  <2>2. Cardinality(inflight \cup {op}) = Cardinality(inflight) + 1
    BY <1>1, <2>1, FS_AddElement
  <2>3. QED
    BY <1>2, <2>1, <2>2, WorkerAssumption DEF Accepted, Inv, TypeOK, OutstandingExact
<1>3. CASE Callback
  <2>1. PICK o \in Ops, saturated \in BOOLEAN : Complete(o, saturated)
    BY <1>3 DEF Callback
  <2>2. o \in inflight /\ inflight' = inflight \ {o} /\ outstanding_io' = outstanding_io - 1
    BY <2>1 DEF Complete
  <2>3. Cardinality(inflight \ {o}) = Cardinality(inflight) - 1
    BY <1>1, <2>2, FS_RemoveElement
  <2>4. QED
    BY <2>2, <2>3, WorkerAssumption DEF Inv, TypeOK, OutstandingExact
<1>4. CASE UNCHANGED ioVars
  BY <1>4 DEF Inv, OutstandingExact, ioVars
<1>5. [Next]_vars => Accepted \/ Callback \/ UNCHANGED ioVars
  <2>1. Submitting => Accepted \/ UNCHANGED ioVars
    BY DEF Submitting, SubmitDeclined, Acquire, Generated, GenerateFails,
           NamespaceGone, Rejected
  <2>2. Loop => UNCHANGED ioVars
    BY DEF Loop, Begin, Iterate, Batch, PollReturns, PollFails, Deleted
  <2>3. Reconnecting \/ Ending \/ Stop \/ Finished \/ UNCHANGED vars => UNCHANGED ioVars
    BY DEF Reconnecting, CreateQpair, Connected, ConnectFails, Ending, DrainPoll,
           DrainEnds, Exit, Stop, Finished, vars
  <2>4. QED
    BY <2>1, <2>2, <2>3 DEF Next, Step
<1>6. QED
  BY <1>2, <1>3, <1>4, <1>5

\* The invariant is inductive.
LEMMA NextInv == Inv /\ [Next]_vars => Inv'
<1> SUFFICES ASSUME Inv, [Next]_vars PROVE Inv'
  OBVIOUS
<1>1. OutstandingExact'
  BY NextCounts
<1>2. Shape'
  <2>1. CASE Submitting
    BY <2>1, SubmittingShape
  <2>2. CASE Callback
    BY <2>2, CallbackShape
  <2>3. CASE Loop
    BY <2>3, LoopShape
  <2>4. CASE Reconnecting \/ Ending \/ Stop \/ Finished
    BY <2>4, OtherShape
  <2>5. CASE UNCHANGED vars
    BY <2>5
       DEF Inv, Shape, TypeOK, CallInv, ControlInv, DeferredInv, DeferredBounded,
           PoolAccounting, QpairAccounting, SettledBeforeReconnect, vars, submitVars,
           loopVars, counters, connVars, ioVars
  <2>6. QED
    BY <2>1, <2>2, <2>3, <2>4, <2>5 DEF Next, Step
<1>3. QED
  BY <1>1, <1>2 DEF Inv, Shape

-----------------------------------------------------------------------------

\* Every reachable state of a worker satisfies the inductive invariant.
THEOREM WorkerInvariant == Spec => []Inv
<1>1. QED
  BY InitInv, NextInv, PTL DEF Spec

\* Every variable keeps its type: no counter leaves its range, whatever the
\* order of completions, errors and reconnections.
THEOREM WorkerTypeCorrect == Spec => []TypeOK
<1>1. Inv => TypeOK
  BY DEF Inv
<1>2. QED
  BY <1>1, WorkerInvariant, PTL

\* No path of the submission, the callback or the abort of a qpair loses an
\* operation or frees one that the device still uses.
THEOREM WorkerPoolAccounting == Spec => []PoolAccounting
<1>1. Inv => PoolAccounting
  BY DEF Inv
<1>2. QED
  BY <1>1, WorkerInvariant, PTL

\* outstanding_io is the number of commands in flight and at most the depth.
THEOREM WorkerOutstandingExact == Spec => []OutstandingExact
<1>1. Inv => OutstandingExact
  BY DEF Inv
<1>2. QED
  BY <1>1, WorkerInvariant, PTL

\* A running worker has one qpair, or none while it reconnects.
THEOREM WorkerQpairAccounting == Spec => []QpairAccounting
<1>1. Inv => QpairAccounting
  BY DEF Inv
<1>2. QED
  BY <1>1, WorkerInvariant, PTL

\* A reconnected qpair starts with no command in flight.
THEOREM WorkerSettledBeforeReconnect == Spec => []SettledBeforeReconnect
<1>1. Inv => SettledBeforeReconnect
  BY DEF Inv
<1>2. QED
  BY <1>1, WorkerInvariant, PTL

\* Deferrals and commands in flight together stay within the depth.
THEOREM WorkerDeferredBounded == Spec => []DeferredBounded
<1>1. Inv => DeferredBounded
  BY DEF Inv, DeferredInv
<1>2. QED
  BY <1>1, WorkerInvariant, PTL

\* The pool of twice the depth never runs dry: a submission that may go ahead
\* finds a free operation.
THEOREM WorkerPoolSuffices == Spec => []PoolSuffices
<1>1. Inv => PoolSuffices
  <2> SUFFICES ASSUME Inv, call = "check", MaySubmit, inUse = Ops PROVE FALSE
    BY DEF PoolSuffices
  <2>1. inUse = inflight
    BY DEF Inv, CallInv, PoolAccounting
  <2>2. Cardinality(Ops) < TargetDepth
    BY <2>1 DEF Inv, OutstandingExact, MaySubmit
  <2>3. QED
    BY <2>2, WorkerAssumption
<1>2. QED
  BY <1>1, WorkerInvariant, PTL

\* Once its loop has ended, a worker submits nothing, although the callbacks
\* that its drain delivers still try to.
THEOREM WorkerNoSubmissionAfterLoop == Spec => NoSubmissionAfterLoop
<1>1. Inv /\ [Next]_vars =>
        [(pc \in {"drain", "exit", "exited"}) => (inflight' \subseteq inflight)]_vars
  <2> SUFFICES ASSUME Inv, Next, pc \in {"drain", "exit", "exited"}
               PROVE  inflight' \subseteq inflight
    OBVIOUS
  <2>1. ~Accepted
    BY DEF Accepted, Inv, CallInv
  <2>2. CASE UNCHANGED ioVars
    BY <2>2 DEF ioVars
  <2>3. CASE Callback
    BY <2>3 DEF Callback, Complete
  <2>4. QED
    BY <2>1, <2>2, <2>3
       DEF Next, Step, Submitting, SubmitDeclined, Acquire, Generated, GenerateFails,
           NamespaceGone, Rejected, Loop, Begin, Iterate, Batch, PollReturns,
           PollFails, Deleted, Reconnecting, CreateQpair, Connected, ConnectFails,
           Ending, DrainPoll, DrainEnds, Exit, Stop, Finished, vars
<1>2. QED
  BY <1>1, WorkerInvariant, PTL DEF Spec, NoSubmissionAfterLoop
\* A step of the worker is a step of its contract, or leaves the contract's
\* variables alone.
LEMMA NextRefines ==
  Inv /\ [Next]_vars => [Contract!Next]_(Contract!contractVars)
<1> SUFFICES ASSUME Inv, [Next]_vars
             PROVE  Contract!Next \/ UNCHANGED Contract!contractVars
  OBVIOUS
<1>1. CASE Begin
  <2>1. Contract!Begin
    BY <1>1 DEF Begin, Contract!Begin, connVars, ioVars
  <2>2. QED
    BY <2>1 DEF Contract!Next
<1>2. CASE Stop
  <2>1. Contract!Ask
    BY <1>2 DEF Stop, Contract!Ask, loopVars, connVars, ioVars
  <2>2. QED
    BY <2>1 DEF Contract!Next
<1>3. CASE Accepted
  <2>1. pc \notin {"init", "exited"} /\ qpair
    BY <1>3 DEF Accepted, Inv, CallInv, ControlInv
  <2>2. inflight' # {} /\ UNCHANGED <<pc, should_stop, qpair>>
    BY <1>3 DEF Accepted, connVars
  <2>3. CASE inflight = {}
    <3>1. Contract!Submit
      BY <2>1, <2>2, <2>3 DEF Contract!Submit
    <3>2. QED
      BY <3>1 DEF Contract!Next
  <2>4. CASE inflight # {}
    BY <2>2, <2>4 DEF Contract!contractVars
  <2>5. QED
    BY <2>3, <2>4
<1>4. CASE Callback
  <2>1. inflight # {} /\ UNCHANGED <<pc, should_stop, qpair>>
    BY <1>4 DEF Callback, Complete, connVars
  <2>2. CASE inflight' = {}
    <3>1. Contract!Settle
      BY <2>1, <2>2 DEF Contract!Settle
    <3>2. QED
      BY <3>1 DEF Contract!Next
  <2>3. CASE inflight' # {}
    BY <2>1, <2>3 DEF Contract!contractVars
  <2>4. QED
    BY <2>2, <2>3
<1>5. CASE Deleted
  <2>1. qpair
    BY <1>5 DEF Deleted, Inv, ControlInv
  <2>2. Contract!Lose
    BY <1>5, <2>1 DEF Deleted, Contract!Lose, ioVars
  <2>3. QED
    BY <2>2 DEF Contract!Next
<1>6. CASE Connected
  <2>1. ~qpair /\ inflight = {}
    BY <1>6 DEF Connected, Inv, ControlInv, SettledBeforeReconnect
  <2>2. Contract!Reconnect
    BY <1>6, <2>1 DEF Connected, Contract!Reconnect, ioVars
  <2>3. QED
    BY <2>2 DEF Contract!Next
<1>7. CASE Exit
  <2>1. should_stop
    BY <1>7 DEF Exit, Inv, ControlInv
  <2>2. Contract!Exit
    BY <1>7, <2>1 DEF Exit, Contract!Exit, ioVars
  <2>3. QED
    BY <2>2 DEF Contract!Next
<1>8. CASE /\ UNCHANGED <<should_stop, inflight, qpair>>
           /\ pc = pc' \/ {pc, pc'} \cap {"init", "exited"} = {}
  BY <1>8 DEF Contract!contractVars
<1>9. QED
  <2>1. /\ SubmitDeclined \/ Acquire \/ GenerateFails \/ NamespaceGone \/ Rejected
        => UNCHANGED <<should_stop, inflight, qpair>>
           /\ (pc = pc' \/ {pc, pc'} \cap {"init", "exited"} = {})
    BY DEF SubmitDeclined, Acquire, GenerateFails, NamespaceGone, Rejected, Return0,
           ioVars, connVars
  <2>2. Generated => UNCHANGED <<should_stop, inflight, qpair, pc>>
    BY DEF Generated, ioVars, connVars, loopVars
  <2>3. Iterate \/ Batch \/ PollReturns \/ PollFails
        => UNCHANGED <<should_stop, inflight, qpair>> /\ {pc, pc'} \cap {"init", "exited"} = {}
    BY DEF Iterate, Batch, PollReturns, PollFails, ioVars, connVars
  <2>4. CreateQpair \/ ConnectFails \/ DrainPoll \/ DrainEnds
        => UNCHANGED <<should_stop, inflight, qpair>> /\ {pc, pc'} \cap {"init", "exited"} = {}
    BY DEF CreateQpair, ConnectFails, DrainPoll, DrainEnds, ioVars, connVars
  <2>5. Finished \/ UNCHANGED vars => UNCHANGED <<should_stop, inflight, qpair, pc>>
    BY DEF Finished, vars, ioVars, connVars, loopVars
  <2>6. QED
    BY <1>1, <1>2, <1>3, <1>4, <1>5, <1>6, <1>7, <1>8, <2>1, <2>2, <2>3, <2>4, <2>5
       DEF Next, Step, Submitting, Loop, Reconnecting, Ending

\* A worker implements the contract: it gives up a qpair only with its commands
\* settled, and ends only when it is told to.
THEOREM WorkerKeepsContract == Spec => KeepsContract
<1>1. Init => Contract!Init
  BY DEF Init, Contract!Init
<1>2. QED
  BY <1>1, WorkerInvariant, NextRefines, PTL DEF Spec, KeepsContract, Contract!Spec
=============================================================================
