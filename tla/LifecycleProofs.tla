-------------------------- MODULE LifecycleProofs --------------------------
(***************************************************************************)
(* The safety of the start and the shutdown, for any number of workers,    *)
(* any options and any controllers: theorems about module Lifecycle.       *)
(* First its invariant and what follows from it, then how the workers are  *)
(* spread over the controllers and used as WorkerContract allows, and when *)
(* the promises about stop() and the drain hold that a run shows violated. *)
(***************************************************************************)
EXTENDS Lifecycle, FiniteSetTheorems, TLAPS

\* Where main() is when its SPDK context is up.
Up == {"namespace", "pool", "qpair", "connect", "started", "arm", "run", "stop", "failed"}

IsUp == pc \in Up \/ (pc \in {"join", "free", "report"} /\ ~failed)

\* start() has contexts for the workers before next, each with a thread.
StartInv ==
  /\ \A w \in Workers : w \in threads_ <=> phase[w] # "new"
  /\ pc \in {"parse", "init", "namespace"} => threads_ = {} /\ next = 1
  /\ pc \notin {"parse", "dead"} => config.num_cores \in Workers
  /\ pc \in {"pool", "qpair", "connect"} =>
       next <= config.num_cores /\ threads_ = 1 .. next - 1
  /\ threads_ # {} =>
       threads_ \subseteq 1 .. config.num_cores /\ config.num_cores \in Workers
  /\ failed => pc \in {"failed", "join", "free", "dead"}
  /\ pc = "failed" => failed

\* What has been attached and initialised is there while main() needs it.
ContextInv ==
  /\ IsUp => ctrlrs > 0 /\ (spdk_threads => lib)
  /\ pc = "parse" => stage = "new" /\ ctrlrs = 0
  /\ stage \in {"library", "probe", "ready"} /\ pc = "init" => (spdk_threads => lib)
  /\ pc = "init" => stage # "ready"

\* A context has its pool while its thread runs, and a qpair only then.
WorkerInv ==
  /\ pc \in {"qpair", "connect"} => pool[next] = "ready"
  /\ pc = "connect" => next \in allocated /\ qpair[next] /\ ctrlr[next] < ctrlrs
  /\ \A w \in Workers :
       /\ phase[w] = "running" => pool[w] = "ready"
       /\ qpair[w] => phase[w] = "running" \/ (pc = "connect" /\ w = next)
       /\ phase[w] = "joined" => pc \in {"free", "report", "dead"}
       /\ pc \in {"free", "report", "dead"} => phase[w] \in {"new", "joined"}
       /\ ~failed /\ qpair[w] => w \in allocated
       /\ IsUp /\ w \in threads_ => ctrlr[w] < ctrlrs

IInv == TypeOK /\ StartInv /\ ContextInv /\ WorkerInv

\* What validate() accepts asks for a worker, and the inputs for MaxCores at most.
LEMMA ConfigFacts ==
  /\ MaxCores \in Nat \ {0}
  /\ \A g \in Inputs : Accepted(Parsed(g)) => Parsed(g).num_cores \in Workers
BY LifecycleAssumption DEF Accepted, Workers

\* The invariant holds when main() begins.
LEMMA InitHolds == Init => IInv
<1> SUFFICES ASSUME Init PROVE IInv
  OBVIOUS
<1>1. TypeOK
  <2>1. ContextTypeOK
    BY DEF Init, ContextInit, ContextTypeOK
  <2>2. next \in Workers /\ tried \in Nat
    BY ConfigFacts DEF Init, Workers
  <2>3. qpair \in [Workers -> BOOLEAN] /\ should_stop \in [Workers -> BOOLEAN]
    BY Zenon DEF Init
  <2> QED BY <2>1, <2>2, <2>3 DEF Init, TypeOK
<1>2. StartInv
  BY ConfigFacts DEF Init, ContextInit, StartInv
<1>3. ContextInv
  BY DEF Init, ContextInit, ContextInv, IsUp, Up
<1>4. WorkerInv
  BY DEF Init, WorkerInv, IsUp, Up
<1> QED BY <1>1, <1>2, <1>3, <1>4 DEF IInv

\* main() before start().
LEMMA Preparing ==
  ASSUME IInv, ParseArgs \/ ParseFails \/ InitContext \/ InitFailed \/ FindNamespace
  PROVE  IInv'
<1> USE DEF IInv, TypeOK, ContextTypeOK, StartInv, ContextInv, WorkerInv, IsUp, Up,
           contextVars, flags, startVars, workerVars
<1>1. CASE ParseArgs
  BY <1>1, ConfigFacts DEF ParseArgs
<1>2. CASE ParseFails
  BY <1>2 DEF ParseFails
<1>3. CASE InitContext
  BY <1>3 DEF InitContext, InitStep, InitEnv, InitLibrary, CheckTransport, Probe, EndProbe
<1>4. CASE InitFailed
  BY <1>4 DEF InitFailed, Detach, Cleanup
<1>5. CASE FindNamespace
  <2>1. TypeOK'
    <3>1. ContextTypeOK'
      BY <1>5 DEF FindNamespace, Detach, Cleanup
    <3>2. allocated' \in SUBSET Workers /\ busy' \in SUBSET Workers
      BY <1>5 DEF FindNamespace, Detach
    <3> QED BY <1>5, <3>1, <3>2 DEF FindNamespace
  <2>2. StartInv'
    BY <1>5, ConfigFacts DEF FindNamespace, Detach, Cleanup, Workers
  <2>3. ContextInv'
    BY <1>5, ConfigFacts DEF FindNamespace, Detach, Cleanup, Workers
  <2>4. WorkerInv'
    BY <1>5, ConfigFacts DEF FindNamespace, Detach, Cleanup, Workers
  <2> QED BY <2>1, <2>2, <2>3, <2>4
<1> QED BY <1>1, <1>2, <1>3, <1>4, <1>5

\* start()
LEMMA Starting ==
  ASSUME IInv,
         InitPool \/ CreateQpair \/ QpairRefused \/ NoQpair \/ Spawn \/ ConnectFails
           \/ Started \/ StartFailed
  PROVE  IInv'
<1> USE DEF IInv, TypeOK, ContextTypeOK, StartInv, ContextInv, WorkerInv, IsUp, Up,
           contextVars, flags, startVars, workerVars
<1>1. CASE InitPool
  <2>1. TypeOK'
    <3>1. failed' \in BOOLEAN
      BY <1>1 DEF InitPool
    <3>2. pool' \in [Workers -> {"none", "ready", "deleted", "lost"}]
      BY <1>1 DEF InitPool
    <3>3. ContextTypeOK'
      BY <1>1 DEF InitPool
    <3> QED BY <1>1, <3>1, <3>2, <3>3 DEF InitPool
  <2>2. StartInv'
    BY <1>1 DEF InitPool
  <2>3. ContextInv'
    BY <1>1 DEF InitPool
  <2>4. WorkerInv'
    BY <1>1 DEF InitPool
  <2> QED BY <2>1, <2>2, <2>3, <2>4
<1>2. CASE CreateQpair
  <2>1. Candidate \in 0 .. ctrlrs - 1
    BY <1>2 DEF CreateQpair, Candidate, Workers
  <2> QED BY <1>2, <2>1 DEF CreateQpair
<1>3. CASE QpairRefused
  BY <1>3 DEF QpairRefused
<1>4. CASE NoQpair
  <2>1. TypeOK'
    BY <1>4 DEF NoQpair
  <2>2. StartInv'
    BY <1>4 DEF NoQpair
  <2>3. ContextInv'
    BY <1>4 DEF NoQpair
  <2>4. WorkerInv'
    BY <1>4 DEF NoQpair
  <2> QED BY <2>1, <2>2, <2>3, <2>4
<1>5. CASE Spawn
  <2>0. next' \in Workers
    BY <1>5, ConfigFacts DEF Spawn, Workers
  <2>1. TypeOK'
    BY <1>5, <2>0 DEF Spawn
  <2>2. StartInv'
    BY <1>5 DEF Spawn, Workers
  <2>3. ContextInv'
    BY <1>5 DEF Spawn
  <2>4. WorkerInv'
    BY <1>5 DEF Spawn
  <2> QED BY <2>1, <2>2, <2>3, <2>4
<1>6. CASE ConnectFails
  <2>1. TypeOK'
    BY <1>6 DEF ConnectFails
  <2>2. StartInv'
    BY <1>6 DEF ConnectFails
  <2>3. ContextInv'
    BY <1>6 DEF ConnectFails
  <2>4. WorkerInv'
    BY <1>6 DEF ConnectFails
  <2> QED BY <2>1, <2>2, <2>3, <2>4
<1>7. CASE Started
  BY <1>7 DEF Started
<1>8. CASE StartFailed
  <2>1. TypeOK'
    BY <1>8 DEF StartFailed, Detach, Cleanup
  <2>2. StartInv'
    BY <1>8 DEF StartFailed, Detach, Cleanup
  <2>3. ContextInv'
    BY <1>8 DEF StartFailed, Detach, Cleanup
  <2>4. WorkerInv'
    BY <1>8 DEF StartFailed, Detach, Cleanup
  <2> QED BY <2>1, <2>2, <2>3, <2>4
<1> QED BY <1>1, <1>2, <1>3, <1>4, <1>5, <1>6, <1>7, <1>8

\* The run and the shutdown.
LEMMA Running ==
  ASSUME IInv,
         Arm \/ LeaveLoop \/ Stop \/ Join \/ FreeContexts \/ ReportAndReturn \/ Signal
  PROVE  IInv'
<1> USE DEF IInv, TypeOK, ContextTypeOK, StartInv, ContextInv, WorkerInv, IsUp, Up,
           contextVars, flags, startVars, workerVars
<1>1. CASE Arm
  BY <1>1 DEF Arm
<1>2. CASE LeaveLoop
  BY <1>2 DEF LeaveLoop
<1>3. CASE Stop
  <2>1. should_stop' \in [Workers -> BOOLEAN]
    BY <1>3 DEF Stop
  <2>2. TypeOK'
    BY <1>3, <2>1 DEF Stop
  <2>3. StartInv' /\ ContextInv'
    BY <1>3 DEF Stop
  <2>4. WorkerInv'
    BY <1>3 DEF Stop
  <2> QED BY <2>2, <2>3, <2>4
<1>4. CASE Join
  BY <1>4 DEF Join
<1>5. CASE FreeContexts
  BY <1>5 DEF FreeContexts
<1>6. CASE ReportAndReturn
  BY <1>6 DEF ReportAndReturn, Detach, Cleanup
<1>7. CASE Signal
  <2>1. TypeOK'
    <3>1. ContextTypeOK'
      BY <1>7 DEF Signal
    <3>2. g_running' \in BOOLEAN /\ signalled' \in BOOLEAN
      BY <1>7 DEF Signal
    <3> QED BY <1>7, <3>1, <3>2 DEF Signal
  <2>2. StartInv'
    BY <1>7 DEF Signal
  <2>3. ContextInv'
    BY <1>7 DEF Signal
  <2>4. WorkerInv'
    BY <1>7 DEF Signal
  <2> QED BY <2>1, <2>2, <2>3, <2>4
<1> QED BY <1>1, <1>2, <1>3, <1>4, <1>5, <1>6, <1>7

\* The workers.
LEMMA Working ==
  ASSUME IInv, NEW v \in Workers, Worker(v)
  PROVE  IInv'
<1> USE DEF IInv, TypeOK, ContextTypeOK, StartInv, ContextInv, WorkerInv, IsUp, Up,
           mainVars, contextVars, flags, startVars
<1>1. CASE WorkerSubmits(v)
  BY <1>1 DEF WorkerSubmits
<1>2. CASE WorkerSettles(v)
  BY <1>2 DEF WorkerSettles
<1>3. CASE WorkerLoses(v)
  BY <1>3 DEF WorkerLoses
<1>4. CASE WorkerReconnects(v)
  BY <1>4 DEF WorkerReconnects
<1>5. CASE WorkerExits(v)
  BY <1>5 DEF WorkerExits
<1> QED BY <1>1, <1>2, <1>3, <1>4, <1>5 DEF Worker

\* The inductive invariant of the life cycle: types, the contexts start() has
\* made, the SPDK context main() relies on, and the resources of each worker.
THEOREM LifecycleInvariant == Spec => []IInv
<1>1. Init => IInv
  BY InitHolds
<1>2. IInv /\ [Next]_vars => IInv'
  <2> SUFFICES ASSUME IInv, [Next]_vars PROVE IInv'
    OBVIOUS
  <2>1. CASE Main \/ Signal
    BY <2>1, Preparing, Starting, Running DEF Main
  <2>2. ASSUME NEW w \in Workers, Worker(w) PROVE IInv'
    BY <2>2, Working
  <2>3. CASE UNCHANGED vars
    BY <2>3 DEF IInv, TypeOK, ContextTypeOK, StartInv, ContextInv, WorkerInv, IsUp, Up,
      vars, mainVars, contextVars, flags, startVars, workerVars
  <2> QED BY <2>1, <2>2, <2>3 DEF Next, Finished
<1> QED BY <1>1, <1>2, PTL DEF Spec

-----------------------------------------------------------------------------
\* TypeOK holds in every reachable state: every index start() computes is a
\* worker's or a controller's.
THEOREM LifecycleTypeCorrect == Spec => []TypeOK
<1>1. IInv => TypeOK
  BY DEF IInv
<1> QED BY <1>1, LifecycleInvariant, PTL

\* A thread that runs has its pool (PoolHeldWhileRunning), also when start()
\* fails in the middle.
THEOREM LifecyclePoolHeld == Spec => []PoolHeldWhileRunning
<1>1. IInv => PoolHeldWhileRunning
  BY DEF IInv, WorkerInv, PoolHeldWhileRunning
<1> QED BY <1>1, LifecycleInvariant, PTL

\* A running worker's qpair, controller and thread library are there
\* (QpairValid), unless start() has failed.
THEOREM LifecycleQpairValid == Spec => []QpairValid
<1>1. IInv => QpairValid
  <2> SUFFICES ASSUME IInv, ~failed, NEW w \in Workers, phase[w] = "running"
               PROVE  (qpair[w] => w \in allocated) /\ ctrlr[w] < ctrlrs /\ (spdk_threads => lib)
    BY DEF QpairValid
  <2>1. w \in threads_
    BY DEF IInv, StartInv
  <2>2. IsUp
    BY <2>1 DEF IInv, TypeOK, StartInv, WorkerInv, IsUp, Up
  <2> QED BY <2>1, <2>2 DEF IInv, ContextInv, WorkerInv
<1> QED BY <1>1, LifecycleInvariant, PTL

\* Controllers are detached, and the report is written, only after every thread
\* is joined (DetachedAfterJoin), unless start() has failed.
THEOREM LifecycleDetachedAfterJoin == Spec => []DetachedAfterJoin
<1>1. IInv => DetachedAfterJoin
  <2> SUFFICES ASSUME IInv, ~failed, pc = "report" \/ ctrlrs = 0, NEW w \in Workers
               PROVE  phase[w] \in {"new", "joined"} /\ ~qpair[w]
    BY DEF DetachedAfterJoin
  <2>1. CASE pc = "report"
    BY <2>1 DEF IInv, WorkerInv
  <2>2. CASE ctrlrs = 0
    <3>1. pc \in {"parse", "init", "dead"}
      BY <2>2 DEF IInv, TypeOK, ContextTypeOK, ContextInv, IsUp, Up
    <3> QED BY <3>1 DEF IInv, TypeOK, StartInv, WorkerInv
  <2> QED BY <2>1, <2>2
<1> QED BY <1>1, LifecycleInvariant, PTL

-----------------------------------------------------------------------------
\* The quotient and what it multiplies.
LEMMA Quotient ==
  ASSUME NEW a \in Nat, NEW b \in Nat \ {0}
  PROVE  a \div b \in Nat /\ b * (a \div b) <= a
OBVIOUS

\* The depth of a worker, and of as many workers as the configuration asks for.
LEMMA DepthBounds ==
  ASSUME NEW c, NEW m \in Nat, c.iodepth \in Nat, c.num_cores \in Nat \ {0}
  PROVE  /\ PerThreadDepth(c, m) \in Nat
         /\ PerThreadDepth(c, m) <= m /\ PerThreadDepth(c, m) <= 1024
         /\ m > 0 => PerThreadDepth(c, m) > 0
         /\ c.num_cores * PerThreadDepth(c, m) > c.iodepth =>
              c.iodepth < 4 * c.num_cores /\ PerThreadDepth(c, m) <= 4
<1> DEFINE q == c.iodepth \div c.num_cores
           d == PerThreadDepth(c, m)
<1>1. q \in Nat /\ c.num_cores * q <= c.iodepth
  BY Quotient
<1>2. d \in Nat /\ d <= m /\ d <= 1024 /\ (m > 0 => d > 0)
  BY <1>1 DEF PerThreadDepth, q
<1>3. d <= q \/ d <= 4
  BY <1>1 DEF PerThreadDepth, q
<1>4. c.iodepth >= 4 * c.num_cores => d <= q
  <2>1. c.iodepth >= 4 * c.num_cores => q >= 4
    OBVIOUS
  <2>2. q >= 4 => d <= q
    BY <1>1 DEF PerThreadDepth, q
  <2> QED BY <2>1, <2>2
<1> HIDE DEF q, d
<1>5. d <= q => c.num_cores * d <= c.num_cores * q
  BY <1>1, <1>2
<1>6. c.num_cores * d \in Nat /\ c.num_cores * q \in Nat
  BY <1>1, <1>2
<1>7. c.num_cores * d > c.iodepth => ~(d <= q)
  BY <1>1, <1>5, <1>6
<1> QED BY <1>2, <1>3, <1>4, <1>7 DEF d

\* A worker's queue is within the controller's limit and 1024, and not empty
\* unless the limit is zero.  The option is called "Maximum global I/O depth"
\* (config_manager.h:20), and the workers together exceed it only if it is below
\* four per worker, and then with at most four each.
THEOREM LifecycleGlobalDepth ==
  Spec => [](threads_ # {} =>
               /\ Depth <= maxcmd /\ Depth <= 1024
               /\ maxcmd > 0 => Depth > 0
               /\ Cardinality(threads_) * Depth > config.iodepth =>
                    config.iodepth < 4 * config.num_cores /\ Depth <= 4)
<1>1. ASSUME IInv, threads_ # {}
      PROVE  /\ Depth <= maxcmd /\ Depth <= 1024
             /\ maxcmd > 0 => Depth > 0
             /\ Cardinality(threads_) * Depth > config.iodepth =>
                  config.iodepth < 4 * config.num_cores /\ Depth <= 4
  <2>1. config.num_cores \in Nat \ {0} /\ threads_ \subseteq 1 .. config.num_cores
    BY <1>1, ConfigFacts DEF IInv, StartInv, Workers
  <2>2. config.iodepth \in Nat /\ maxcmd \in Nat
    <3>1. ContextTypeOK
      BY <1>1 DEF IInv, TypeOK
    <3> QED BY <3>1, SpdkContextAssumption DEF ContextTypeOK, Defaults
  <2>3. /\ Depth \in Nat /\ Depth <= maxcmd /\ Depth <= 1024
        /\ maxcmd > 0 => Depth > 0
        /\ config.num_cores * Depth > config.iodepth =>
             config.iodepth < 4 * config.num_cores /\ Depth <= 4
    BY <2>1, <2>2, DepthBounds DEF Depth
  <2>4. Cardinality(threads_) \in Nat /\ Cardinality(threads_) <= config.num_cores
    <3>1. IsFiniteSet(1 .. config.num_cores) /\ Cardinality(1 .. config.num_cores) = config.num_cores
      BY <2>1, FS_Interval
    <3> QED BY <2>1, <3>1, FS_Subset, FS_CardinalityType
  <2>5. Cardinality(threads_) * Depth <= config.num_cores * Depth
    BY <2>1, <2>3, <2>4
  <2>6. Cardinality(threads_) * Depth \in Nat /\ config.num_cores * Depth \in Nat
    BY <2>1, <2>3, <2>4
  <2> QED BY <2>2, <2>3, <2>5, <2>6
<1> QED BY <1>1, LifecycleInvariant, PTL

-----------------------------------------------------------------------------
(* The workers                                                             *)

\* Where start() is at work, or has done it.
Made == {"started", "arm", "run"}

Making == {"pool", "qpair", "connect"}

\* As long as nobody has refused a qpair, start() asks the controllers in turn.
SpreadInv ==
  ~refused =>
    /\ tried = 0
    /\ pc \in Making \cup Made => \A w \in threads_ : ctrlr[w] = (w - 1) % ctrlrs
    /\ pc = "connect" => ctrlr[next] = (next - 1) % ctrlrs
    /\ pc \in Made => threads_ = 1 .. config.num_cores

-----------------------------------------------------------------------------
\* SpreadInv holds when main() begins.
LEMMA SpreadInit == Init => SpreadInv
BY DEF Init, SpreadInv, Making, Made

\* Before and after start(), and in the workers.
LEMMA SpreadOutside ==
  ASSUME SpreadInv, IInv,
         \/ ParseArgs \/ ParseFails \/ InitContext \/ InitFailed \/ FindNamespace
         \/ Arm \/ LeaveLoop \/ Stop \/ Join \/ FreeContexts \/ ReportAndReturn
         \/ Signal \/ StartFailed \/ Started \/ UNCHANGED vars
         \/ \E w \in Workers : Worker(w)
  PROVE  SpreadInv'
<1> USE DEF SpreadInv, Making, Made
<1>1. CASE ParseArgs \/ ParseFails \/ InitContext \/ InitFailed
  BY <1>1 DEF ParseArgs, ParseFails, InitContext, InitFailed, startVars
<1>2. CASE FindNamespace
  BY <1>2 DEF FindNamespace, startVars, IInv, StartInv, contextVars
<1>3. CASE Arm \/ LeaveLoop \/ Signal \/ Started \/ UNCHANGED vars
  BY <1>3 DEF Arm, LeaveLoop, Signal, Started, vars, mainVars, startVars, contextVars
<1>4. CASE Stop \/ Join \/ FreeContexts \/ ReportAndReturn \/ StartFailed
  BY <1>4 DEF Stop, Join, FreeContexts, ReportAndReturn, StartFailed, startVars
<1>5. ASSUME NEW w \in Workers, Worker(w) PROVE SpreadInv'
  BY <1>5 DEF Worker, WorkerSubmits, WorkerSettles, WorkerLoses, WorkerReconnects, WorkerExits,
    mainVars, startVars, contextVars
<1> QED BY <1>1, <1>2, <1>3, <1>4, <1>5

\* The steps of start() preserve SpreadInv.
LEMMA SpreadStarting ==
  ASSUME SpreadInv, IInv,
         InitPool \/ CreateQpair \/ QpairRefused \/ NoQpair \/ Spawn \/ ConnectFails
  PROVE  SpreadInv'
<1> USE DEF SpreadInv, Making, Made, contextVars
<1>1. CASE InitPool
  BY <1>1 DEF InitPool
<1>2. CASE CreateQpair
  <2>1. next \in Nat /\ next \notin threads_ /\ ctrlr \in [Workers -> Nat] /\ next \in Workers
    BY <1>2 DEF IInv, TypeOK, StartInv, CreateQpair, Workers
  <2>2. ~refused => Candidate = (next - 1) % ctrlrs
    BY <2>1 DEF Candidate
  <2> QED BY <1>2, <2>1, <2>2 DEF CreateQpair
<1>3. CASE QpairRefused \/ NoQpair
  BY <1>3 DEF QpairRefused, NoQpair
<1>4. CASE Spawn
  <2>1. next \in Nat \ {0} /\ threads_ = 1 .. next - 1
    BY <1>4, ConfigFacts DEF IInv, TypeOK, StartInv, Spawn, Workers
  <2>2. (1 .. next - 1) \cup {next} = 1 .. next
    BY <2>1
  <2>3. threads_' = 1 .. next
    BY <1>4, <2>1, <2>2 DEF Spawn
  <2> QED BY <1>4, <2>1, <2>3 DEF Spawn
<1>5. CASE ConnectFails
  BY <1>5 DEF ConnectFails
<1> QED BY <1>1, <1>2, <1>3, <1>4, <1>5

\* While no controller refuses a qpair, start() asks the controllers in turn: worker
\* w gets number (w - 1) modulo their number, and every worker asked for is made.
THEOREM LifecycleSpreadInvariant == Spec => []SpreadInv
<1>1. IInv /\ SpreadInv /\ [Next]_vars => SpreadInv'
  BY SpreadOutside, SpreadStarting DEF Next, Main, Finished
<1> QED BY <1>1, SpreadInit, LifecycleInvariant, PTL DEF Spec

-----------------------------------------------------------------------------
\* Division with remainder.
LEMMA Remainder ==
  ASSUME NEW k \in Nat \ {0}, NEW i \in Nat
  PROVE  /\ i % k \in 0 .. k - 1 /\ i \div k \in Nat
         /\ i = k * (i \div k) + (i % k)
OBVIOUS

\* A number is determined by its quotient and its remainder.
LEMMA RemainderUnique ==
  ASSUME NEW k \in Nat \ {0}, NEW q \in Nat, NEW r \in 0 .. k - 1
  PROVE  (k * q + r) % k = r
OBVIOUS

\* The numbers with remainder c, and how they lie to those with remainder d.
LEMMA Shift ==
  ASSUME NEW k \in Nat \ {0}, NEW i \in Nat, NEW d \in 0 .. k - 1
  PROVE  /\ d <= i % k => i - (i % k) + d \in 0 .. i /\ (i - (i % k) + d) % k = d
         /\ d > i % k /\ i # i % k =>
              i - (i % k) + d - k \in 0 .. i /\ (i - (i % k) + d - k) % k = d
<1> DEFINE q == i \div k
           c == i % k
<1>1. q \in Nat /\ c \in 0 .. k - 1 /\ i = k * q + c
  BY Remainder
<1> HIDE DEF q, c
<1>2. (k * q + d) % k = d
  BY <1>1, RemainderUnique
<1>3. ASSUME i # c
      PROVE  q - 1 \in Nat /\ k * (q - 1) = k * q - k /\ k * q - k >= 0
  <2>1. q # 0
    BY <1>1, <1>3
  <2>2. q - 1 \in Nat /\ k * (q - 1) = k * q - k
    BY <1>1, <2>1
  <2>3. k * (q - 1) >= 0
    BY <2>2
  <2> QED BY <2>2, <2>3
<1>4. ASSUME i # c PROVE (k * q - k + d) % k = d
  <2>1. (k * (q - 1) + d) % k = d
    BY <1>3, <1>4, RemainderUnique
  <2> QED BY <2>1, <1>3, <1>4
<1>5. k * q \in Nat /\ i - c = k * q
  BY <1>1
<1>6. d <= c => i - c + d \in 0 .. i /\ (i - c + d) % k = d
  BY <1>1, <1>2, <1>5
<1>7. d > c /\ i # c => i - c + d - k \in 0 .. i /\ (i - c + d - k) % k = d
  <2> SUFFICES ASSUME d > c, i # c
               PROVE  i - c + d - k \in 0 .. i /\ (i - c + d - k) % k = d
    OBVIOUS
  <2>1. i - c + d - k = k * q - k + d
    BY <1>1, <1>5
  <2>2. (i - c + d - k) % k = d
    BY <2>1, <1>4
  <2>3. k * q - k \in Nat
    BY <1>3, <1>5
  <2> QED BY <2>1, <2>2, <2>3, <1>1, <1>5
<1> QED BY <1>6, <1>7 DEF c

\* Of the first n numbers, as many have one remainder as another, or one more.
LEMMA Balanced ==
  ASSUME NEW k \in Nat \ {0}, NEW n \in Nat, NEW c \in 0 .. k - 1, NEW d \in 0 .. k - 1
  PROVE  Cardinality({w \in 1 .. n : (w - 1) % k = c})
           <= Cardinality({w \in 1 .. n : (w - 1) % k = d}) + 1
<1> DEFINE C == {w \in 1 .. n : (w - 1) % k = c}
           D == {w \in 1 .. n : (w - 1) % k = d}
           m == IF d <= c THEN 0 ELSE k
           f == [w \in C \ {c + 1} |-> w - c + d - m]
<1>1. IsFiniteSet(C) /\ IsFiniteSet(D) /\ IsFiniteSet(C \ {c + 1})
  <2>1. IsFiniteSet(1 .. n)
    BY FS_Interval
  <2> QED BY <2>1, FS_Subset, FS_RemoveElement
<1>2. ASSUME NEW w \in C \ {c + 1} PROVE w - c + d - m \in D
  <2>1. w - 1 \in Nat /\ w - 1 \in 0 .. n - 1 /\ (w - 1) % k = c /\ w - 1 # c
    OBVIOUS
  <2>2. /\ d <= c => (w - 1) - c + d \in 0 .. w - 1 /\ ((w - 1) - c + d) % k = d
        /\ d > c => (w - 1) - c + d - k \in 0 .. w - 1 /\ ((w - 1) - c + d - k) % k = d
    BY <2>1, Shift
  <2>3. CASE d <= c
    <3>1. w - c + d - m \in 1 .. n /\ (w - c + d - m) - 1 = (w - 1) - c + d
      BY <2>1, <2>2, <2>3
    <3> QED BY <2>2, <2>3, <3>1
  <2>4. CASE d > c
    <3>1. w - c + d - m \in 1 .. n /\ (w - c + d - m) - 1 = (w - 1) - c + d - k
      BY <2>1, <2>2, <2>4
    <3> QED BY <2>2, <2>4, <3>1
  <2> QED BY <2>3, <2>4
<1>3. f \in Injection(C \ {c + 1}, D)
  <2>1. f \in [C \ {c + 1} -> D]
    BY <1>2
  <2>2. \A v, w \in C \ {c + 1} : f[v] = f[w] => v = w
    OBVIOUS
  <2> QED BY <2>1, <2>2 DEF Injection, IsInjective
<1>4. Cardinality(C \ {c + 1}) <= Cardinality(D)
  BY <1>1, <1>3, FS_Injection
<1> HIDE DEF C, D
<1>5. Cardinality(C) \in Nat /\ Cardinality(D) \in Nat
  BY <1>1, FS_CardinalityType
<1>6. Cardinality(C \ {c + 1}) = IF c + 1 \in C THEN Cardinality(C) - 1 ELSE Cardinality(C)
  BY <1>1, FS_RemoveElement
<1>7. Cardinality(C) <= Cardinality(D) + 1
  BY <1>4, <1>5, <1>6
<1> QED BY <1>7 DEF C, D

\* If no controller refuses a qpair, start() makes every worker it is asked
\* for and spreads them evenly (WorkersSpread), for any number of workers and
\* controllers.
THEOREM LifecycleWorkersSpread == Spec => []WorkersSpread
<1>1. IInv /\ SpreadInv => WorkersSpread
  <2> SUFFICES ASSUME IInv, SpreadInv, ~refused, ~failed, pc \in {"arm", "run"}
               PROVE  /\ threads_ = 1 .. config.num_cores
                      /\ \A c, d \in 0 .. ctrlrs - 1 :
                           Cardinality(Serves(c)) <= Cardinality(Serves(d)) + 1
    BY DEF WorkersSpread
  <2>1. /\ threads_ = 1 .. config.num_cores
        /\ \A w \in threads_ : ctrlr[w] = (w - 1) % ctrlrs
    BY DEF SpreadInv, Made
  <2>2. ctrlrs \in Nat \ {0} /\ config.num_cores \in Nat
    BY DEF IInv, TypeOK, ContextTypeOK, ContextInv, IsUp, Up, StartInv, Workers
  <2>3. ASSUME NEW c \in 0 .. ctrlrs - 1
        PROVE  Serves(c) = {w \in 1 .. config.num_cores : (w - 1) % ctrlrs = c}
    BY <2>1 DEF Serves
  <2>4. ASSUME NEW c \in 0 .. ctrlrs - 1, NEW d \in 0 .. ctrlrs - 1
        PROVE  Cardinality(Serves(c)) <= Cardinality(Serves(d)) + 1
    <3> DEFINE n == config.num_cores
    <3>1. Cardinality({w \in 1 .. n : (w - 1) % ctrlrs = c})
            <= Cardinality({w \in 1 .. n : (w - 1) % ctrlrs = d}) + 1
      BY <2>2, Balanced
    <3> QED BY <3>1, <2>3
  <2> QED BY <2>1, <2>4
<1> QED BY <1>1, LifecycleInvariant, LifecycleSpreadInvariant, PTL
-----------------------------------------------------------------------------
\* A running worker without a qpair has no command in flight.
SettledInv ==
  \A w \in busy : w \in Workers /\ phase[w] # "new" /\ (phase[w] = "running" => qpair[w])

ContractInv == IInv /\ SettledInv

Allowed(w) == [Contract(w)!Next]_(Contract(w)!contractVars)

\* Every worker begins where its contract begins.
LEMMA ContractStart == Init => ContractInv /\ \A w \in Workers : Contract(w)!Init
<1> SUFFICES ASSUME Init PROVE ContractInv /\ \A w \in Workers : Contract(w)!Init
  OBVIOUS
<1>1. SettledInv
  BY DEF Init, SettledInv
<1>2. ASSUME NEW w \in Workers PROVE Contract(w)!Init
  BY DEF Init, Contract!Init
<1> QED BY <1>1, <1>2, InitHolds DEF ContractInv

\* main() and the signal handler.
LEMMA ContractMain ==
  ASSUME ContractInv, Main \/ Signal, NEW w \in Workers
  PROVE  SettledInv' /\ Allowed(w)
<1> USE DEF ContractInv, IInv, TypeOK, SettledInv, Allowed, Contract!Next, Contract!contractVars,
           Contract!Begin, Contract!Ask, Contract!Settle, workerVars
<1>1. CASE ParseArgs \/ ParseFails \/ InitContext \/ Started \/ Arm \/ LeaveLoop \/ Signal
             \/ QpairRefused
  BY <1>1 DEF ParseArgs, ParseFails, InitContext, Started, Arm, LeaveLoop, Signal, QpairRefused
<1>2. CASE InitFailed \/ StartFailed \/ ReportAndReturn \/ FindNamespace
  BY <1>2 DEF InitFailed, StartFailed, ReportAndReturn, FindNamespace, Detach
<1>3. CASE InitPool \/ NoQpair
  BY <1>3 DEF InitPool, NoQpair
<1>4. CASE CreateQpair
  BY <1>4 DEF CreateQpair, StartInv
<1>5. CASE Spawn
  BY <1>5 DEF Spawn, StartInv, WorkerInv
<1>6. CASE ConnectFails
  BY <1>6 DEF ConnectFails, StartInv
<1>7. CASE Stop
  BY <1>7 DEF Stop
<1>8. CASE Join
  BY <1>8 DEF Join, StartInv
<1>9. CASE FreeContexts
  BY <1>9 DEF FreeContexts, StartInv, WorkerInv
<1> QED BY <1>1, <1>2, <1>3, <1>4, <1>5, <1>6, <1>7, <1>8, <1>9 DEF Main

\* A step of one worker is a step of its contract, and the others stay.
LEMMA ContractWorker ==
  ASSUME ContractInv, NEW v \in Workers, Worker(v), NEW w \in Workers
  PROVE  SettledInv' /\ Allowed(w)
<1> USE DEF ContractInv, IInv, TypeOK, SettledInv, Allowed, Contract!Next, Contract!contractVars
<1>1. CASE WorkerSubmits(v)
  BY <1>1 DEF WorkerSubmits, Contract!Submit
<1>2. CASE WorkerSettles(v)
  BY <1>2 DEF WorkerSettles, Contract!Settle
<1>3. CASE WorkerLoses(v)
  BY <1>3 DEF WorkerLoses, Contract!Lose
<1>4. CASE WorkerReconnects(v)
  BY <1>4 DEF WorkerReconnects, Contract!Reconnect
<1>5. CASE WorkerExits(v)
  BY <1>5 DEF WorkerExits, Contract!Exit
<1> QED BY <1>1, <1>2, <1>3, <1>4, <1>5 DEF Worker

\* Whatever main(), the signal handler and the other workers do, each worker is
\* used as its contract allows (WorkersWithinContract).
THEOREM LifecycleWorkersWithinContract == Spec => WorkersWithinContract
<1>1. IInv /\ SettledInv /\ [Next]_vars => SettledInv' /\ \A w \in Workers : Allowed(w)
  <2> SUFFICES ASSUME IInv, SettledInv, [Next]_vars
               PROVE  SettledInv' /\ \A w \in Workers : Allowed(w)
    OBVIOUS
  <2>1. \E w \in Workers : TRUE
    BY ConfigFacts DEF Workers
  <2>2. CASE Main \/ Signal
    BY <2>1, <2>2, ContractMain DEF ContractInv
  <2>3. ASSUME NEW v \in Workers, Worker(v) PROVE SettledInv' /\ \A w \in Workers : Allowed(w)
    BY <2>3, ContractWorker DEF ContractInv
  <2>4. CASE UNCHANGED vars
    BY <2>4 DEF vars, workerVars, SettledInv, Allowed, Contract!contractVars
  <2> QED BY <2>2, <2>3, <2>4 DEF Next, Finished
<1>2. Init => SettledInv /\ \A w \in Workers : Contract(w)!Init
  BY ContractStart DEF ContractInv
<1>3. Spec => []SettledInv
  BY <1>1, <1>2, LifecycleInvariant, PTL DEF Spec
<1>4. (\A w \in Workers : Allowed(w)) => \A w \in Workers : [Contract(w)!Next]_(Contract(w)!contractVars)
  BY DEF Allowed
<1> QED BY <1>1, <1>2, <1>3, <1>4, LifecycleInvariant, PTL DEF Spec, WorkersWithinContract

-----------------------------------------------------------------------------
(* When the promises hold that the runs lifecycle_start_failure and        *)
(* lifecycle_drain_limit show violated                                     *)

\* Once start() has returned 0, stop() finds running_ set, and then wait() joins
\* no thread that was not told to stop.
StopInv ==
  /\ pc \in {"arm", "run", "stop"} => running_
  /\ pc = "join" /\ ~failed => \A w \in Workers : phase[w] = "running" => should_stop[w]

\* StopInv is inductive.
LEMMA StopInvStep == IInv /\ StopInv /\ [Next]_vars => StopInv'
<1> SUFFICES ASSUME IInv, StopInv, [Next]_vars PROVE StopInv'
  OBVIOUS
<1> USE DEF StopInv
<1>1. CASE ParseArgs \/ ParseFails \/ InitContext \/ InitFailed \/ FindNamespace
  BY <1>1 DEF ParseArgs, ParseFails, InitContext, InitFailed, FindNamespace
<1>2. CASE InitPool \/ CreateQpair \/ QpairRefused \/ NoQpair \/ Spawn \/ ConnectFails
  BY <1>2 DEF InitPool, CreateQpair, QpairRefused, NoQpair, Spawn, ConnectFails
<1>3. CASE Started
  BY <1>3 DEF Started
<1>4. CASE StartFailed
  BY <1>4 DEF StartFailed, startVars, IInv, StartInv
<1>5. CASE Arm \/ LeaveLoop \/ Signal
  BY <1>5 DEF Arm, LeaveLoop, Signal, startVars, workerVars
<1>6. CASE Stop
  <2>1. running_ /\ pc' = "join" /\ phase' = phase
    BY <1>6 DEF Stop
  <2>2. \A w \in Workers : phase[w] = "running" => w \in threads_
    BY DEF IInv, StartInv
  <2>3. \A w \in Workers : phase[w] = "running" => should_stop'[w]
    BY <1>6, <2>1, <2>2 DEF Stop
  <2> QED BY <2>1, <2>3
<1>7. CASE Join \/ FreeContexts \/ ReportAndReturn
  BY <1>7 DEF Join, FreeContexts, ReportAndReturn
<1>8. ASSUME NEW w \in Workers, Worker(w) PROVE StopInv'
  BY <1>8 DEF Worker, WorkerSubmits, WorkerSettles, WorkerLoses, WorkerReconnects, WorkerExits,
    mainVars, startVars, IInv, TypeOK
<1>9. CASE UNCHANGED vars
  BY <1>9 DEF vars, mainVars, startVars, workerVars
<1> QED BY <1>1, <1>2, <1>3, <1>4, <1>5, <1>6, <1>7, <1>8, <1>9 DEF Next, Main, Finished

\* The threads that wait() joins have all been told to stop, on every path but
\* the one on which start() has failed (StopReachesThreads).
THEOREM LifecycleStopReachesThreads == Spec => [](~failed => StopReachesThreads)
<1>1. Init => StopInv
  BY DEF Init, StopInv
<1>2. StopInv => (~failed => StopReachesThreads)
  BY DEF StopInv, StopReachesThreads
<1> QED BY <1>1, <1>2, StopInvStep, LifecycleInvariant, PTL DEF Spec

\* A thread that ends with no command in flight leaves none behind.
DrainInv ==
  /\ \A w \in busy : phase[w] = "running"
  /\ \A w \in Workers : pool[w] = "deleted" => phase[w] = "joined"

Drained == \A w \in Workers : WorkerExits(w) => w \notin busy

\* DrainInv is inductive while every drain completes.
LEMMA DrainInvStep == IInv /\ DrainInv /\ [Next]_vars /\ [Drained]_vars => DrainInv'
<1> SUFFICES ASSUME IInv, DrainInv, [Next]_vars, [Drained]_vars PROVE DrainInv'
  OBVIOUS
<1>0. pool \in [Workers -> {"none", "ready", "deleted", "lost"}] /\ busy \subseteq Workers
      /\ phase \in [Workers -> {"new", "running", "exited", "joined"}]
  BY DEF IInv, TypeOK
<1>1. CASE ParseArgs \/ ParseFails \/ InitContext \/ InitFailed \/ FindNamespace
  BY <1>1 DEF DrainInv, ParseArgs, ParseFails, InitContext, InitFailed, FindNamespace, Detach,
    workerVars
<1>2. CASE InitPool \/ NoQpair
  BY <1>0, <1>2 DEF DrainInv, InitPool, NoQpair
<1>3. CASE CreateQpair \/ QpairRefused
  BY <1>3 DEF DrainInv, CreateQpair, QpairRefused, workerVars
<1>4. CASE Spawn
  BY <1>0, <1>4 DEF DrainInv, Spawn, IInv, StartInv
<1>5. CASE ConnectFails
  BY <1>0, <1>5 DEF DrainInv, ConnectFails
<1>6. CASE Started \/ Arm \/ LeaveLoop \/ Signal \/ Stop
  BY <1>6 DEF DrainInv, Started, Arm, LeaveLoop, Signal, Stop, workerVars
<1>7. CASE StartFailed \/ ReportAndReturn
  BY <1>7 DEF DrainInv, StartFailed, ReportAndReturn, Detach
<1>8. CASE Join
  BY <1>0, <1>8 DEF DrainInv, Join, IInv, StartInv
<1>9. CASE FreeContexts
  BY <1>0, <1>9 DEF DrainInv, FreeContexts, IInv, StartInv, WorkerInv
<1>10. ASSUME NEW w \in Workers, Worker(w) PROVE DrainInv'
  <2>1. CASE WorkerSubmits(w) \/ WorkerSettles(w) \/ WorkerLoses(w) \/ WorkerReconnects(w)
    BY <2>1 DEF DrainInv, WorkerSubmits, WorkerSettles, WorkerLoses, WorkerReconnects
  <2>2. CASE WorkerExits(w)
    <3>1. phase' # phase
      BY <1>0, <2>2 DEF WorkerExits
    <3>2. w \notin busy
      BY <2>2, <3>1 DEF Drained, vars, workerVars
    <3> QED BY <1>0, <2>2, <3>2 DEF DrainInv, WorkerExits
  <2> QED BY <1>10, <2>1, <2>2 DEF Worker
<1>11. CASE UNCHANGED vars
  BY <1>11 DEF DrainInv, vars, workerVars
<1> QED BY <1>1, <1>2, <1>3, <1>4, <1>5, <1>6, <1>7, <1>8, <1>9, <1>10, <1>11
        DEF Next, Main, Finished

\* If every thread ends with its drain complete, whatever else happens, no pool
\* is deleted under a command in flight (PoolOutlivesCommands).
THEOREM LifecyclePoolOutlivesCommands ==
  Spec /\ [][Drained]_vars => []PoolOutlivesCommands
<1>1. Init => DrainInv
  BY DEF Init, DrainInv
<1>2. DrainInv => PoolOutlivesCommands
  BY DEF DrainInv, PoolOutlivesCommands
<1> QED BY <1>1, <1>2, DrainInvStep, LifecycleInvariant, PTL DEF Spec
=============================================================================
