------------------------------ MODULE Lifecycle ------------------------------
(***************************************************************************)
(* The program from main() to its exit: the start and the failures of the  *)
(* workers in PollThreadManager::start(), the run, and the shutdown by     *)
(* stop(), wait() and the destructors (src/main.cpp,                       *)
(* src/poll_thread_manager.cpp, SpdkContext::init() and cleanup()).  The   *)
(* other processes are the workers, each as module WorkerContract          *)
(* describes it, and the signal handler.                                   *)
(***************************************************************************)
EXTENDS SpdkContext, FiniteSets

CONSTANT MaxCores  \* workers the inputs ask for at most

ASSUME LifecycleAssumption ==
  /\ MaxCores \in Nat \ {0}
  /\ \A g \in Inputs : Parsed(g).num_cores \in 0 .. MaxCores

Workers == 1 .. MaxCores

VARIABLES
  pc,         \* where main() is
  g_running,
  signalled,  \* history: a signal has arrived
  failed,     \* history: start() has returned -1
  running_,   \* PollThreadManager::running_
  next,       \* the worker start() is creating
  tried,      \* the controllers that have refused it a qpair
  refused,    \* history: a controller has refused a qpair
  threads_,   \* the contexts start() has put into threads_
  ctrlr,      \* ctx->ctrlr_index
  phase,      \* per worker: "new", "running", "exited", "joined"
  should_stop,
  qpair,      \* ctx->qpair is not null
  allocated,  \* SPDK: the workers with an allocated qpair
  busy,       \* SPDK: the worker has commands in flight
  pool        \* ctx->op_pool: "none", "ready", "deleted", or "lost"

flags == <<g_running, signalled>>
startVars == <<failed, running_, next, tried, refused, threads_, ctrlr>>
mainVars == <<contextVars, pc, flags, startVars>>
workerVars == <<phase, should_stop, qpair, allocated, busy, pool>>
vars == <<mainVars, workerVars>>

TypeOK ==
  /\ ContextTypeOK
  /\ pc \in {"parse", "init", "namespace", "pool", "qpair", "connect", "started", "arm",
             "run", "stop", "join", "free", "report", "failed", "dead"}
  /\ g_running \in BOOLEAN /\ signalled \in BOOLEAN
  /\ failed \in BOOLEAN /\ running_ \in BOOLEAN /\ refused \in BOOLEAN
  /\ next \in Workers /\ threads_ \in SUBSET Workers
  /\ tried \in Nat /\ ctrlr \in [Workers -> Nat]
  /\ phase \in [Workers -> {"new", "running", "exited", "joined"}]
  /\ should_stop \in [Workers -> BOOLEAN] /\ qpair \in [Workers -> BOOLEAN]
  /\ allocated \in SUBSET Workers /\ busy \in SUBSET Workers
  /\ pool \in [Workers -> {"none", "ready", "deleted", "lost"}]

Init ==
  /\ ContextInit
  /\ pc = "parse"
  /\ g_running = TRUE /\ signalled = FALSE
  /\ failed = FALSE /\ running_ = FALSE
  /\ next = 1 /\ tried = 0 /\ refused = FALSE
  /\ threads_ = {} /\ ctrlr = [w \in Workers |-> 0]
  /\ phase = [w \in Workers |-> "new"]
  /\ should_stop = [w \in Workers |-> FALSE]
  /\ qpair = [w \in Workers |-> FALSE]
  /\ allocated = {} /\ busy = {}
  /\ pool = [w \in Workers |-> "none"]

-----------------------------------------------------------------------------
(* main() before the workers                                               *)

\* parse_args() fills the configuration, or main() returns: the options are
\* refused, or are not options, or ask for help.
ParseArgs ==
  /\ pc = "parse"
  /\ \E g \in Inputs :
       /\ config' = Parsed(g)
       /\ pc' = IF Accepted(config') THEN "init" ELSE "dead"
  /\ UNCHANGED <<stage, address, ctrlrs, spdk_threads, lib, maxcmd, flags, startVars,
                 workerVars>>

ParseFails ==
  /\ pc = "parse"
  /\ pc' = "dead"
  /\ UNCHANGED <<contextVars, flags, startVars, workerVars>>

\* SpdkContext::init(); if it fails, main() returns.
InitContext ==
  /\ pc = "init" /\ stage # "failed"
  /\ InitStep
  /\ pc' = IF stage' = "ready" THEN "namespace" ELSE "init"
  /\ UNCHANGED <<flags, startVars, workerVars>>

\* Detaching the controllers frees their qpairs and aborts their commands.
Detach == Cleanup /\ allocated' = {} /\ busy' = {}

InitFailed ==
  /\ pc = "init" /\ stage = "failed"
  /\ Detach
  /\ pc' = "dead"
  /\ UNCHANGED <<flags, startVars, phase, should_stop, qpair, pool>>

\* The destination namespace is looked up.
FindNamespace ==
  /\ pc = "namespace"
  /\ \/ pc' = "pool" /\ UNCHANGED <<contextVars, allocated, busy>>
     \/ pc' = "dead" /\ Detach
  /\ UNCHANGED <<flags, startVars, phase, should_stop, qpair, pool>>

-----------------------------------------------------------------------------
(* PollThreadManager::start()                                              *)

\* What start() gives each worker.
Depth == PerThreadDepth(config, maxcmd)

InitPool ==
  /\ pc = "pool"
  /\ \/ pool' = [pool EXCEPT ![next] = "ready"] /\ pc' = "qpair" /\ UNCHANGED failed
     \/ pc' = "failed" /\ failed' = TRUE /\ UNCHANGED pool
  /\ UNCHANGED <<contextVars, flags, running_, next, tried, refused, threads_, ctrlr, phase,
                 should_stop, qpair, allocated, busy>>

\* A faulty variant of Candidate: every worker begins with the first controller.
CandidateFirst == tried % ctrlrs

\* The controller to ask next: round-robin, going on after a refusal.
Candidate == (next - 1 + tried) % ctrlrs

CreateQpair ==
  /\ pc = "qpair"
  /\ ctrlr' = [ctrlr EXCEPT ![next] = Candidate]
  /\ tried' = 0
  /\ qpair' = [qpair EXCEPT ![next] = TRUE]
  /\ allocated' = allocated \cup {next}
  /\ pc' = "connect"
  /\ UNCHANGED <<contextVars, flags, failed, running_, next, refused, threads_, phase,
                 should_stop, busy, pool>>

\* A controller refuses, and another is left.
QpairRefused ==
  /\ pc = "qpair" /\ tried + 1 < ctrlrs
  /\ tried' = tried + 1
  /\ refused' = TRUE
  /\ UNCHANGED <<contextVars, pc, flags, failed, running_, next, threads_, ctrlr, workerVars>>

\* The last one refuses too: the context goes out of scope, its pool is not
\* deleted, and start() makes do with the workers it has, if any.
NoQpair ==
  /\ pc = "qpair" /\ tried + 1 >= ctrlrs
  /\ tried' = 0
  /\ refused' = TRUE
  /\ pool' = [pool EXCEPT ![next] = "lost"]
  /\ failed' = (threads_ = {})
  /\ pc' = IF threads_ = {} THEN "failed" ELSE "started"
  /\ UNCHANGED <<contextVars, flags, running_, next, threads_, ctrlr, phase, should_stop,
                 qpair, allocated, busy>>

\* A faulty variant of Spawn: the loop of start() runs once too often.
SpawnPast ==
  /\ pc = "connect"
  /\ phase' = [phase EXCEPT ![next] = "running"]
  /\ threads_' = threads_ \cup {next}
  /\ next' = next + 1
  /\ pc' = IF next > config.num_cores THEN "started" ELSE "pool"
  /\ UNCHANGED <<contextVars, flags, failed, running_, tried, refused, ctrlr, should_stop,
                 qpair, allocated, busy, pool>>

\* The connection is up: the thread is created.
Spawn ==
  /\ pc = "connect"
  /\ phase' = [phase EXCEPT ![next] = "running"]
  /\ threads_' = threads_ \cup {next}
  /\ IF next = config.num_cores THEN pc' = "started" /\ UNCHANGED next
                                ELSE pc' = "pool" /\ next' = next + 1
  /\ UNCHANGED <<contextVars, flags, failed, running_, tried, refused, ctrlr, should_stop,
                 qpair, allocated, busy, pool>>

\* The connection fails or times out: start() deletes the new qpair and those
\* of the workers that are already running.
ConnectFails ==
  /\ pc = "connect"
  /\ allocated' = {w \in allocated \ {next} : ~qpair[w]}
  /\ busy' = {w \in busy : ~qpair[w]}
  /\ pool' = [pool EXCEPT ![next] = "lost"]
  /\ qpair' = [qpair EXCEPT ![next] = FALSE]
  /\ failed' = TRUE
  /\ pc' = "failed"
  /\ UNCHANGED <<contextVars, flags, running_, next, tried, refused, threads_, ctrlr, phase,
                 should_stop>>

\* A faulty variant of Started: running_ is not set, and stop() does nothing.
StartedUnmarked ==
  /\ pc = "started"
  /\ pc' = "arm"
  /\ UNCHANGED <<contextVars, flags, startVars, workerVars>>

\* start() returns 0.
Started ==
  /\ pc = "started"
  /\ running_' = TRUE
  /\ pc' = "arm"
  /\ UNCHANGED <<contextVars, flags, failed, next, tried, refused, threads_, ctrlr,
                 workerVars>>

\* start() has returned -1: main() cleans up the context and returns, and
\* ~PollThreadManager calls stop(), which finds running_ false, and wait().
StartFailed ==
  /\ pc = "failed"
  /\ Detach
  /\ pc' = "join"
  /\ UNCHANGED <<flags, startVars, phase, should_stop, qpair, pool>>

-----------------------------------------------------------------------------
(* main() with workers                                                     *)

\* main() sets g_running and enters its loop.
Arm ==
  /\ pc = "arm"
  /\ g_running' = TRUE
  /\ pc' = "run"
  /\ UNCHANGED <<contextVars, signalled, startVars, workerVars>>

Timed == config.runtime_sec > 0

\* A faulty variant of LeaveLoop: straight to the report.
LeaveLoopAtOnce ==
  /\ pc = "run"
  /\ ~g_running \/ Timed
  /\ pc' = "report"
  /\ UNCHANGED <<contextVars, flags, startVars, workerVars>>

\* g_running is false, or the configured time is over.
LeaveLoop ==
  /\ pc = "run"
  /\ ~g_running \/ Timed
  /\ pc' = "stop"
  /\ UNCHANGED <<contextVars, flags, startVars, workerVars>>

\* stop()
Stop ==
  /\ pc = "stop"
  /\ running_' = FALSE
  /\ should_stop' = [w \in Workers |-> should_stop[w] \/ (running_ /\ w \in threads_)]
  /\ pc' = "join"
  /\ UNCHANGED <<contextVars, flags, failed, next, tried, refused, threads_, ctrlr, phase,
                 qpair, allocated, busy, pool>>

\* A faulty variant of Join: wait() does not wait.
JoinNothing ==
  /\ pc = "join"
  /\ pc' = "free"
  /\ UNCHANGED <<contextVars, flags, startVars, workerVars>>

\* wait() joins every thread,
Join ==
  /\ pc = "join"
  /\ \A w \in threads_ : phase[w] = "exited"
  /\ phase' = [w \in Workers |-> IF w \in threads_ THEN "joined" ELSE phase[w]]
  /\ pc' = "free"
  /\ UNCHANGED <<contextVars, flags, startVars, should_stop, qpair, allocated, busy, pool>>

\* then deletes the qpairs the contexts still have, and the pools.
FreeContexts ==
  /\ pc = "free"
  /\ allocated' = {w \in allocated : w \notin threads_ \/ ~qpair[w]}
  /\ busy' = {w \in busy : w \notin threads_ \/ ~qpair[w]}
  /\ qpair' = [w \in Workers |-> qpair[w] /\ w \notin threads_]
  /\ pool' = [w \in Workers |-> IF w \in threads_ THEN "deleted" ELSE pool[w]]
  /\ pc' = IF failed THEN "dead" ELSE "report"
  /\ UNCHANGED <<contextVars, flags, startVars, phase, should_stop>>

\* The report is printed and the context cleaned up; the destructors find
\* nothing to do.
ReportAndReturn ==
  /\ pc = "report"
  /\ Detach
  /\ pc' = "dead"
  /\ UNCHANGED <<flags, startVars, phase, should_stop, qpair, pool>>

-----------------------------------------------------------------------------
(* The workers and the signal handler                                      *)

WorkerSubmits(w) ==
  /\ phase[w] = "running" /\ qpair[w]
  /\ w \in allocated \ busy
  /\ busy' = busy \cup {w}
  /\ UNCHANGED <<mainVars, phase, should_stop, qpair, allocated, pool>>

WorkerSettles(w) ==
  /\ phase[w] = "running" /\ w \in busy
  /\ busy' = busy \ {w}
  /\ UNCHANGED <<mainVars, phase, should_stop, qpair, allocated, pool>>

\* A faulty variant of WorkerLoses: the context keeps the deleted qpair.
WorkerLosesDangling(w) ==
  /\ phase[w] = "running" /\ qpair[w]
  /\ allocated' = allocated \ {w}
  /\ busy' = busy \ {w}
  /\ UNCHANGED <<mainVars, phase, should_stop, qpair, pool>>

\* A faulty variant of WorkerLoses: the qpair is dropped, its commands stay.
WorkerLosesUnsettled(w) ==
  /\ phase[w] = "running" /\ qpair[w]
  /\ qpair' = [qpair EXCEPT ![w] = FALSE]
  /\ UNCHANGED <<mainVars, phase, should_stop, allocated, busy, pool>>

\* The worker deletes its qpair after too many errors.
WorkerLoses(w) ==
  /\ phase[w] = "running" /\ qpair[w]
  /\ qpair' = [qpair EXCEPT ![w] = FALSE]
  /\ allocated' = allocated \ {w}
  /\ busy' = busy \ {w}
  /\ UNCHANGED <<mainVars, phase, should_stop, pool>>

\* It gets a new one from the same controller.
WorkerReconnects(w) ==
  /\ phase[w] = "running" /\ ~qpair[w]
  /\ ctrlr[w] < ctrlrs
  /\ qpair' = [qpair EXCEPT ![w] = TRUE]
  /\ allocated' = allocated \cup {w}
  /\ UNCHANGED <<mainVars, phase, should_stop, busy, pool>>

\* thread_func() ends, its drain complete or given up.
WorkerExits(w) ==
  /\ phase[w] = "running" /\ should_stop[w]
  /\ phase' = [phase EXCEPT ![w] = "exited"]
  /\ qpair' = [qpair EXCEPT ![w] = FALSE]
  /\ UNCHANGED <<mainVars, should_stop, allocated, busy, pool>>

\* SIGINT or SIGTERM; the handlers are installed before init().
Signal ==
  /\ pc \notin {"parse", "dead"}
  /\ g_running' = FALSE /\ signalled' = TRUE
  /\ UNCHANGED <<contextVars, pc, startVars, workerVars>>

-----------------------------------------------------------------------------
Main ==
  \/ ParseArgs \/ ParseFails \/ InitContext \/ InitFailed \/ FindNamespace
  \/ InitPool \/ CreateQpair \/ QpairRefused \/ NoQpair \/ Spawn \/ ConnectFails \/ Started \/ StartFailed
  \/ Arm \/ LeaveLoop \/ Stop \/ Join \/ FreeContexts \/ ReportAndReturn

Worker(w) ==
  \/ WorkerSubmits(w) \/ WorkerSettles(w) \/ WorkerLoses(w)
  \/ WorkerReconnects(w) \/ WorkerExits(w)

Finished == pc = "dead" /\ UNCHANGED vars

Next == Main \/ Signal \/ Finished \/ \E w \in Workers : Worker(w)

Spec == Init /\ [][Next]_vars

\* main() keeps executing, and a worker that is asked to stop does
\* (StopEndsThread of module Worker).
FairSpec ==
  /\ Spec
  /\ WF_vars(Main)
  /\ \A w \in Workers : WF_vars(WorkerExits(w))

-----------------------------------------------------------------------------
(* Properties                                                              *)

\* A thread that runs has its operation pool, on the failure paths too: wait()
\* deletes a pool only after the thread is joined.
PoolHeldWhileRunning ==
  \A w \in Workers : phase[w] = "running" => pool[w] = "ready"

\* A running worker's qpair is allocated, on a controller that is attached, as
\* long as the context points to it, and so is the thread library that its
\* SPDK thread belongs to, unless start() has failed.
QpairValid ==
  ~failed => \A w \in Workers : phase[w] = "running" =>
    /\ qpair[w] => w \in allocated
    /\ ctrlr[w] < ctrlrs
    /\ spdk_threads => lib

\* The controllers are detached, and the report is written, when no worker
\* can submit or count anything any more, unless start() has failed.
DetachedAfterJoin ==
  (~failed /\ (pc = "report" \/ ctrlrs = 0)) =>
    \A w \in Workers : phase[w] \in {"new", "joined"} /\ ~qpair[w]

\* The workers of a controller.
Serves(c) == {w \in threads_ : ctrlr[w] = c}

\* "Threads distributed round-robin across connected controllers" (README.md:170):
\* if no controller refuses a qpair, start() starts every worker it is asked for
\* and no controller serves two workers more than another.
WorkersSpread ==
  (~refused /\ ~failed /\ pc \in {"arm", "run"}) =>
    /\ threads_ = 1 .. config.num_cores
    /\ \A c, d \in 0 .. ctrlrs - 1 : Cardinality(Serves(c)) <= Cardinality(Serves(d)) + 1

\* A signal in the run, or the end of the configured time, ends the program:
\* no worker is forgotten by stop() and joined for ever.
ShutdownTerminates ==
  (pc = "run" /\ (Timed \/ ~g_running)) ~> pc = "dead"

\* Each worker is used as its contract allows.
Contract(w) ==
  INSTANCE WorkerContract WITH
    phase <- IF phase[w] = "joined" THEN "exited" ELSE phase[w],
    asked <- should_stop[w], busy <- w \in busy, qpair <- qpair[w] \/ phase[w] = "new"

WorkersWithinContract ==
  /\ \A w \in Workers : Contract(w)!Init
  /\ [][\A w \in Workers : [Contract(w)!Next]_(Contract(w)!contractVars)]_vars

\* "Stop threads" (poll_thread_manager.h:71): after stop(), when wait() joins,
\* every thread that was started has been told to stop.
StopReachesThreads ==
  pc = "join" => \A w \in Workers : phase[w] = "running" => should_stop[w]

\* "Drain outstanding I/O" (poll_thread_manager.cpp:371): no command is in
\* flight when the pool that holds its operation is deleted.
PoolOutlivesCommands ==
  \A w \in Workers : pool[w] = "deleted" => w \notin busy
=============================================================================
