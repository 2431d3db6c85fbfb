# X-LOAD in TLA+

A verification project for X-LOAD, the NVMe/TCP load generator of this
repository: it saturates a storage target with Copy (XCOPY) commands, from
several polling threads on top of SPDK. The project models the parts of the
program whose correctness depends on the order of things, checks them with TLC
on small instances, and proves the main invariants with TLAPS for every size.

Paths below are relative to the repository (`src/`, `include/`).
`PROJECT.json` lists the components, the runs, the source lines behind each
definition, the findings, the hazards and the theorems.

## 1. The system

### Components

| Component | Keeps | Does | Modelled by |
|---|---|---|---|
| Operation pool, `include/operation_pool.h` | an array of operations with a DMA buffer and an `in_use` flag each; a running index | `init`, `acquire`, `release`, `cleanup` | `OperationPool` |
| LBA manager, `src/lba_manager.cpp` | the destination range and the cursor, three atomics shared by all workers | reserve, advance, reset, set the range; random source LBAs | `LbaManager` (with `LbaCursor`, `AtomicLba`), the random draw by `Generator` |
| Worker thread, `src/poll_thread_manager.cpp` | its qpair, `outstanding_io`, `deferred_count`, error and retry counters, its pool | submit, complete, poll, lose the qpair, reconnect, drain, exit | `Worker` (with `WorkerContract`) |
| Life cycle, `src/main.cpp`, `start()`, `stop()`, `wait()` | `g_running`, `running_`, the contexts of the workers | parse, start the workers, run, stop, join, free, report | `Lifecycle` |
| SPDK context, `src/spdk_context.cpp` | controllers, namespaces, whether the thread library is in use | attach, create and delete qpairs, detach | `SpdkContext`; qpairs by `Lifecycle` |
| Command generator, `src/xcopy_generator.cpp` | a random generator shared by all workers | choose ranges, reserve the destination, reject overlaps | `Generator`; its borrowed buffer by `Worker` |
| Statistics, `src/statistics.cpp`, `include/statistics.h` | counters, minimum, maximum, a ring of latency samples | record, snapshot, percentiles | `Statistics` |
| Error handler, `src/error_handler.cpp` | error counters by status code | classify, count | `Statistics`; the classification also by `Worker` |
| Reports, `src/json_reporter.cpp` | nothing | print a snapshot | what a report reads, by `Statistics` |
| Live monitor, `src/live_monitor.cpp` | the previous counters | print rates | no |
| Configuration, `src/config_manager.cpp` | the options | parse, validate | `Configuration` |
| Timer, `src/high_res_timer.cpp` | nothing that others use | read the clock | no |

### How they interact

`main()` attaches the controllers, builds one LBA manager, one generator and one
statistics object, and calls `PollThreadManager::start()`, which creates, one
after the other, a context with a pool and a connected qpair and then a thread
for each worker. From then on a worker touches only its own context, except for
the cursor, the generator and the statistics, which all workers share without
locks. Completions are delivered to a worker by SPDK *inside its own polls*, and
the completion callback submits the next command at once, so that
`submit_next_io_pooled()` runs in the worker's batch loop, inside its polls,
inside the polls of its drain, and inside the deletion of its qpair. The main
thread talks to a worker only through `should_stop` and by joining it; the signal
handler talks to the main thread only through `g_running`.

### What is hard here

* **Interleavings of atomics**: the pool's flags and index, the cursor's
  load / compare-exchange loops, and the range that is read in two loads.
* **Reentrancy**: callbacks that submit from within polls, drains and aborts.
* **Failures in the middle**: of the pool's allocation, of the generation, of a
  submission, of polls (the qpair is deleted and its commands aborted), of a
  reconnection, and of `start()` with workers already running.
* **Limits**: the pool's size, the depth, the retries, the reconnection attempts,
  the length of the drain, the cap on deferrals, the wrap of 32-bit and 64-bit
  counters, the narrowing of options to 32 bits.
* **Retries**: ten attempts to generate a command each consume blocks of the one
  destination range, which all workers share and which a completion of any of them
  may send back to its start.
* **Liveness**: a worker with nothing in flight must wake up by itself; a worker
  told to stop must end whatever the device does; the program must end.

The list of hazards, each at its line and with the properties about it, is in
`PROJECT.json`.

### What makes each component correct

* Pool: an operation has one owner, is not lost, and keeps its caller's context
  while the command is in flight; a pool sized as `start()` does never runs dry.
* LBA manager: a call takes effect at one instant; two reservations do not share
  blocks before the cursor returns to the start; a request that fits is granted
  inside the range.
* Worker: the pool, the count of outstanding commands and the qpair are
  accounted for exactly on every path; nothing is submitted after the loop;
  it ends when told to and does not stall otherwise.
* Statistics: counters, extremes and samples are those of the commands that ended,
  however the workers interleave, and reach the report.
* Generator: a command stays inside its namespaces and, if it can, inside the range;
  it does not overlap itself, nor the commands of other workers within a lap; it
  reads the namespace it has chosen; a worker gets a command if there is one.
* Configuration: whatever numbers are given, the depth of a worker respects the limits of
  the controller and of the program; the sum of the depths does not always respect the
  user's (section 4).
* Life cycle: nothing a running worker uses is freed; the workers are spread over the
  controllers; the controllers are detached after the join; the program ends.

## 2. The modules

### `OperationPool`

Each thread that calls the pool has its position inside
`acquire()` in `pc`. `FetchIndex` is the `fetch_add` on `next_index_`; `ClaimFree` and
`ClaimBusy` are the two outcomes of the `compare_exchange_strong` on `in_use`;
`Reset` is `PooledOperation::reset()` with the return of the operation; `Fill` is
the caller writing its command into it; `Release` is the store of `release()`.
`AllocBuffer`, `AllocFails` and `Destroy` are `init()`, its failure and
`cleanup()`. The destructor looks neither at calls in progress nor at operations that are
still held, and `Destroy` may come at any time; what threads do with a pool that is gone is
undefined and not followed (that the program gets there is finding 4). `callers` are the
threads that use the pool: one in the program, which gives every worker its own; the module
lets any number of them share one, as the class allows. `next_index_` wraps at
`IndexSpan` (2^32 in the code).

### `LbaCursor`, `LbaManager`, `AtomicLba`, `MCLbaManager`

`LbaCursor` has the arithmetic: what is granted, where the cursor goes, the cap
on the end, with unsigned addition modulo `Wrap` (2^64 in the code).
`LbaManager` runs it one atomic access at a time: `LoadStart`, `LoadEnd`,
`LoadCurrent`, `ExchangeSucceeds` or `ExchangeFails` (also spuriously, the
exchange being weak), `StoreReset`, and `StoreEnd`, `StoreStart`, `StoreCurrent`
of `set_dst_range()`. A retry reloads the cursor at the top of the loop, as the
code does. Accesses are sequentially consistent; the code's relaxed loads of the
cursor are to one location each, and the loads of the bounds are acquire loads.
`lap` is a history variable: the reservations made since the cursor
last was at the start of the range. A request of zero blocks, which the
generator never makes, changes nothing and is left out.

`AtomicLba` is the abstract specification: every call takes effect in one step.
`LbaManager` implements it under a mapping that lets `set_dst_range()`
take effect with its first store. That function is called only while no other call is
in progress, which `include/lba_manager.h` asks of callers (the program itself never
calls it). The comment in the function promises more, consistent bounds to
concurrent readers, which the order of its stores does not give: a reader that loads the
start before and the end after them has one bound of each range.

### `Worker`, `WorkerContract`

`Worker` is one worker and the SPDK and device behaviour it sees. `pc` is the
position in `thread_func()`, `call` the position in `submit_next_io_pooled()`,
which the loop's batch (`Batch`) and the callback (`Complete`) enter.

| Action | Code |
|---|---|
| `SubmitDeclined`, `Acquire`, `Generated`, `GenerateFails`, `NamespaceGone`, `Accepted`, `Rejected` | the parts of `submit_next_io_pooled()` between its early returns |
| `Complete(o, saturated)` | `xcopy_complete_cb_pooled()` for the operation `o` |
| `Begin`, `Iterate`, `Batch`, `PollReturns`, `PollFails`, `Deleted` | the start and the loop of `thread_func()` |
| `CreateQpair`, `Connected`, `ConnectFails` | `reconnect_qpair()` |
| `DrainPoll`, `DrainEnds`, `Exit` | the end of `thread_func()` |
| `Stop` | `should_stop` set by `PollThreadManager::stop()`, at any moment |

`inflight` and `qpairs` belong to SPDK: the commands not completed yet and the
qpairs allocated. Completions arrive in any order, with any status, only inside
polls and inside the deletion of the qpair; a qpair that is being freed accepts
no command. `buffers` holds the operations whose DMA buffer is still allocated:
`GenerateFails` removes one, because the destructor of the temporary operation
frees the buffer it borrowed. What a program does after using freed memory
is undefined; the model goes on with the same control, since the contents of the
descriptors decide nothing in the worker and DPDK reports a second free of a
block and ignores it. The pool may hand out any free operation, which
`OperationPool` justifies (`NeverStarved`).

`poller_func()` is not modelled: nothing registers it. Idle sleeps, CPU affinity,
admin polls, time and statistics are left out: they decide nothing.

`WorkerContract` is what the rest of the program may assume of a worker: it
submits only while it runs and has a qpair, gives up a qpair only with every
command settled, and ends only when told to, but then possibly with commands
in flight. `Worker` implements it (`KeepsContract`).

### `Statistics`, `MCStatistics`

The object every worker's callback records into, as the record `stats` with the
fields of the code. `Begin` is the call of `record_completion()` or
`record_failure()` for one of a few commands; `CountCompletion`, `CountBytes`,
`CountLatency`, `CountFailure`, `Classify`, `CountCode` are the additions;
`LoadExtreme`, `KeepExtreme`, `ExchangeExtreme` and `ExchangeFails` are the two
exchange loops, parameterised by the cell; `DrawSlot`, `StoreSample` and
`CountSample` are `LockFreeLatencyBuffer::record()`; `GetSamples` is `get_samples()`, as a
function on the slots it takes, since nothing depends on the order of its vector. A failure is classified by
its status code alone, without the type, as the callback passes it. `Report`
is `get_snapshot()` into a new object: it happens after the join, when no worker is
inside a callback, so that it is one step. `log` is a history variable: the
events in the order in which their recording began. Additions are atomic in the code
(`fetch_add`, or under the mutex of the error counter), and the order of one
worker's accesses to different cells, which relaxed accesses do not fix, decides
nothing in the properties about the end.

### `Configuration`

The options as a record with the defaults of `Config`. `Parsed` is what
`parse_args()` makes of the numbers given: the 32-bit fields wrap silently at
`Wrap32` (2^32 in the code), and the destination is the default source. `Accepted` is
`validate()`. `PerThreadDepth` is the depth that `start()` computes for a worker: an
equal share, raised to four, cut to the controller's limit and to 1024. The module
has no state; `Generator` and `SpdkContext` take their options from it.

### `Generator`, `MCGenerator`

Several workers generate commands over one cursor, one step per call that matters.

| Action | Code |
|---|---|
| `Submit` | the worker has room and enters `submit_next_io_pooled()` |
| `Draw`, `DrawFails` | `generate()` up to the reservation: number of ranges, source namespace, source LBAs with their clamp, and the tests on them |
| `Reserve` | `get_and_advance_dst_lba()` and the tests after it: end of the namespace, overlap of source and destination |
| `Retry` (in the two above) | the loop of `submit_next_io_pooled()` around `generate()` |
| `Issue`, `Refused` | `spdk_nvme_ns_cmd_copy()` accepts the command or not |
| `Complete`, `CompleteResetting` | the callback; with status code 8 it calls `reset_dst_lba()` |

Everything `generate()` draws is a free choice, which also covers a random engine
whose state the workers corrupt, as they share it without a lock. A reservation and a
reset are one step, which is what `AtomicLba` promises and `LbaManager` is proved to
implement. `lapped` is a history variable on commands: the cursor has been at the
start of the range since their reservation. The namespaces and their sizes are the constant
`NsSize`; a namespace that does not exist has size 0, which is what the context reports
for it. In the descriptors a range has no namespace, so `Issue` records the
destination as the namespace that is read.

### `SpdkContext`

The variables of the context and the steps of `SpdkContext::init()`: `InitEnv`,
`InitLibrary` (without a thread library the program goes on with plain threads),
`CheckTransport`, one `Probe` per address, answered or skipped, and `EndProbe`;
`Cleanup` is `cleanup()`. `Lifecycle` extends the module and composes each of these
with the position of `main()`.

### `Lifecycle`, `MCLifecycle`

`main()` from the parsing of its options to its exit, with `pc` for its position;
the workers take the steps of `WorkerContract`, and `WorkersWithinContract` checks
that. `ParseArgs`, `ParseFails`, `InitContext`, `InitFailed` and `FindNamespace` come before the
workers. `start()` is `InitPool`, `CreateQpair`, `QpairRefused` or `NoQpair`, `Spawn` or
`ConnectFails` for each worker, then `Started`; `Candidate` is the controller it asks
next, round-robin and going on after a refusal, and `Depth` the depth it gives each
worker. `StartFailed` is the return
of `main()` after a failure, with the destructors. `Stop`, `Join` and
`FreeContexts` are `stop()` and `wait()`. `Signal` may come at any time once the
handlers are installed, also before `Arm`, where `main()` sets `g_running` again and
forgets it. A run with `runtime_sec` 0 ends only by a signal (`Timed`).
A worker that has lost its qpair can reconnect while its controller is attached.
After a failed `start()` has deleted the qpairs of running workers, those
workers use freed memory; the module does not follow them there, and
the properties about qpairs are stated for starts that succeed.

## 3. The runs

| Run | Instance | States | Shows |
|---|---|---|---|
| `pool` | 1 or 2 threads, 4 slots, counter of 6 values, 2 operations per thread | 775,058 | one owner per operation, flags that tell the truth, contexts intact; every `acquire()` returns, and with one thread never uses all its attempts, across the wrap too |
| `lba` | 2 threads, 4 blocks, 64-bit wrap at 16, requests of 1 and 3 blocks, 3 ranges | 151,029 | disjoint reservations, inside the range; lock-freedom; each call atomic |
| `worker` | depth 2, 4 operations, batch of 1, every other limit 2 | 86,738 | exact accounting, contract, termination, no stall |
| `worker_buffers` | depth 1, 2 operations | violation | a command whose descriptors are in freed memory |
| `statistics` | 2 workers, 4 commands, 2 latencies, 3 statuses, a buffer of 2 samples | 289,682 | exact counters, extremes and samples |
| `statistics_report` | 1 command | violation | a report without samples |
| `generator` | 2 workers, depth 1, namespaces of 5, 3 and 0 blocks, 8 configurations, 2 attempts, 64-bit wrap at 16 | 43,786 | descriptors and sources within bounds; commands that fit inside the range, disjoint from their sources and from each other; a worker gets a command if there is one |
| `generator_bounds` | 1 worker, start 14, namespace of 5 blocks, 64-bit wrap at 16 | violation | a command beyond the end of its namespace |
| `generator_cross` | 1 worker, copies from namespace 2 to 1 | violation | a command that reads another namespace than it was drawn for |
| `lifecycle` | up to 3 workers, 2 controllers, 7 sets of options, 3 controller limits, 32-bit wrap at 4096 | 50,935 | nothing in use is freed; workers spread; contract; shutdown ends |
| `lifecycle_start_failure` | 2 workers | violation | workers that are joined but never told to stop |
| `lifecycle_drain_limit` | 2 workers | violation | a pool deleted under commands in flight |

### Why the bounds are enough

* Pool: with two threads that hold up to two operations each, four slots may all be taken,
  so that draws are lost and `acquire()` runs out of attempts (`ReturnNull` fires). Six
  counter values for four slots make the wrap irregular, as 2^32 is for the sizes
  `start()` uses: across it the slots drawn are 0, 1, 0, 1. One thread holds at most one
  operation when it calls `acquire()`, so that the second of these draws finds a free slot.
* LBA manager: a request of 3 blocks does not fit in the range of 2, fits once in
  the namespace of 4, and forces a wrap; the range `<<15, 9>>` starts at the last
  64-bit address and ends beyond the namespace. Two threads suffice for a lost
  exchange; a third adds another loser of the same race.
* Worker: each limit (batch, retries, errors, attempts, drain, cap) is small
  enough to be reached, and the batch limit is below the depth. The proofs
  cover all other values.
* Statistics: with two latencies each worker can lose the exchange to a better and
  to a worse value; four commands go round the buffer of two samples twice.
* Generator: the eight configurations are the whole namespace; a part of it that one
  command may exceed; its last block, with a fixed number of ranges; sources in a
  smaller and in a missing namespace; a start near 2^64, where sums wrap (alone in
  `generator_bounds`);
  a range longer than a descriptor can say, and one longer than the namespace; and one that
  `validate()` refuses. Two attempts are enough to see one rejected and the next
  granted, and both rejected. Two workers with a command in flight each and one being generated make
  every pair of commands the properties compare.
* Life cycle: with three workers a failure at the last one leaves two running, and with
  two controllers one serves two of them; a refusal moves a worker to the other. The
  options include a depth below four per worker, one above 1024 per worker,
  no limit on the time, and numbers that are valid, or refused, only once they have
  been narrowed. The controllers report a limit of 0, a low and a high one.

Each property of a passing run is also run against a faulty variant of the
code's model that breaks it; the variants stand next to the definitions they
replace ("A faulty variant of ...") and are listed in `PROJECT.json`.

### Fairness

* `OperationPool`: a thread inside `acquire()` keeps executing (weak fairness per
  thread). Nothing is assumed of callers.
* `LbaManager`: a thread inside a call keeps executing, and some
  exchange that could succeed infinitely often does: a weak exchange fails
  spuriously now and then, not for ever. No single thread is promised success, so
  that only lock-freedom is claimed (`SomeCallReturns`), not that every call returns.
* `Worker`: weak fairness on the steps of the thread (`Thread`): it runs, SPDK's
  functions return, and freeing a qpair aborts its commands. Nothing is assumed of
  the device: it may never complete a command, and `StopEndsThread` holds
  nonetheless, thanks to the limit on the drain. `IdleWorkerResumes` carries its own premise: if generation and
  acceptance, when possible again and again, happen eventually.
* `Generator`: weak fairness on the steps of a submission, and strong fairness on
  drawing sources that are clear of the destination range: draws are random, and one that
  is possible again and again is made. Nothing is assumed of the device. `ClearSourcesSucceed` then
  says that generation succeeds in the end, the part about generation of the premise of
  `IdleWorkerResumes`. It does so only while one of the source ranges that may be
  drawn is clear and fits. In the default range, the whole namespace, none is clear of it,
  and the property says nothing.
* `Lifecycle`: the main thread runs, and a worker that is told to stop exits,
  which is `StopEndsThread` of `Worker`.

## 4. Findings

1. **A pooled buffer is freed by a failed generation** (`worker_buffers`). After the
   tenth failure of `generate()`, `submit_next_io_pooled()` returns while `temp_op`
   still points to the operation's DMA buffer, and `~XcopyOperation` frees it. The
   operation goes back to the pool and is used again. The comment some lines below,
   "Don't free temp_op.ranges - it points to pooled buffer", says what
   was meant; clearing `temp_op.ranges` before the `return` would do it.
2. **Reports show no percentiles and no errors** (`statistics_report`).
   `get_snapshot()` copies the samples to `latency_samples`, which nothing reads,
   and not to `latency_buffer`, from which `get_percentile()` and `get_std_dev()`
   of the snapshot compute; it does not copy `error_counter` at all. Both reports
   therefore print 0 for P99, P99.9, P99.99, the deviation and the errors.
3. **`start()` fails, and the program hangs** (`lifecycle_start_failure`). Workers that
   already run are never told to stop, since `stop()` looks at `running_`, which only
   a complete `start()` sets; the destructor then joins them for ever.
4. **The drain may leave commands behind** (`lifecycle_drain_limit`). After 10000 polls
   (about a second) the worker ends, `wait()` deletes its pool, and detaching the
   controller later completes the commands into the deleted pool. The qpair
   is not deleted before the pool, because the thread has cleared `ctx->qpair`.
5. **A cross-namespace copy reads the destination namespace** (`generator_cross`).
   `generate()` draws a source namespace, takes its size for the bounds and skips the
   overlap test, but the descriptors it fills carry block addresses and lengths only, and the
   command is sent to the destination namespace, which is where the device reads.
   With `--enable-cross-ns` a command may thus also overlap itself.
6. **A command may be sent beyond the end of its namespace** (`generator_bounds`). Under
   "Validate destination bounds" `generate()` compares `dst_lba + total_blocks` with the size
   of the namespace, but the sum wraps at 2^64, and nothing compares `--dst-lba-start` with
   the namespace: only the end is capped. With a start less than a command below
   2^64 the sum wraps in the cursor too, which grants the start, and the command is sent
   there. A start beyond the namespace without a wrap is caught, command by command.
   Checking the start once, or comparing without a sum, would do.

Three more disagreements between the code and its documents have no run of their own:

* "Maximum global I/O depth" (README.md:124, `config_manager.cpp:133`, `config_manager.h:20`):
  every worker gets at least four, so that `--iodepth 7` over two cores gives eight. The
  theorem `LifecycleGlobalDepth` says that this is the only case.
* "Graceful handling of saturation errors (0x807, 0x189)" (README.md:15), and the same values in
  `error_handler.h:13-14`: the callback passes on the status code without its type, 8 bits of
  these 12. `is_saturation_error()` masks them alike, so that the worker's handling is right,
  except that codes of another type are taken for them. But `is_fatal_error()`
  looks for the type in bits that are always 0, and the counts the reports ask
  for by 0x0807 and 0x0189 (`json_reporter.cpp:67-69`, `118-119`) can only be 0. Finding 2 hides
  that: a report has no error counts at all.
* "this ordering ensures that readers see consistent bounds even during concurrent updates"
  (`lba_manager.cpp:115-116`): it does not, as said of `AtomicLba` above. The
  program never calls `set_dst_range()`.

## 5. The proofs

Eight modules of proofs establish what follows with TLAPS, for every value of the
constants that satisfies the modules' assumptions:

| Assumption | Says |
|---|---|
| `PoolAssumption` | positive sizes |
| `WorkerAssumption` | twice as many operations as the depth; positive batch, retries and errors |
| `StatisticsAssumption` | latencies between 0 and the largest value, exclusively |
| `LbaCursorAssumption`, `LbaManagerAssumption` | a namespace of at least one block and below 2^64; requests of at least one block, whose sum with the size of the namespace does not wrap; starts and ends of any 64-bit value |
| `GeneratorAssumption` | twice the namespace is below 2^64; the destination exists and has that size; options of their types |
| `ConfigurationAssumption`, `SpdkContextAssumption`, `LifecycleAssumption` | `uint32_t` holds more than 2048 values; numbers are natural; no input asks for more workers than there are names for |

* **Pool** (`OperationPoolProofs`): `TypeOK`, `ExclusiveOwnership`, `FlagsMatchOwners`, `ContentIntact` and
  `NeverStarved`. The inductive invariant `Inv` adds `SlotsInvariant` (a thread that
  fills an operation holds it; a claim is one of the allowed attempts) and
  `PhaseInvariant` (the buffers allocated so far are those of the first slots). Exclusive
  ownership alone is not inductive: a claim is safe
  because the flag says that nobody owns the slot, which is `FlagsMatchOwners`, and
  that one needs ownership to be exclusive when an operation is released.
  `NeverStarved` is about one thread that uses the pool alone and holds fewer than half of the
  slots when it calls, as a worker does, and the theorem asks for a counter that does not
  wrap twice within a call (`PoolSize <= IndexSpan`). `DrawsInvariant` says that every slot
  drawn in this call was in use and still is. `PoolSize` draws cover at least half of the
  slots, since the draws before the wrap differ from each other and so do those after it;
  all of these would have to be held.
* **Worker** (`WorkerProofs`): `TypeOK`, `PoolAccounting`, `PoolSuffices`, `OutstandingExact`,
  `QpairAccounting`, `SettledBeforeReconnect`, `DeferredBounded`,
  `NoSubmissionAfterLoop` and `KeepsContract`, the refinement of `WorkerContract`. The
  inductive invariant adds `CallInv` (which operation a submission holds and that the
  depth leaves room for it: between the callback that makes room and the submission
  that takes it nobody else submits), `ControlInv` (where the thread has a qpair
  and has been told to stop) and `DeferredInv`. The bound on `deferred_count` is not
  due to the cap of 100 in `handle_backpressure_pooled()`, which the callback ignores.
  It holds because deferrals and commands in flight together never exceed the
  depth: a saturated completion turns a command into a deferral, and a
  submission under way has strict room, having taken a deferral back or found
  none. That a step preserves
  the invariant is split into the lemmas `SubmittingShape`, `CallbackShape`,
  `LoopShape` and `OtherShape`, and `NextCounts` for the cardinality of the commands
  in flight.
* **Statistics** (`StatisticsProofs`): `TypeOK` and `ExtremesExact`, for any number of workers, commands and
  samples. The inductive invariant adds `JobInv` (a worker records an event of the
  kind its access belongs to) and `SeenInv` (the local copy in a loop is no better
  than the cell). `SeenInv` is what a worker needs that leaves a loop without
  exchanging: its latency is no better than its copy, hence no better than the
  cell. A step is one of four shapes (`StepShape`): the start of a recording, an
  exchange, leaving a loop, or anything that touches neither cell.
* **Statistics, the counts** (`StatisticsCountProofs`): `CountersExact` and `SamplesExact`,
  for any number of workers, commands and slots, and what the report contains. The
  properties speak of the moments at which no worker records, while the invariant must
  speak of all. `CountersInv` says of each counter that it is the count, or the sum, over the
  events whose recording has passed the counter's access (`Done`), and
  `JobsApart` that no two workers record the same event, so that a step moves
  one event past one access. `SamplesInv` gives every sample in the buffer an
  owner, a completion that is past its store; no two samples have the same one. A sample
  that is overwritten, by a slow writer too, only loses its owner. A slot
  that was drawn holds a sample or is about to be written, so that nothing is missing when the workers are
  quiet. The sums are folds of the community modules over finite sets, where induction is
  out of the prover's reach. `SumRemove`, `SumAdd` and `SumSame` are proved by a smallest
  counterexample instead, which the well-foundedness of the subsets of a finite
  set provides (`SmallestSet`).

* **LBA manager** (`LbaCursorProofs`, `LbaProofs`): `TypeOK`, `GrantsInRange`,
  `LapDisjoint` and `RefinesAtomic`, for any number of threads, any namespace and any
  range, empty or reversed or beyond the namespace. `LbaCursorProofs` has the arithmetic: a
  cursor inside the range stays inside, a request that fits is granted
  inside, and nothing wraps on the way. The inductive invariant of `LbaManager` adds `LocalsInv` (the bounds a
  thread has read are the bounds), `QuietInv` (`set_dst_range()` is alone, and what it has
  stored so far), `CursorInv` (the cursor is in the range) and `LapInv` (the grants of the
  lap that fit lie one behind the other, and the cursor behind the last). `LapDisjoint` alone is not
  inductive: a new grant is disjoint from the old ones because it begins at the
  cursor. A thread's copy of the cursor may be stale, and the exchange is what
  makes it current. In the refinement a call takes effect with its exchange or store, and all
  other steps stutter; `StartBar` and `CurrentBar` are the start and the cursor once the
  stores under way are done.
* **Generator** (`GeneratorProofs`): `TypeOK`, `CommandsInBounds`, `NoSelfOverlap` and
  `DestinationsDisjoint`, for any number of workers, depth, retries, namespaces and
  options. `CommandsInBounds` limits the destination of commands that fit in the configured
  range; a larger one is placed at the start of the range and may reach beyond its end, up to
  the end of the namespace, or beyond that (finding 6). `NoSelfOverlap` is about commands whose
  sources are drawn in the destination namespace, as all are without `--enable-cross-ns`;
  finding 5 has the others. The inductive invariant adds `RangeInv` (the options were
  accepted, and the cursor is in the range unless that is empty), `DrawnInv` (what a worker has
  drawn lies in its source namespace and fits the buffer, and what it submits passed
  the tests), and `HeldInv` (a command of this lap that fits lies in the range, and behind the
  cursor unless the cursor is at the start). The lemma `Carried` covers every step that only
  moves commands from the generation to the queue, drops them, or marks them as of an
  earlier lap: it disturbs neither `HeldInv` nor the disjointness. What remains is
  `Reserve`, by the facts about the cursor.
* **Life cycle** (`LifecycleProofs`): `TypeOK`, `PoolHeldWhileRunning`, `QpairValid`,
  `DetachedAfterJoin` and the limits of the depth (`LifecycleGlobalDepth`), for any number of workers and addresses
  and any options. The inductive invariant adds `StartInv` (which workers have been started
  at each position of `main()`), `ContextInv` (from `init()` to the last `cleanup()`
  there is a controller, and the thread library if it is used) and `WorkerInv` (what a
  worker has at each of its phases, if `start()` has not failed).
  `DetachedAfterJoin` needs the first: a thread that `threads_` does not contain would not
  be joined. `WorkersSpread` follows from `SpreadInv` (the
  controller of each worker while nobody has refused a qpair) and the lemma `Balanced` (of
  the first numbers, as many have one remainder as another, or one more);
  `WorkersWithinContract` follows from `SettledInv` (a running worker without a qpair has nothing in
  flight). `KeepsContract` and `WorkersWithinContract` compare `Worker` and `Lifecycle` with the
  one contract: every step of `Worker` is one of the contract, and so is every step
  that `Lifecycle` makes for a worker. The converse of the second, that `Lifecycle` allows a
  worker all that the contract does, is not stated by any property: the steps of its
  workers have the guards of the contract, but a worker reconnects only while its controller is
  attached, submits only to a qpair that a failed `start()` has not deleted, and a
  command that outlives its thread stays in flight.

The promises that the six runs of section 4 show broken are not lost altogether.
Theorems say when they hold:

| Theorem | The promise holds |
|---|---|
| `StatisticsReportFaithful` | of a report, `ReportFaithful`, exactly if no command has ended; `StatisticsReportCounts` says that what the report does contain, counters, sums and extremes, is right |
| `LifecycleStopReachesThreads` | of a shutdown, `StopReachesThreads`, unless `start()` has failed |
| `LifecyclePoolOutlivesCommands` | of a shutdown, `PoolOutlivesCommands`, if no thread ends with commands in flight (`Drained`), whatever else fails |
| `GeneratorDestinationInNamespace` | of a command, `DestinationInNamespace`, if the configured start is not within the size of the namespace of 2^64, in particular if it is a block of the namespace |

`Drained` is a condition on steps, and stands in the theorem as `[][Drained]_vars` next to
`Spec`. The other two need no theorem: only a generation that fails for good frees a
buffer (`GenerateFails`, against `CommandsBacked`), and every command reads the destination
(`Issue`, against `ReadsChosenNamespace`), which is right when it was drawn for it.

All safety invariants and action properties that the passing runs check are proved, and so are
the refinements `RefinesAtomic` and `KeepsContract`. Model-checked only are the liveness properties, with lock-freedom
among them: `AcquireReturns`, `SomeCallReturns`, `StopEndsThread`, `IdleWorkerResumes`,
`ClearSourcesSucceed` and `ShutdownTerminates`. They rest on fairness and
`ENABLED`, which are beyond the prover.

## 6. What is not modelled

* The live monitor: it prints rates, the differences of two readings of counters that only
  grow, and an average of a sum and a count read at different moments, which is
  inexact by nature. Nothing depends on it.
* The timer, which reads a clock, and the build and container files.
* Formatting of reports and logs, the names of errors, percentiles, deviations and rates
  as arithmetic on the samples and counters.
* How `getopt_long()` splits the command line into options: the model begins with the
  numbers it finds, and with the failure to find any.
* What a program does after it has used freed memory.
* `poller_func()`, `reset()` of the statistics and of the errors, `get_all_errors()`, and
  the copies of an `XcopyOperation`: nothing calls them.
* Weak memory: atomics are interleaved sequentially consistently. The relaxed accesses of the
  cursor and of the counters are to one cell each, or are read after the join.

Open: `Generator` over `LbaManager` itself rather than over its abstraction. The
refinement is proved, but no single run interleaves the reservations and callbacks of
one worker with the separate accesses of another. Such a product has not been built.
