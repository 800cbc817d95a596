# Verification of the NebulaStream worker

NebulaStream is a task-based stream processing engine. A worker process runs queries: sources read data into tuple
buffers and submit tasks, worker threads execute the tasks against the pipelines of a running query plan, and sinks
write the results out or send them over network channels to other workers. A frontend places a query on several workers.
This directory holds TLA+ models of the concurrent and distributed parts, TLC configurations that check them on small
instances, and TLAPS proofs.

## The system and its parts

| part | code | what makes it hard | modules |
|---|---|---|---|
| task queue | nes-query-engine/TaskQueue.hpp | a write and its release, and an acquire and its reads, are separate steps of many threads | `TaskQueue` |
| thread pool | QueryEngine.cpp, Task.hpp, DelayedTaskSubmitter.hpp | shutdown of three kinds of threads while tasks still produce tasks | `ThreadPool` |
| callback | Callback.cpp/.hpp | cancelling from any thread, the executing one included | `Callback` |
| query catalog and listener | QueryEngine.cpp | three locks, callbacks that run on any worker | `QueryLifecycle`, `QueryStart` |
| running query plan | RunningQueryPlan.cpp/.hpp | destruction drives progress: the deleter of a node emits the task that stops it | `QueryStart`, `RunningPlan` |
| running source, source thread | RunningSource.cpp, nes-sources/src/SourceThread.cpp | back pressure at four places, stop races with each of them | `SourceThreads` |
| buffers | nes-memory/ | concurrent counting, parents and children, a manager that the last buffer may destroy | `BufferManager` |
| network sink, back pressure | nes-sinks/src/NetworkSink.cpp, BackpressureHandler.cpp | one retry stands for all kept buffers, on several workers | `NetworkSink` |
| network service | nes-network/network (Rust) | connections lost at any moment, handlers that are replaced | `NetworkChannel`, `LossyFifo` |
| sequencing, watermarks | nes-common/include/Sequencing, MultiOriginWatermarkProcessor.cpp | lock-free queue, relaxed atomics | `SequenceQueue` |
| windows | nes-physical-operators: slice store, window operators | try-locks that skip work, slices used without owning them | `WindowStore`, `SliceAssigner` |
| spanning tuples | nes-input-formatters | exactly one of two threads may process a tuple; a ring that wraps around | `SpanningTuples` |
| query manager, query log | nes-frontend, nes-distributed, nes-single-node-worker, nes-runtime | part of the workers failing, lost replies, start and stop overtaking each other | `QueryManager` |

How they interact: a `SourceThreads` source takes a buffer from the pool (`BufferManager`), and submits one WorkTask per
successor to the `TaskQueue`, which the `ThreadPool` reads. The tasks flow through the graph of `RunningPlan`; the first
stage formats raw bytes (`SpanningTuples`), window stages use `WindowStore` on top of `SequenceQueue`, and a sink may send
over a `NetworkChannel`. `QueryManager` starts and stops the whole on every host, through the catalog whose promise is
`QueryLifecycle`. `ThreadPool` takes TaskQueue's steps one by one, `QueryStart` contains `Callback`,
`NetworkSink` extends `NetworkChannel`, `WindowStore` extends `SequenceQueue` and `SliceAssigner`; the other seams
are by abstraction, named below.

## Modules

* `TaskQueue` models TaskQueue.hpp. `admission`, `internal` and `tasksAvailable` are the two queues and the semaphore; `pc`
  says where a thread is inside a call. `WriteAdmission`/`WriteInternal` and the `Release` that follows are the two
  steps of an add; `Acquire`, then `ReadInternal` or `GiveUpOnInternal`, then `ReadAdmission` are those of a read. The
  folly queues are external and taken to be linearizable FIFOs; a timeout of `tryWriteUntil` is a stutter.
* `ThreadPool` models addThread, handleTask, the repetition and delaying of tasks, DelayedTaskSubmitter, ~QueryEngine
  and ~ThreadPool. A task is at one place at a time: a queue, a worker, the delayed set, the submitter's hand, or
  completed. Deadlines are abstracted: a delayed task may be due at any time. What the task does is nondeterministic
  (emit successors, repeat, complete). Its steps on the queue are those of `TaskQueue`, instantiated as `TQ`.
* `Callback` models Callback.cpp: `guards` is the counter, `holder`/`born` the references, `executor` the recorded
  thread id, `at` where a thread is in tryExecute or cancelAndWait, `owner` the life of the CallbackOwner.
* `QueryLifecycle` is the abstract specification: the states Reserved, Starting, Running, Stopping and Terminated of
  QueryEngine.cpp and the transitions between them that the code's comments describe.
* `QueryStart` composes `Callback` with the catalog, the lifetime listener and the running plan while a query starts.
  `step` is the next statement of each thread; `stateLock`, `catalogLock` and `internalLock` are the three mutexes;
  `refs` and `node` the reference counts and lives of the pipelines. The start task of each pipeline runs on a thread
  of its own. `Starter`, `Stopper`, `Failer` and `Terminator` run StartQueryTask, StopQueryTask, FailSourceTask and
  ~QueryEngine; `Reaper` stands for whichever worker destroys the last node. After `DanglingPlan`, the step in which
  the setup callback would lock a destroyed plan, the behaviour is undefined and the model claims nothing more.
* `RunningPlan` models a query that runs: WorkTasks, StopSourceTask, PendingPipelineStopTask, StopPipelineTask and the
  node deleter over an arbitrary acyclic graph `Successors`. `References` counts the strong references of a node from
  the edges, the tasks and the cleanup closure that hold one. `Fail` takes onFailure as one step; `QueryStart` has its
  grain.
* `SourceThreads` models dataSourceThread, the emit function of RunningSource, attemptUnregister with its retries,
  ~RunningSource and the back pressure channel. `pc` is where a source thread is; it can wait for the channel, for a buffer
  of the shared pool, for the semaphore `available` and for room in `admission`. The stop callback that
  releases a token is registered from `Register` to `Leave`, the end of its scope, which comes after the test of the stop
  token (`Check`). `job` is what a worker does: execute or
  fail a task, stop a source, stop a query under `catalogLock`, release its reference to the source and join it if that was
  the last one. Reads of the task queue are single steps, and a StopSourceTask to be repeated may come back at any time.
* `BufferManager` models the pool, BufferControlBlock and UnpooledChunksManager. `refs` is the atomic counter, `held` and
  `children` the objects that should account for it, `recycler` the control blocks that hold a shared_ptr to the manager.
  A release is a stack of frames, `releasing`, because releasing a parent releases its children: count down, release the
  children, take the shared_ptr, recycle (pooled: back to the queue; unpooled: under the lock of the chunk's owner, then
  deallocate, then refund the budget), drop the shared_ptr. The lock is held over the budget steps of its owner.
  Children may have children, and a parent may be shared when a child is stored; the model stores a buffer at most once in the
  same parent, as the repository's callers do.
* `NetworkChannel` models one channel: the sender's control handler and its registration, the receiver's table of open and
  registered channels, the data connection, both channel handlers with their select branches as separate actions, flush,
  close, and what a lost connection leaves. `queue`, `pendingWrites`, `encoded` and `waitForAck` are the sender's four
  places of a buffer. A lost connection takes away any suffix of what is under way in each direction.
* `NetworkSink` adds NetworkSink::execute on several workers, BackpressureHandler (`buffered`, `pending`, `hasBackpressure`)
  and stop with its repeated flush. The engine is a set of tasks; a repeated task comes back at any time.
* `LossyFifo` is the channel's abstract specification: at most once, in order, possibly with gaps.
* `SequenceQueue` models ChunkCollector, NonBlockingMonotonicSeqQueue and MultiOriginWatermarkProcessor. The two relaxed
  stores of an entry are separate steps, as are the two compare-exchanges of a shift and the reads of several origins; a
  lost compare-exchange is another round.
* `SliceAssigner` has the three functions of SliceAssigner.hpp and a reference definition, `ContainingWindows`.
* `WindowStore` models DefaultTimeBasedSliceStore and its callers in the build and the probe operators: find or create a
  slice, register it with its windows, insert, update the watermark, try to lock and trigger, emit, probe, garbage-collect,
  and the end of the build pipelines. Records are their timestamps.
* `SpanningTuples` models trySetNewBufferWithDelimiter and its sibling, searchLeading, searchTrailing,
  tryClaimSpanningTuple and the taking of buffer references, per entry of the ring. `delimited`, which buffers have a
  delimiter, is chosen in the initial state; buffer 0 is the shredder's dummy.
* `QueryManager` models QueryManager::start, stop and status, DistributedQuery::getGlobalQueryStatus, the submission
  backends, SingleNodeWorker, NodeEngine and QueryLog. A call fails before or after it took effect; a worker may crash and
  comes back without its queries. The engine's part is what `QueryLifecycle` allows, with the tasks of a worker started
  in order by `WorkerThreads` threads and therefore not always finished in order.
* `ThreadPoolProofs` (also of `TaskQueue`), `CallbackProofs`, `WindowStoreProofs`, `BufferManagerProofs`, `RunningPlanProofs`,
  `SourceThreadsProofs`, `QueryManagerProofs`, `SpanningTuplesProofs`: theorems and proofs. `MC*`: instances for TLC.

## What the runs check

| run | instance | states | shows |
|---|---|---|---|
| task_queue | 2 outside threads, 2 workers, delayer, 3 tasks, capacity 2 | 1,519 | `IInv`: the comment of TaskQueue.hpp:40, tokens match elements, spinning readers find a task; no lost wake-up: `InternalTasksAreRead`, `AdmittedTasksAreReadWhenQuiet` |
| thread_pool | 2 workers, 3 tasks, capacity 1, 1 repetition | 136,058 | `NothingLeftBehind`: the inductive invariant `IInv`; each task is at one place, the delayer is quiet after shutdown, the drain is complete; `ShutdownTerminates`; `EveryTaskCompletes`: no wake-up of a worker or of the submitter thread is lost, with or without a shutdown |
| callback | 3 threads, 3 references | 926 | `IInv`: the guarantees of Callback.hpp:32-38; `CancelReturns`, `CallbackIsNotForgotten` |
| query_start | 2 pipelines, failing starts, failing source, stop request, ~QueryEngine | 31,427 | `StartIsOrderly`: the INVARIANTs of QueryCatalog::start, order of the log, no source outlives its query; `SetupFindsItsPlan`; `EveryThreadFinishes`; refinement of `QueryLifecycle` |
| running_plan | join of 2 sources, 3 pipelines, 2 tasks, 1 repetition | 205,577 | `GracefulEndLosesNothing`, `NodesLiveLongEnough` (a stage is not executed once it stops, a predecessor keeps its successors); `QueryTerminates`, `NodesAreDestroyed` |
| source_threads | 1 source with 2 successors, 2 workers, 2 buffers, 1 buffer in flight, capacity 1, 2 stop requests | 13,582 | `SourcesKeepOrder`: the limit of buffers in flight holds also during a stop and the end of stream comes last; `StopEndsTheSource`, `EndedSourcesAreJoined` |
| buffers | 2 threads, 1 pooled and 2 unpooled segments, 2 chunks of 2 segments, budget 2; symmetric | 692,288 | `CountIsExact`, `ChunksOutliveTheirSegments`, `BudgetIsKept`, `DestroyFindsAllBuffers` (the INVARIANT of BufferManager::destroy) |
| spanning_tuples | 2 workers, ring of 4, 5 buffers, every placement of delimiters | 201,862 | `EachTupleOnceAndWhole`, `NoTupleIsMissed`, `RingIsSound` (the INVARIANTs of the ring, also SpanningTupleBuffer::validate), `EveryBufferIsFormatted` |
| windows | 2 workers, blocks of 2, windows of 4 sliding by 2, 5 chunks of 2 origins | 322,052 | `NoShiftIsLost` (the watermark advances past every gap that closes), `NoRecordIsLate`, `TriggeredOnceInOrder`, `ProbesFindTheirSlices`, `EveryWindowIsProbed`; before it starts, that slices make up their windows for all sizes and slides up to 5 |
| network | 3 buffers, 2 workers, queues of 1, window of 2, thresholds 1 and 0, 1 lost connection | 550,016 | refinement `ImplementsLossyFifo`; `KeptBuffersAreRetried`, `FlushedIsDeliveredWithoutLoss`, `SinkEnds` |
| query_manager | 1 query on 2 hosts, 2 worker threads each, 2 faults, 2 stops | 82,825 | `NoQueryIsForgotten`, `StopEndsTheQuery`, `CallsReturn` |
| query_start_stopped | as query_start, a stop request only | | a counterexample, see below |

Bounds. Two workers are enough for every race between a reader and another reader; capacity 1 or 2 makes the admission
queue full; three tasks let one be handled while one is queued and one is delayed. With one buffer in flight and two
successors a source waits for its semaphore in the middle of a buffer. Two pipelines are the fewest for
which one start can fail when another one has succeeded. A join is the smallest graph with a shared successor. One
repetition distinguishes a task that keeps its callback from one that hands it on. Three
segments make a parent, a child and its child. With a budget of two both threads can have a chunk, and a charge is refused while
another one, or a refund, is under way. Five buffers in a ring of four make an entry's second
turn meet its first. A block of two makes the watermark queue cross blocks, and the left origin's first number has two chunks.
Queues of one are full as soon as one buffer waits, so the sink keeps the others, and two of the three
buffers share a sequence number. Two faults let the unwinding of a failed start fail too.

Deadlock checking is off where the system legitimately stops: a callback that has been used, a query that has ended, a
thread pool that is gone, a finite stream that was processed. Where stopping early would be a fault, a liveness property
of the run says so. It is on for the task queue.

### Disagreements between the code and its comments

`query_start_stopped` has a counterexample to an assertion. A stop request that finds a query Starting cancels its setup
callback, so nobody logs Running, and then Stopped is logged. SingleNodeWorker::getWorkerStatus
(SingleNodeWorker.cpp:198) insists that a stopped query has a running time stamp.

Other properties hold with an exception that the property names, because the code does less than a comment next to it says:

* `SetupFindsItsPlan`, except for a stop request: RunningQueryPlan::stop moves the owner of the setup callback into the
  cleanup closure; the plan is destroyed when stop returns and the closure waits for the callback only later. A callback in
  between locks a mutex that no longer exists, although RunningQueryPlan.cpp:222 says the reference is guaranteed to be
  alive.
* `EveryThreadFinishes`, except `SetupIsAwaitedUnderItsLock`: ~RunningQueryPlan (RunningQueryPlan.cpp:331) waits for the setup
  callback while holding the lock that callback takes first, and QueryCatalog::clear then does not return.
* `StopEndsTheSource` and `EndedSourcesAreJoined`, except `WorkersAreStuck`: emitWork waits for room in the admission queue
  with an empty stop token (QueryEngine.cpp:324, likewise 367 and 381). Workers that join such threads, or wait for the
  catalog's mutex that one of them holds, do not read the queue. TaskQueue.hpp:68-69 and RunningSource.cpp:73 expect the stop
  token to end the wait.
* `FlushedIsDeliveredWithoutLoss`: sender.rs:134 says that a flush is true "if all pending data has been sent and
  acknowledged". The handler that replaces one whose connection was lost starts with nothing pending, and answers a flush
  truthfully for itself only. What was under way is not sent again.
* `SinkEnds` excepts a receiver that closed the channel and could not say so (the TODO of receiver/channel.rs:79-83: the
  sender is denied and retries for ever), a handler that waits for a connection that was lost while it was set up, and
  `FlushIsStranded`: the receiver's close ends the sender's handler while a flush request is in its queue. The handler leaves
  the queue as it is, so the request is neither answered nor dropped, SenderChannel::flush returns false each time, and
  NetworkSink::stop repeats itself for ever; network-bindings/src/lib.rs:484 says that a closed channel counts as flushed.
* `NoQueryIsForgotten` excepts local queries whose start or stop failed in a call, and those whose stop task, sent by the
  unwinding of a failed start, was finished before the start task: QueryCatalog::stopQuery (QueryEngine.cpp:1012) only
  warns that it does not know the query. `StopEndsTheQuery` shows that a query whose start succeeded is
  safe from this, because start polls until the local queries have left Registered. It assumes that a query that is Stopping
  ends, so it does not speak of an engine that is in `WorkersAreStuck`.

Seen in the same models, without a property of their own: a pipeline whose stage->start returned but whose completion
callback has not run is destroyed unterminated when the query is stopped (QueryEngine.cpp:137-138 says that all initialized
pipelines are terminated); disposing of a failed plan can emit stop tasks (RunningQueryPlan.hpp:135 says it does not); the
head of the sequence queue stays behind the current block for good when the worker that should move it is overtaken, which
costs a walk and nothing else; QueryManager::stop moves the id away before it erases by it, so that a stopped query stays in
the map (QueryManager.cpp:319, 354).

## Fairness

Liveness assumes weak fairness of each thread's steps: the operating system schedules every thread, and a thread that
can take its next step takes it. A worker's spinning on the admission queue and the semaphore's wake-ups are fair in
the same sense. In `NetworkChannel` each branch of a handler's select loop is fair, since tokio polls ready branches in random
order. Nothing is assumed of the environment: sources need not end, users need not stop a query, stages need
not fail, connections need not hold and workers need not crash; only a source that was asked to stop must return from
fillTupleBuffer, which takes the stop token, and, in `QueryManager`, a query that is Stopping must end. `RunningPlan` shows that
as `QueryTerminates`, for sources that can be joined; `SourceThreads` shows that they can, except in `WorkersAreStuck`. `AdmittedTasksAreReadWhenQuiet` carries its hypothesis explicitly, since the code lets internal tasks
overtake admitted ones without bound. RunningPlan's bounded repetitions stand for a stage that eventually stops asking for
more.

## Proofs

`ThreadPoolProofs` first proves of `TaskQueue` `IInv` and its parts `TypeOK`, `TokensMatchElements`, `SemaphoreInvariant` and
`SpinnersFindATask` for all finite sets of threads, all sets of tasks and all positive capacities. `SemaphoreInvariant` alone is not inductive. The
strengthening is the exact equation `TokensMatchElements` (elements = tokens in the semaphore + readers that hold a token +
writers that have yet to release theirs) together with `SpinnersFindATask`: there are no more spinning readers than elements in
the admission queue. Each action changes both sides of the equation alike; the lemmas on `Count` say how a count changes when
one thread moves.

`CallbackProofs` proves every safety property of `Callback` for all sets of threads and references. The inductive invariant
adds to the properties that nobody touches the callback between the last drop and the attempt to execute, and that the owner
has set the cancelled flag once it waits.

Of `ThreadPool` it proves, for all finite sets of workers and outside threads, all sets of tasks and all bounds on repetitions,
that nothing is left behind (`NothingLeftBehind`).
Its lemmas are one per conjunct of the inductive invariant `IInv` of `ThreadPool` and, in each, one case per
action. Since every step of the pool is a step of its queue (`QueueStep`), the queue's invariant comes from the theorems on
`TaskQueue`, instantiated, and is not proved again. To it the invariant adds: where a worker may be inside a call (`CallsInOrder`); that
one worker runs the body of call_once, and that after it neither the delayed queue nor the submitter thread holds a task
(`OnceIsExclusive`); that workers leave their loop only after the last outside thread has finished its calls (`StopIsOrderly`);
that a task is in exactly one place from its submission on (`EveryTaskHasItsPlace`, by counting lemmas on sequences and hands);
and that the last worker leaves the semaphore at zero (`Drained`). The argument then is: when every worker is done no thread is
inside a call, so no token is in transit; none is in the semaphore; hence by `TokensMatchElements` both queues are empty, and
the only place left for a task is the end of its life.

The assumptions are those named in the modules (finite sets of threads, at least one worker, all roles disjoint; the capacity a
positive number; `NoTask` not a task, `NoThread` not a thread).

`WindowStoreProofs` first proves `SlicesMakeUpTheirWindows` of `SliceAssigner` for every positive size and slide, not only for the sizes that the run
`windows` evaluates: a slice contains its timestamp, no window starts or ends inside it, and the windows that the slice store
computes for it are exactly those that contain it. The proof reduces both directions of the search for a boundary to facts
about division with remainder; where size and slide leave gaps the slice lies outside every window and so has none.

It then proves `NoShiftIsLost`, `NoRecordIsLate` and `TriggeredOnceInOrder` for every number of workers, every number
of origins, every size of the blocks of the sequence queue, every size and slide and every finite input.
The inductive invariant `IInv` says where a chunk is, and what each layer knows of it:

* `ChunksAreHeldOnce`, `PipelinesEndOnce`: every chunk is to do, done or in the hands of one worker, and an origin ends after its
  last one. `Ahead` are the chunks that have not been counted and may still bring a record.
* `CountersAreExact`: the counter of ChunkCollector is the number of chunks announced by the last one minus those counted, so that
  it returns to zero only when all are; hence `StoredIsComplete`: what is stored in the queue, and what the current sequence number
  has passed, is not `Ahead`. `ValuesAreTimestamps`: a watermark is one of its own sequence number, also between the two stores.
* `SeenIsSafe`: what a worker has read of an origin is not later than a record of that origin that is still to come. It needs that
  an origin's timestamps ascend (`TimestampsAscend`), and it has to hold for each of the reads separately, since the other origins
  move on in between.
* `TriggeredIsPast`: a triggered window ends before what is `Ahead` and what is still pending. `NoRecordIsLate` and the order of the
  windows follow from it.

On top of `IInv` it proves `ProbesFindTheirSlices`: the garbage collection removes no slice that a probe task still needs. Its
invariant `ProbeInv` has three parts, which need each other:

* `ProbesAreCounted`: the tasks of a window are the pairs of one set of slices, emitted all at once, and each is queued, in the hands
  of one worker or reported. So a window with a task to come has fewer reports than its total: it is not `Complete`, and a
  window that is complete stays so.
* `CollectionIsSafe`: the watermark that a collecting worker holds, however long ago it was read, is the start of a triggered
  window that is complete, as are all before it.
* `NeededSlicesAreKept`: pending windows, windows about to be emitted and tasks have their slices in the store, and each of these slices
  ends less than one window size before the window's end. What is pending ends after all triggered windows (`TriggeredIsPast`), what is triggered
  and not complete ends after all that are complete (the windows are triggered in order), so a collection spares the slices of both.

`BufferManagerProofs` proves `CountIsExact`, `ChunksOutliveTheirSegments`, `BudgetIsKept` and `DestroyFindsAllBuffers` for all finite
sets of threads and segments, any set of chunks, any number of segments per chunk and any budget. None of the four is inductive,
and they need each other: that the count is exact is what makes the release that reaches zero the only one of its segment; that
is what makes its frame the only one (`FramesAreDisjoint`); and only then is the counter of a chunk the number of its segments in
use or being recycled plus the threads about to enter one (`ChunksAreCounted`), and is a chunk deallocated and refunded once. The
invariant `IInv` adds: only what is owned is referred to (`UsedSegmentsAreOwned`); only the innermost frame of a release is past its
children (`InnermostGoesFirst`); what each frame says of its segment and its chunk (`FramesAreSound`); a thread inside getBuffer holds
the manager and is in no release (`GettersHaveTheManager`); a pooled segment is in the queue, in use, being recycled or being prepared
by one thread (`PreparedByOne`, `NoSegmentIsLost`), from which it follows that all are in the queue when the last shared_ptr goes; and
grants that were given and not yet used fit into the budget (`GrantsFit`), which is what the comparison with the counter before
it is raised ensures. TLC has checked `IInv` on the instance of the run `buffers`.

`RunningPlanProofs` proves `NodesLiveLongEnough` and `GracefulEndLosesNothing` for every graph of sources
and pipelines, every finite set of tasks and every bound on repetitions. References keep a node from its deleter (`ReferencedIsShared`), and
nodes and sources keep the references to their successors until they end (`PredecessorsHold`). What remains is the soft stop: an edge
is dropped when the tasks behind it are counted down, which is right only if pendingTasks is exact while the node can be
locked (`PendingTasksAreCounted`) and if, as long as the query runs, every unfinished task has an edge into its node that has not been
dropped (`SoftStopWaits`). A task in the queue of the engine refers to its node weakly, so it is this edge alone that keeps the node.

`SourceThreadsProofs` proves `SourcesKeepOrder` for all numbers of sources, buffers and stop requests, all finite sets of workers
and all limits. The invariant `IInv` is an account of the semaphore of RunningSource: tokens, buffers in flight and the
thread between acquire and addWork add up to the limit until a stop is requested (`TokensAreConserved`). After it
the callback has released a token that no task returned. The thread between registering and testing the stop token takes one such token
with it; another one stays for good if the stop came after the test and before the end of the callback's scope. What keeps these
tokens from letting one more buffer pass is that a thread that acquires after the stop sees it in the test and emits nothing,
which is why `InflightIsBounded` is itself a conjunct of the invariant. For the end of the stream the invariant follows the order of the
admission queue: a StopSourceTask is submitted by a thread that has left its loop and emits nothing more, so no task of the
same source is behind it (`EndIsLast`), and when it has been taken none is left (`NothingFollowsTheEnd`). Repeating the task does
not change that.

`QueryManagerProofs` proves `NoQueryIsForgotten` for all queries, hosts, worker threads and numbers of faults and stops. Between calls is
not inductive, so `IInv` says what holds inside start: a local query that runs on without being tracked is on the list of those that
start has started, or of those that it has yet to unwind (`UntrackedIsInHand`). The other conjuncts are for the step that handles a stop
task: it may let a local query run on only if the start task is still behind it, and then the query is not in the catalog and is
recorded in `missed`. That needs one start task for each local query (`StartsAreUnique`), which holds because start has not been
where it is about to send one (`BeforeStartIsFresh`). TLC has checked these three invariants on the instances of the runs.

`SpanningTuplesProofs` proves `EachTupleOnceAndWhole`, `NoTupleIsMissed` and `RingIsSound` for every size of the ring, every length of the
stream, every placement of the delimiters and every set of workers. The ring has no lock and an entry forgets the buffer that it held
before, so the invariant `IInv` relates what an entry shows to the whole history of its buffer:

* `EntriesFollowTheStream`: the iteration number of an entry grows by one with each buffer, so it tells whether a buffer is in its entry or has been
  (`Published`), and the next buffer enters only an entry that is used up. The arithmetic is in the first lemmas: two buffers with the
  same entry are at least one round apart, and the index and iteration number that a search computes for its next step are those of
  the neighbouring buffer.
* `SearchesAreExact`: a search knows that what it passed is in the ring and has no delimiter, so what it finds is a tuple. This survives the
  steps of others because a buffer that has been published stays so.
* `ClaimsAreExclusive`, `UsesAreMarked`, `ReferencesAreKept`: a tuple is claimed exactly if one worker is taking its buffers or has; an entry's marks
  say exactly which of its two uses are over; and an unused side still has its reference. Since an entry with an unused side is not
  reused, the worker that takes a tuple finds every buffer of it, however slow it is.
* `TuplesAreFound` is what `NoTupleIsMissed` needs: once all buffers of an unclaimed tuple are published, some worker is on its way to the claim. The
  case that matters is that of two workers that publish the two ends: each publishes before it searches, so the one that
  publishes last sees the other one's buffer.

The assumptions of these six: size and slide are positive (`WindowsAreValid`); blocks have at least one slot (`BlocksHaveSlots`)
and there is at least one origin (`OriginsAreListed`); the input is finite, sequence numbers count from one and the last chunk of a
number says how many there are (`InputIsOrderly`); chunks have room for a segment (`ChunksHaveRoom`); threads and segments are
finitely many, and a pooled segment is not an unpooled one (`SegmentsAreKnown`); a source is not a pipeline, successors are
pipelines and tasks are finitely many (`SourcesAreNotNodes`, `GraphType`, `WorkIsFinite`); the limits of sources and queue are positive
(`LimitsArePositive`), workers are finitely many and there is a source (`ThreadsAreFinite`), `NoBuffer` is no buffer
(`NoBufferIsNone`); there is a query (`SomeQuery`), and engines have threads (`EngineHasThreads`); a ring has at least two entries (`RingType`; that
their number is a power of two, `RingIsAPowerOfTwo`, justifies `LeadingIndex` as a model of the wrapping subtraction and is used in no proof), and a
stream a buffer (`StreamIsNotEmpty`).

Only model-checked: all liveness properties (fairness is out of the prover's reach); the refinements; and the safety
properties of `QueryStart` and `NetworkSink`.

## Not modelled

* The optimizer, query compiler, parser, type system, configuration, formatters, inference and plug-ins: they transform
  trees, text and bytes sequentially and have no protocol state. They are the larger part of the repository.
* In the modelled parts: tracing and statistics events, time stamps, contents of buffers, logging; the implementations behind
  fillTupleBuffer; several channels of one network service and its shutdown; outer joins, hash joins and aggregations over the
  slice store; and the slice cache: `WindowStore` looks every slice up in the store, so it says nothing of cached pointers.
* A StartQueryTask that is handled after QueryCatalog::clear: it takes `ThreadPool` and `QueryStart` together.
* Memory orders: the stores and loads of one thread take effect in program order; the relaxed pair of the
  sequence queue is the only place where the code asks for less, and the model has its two stores as two steps.
