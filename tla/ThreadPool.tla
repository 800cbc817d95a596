----------------------------- MODULE ThreadPool -----------------------------
(***************************************************************************)
(* The worker threads of the query engine and their shutdown               *)
(* (ThreadPool in nes-query-engine/QueryEngine.cpp), together with the     *)
(* delayed task submitter (DelayedTaskSubmitter.hpp).  The task queue is   *)
(* the module TaskQueue; its steps are taken here one by one.              *)
(*                                                                         *)
(* What a task does is abstracted to its effects on the pool: it emits new *)
(* tasks, asks to be repeated now or later, and completes.                 *)
(***************************************************************************)
EXTENDS Naturals, Sequences, FiniteSets

CONSTANTS
  Outsider,           \* sources and users: they submit to the admission queue
  Worker,             \* the threads of the pool
  Submitter,          \* the thread of the DelayedTaskSubmitter ("task-delayer")
  Terminator,         \* the thread that runs ~QueryEngine
  Task,
  NoTask,
  AdmissionCapacity,
  MaxRepeats          \* bound: how often one task asks to be repeated

ASSUME PoolIsFinite == IsFiniteSet(Outsider) /\ IsFiniteSet(Worker) /\ Worker # {}
ASSUME ThreadsDiffer ==
  /\ Outsider \cap Worker = {}
  /\ Submitter \notin Outsider \cup Worker
  /\ Terminator \notin Outsider \cup Worker \cup {Submitter}
ASSUME NoTaskIsNoTask == NoTask \notin Task
ASSUME LimitsAreNumbers == AdmissionCapacity \in Nat \ {0} /\ MaxRepeats \in Nat

VARIABLES
  internal, admission, tasksAvailable, pc,   \* the task queue
  created,        \* tasks submitted so far
  hand,           \* the task each worker and the submitter thread holds
  stage,          \* where each worker is in ThreadPool::addThread's body
  stopRequested,  \* workers whose stop token is set
  engine,         \* progress of ~QueryEngine and ~ThreadPool
  delayed,        \* DelayedTaskSubmitter::State::taskQueue
  acceptingTasks,
  once,           \* progress of the std::call_once body of shutdown()
  repeats,        \* how often each task was repeated
  completed       \* how often completeTask ran each task's onComplete

queueVars == <<internal, admission, tasksAvailable, pc>>
poolVars == <<stage, stopRequested, engine>>
delayVars == <<delayed, acceptingTasks, once>>
vars == <<queueVars, poolVars, delayVars, created, hand, repeats, completed>>

TQ == INSTANCE TaskQueue WITH Delayer <- {Submitter, Terminator}

\* The call_once body: not entered, acceptingTasks cleared, submitter thread
\* asked to stop, remaining tasks being failed, returned.
OnceStep == {"unused", "closing", "joining", "failing", "done"}

Init ==
  /\ TQ!Init
  /\ created = {}
  /\ hand = [t \in Worker \cup {Submitter} |-> NoTask]
  /\ stage = [w \in Worker |-> "loop"]
  /\ stopRequested = {}
  /\ engine = "up"
  /\ delayed = {}
  /\ acceptingTasks = TRUE
  /\ once = "unused"
  /\ repeats = [task \in Task |-> 0]
  /\ completed = [task \in Task |-> 0]

-----------------------------------------------------------------------------
\* Submission from outside

\* addAdmissionTaskBlocking called by a source or by QueryEngine::start/stop.
Submit(o, task) ==
  /\ engine # "stopping"
  /\ task \notin created
  /\ TQ!WriteAdmission(o, task)
  /\ created' = created \cup {task}
  /\ UNCHANGED <<poolVars, delayVars, hand, repeats, completed>>

ReleaseOther(t) ==
  /\ TQ!Release(t)
  /\ UNCHANGED <<poolVars, delayVars, created, hand, repeats, completed>>

-----------------------------------------------------------------------------
\* A worker: the loop of addThread, then shutdown, then the drain

Reading(w) == stage[w] \in {"loop", "drain"} /\ hand[w] = NoTask

Acquire(w) ==
  /\ Reading(w)
  /\ TQ!Acquire(w)
  /\ UNCHANGED <<poolVars, delayVars, created, hand, repeats, completed>>

\* The task that getNextTaskBlocking / getNextTaskNonBlocking returns is
\* handed to handleTask.
TakeInternal(w) ==
  /\ TQ!ReadInternal(w)
  /\ hand' = [hand EXCEPT ![w] = Head(internal)]
  /\ UNCHANGED <<poolVars, delayVars, created, repeats, completed>>

MissInternal(w) ==
  /\ TQ!GiveUpOnInternal(w)
  /\ UNCHANGED <<poolVars, delayVars, created, hand, repeats, completed>>

TakeAdmitted(w) ==
  /\ TQ!ReadAdmission(w)
  /\ hand' = [hand EXCEPT ![w] = Head(admission)]
  /\ UNCHANGED <<poolVars, delayVars, created, repeats, completed>>

Handling(w) == hand[w] # NoTask /\ pc[w] = "idle"

\* completeTask: the handler returned true or false, or failTask ran.
Complete(w) ==
  /\ Handling(w)
  /\ completed' = [completed EXCEPT ![hand[w]] = @ + 1]
  /\ hand' = [hand EXCEPT ![w] = NoTask]
  /\ UNCHANGED <<queueVars, poolVars, delayVars, created, repeats>>

\* A handler or a callback adds a new task to the internal queue.
Emit(w, task) ==
  /\ Handling(w)
  /\ task \notin created
  /\ TQ!WriteInternal(w, task)
  /\ created' = created \cup {task}
  /\ UNCHANGED <<poolVars, delayVars, hand, repeats, completed>>

MayRepeat(w) ==
  /\ Handling(w)
  /\ stage[w] \in {"loop", "drain"}
  /\ repeats[hand[w]] < MaxRepeats

\* The handler re-adds its task, with the callbacks moved into it, so that
\* the completeTask which follows finds them empty.
RepeatNow(w) ==
  /\ MayRepeat(w)
  /\ TQ!WriteInternal(w, hand[w])
  /\ hand' = [hand EXCEPT ![w] = NoTask]
  /\ repeats' = [repeats EXCEPT ![hand[w]] = @ + 1]
  /\ UNCHANGED <<poolVars, delayVars, created, completed>>

\* submitTaskIn: queued with a deadline, or failed and completed in place
\* once the submitter is shut down.
RepeatLater(w) ==
  /\ MayRepeat(w)
  /\ hand' = [hand EXCEPT ![w] = NoTask]
  /\ repeats' = [repeats EXCEPT ![hand[w]] = @ + 1]
  /\ IF acceptingTasks
     THEN delayed' = delayed \cup {hand[w]} /\ UNCHANGED completed
     ELSE completed' = [completed EXCEPT ![hand[w]] = @ + 1] /\ UNCHANGED delayed
  /\ UNCHANGED <<queueVars, poolVars, acceptingTasks, once, created>>

\* The loop ends: at its condition, or when getNextTaskBlocking timed out and
\* saw the stop token.
LeaveLoop(w) ==
  /\ Reading(w) /\ stage[w] = "loop"
  /\ pc[w] = "idle"
  /\ w \in stopRequested
  /\ stage' = [stage EXCEPT ![w] = "shutdown"]
  /\ UNCHANGED <<queueVars, delayVars, stopRequested, engine, created, hand, repeats, completed>>

-----------------------------------------------------------------------------
\* DelayedTaskSubmitter::shutdown, called by every worker

\* The worker that wins call_once; the others wait for it to return.
EnterOnce(w) ==
  /\ stage[w] = "shutdown"
  /\ once = "unused"
  /\ once' = "closing"
  /\ acceptingTasks' = FALSE
  /\ stage' = [stage EXCEPT ![w] = "once"]
  /\ UNCHANGED <<queueVars, stopRequested, engine, delayed, created, hand, repeats, completed>>

\* workerThread = {}: request stop, then join.
RequestJoin(w) ==
  /\ stage[w] = "once"
  /\ once = "closing"
  /\ once' = "joining"
  /\ UNCHANGED <<queueVars, poolVars, delayed, acceptingTasks, created, hand, repeats, completed>>

Join(w) ==
  /\ stage[w] = "once"
  /\ once = "joining"
  /\ hand[Submitter] = NoTask /\ pc[Submitter] = "idle"
  /\ once' = "failing"
  /\ UNCHANGED <<queueVars, poolVars, delayed, acceptingTasks, created, hand, repeats, completed>>

\* failTaskDuringShutdown of the next queued task; its callbacks may emit.
FailDelayed(w, task) ==
  /\ stage[w] = "once"
  /\ once = "failing"
  /\ hand[w] = NoTask /\ pc[w] = "idle"
  /\ task \in delayed
  /\ delayed' = delayed \ {task}
  /\ hand' = [hand EXCEPT ![w] = task]
  /\ UNCHANGED <<queueVars, poolVars, acceptingTasks, once, created, repeats, completed>>

ReturnFromOnce(w) ==
  /\ stage[w] = "once"
  /\ once = "failing"
  /\ hand[w] = NoTask /\ pc[w] = "idle"
  /\ delayed = {}
  /\ once' = "done"
  /\ stage' = [stage EXCEPT ![w] = "shutdown"]
  /\ UNCHANGED <<queueVars, stopRequested, engine, delayed, acceptingTasks, created, hand, repeats, completed>>

\* As BeginDrain, without waiting for the shutdown of the submitter.
BeginDrainAtOnce(w) ==
  /\ stage[w] = "shutdown"
  /\ stage' = [stage EXCEPT ![w] = "drain"]
  /\ UNCHANGED <<queueVars, delayVars, stopRequested, engine, created, hand, repeats, completed>>

BeginDrain(w) ==
  /\ stage[w] = "shutdown"
  /\ once = "done"
  /\ stage' = [stage EXCEPT ![w] = "drain"]
  /\ UNCHANGED <<queueVars, delayVars, stopRequested, engine, created, hand, repeats, completed>>

\* getNextTaskNonBlocking returned nullopt: the thread ends.
EndDrain(w) ==
  /\ Reading(w) /\ stage[w] = "drain"
  /\ pc[w] = "idle"
  /\ tasksAvailable = 0
  /\ stage' = [stage EXCEPT ![w] = "done"]
  /\ UNCHANGED <<queueVars, delayVars, stopRequested, engine, created, hand, repeats, completed>>

-----------------------------------------------------------------------------
\* The submitter thread: DelayedTaskSubmitter::workerLoop.  Deadlines are
\* abstracted: any queued task may be the next one due.

\* As TakeDue, but nobody notifies the waiting thread of a new task: only the shutdown wakes it.
TakeDueUnnotified(task) ==
  /\ once = "closing"
  /\ hand[Submitter] = NoTask /\ pc[Submitter] = "idle"
  /\ task \in delayed
  /\ delayed' = delayed \ {task}
  /\ hand' = [hand EXCEPT ![Submitter] = task]
  /\ UNCHANGED <<queueVars, poolVars, acceptingTasks, once, created, repeats, completed>>

TakeDue(task) ==
  /\ once \in {"unused", "closing"}
  /\ hand[Submitter] = NoTask /\ pc[Submitter] = "idle"
  /\ task \in delayed
  /\ delayed' = delayed \ {task}
  /\ hand' = [hand EXCEPT ![Submitter] = task]
  /\ UNCHANGED <<queueVars, poolVars, acceptingTasks, once, created, repeats, completed>>

\* submitFn, with the mutex released.
SubmitDue ==
  /\ hand[Submitter] # NoTask
  /\ TQ!WriteInternal(Submitter, hand[Submitter])
  /\ hand' = [hand EXCEPT ![Submitter] = NoTask]
  /\ UNCHANGED <<poolVars, delayVars, created, repeats, completed>>

-----------------------------------------------------------------------------
\* The terminator thread: ~QueryEngine and ~ThreadPool

\* QueryCatalog::clear destroys the query plans, whose nodes emit their stop
\* tasks into the internal queue under the terminator's worker id.
BeginClear ==
  /\ engine = "up"
  /\ engine' = "clearing"
  /\ UNCHANGED <<queueVars, delayVars, stage, stopRequested, created, hand, repeats, completed>>

ClearEmit(task) ==
  /\ engine = "clearing"
  /\ task \notin created
  /\ TQ!WriteInternal(Terminator, task)
  /\ created' = created \cup {task}
  /\ UNCHANGED <<poolVars, delayVars, hand, repeats, completed>>

\* The plans are gone, and with them every source thread.
EndClear ==
  /\ engine = "clearing"
  /\ \A t \in Outsider \cup {Terminator} : pc[t] = "idle"
  /\ engine' = "stopping"
  /\ UNCHANGED <<queueVars, delayVars, stage, stopRequested, created, hand, repeats, completed>>

\* As RequestStop, but only one worker is asked.
RequestStopOnce(w) ==
  /\ engine = "stopping"
  /\ stopRequested = {}
  /\ stopRequested' = {w}
  /\ UNCHANGED <<queueVars, delayVars, stage, engine, created, hand, repeats, completed>>

\* ~ThreadPool: worker.requestStop() in a loop over the pool.
RequestStop(w) ==
  /\ engine = "stopping"
  /\ w \notin stopRequested
  /\ stopRequested' = stopRequested \cup {w}
  /\ UNCHANGED <<queueVars, delayVars, stage, engine, created, hand, repeats, completed>>

-----------------------------------------------------------------------------

WorkerStep(w) ==
  \/ ReleaseOther(w)
  \/ Acquire(w) \/ TakeInternal(w) \/ MissInternal(w) \/ TakeAdmitted(w)
  \/ Complete(w) \/ (\E task \in Task : Emit(w, task)) \/ RepeatNow(w) \/ RepeatLater(w)
  \/ LeaveLoop(w)
  \/ EnterOnce(w) \/ RequestJoin(w) \/ Join(w)
  \/ (\E task \in Task : FailDelayed(w, task))
  \/ ReturnFromOnce(w) \/ BeginDrain(w) \/ EndDrain(w)

SubmitterStep == (\E task \in Task : TakeDue(task)) \/ SubmitDue \/ ReleaseOther(Submitter)

TerminatorStep ==
  \/ BeginClear \/ EndClear \/ ReleaseOther(Terminator)
  \/ \E task \in Task : ClearEmit(task)
  \/ \E w \in Worker : RequestStop(w)

OutsiderStep(o) == (\E task \in Task : Submit(o, task)) \/ ReleaseOther(o)

\* Every thread of the pool has been joined.
Terminated == (\A w \in Worker : stage[w] = "done") /\ UNCHANGED vars

Next ==
  \/ \E w \in Worker : WorkerStep(w)
  \/ \E o \in Outsider : OutsiderStep(o)
  \/ SubmitterStep
  \/ TerminatorStep
  \/ Terminated

Spec == Init /\ [][Next]_vars

\* Threads are scheduled; a handler returns.  ~QueryEngine, once begun, runs
\* to its end.
Fairness ==
  /\ \A w \in Worker : WF_vars(WorkerStep(w))
  /\ \A o \in Outsider : WF_vars(ReleaseOther(o))
  /\ WF_vars(SubmitterStep)
  /\ WF_vars(EndClear) /\ WF_vars(ReleaseOther(Terminator))
  /\ \A w \in Worker : WF_vars(RequestStop(w))

FairSpec == Spec /\ Fairness

-----------------------------------------------------------------------------

\* The variables keep their types, and a worker holds a task only where
\* addThread's body or the shutdown hands it one.
TypeOK ==
  /\ TQ!TypeOK
  /\ created \subseteq Task
  /\ hand \in [Worker \cup {Submitter} -> Task \cup {NoTask}]
  /\ stage \in [Worker -> {"loop", "shutdown", "once", "drain", "done"}]
  /\ stopRequested \subseteq Worker
  /\ engine \in {"up", "clearing", "stopping"}
  /\ delayed \subseteq Task
  /\ acceptingTasks \in BOOLEAN
  /\ once \in OnceStep
  /\ repeats \in [Task -> 0..MaxRepeats]
  /\ completed \in [Task -> Nat]
  /\ \A w \in Worker : stage[w] \in {"shutdown", "done"} => hand[w] = NoTask

\* How often a value occurs in a queue, or in the hands of threads.
Occurrences(f, x) == Cardinality({i \in DOMAIN f : f[i] = x})

\* In how many places a task is: the two queues, the threads' hands, the
\* delayed queue, and the end of its life.
Places(task) ==
  Occurrences(internal, task) + Occurrences(admission, task) + Occurrences(hand, task)
    + (IF task \in delayed THEN 1 ELSE 0) + completed[task]

\* A worker reads only between tasks and never in shutdown(), and it leaves
\* no call on the queue unfinished when it moves on.
CallsInOrder ==
  \A w \in Worker :
    /\ pc[w] \in {"acquired", "spinning"} => stage[w] \in {"loop", "drain"} /\ hand[w] = NoTask
    /\ stage[w] \in {"shutdown", "done"} => pc[w] = "idle"

\* One worker runs the body of call_once, nothing is accepted from then on,
\* and workers drain the queue only after it has returned.
OnceIsExclusive ==
  /\ \A v, w \in Worker : stage[v] = "once" /\ stage[w] = "once" => v = w
  /\ \A w \in Worker : stage[w] = "once" => once \in {"closing", "joining", "failing"}
  /\ \A w \in Worker : stage[w] \in {"drain", "done"} => once = "done"
  /\ acceptingTasks <=> once = "unused"
  /\ once \in {"failing", "done"} => hand[Submitter] = NoTask /\ pc[Submitter] = "idle"
  /\ once = "done" => delayed = {}

\* A worker leaves its loop only on request, and requests are made after the
\* last thread outside the pool has finished its calls.
StopIsOrderly ==
  /\ \A w \in Worker : stage[w] # "loop" => w \in stopRequested
  /\ stopRequested # {} => engine = "stopping"
  /\ engine = "stopping" => \A t \in Outsider \cup {Terminator} : pc[t] = "idle"

\* A task is nowhere before it is submitted, and in one place afterwards.
EveryTaskHasItsPlace ==
  \A task \in Task : Places(task) = IF task \in created THEN 1 ELSE 0

\* The last worker leaves no token in the semaphore.
Drained == (\A w \in Worker : stage[w] = "done") => tasksAvailable = 0

\* What every step of every thread preserves.
IInv ==
  /\ TypeOK /\ TQ!IInv
  /\ CallsInOrder /\ OnceIsExclusive /\ StopIsOrderly /\ EveryTaskHasItsPlace /\ Drained

\* QueryEngine.cpp:777: once shutdown() of the submitter has returned, no
\* delayed submission is in flight and none is queued any more.
NoDelayedSubmissionAfterShutdown ==
  once = "done" =>
    /\ delayed = {}
    /\ hand[Submitter] = NoTask
    /\ pc[Submitter] = "idle"

\* When the last worker has ended, no task is left behind in any queue and
\* every task that was ever submitted has been completed; until then none is
\* lost or duplicated, and the shut-down submitter does not add any.  The
\* invariant IInv is what this follows from.
NothingLeftBehind ==
  /\ IInv
  /\ NoDelayedSubmissionAfterShutdown
  /\ (\A w \in Worker : stage[w] = "done") =>
       /\ internal = <<>> /\ admission = <<>> /\ delayed = {}
       /\ \A task \in created : completed[task] = 1

\* Shutdown terminates: no worker waits for ever in getNextTaskBlocking, in
\* call_once or in the join of the submitter.
ShutdownTerminates ==
  (engine = "stopping") ~> (\A w \in Worker : stage[w] = "done")

\* Every task that is submitted is completed, be it emitted, repeated, delayed or admitted, and
\* whenever the engine begins to shut down: no wake-up of a worker or of the submitter thread is lost
\* (TaskQueue.hpp:51, DelayedTaskSubmitter.hpp:94-104), and what the shutdown finds it fails or drains.
EveryTaskCompletes ==
  \A task \in Task : (task \in created) ~> (completed[task] = 1)
=============================================================================
