------------------------------ MODULE TaskQueue ------------------------------
(***************************************************************************)
(* The engine's task queue (nes-query-engine/TaskQueue.hpp): a bounded     *)
(* admission queue, an unbounded internal queue and one counting semaphore *)
(* over both.  A write and the semaphore release that follows it are two   *)
(* steps, and so are the acquire, the look at the internal queue and the   *)
(* read of the admission queue, so that every interleaving of concurrent   *)
(* callers is a behaviour of this module.                                  *)
(*                                                                         *)
(* The two folly queues are external: each of their calls is one atomic    *)
(* step on a FIFO.  A spurious failure of MPMCQueue::read keeps the reader *)
(* spinning, which is a stuttering step.                                   *)
(***************************************************************************)
EXTENDS Naturals, Sequences, FiniteSets

CONSTANTS
  Outsider,           \* threads that submit to the admission queue
  Worker,             \* threads that submit to the internal queue and read
  Delayer,            \* threads that only submit to the internal queue
  Task,               \* the tasks
  AdmissionCapacity   \* admissionTaskQueueSize

Thread == Outsider \cup Worker \cup Delayer

ASSUME FiniteThreads == IsFiniteSet(Thread)
ASSUME CapacityPositive == AdmissionCapacity \in Nat \ {0}
ASSUME RolesDisjoint ==
  /\ Outsider \cap Worker = {}
  /\ Outsider \cap Delayer = {}
  /\ Worker \cap Delayer = {}

VARIABLES
  internal,        \* folly::UMPMCQueue
  admission,       \* folly::MPMCQueue
  tasksAvailable,  \* the semaphore's count
  pc               \* where each thread is inside a call on the queue

vars == <<internal, admission, tasksAvailable, pc>>

\* "idle"      outside the queue
\* "written"   element is in a queue, semaphore not released yet
\* "acquired"  holds a semaphore token, internal queue not looked at yet
\* "spinning"  saw the internal queue empty, loops on admission.read
PC == {"idle", "written", "acquired", "spinning"}

\* How many threads are at a label of pc.
At(labels, label) == {t \in Thread : labels[t] = label}
Count(labels, label) == Cardinality(At(labels, label))

\* Tasks are moved into and out of the queues, never copied.
Queued(task) == \/ \E i \in DOMAIN internal : internal[i] = task
                \/ \E i \in DOMAIN admission : admission[i] = task

Init ==
  /\ internal = <<>>
  /\ admission = <<>>
  /\ tasksAvailable = 0
  /\ pc = [t \in Thread |-> "idle"]

\* addAdmissionTaskBlocking, tryWriteUntil succeeded.  While the queue is
\* full the caller waits; a cancelled call changes nothing.
WriteAdmission(t, task) ==
  /\ pc[t] = "idle"
  /\ ~Queued(task)
  /\ Len(admission) < AdmissionCapacity
  /\ admission' = Append(admission, task)
  /\ pc' = [pc EXCEPT ![t] = "written"]
  /\ UNCHANGED <<internal, tasksAvailable>>

\* addInternalTaskNonBlocking, internal.enqueue.
WriteInternal(t, task) ==
  /\ pc[t] = "idle"
  /\ ~Queued(task)
  /\ internal' = Append(internal, task)
  /\ pc' = [pc EXCEPT ![t] = "written"]
  /\ UNCHANGED <<admission, tasksAvailable>>

\* tasksAvailable.release(), the second half of either write.
ReleaseNothing(t) ==
  /\ pc[t] = "written"
  /\ pc' = [pc EXCEPT ![t] = "idle"]
  /\ UNCHANGED <<internal, admission, tasksAvailable>>

Release(t) ==
  /\ pc[t] = "written"
  /\ tasksAvailable' = tasksAvailable + 1
  /\ pc' = [pc EXCEPT ![t] = "idle"]
  /\ UNCHANGED <<internal, admission>>

\* The token taken by try_acquire_for and try_acquire.  A failed attempt
\* changes nothing in the queue.
Acquire(t) ==
  /\ pc[t] = "idle"
  /\ tasksAvailable > 0
  /\ tasksAvailable' = tasksAvailable - 1
  /\ pc' = [pc EXCEPT ![t] = "acquired"]
  /\ UNCHANGED <<internal, admission>>

\* readElementAssumingItExists: internal.try_dequeue succeeded.
ReadInternal(t) ==
  /\ pc[t] = "acquired"
  /\ internal # <<>>
  /\ internal' = Tail(internal)
  /\ pc' = [pc EXCEPT ![t] = "idle"]
  /\ UNCHANGED <<admission, tasksAvailable>>

\* readElementAssumingItExists: internal.try_dequeue failed, the reader
\* commits to the admission queue and never looks back.
GiveUpUnconditionally(t) ==
  /\ pc[t] = "acquired"
  /\ pc' = [pc EXCEPT ![t] = "spinning"]
  /\ UNCHANGED <<internal, admission, tasksAvailable>>

GiveUpOnInternal(t) ==
  /\ pc[t] = "acquired"
  /\ internal = <<>>
  /\ pc' = [pc EXCEPT ![t] = "spinning"]
  /\ UNCHANGED <<internal, admission, tasksAvailable>>

\* readElementAssumingItExists: the loop around admission.read ends.
ReadAdmission(t) ==
  /\ pc[t] = "spinning"
  /\ admission # <<>>
  /\ admission' = Tail(admission)
  /\ pc' = [pc EXCEPT ![t] = "idle"]
  /\ UNCHANGED <<internal, tasksAvailable>>

Read(t) == Acquire(t) \/ ReadInternal(t) \/ GiveUpOnInternal(t) \/ ReadAdmission(t)

Next ==
  \/ \E t \in Outsider, task \in Task : WriteAdmission(t, task)
  \/ \E t \in Worker \cup Delayer, task \in Task : WriteInternal(t, task)
  \/ \E t \in Thread : Release(t)
  \/ \E t \in Worker : Read(t)

Spec == Init /\ [][Next]_vars

\* A thread inside a call on the queue is scheduled, and a worker that
\* returns from a task calls getNextTask again.
Fairness ==
  /\ \A t \in Thread : WF_vars(Release(t))
  /\ \A t \in Worker : WF_vars(Read(t))

FairSpec == Spec /\ Fairness

-----------------------------------------------------------------------------

\* The queues hold tasks and the admission queue respects its capacity; only
\* workers are ever inside a read.
TypeOK ==
  /\ internal \in Seq(Task)
  /\ admission \in Seq(Task)
  /\ Len(admission) <= AdmissionCapacity
  /\ tasksAvailable \in Nat
  /\ pc \in [Thread -> PC]
  /\ \A t \in Thread \ Worker : pc[t] \in {"idle", "written"}

\* The class invariant of TaskQueue.hpp:40: the two queues together hold at
\* least as many elements as the semaphore promises.
SemaphoreInvariant == Len(internal) + Len(admission) >= tasksAvailable

\* "The semaphore guarantees that there is at least one element in either one
\* of the queues" (TaskQueue.hpp:50), with concurrent readers: the readers
\* that gave up on the internal queue are never more than the elements of the
\* admission queue, so none of them spins on an element that is not there.
SpinnersFindATask == Count(pc, "spinning") <= Len(admission)

\* Every element that is queued is accounted for by exactly one token: in
\* the semaphore, in the hand of a reader, or about to be released.
TokensMatchElements ==
  Len(internal) + Len(admission) =
    tasksAvailable + Count(pc, "acquired") + Count(pc, "spinning") + Count(pc, "written")

\* What every call on the queue preserves: types (the admission queue never
\* exceeds its capacity), and the two counts from which SemaphoreInvariant
\* follows and on which the loop of the blocking read rests.
IInv == TypeOK /\ TokensMatchElements /\ SpinnersFindATask

\* No wake-up is lost: a task in the internal queue is read.
InternalTasksAreRead ==
  \A task \in Task :
    (\E i \in DOMAIN internal : internal[i] = task)
      ~> ~(\E i \in DOMAIN internal : internal[i] = task)

\* The internal queue has priority, so admitted tasks are read once the
\* workers stop producing internal tasks.
AdmittedTasksAreReadWhenQuiet ==
  <>[](internal = <<>>) =>
    \A task \in Task :
      (\E i \in DOMAIN admission : admission[i] = task)
        ~> ~(\E i \in DOMAIN admission : admission[i] = task)

=============================================================================
