----------------------------- MODULE QueryStart -----------------------------
(***************************************************************************)
(* How one query is started, and stopped or failed while it starts:        *)
(* QueryCatalog::start, stopQuery, clear and the lifetime listener in      *)
(* nes-query-engine/QueryEngine.cpp, RunningQueryPlan::start, stop,        *)
(* dispose and ~RunningQueryPlan in RunningQueryPlan.cpp, at the           *)
(* granularity of the three locks involved: the catalog's mutex, the mutex *)
(* of the query's AtomicState and the one of RunningQueryPlan::internal.   *)
(* The setup callback is the module Callback.                              *)
(*                                                                         *)
(* The start task of every pipeline runs on a thread of its own, named     *)
(* after the pipeline.  All pipelines are successors of the sources.       *)
(***************************************************************************)
EXTENDS Naturals, Sequences, FiniteSets

CONSTANTS
  Node,         \* the pipelines, and the workers that run their start tasks
  Starter,      \* the worker that runs StartQueryTask
  Stopper,      \* the worker that runs StopQueryTask
  Failer,       \* the worker that runs FailSourceTask
  Reaper,       \* the worker on which the last node is destroyed
  Terminator,   \* the thread that runs ~QueryEngine
  Actors,       \* which of Stopper, Failer and Terminator take part
  Local,        \* the CallbackRef that RunningQueryPlan::start keeps and returns
  NoThread

Thread == Node \cup {Starter, Stopper, Failer, Reaper, Terminator}

VARIABLES
  holder, born, guards, cancelled, callback, executor, at, owner,  \* setup callback
  step,                 \* the next statement of each thread
  state,                \* the AtomicState of the query
  pins,                 \* threads of the listener that locked the weak reference to it
  cleared,              \* the catalog has dropped its reference to it
  stateLock,            \* its mutex
  catalogLock,          \* QueryCatalog::mutex
  internalLock,         \* the mutex of RunningQueryPlan::internal
  plan,                 \* where the RunningQueryPlan lives
  expired,              \* allPipelinesExpired has not been cancelled
  sources,              \* where the RunningSources live
  refs,                 \* strong references to each RunningQueryPlanNode
  node,                 \* life of each RunningQueryPlanNode
  initialized,          \* pipelines whose stage->start returned
  requiresTermination,
  log                   \* what the status listener was told

callbackVars == <<holder, born, guards, cancelled, callback, executor, at, owner>>
catalogVars == <<pins, cleared>>
locks == <<stateLock, catalogLock, internalLock>>
planVars == <<plan, expired, sources>>
nodeVars == <<refs, node, initialized, requiresTermination>>
vars == <<callbackVars, step, state, catalogVars, locks, planVars, nodeVars, log>>

CB == INSTANCE Callback WITH Ref <- Node \cup {Local}

Goto(t, s) == step' = [step EXCEPT ![t] = s]

\* QueryCatalog::start has locked the catalog, registered the query and is
\* inside RunningQueryPlan::start, which holds the lock on internal.
Init ==
  /\ holder = [r \in Node \cup {Local} |-> IF r = Local THEN Starter ELSE NoThread]
  /\ born = {Local}
  /\ guards = 1
  /\ cancelled = FALSE /\ callback = FALSE
  /\ executor = NoThread
  /\ at = [t \in Thread |-> "out"]
  /\ owner = "alive"
  /\ step = [t \in Thread |->
               IF t = Starter THEN "create"
               ELSE IF t \in Actors \cup {Reaper} THEN "idle" ELSE "done"]
  /\ state = "Reserved"
  /\ pins = {}
  /\ cleared = FALSE
  /\ stateLock = NoThread
  /\ catalogLock = Starter
  /\ internalLock = Starter
  /\ plan = "local"
  /\ expired = TRUE
  /\ sources = "none"
  /\ refs = [n \in Node |-> {"plan"}]
  /\ node = [n \in Node |-> "alive"]
  /\ initialized = {}
  /\ requiresTermination = [n \in Node |-> FALSE]
  /\ log = <<>>

-----------------------------------------------------------------------------
\* Strong references to the nodes.  The last one to go runs the node's
\* deleter, which emits a StopPipelineTask if the node requires termination.

DropRef(N, kind, required) ==
  /\ refs' = [n \in Node |-> IF n \in N THEN refs[n] \ {kind} ELSE refs[n]]
  /\ node' = [n \in Node |->
                IF n \in N /\ node[n] = "alive" /\ refs[n] \subseteq {kind}
                THEN IF required[n] THEN "stopping" ELSE "gone"
                ELSE node[n]]

-----------------------------------------------------------------------------
\* The AtomicState goes if last holds, and then the plan that it holds.
DestroyState(t, last, after) ==
  /\ plan' = IF last /\ plan = "state" THEN "disposing" ELSE plan
  /\ Goto(t, CASE last /\ plan = "state" -> "destroy"
               [] last /\ state = "Stopping" -> "disposeStopping"
               [] OTHER -> after)

-----------------------------------------------------------------------------
\* The starter

\* RunningQueryPlanNode::create: the start task of n takes a copy of the
\* setup callback's reference and enters the internal queue.
CreateNode(n) ==
  /\ step[Starter] = "create"
  /\ n \notin born
  /\ CB!Copy(Starter, n, Local, n)
  /\ Goto(n, "start")
  /\ UNCHANGED <<state, locks, planVars, nodeVars, log, catalogVars>>

SetCallback ==
  /\ step[Starter] = "create"
  /\ Node \subseteq born
  /\ CB!SetCallback(Starter)
  /\ Goto(Starter, "return")
  /\ UNCHANGED <<state, locks, planVars, nodeVars, log, catalogVars>>

\* RunningQueryPlan::start returns and releases internal.
ReturnPlan ==
  /\ step[Starter] = "return"
  /\ internalLock' = NoThread
  /\ Goto(Starter, "register")
  /\ UNCHANGED <<callbackVars, state, stateLock, catalogLock, planVars, nodeVars, log, catalogVars>>

\* The transition Reserved -> Starting; it fails when a start task failed.
Register ==
  /\ step[Starter] = "register"
  /\ stateLock = NoThread
  /\ IF state = "Reserved"
     THEN /\ state' = "Starting"
          /\ plan' = "state"
          /\ Goto(Starter, "logStarted")
     ELSE /\ plan' = "disposing"
          /\ Goto(Starter, "dispose")
          /\ UNCHANGED state
  /\ UNCHANGED <<callbackVars, locks, expired, sources, nodeVars, log, catalogVars>>

LogStarted ==
  /\ step[Starter] = "logStarted"
  /\ log' = Append(log, "Started")
  /\ Goto(Starter, "drop")
  /\ UNCHANGED <<callbackVars, state, locks, planVars, nodeVars, catalogVars>>

LeaveStart ==
  /\ step[Starter] = "leave"
  /\ catalogLock' = NoThread
  /\ Goto(Starter, "done")
  /\ UNCHANGED <<callbackVars, state, stateLock, internalLock, planVars, nodeVars, log, catalogVars>>

-----------------------------------------------------------------------------
\* A start task: the StartPipelineTask handler and its callbacks

\* The handler locks its weak reference to the node.
LockNode(n) ==
  /\ step[n] = "start"
  /\ IF node[n] = "alive"
     THEN refs' = [refs EXCEPT ![n] = @ \cup {"exec"}] /\ Goto(n, "exec")
     ELSE UNCHANGED refs /\ Goto(n, "complete")
  /\ UNCHANGED <<callbackVars, state, locks, planVars, node, initialized, requiresTermination, log, catalogVars>>

\* stage->start returns; the handler's strong reference goes.
StartSucceeds(n) ==
  /\ step[n] = "exec"
  /\ initialized' = initialized \cup {n}
  /\ DropRef({n}, "exec", requiresTermination)
  /\ Goto(n, "complete")
  /\ UNCHANGED <<callbackVars, state, locks, planVars, requiresTermination, log, catalogVars>>

\* stage->start throws: injectQueryFailure re-locks the node, which is still
\* alive only if someone else refers to it, and fails the query.
StartFails(n) ==
  /\ step[n] = "exec"
  /\ IF refs[n] = {"exec"}
     THEN DropRef({n}, "exec", requiresTermination) /\ Goto(n, "complete")
     ELSE Goto(n, "fail") /\ UNCHANGED <<refs, node>>
  /\ UNCHANGED <<callbackVars, state, locks, planVars, initialized, requiresTermination, log, catalogVars>>

\* onComplete: invokeUnlessCancelled, under the callback's mutex.
Complete(n) ==
  /\ step[n] = "complete"
  /\ requiresTermination' =
       [requiresTermination EXCEPT ![n] = @ \/ (node[n] = "alive" /\ ~cancelled)]
  /\ Goto(n, "drop")
  /\ UNCHANGED <<callbackVars, state, locks, planVars, refs, node, initialized, log, catalogVars>>

\* After the failure callback its strong reference goes.
EndFailure(n) ==
  /\ step[n] = "failed"
  /\ DropRef({n}, "exec", requiresTermination)
  /\ Goto(n, "complete")
  /\ UNCHANGED <<callbackVars, state, locks, planVars, initialized, requiresTermination, log, catalogVars>>

-----------------------------------------------------------------------------
\* The setup callback, run by the thread that drops the last reference

\* Where a thread continues when it is through with its reference.
After(t) == IF t = Starter THEN "leave" ELSE "done"

RefOf(t) == IF t = Starter THEN Local ELSE t

DropCallbackRef(t) ==
  /\ step[t] = "drop"
  /\ CB!Drop(t, RefOf(t))
  /\ Goto(t, IF guards = 1 THEN "try" ELSE After(t))
  /\ UNCHANGED <<state, locks, planVars, nodeVars, log, catalogVars>>

TryExecute(t) ==
  /\ step[t] = "try"
  /\ CB!TryExecute(t)
  /\ Goto(t, IF at'[t] = "body" THEN "lockInternal" ELSE After(t))
  /\ UNCHANGED <<state, locks, planVars, nodeVars, log, catalogVars>>

\* The body locks runningPlan.internal and starts the sources, which now
\* hold the references to the nodes.
CreateSources(t) ==
  /\ step[t] = "lockInternal"
  /\ plan # "destroyed"
  /\ internalLock = NoThread
  /\ internalLock' = t
  /\ sources' = "plan"
  /\ Goto(t, "unlockInternal")
  /\ UNCHANGED <<callbackVars, state, stateLock, catalogLock, plan, expired, nodeVars, log, catalogVars>>

\* The reference to the plan dangles: undefined behaviour, nothing is
\* claimed about what follows.
DanglingPlan(t) ==
  /\ step[t] = "lockInternal"
  /\ plan = "destroyed"
  /\ step' = [u \in Thread |-> "crashed"]
  /\ UNCHANGED <<callbackVars, state, locks, planVars, nodeVars, log, catalogVars>>

UnlockInternal(t) ==
  /\ step[t] = "unlockInternal"
  /\ internalLock' = NoThread
  /\ Goto(t, "onRunning")
  /\ UNCHANGED <<callbackVars, state, stateLock, catalogLock, planVars, nodeVars, log, catalogVars>>

\* Where a function of the listener returns to.
AfterListener(t) ==
  CASE at[t] = "body" -> "endBody"
    [] at[t] # "body" /\ t = Reaper -> "done"
    [] OTHER -> "failed"

\* Every function of the listener starts with state.lock() ...
Pin(t) ==
  /\ step[t] \in {"onRunning", "fail", "onDestruction"}
  /\ t \notin pins
  /\ IF cleared /\ pins = {}
     THEN Goto(t, AfterListener(t)) /\ UNCHANGED pins
     ELSE pins' = pins \cup {t} /\ UNCHANGED step
  /\ UNCHANGED <<callbackVars, state, cleared, locks, planVars, nodeVars, log>>

\* ... and ends by dropping that reference; the last one to go destroys the
\* state and the plan in it.
Unpin(t) ==
  /\ step[t] = "unpin"
  /\ pins' = pins \ {t}
  /\ DestroyState(t, cleared /\ pins = {t}, AfterListener(t))
  /\ UNCHANGED <<callbackVars, state, cleared, locks, expired, sources, nodeVars, log>>

\* As OnRunning, whatever the state.
OnRunningAnyway(t) ==
  /\ step[t] = "onRunning"
  /\ t \in pins
  /\ stateLock = NoThread
  /\ state' = "Running"
  /\ Goto(t, "logRunning")
  /\ UNCHANGED <<callbackVars, locks, planVars, nodeVars, log, catalogVars>>

\* listener->onRunning(): the transition, then the log entry whether or not
\* the transition happened.
OnRunning(t) ==
  /\ step[t] = "onRunning"
  /\ t \in pins
  /\ stateLock = NoThread
  /\ state' = IF state = "Starting" THEN "Running" ELSE state
  /\ Goto(t, "logRunning")
  /\ UNCHANGED <<callbackVars, locks, planVars, nodeVars, log, catalogVars>>

LogRunning(t) ==
  /\ step[t] = "logRunning"
  /\ log' = Append(log, "Running")
  /\ Goto(t, "unpin")
  /\ UNCHANGED <<callbackVars, state, locks, planVars, nodeVars, catalogVars>>

EndBody(t) ==
  /\ step[t] = "endBody"
  /\ CB!EndExecute(t)
  /\ Goto(t, After(t))
  /\ UNCHANGED <<state, locks, planVars, nodeVars, log, catalogVars>>

-----------------------------------------------------------------------------
\* onFailure, called by a start task or by the handler of FailSourceTask

SourceFails ==
  /\ step[Failer] = "idle"
  /\ sources = "plan"
  /\ \E n \in Node : "plan" \in refs[n]
  /\ Goto(Failer, "fail")
  /\ UNCHANGED <<callbackVars, state, locks, planVars, nodeVars, log, catalogVars>>

\* "Regardless of its current state the query should move into the
\* Terminated::Failed state"; the plan is taken out under the lock and
\* disposed of outside it.
OnFailure(t) ==
  /\ step[t] = "fail"
  /\ t \in pins
  /\ stateLock = NoThread
  /\ state' = "Failed"
  /\ plan' = IF state \in {"Starting", "Running"} THEN "disposing" ELSE plan
  /\ Goto(t, CASE state \in {"Starting", "Running"} -> "dispose"
               [] state = "Stopping" -> "disposeStopping"
               [] OTHER -> "logFailed")
  /\ UNCHANGED <<callbackVars, locks, expired, sources, nodeVars, log, catalogVars>>

LogFailed(t) ==
  /\ step[t] = "logFailed"
  /\ log' = Append(log, "Failed")
  /\ Goto(t, "unpin")
  /\ UNCHANGED <<callbackVars, state, locks, planVars, nodeVars, catalogVars>>

EndSourceFailure ==
  /\ step[Failer] = "failed"
  /\ Goto(Failer, "done")
  /\ UNCHANGED <<callbackVars, state, locks, planVars, nodeVars, log, catalogVars>>

-----------------------------------------------------------------------------
\* RunningQueryPlan::dispose and ~RunningQueryPlan

\* What follows: within a function of the listener, the log entry.
AfterDispose(t) ==
  CASE t \in pins -> IF t = Reaper THEN "logStopped" ELSE "logFailed"
    [] t = Terminator -> "unlockCatalog"
    [] t = Starter /\ at[t] # "body" -> "drop"
    [] OTHER -> AfterListener(t)

\* cancelAndWait of the callback onDestruction, which the Reaper runs.
ExpiredCancelled(t) ==
  /\ t = Reaper \/ step[Reaper] \in {"idle", "done"}
  /\ expired' = FALSE

\* dispose: internal.allPipelinesExpired = {}, with internal locked.
Dispose(t) ==
  /\ step[t] = "dispose"
  /\ internalLock = NoThread
  /\ ExpiredCancelled(t)
  /\ Goto(t, "destroy")
  /\ UNCHANGED <<callbackVars, state, locks, plan, sources, nodeVars, log, catalogVars>>

\* StoppingQueryPlan::dispose, and the end of the StoppingQueryPlan.
DisposeStopping(t) ==
  /\ step[t] = "disposeStopping"
  /\ ExpiredCancelled(t)
  /\ Goto(t, AfterDispose(t))
  /\ UNCHANGED <<callbackVars, state, locks, plan, sources, nodeVars, log, catalogVars>>

DestroyLock(t) ==
  /\ step[t] = "destroy"
  /\ internalLock = NoThread
  /\ internalLock' = t
  /\ Goto(t, "cancel")
  /\ UNCHANGED <<callbackVars, state, stateLock, catalogLock, planVars, nodeVars, log, catalogVars>>

\* internal.allPipelinesStarted = {}: cancelAndWait, with internal locked.  A
\* callback that has not started is destroyed, and with it the references to
\* the nodes that it holds.
Cancel(t) ==
  /\ step[t] = "cancel"
  /\ CB!Cancel(t)
  /\ IF callback
     THEN DropRef(Node, "plan", requiresTermination)
     ELSE UNCHANGED <<refs, node>>
  /\ Goto(t, "await")
  /\ UNCHANGED <<state, locks, planVars, initialized, requiresTermination, log, catalogVars>>

\* As Await, but a callback in flight is not waited for.
AwaitNothing(t) ==
  /\ step[t] = "await"
  /\ Goto(t, "free")
  /\ requiresTermination' =
       [n \in Node |-> requiresTermination[n] /\ node[n] # "alive"]
  /\ internalLock' = NoThread
  /\ UNCHANGED <<callbackVars, state, stateLock, catalogLock, planVars, refs, node, initialized, log, catalogVars>>

\* What the owner's destruction is followed by: in the destructor of the plan
\* the nodes lose their claim to be terminated and internal is released.
Await(t) ==
  /\ step[t] = "await"
  /\ IF at[t] = "body" THEN UNCHANGED callbackVars ELSE CB!CancelReturn(t)
  /\ Goto(t, "free")
  /\ requiresTermination' =
       [n \in Node |-> requiresTermination[n] /\ node[n] # "alive"]
  /\ internalLock' = NoThread
  /\ UNCHANGED <<state, stateLock, catalogLock, planVars, refs, node, initialized, log, catalogVars>>

\* The sources are destroyed outside the lock, then the plan with what is
\* left in it.
Free(t) ==
  /\ step[t] = "free"
  /\ plan' = "destroyed"
  /\ ExpiredCancelled(t)
  /\ IF sources = "plan"
     THEN sources' = "gone" /\ DropRef(Node, "plan", requiresTermination)
     ELSE UNCHANGED <<sources, refs, node>>
  /\ Goto(t, AfterDispose(t))
  /\ UNCHANGED <<callbackVars, state, locks, initialized, requiresTermination, log, catalogVars>>

-----------------------------------------------------------------------------
\* The end of the query

\* The StopSourceTask of a source that reached its end unregisters it and
\* lets go of its successors.  A source ends or fails, not both.
SourceEnds ==
  /\ step[Failer] \in {"idle", "done"}
  /\ sources = "plan"
  /\ \E n \in Node : "plan" \in refs[n]
  /\ DropRef(Node, "plan", requiresTermination)
  /\ UNCHANGED <<callbackVars, step, state, locks, planVars, initialized, requiresTermination, log, catalogVars>>

\* A StopPipelineTask: the stage is stopped and the node destroyed.
StopPipeline(n) ==
  /\ node[n] = "stopping"
  /\ node' = [node EXCEPT ![n] = "gone"]
  /\ requiresTermination' = [requiresTermination EXCEPT ![n] = FALSE]
  /\ UNCHANGED <<callbackVars, step, state, locks, planVars, refs, initialized, log, catalogVars>>

\* The last node drops the last reference to the termination callback.
AllPipelinesExpired ==
  /\ step[Reaper] = "idle"
  /\ expired
  /\ \A n \in Node : node[n] = "gone"
  /\ Goto(Reaper, "onDestruction")
  /\ UNCHANGED <<callbackVars, state, locks, planVars, nodeVars, log, catalogVars>>

\* listener->onDestruction()
OnDestruction ==
  /\ step[Reaper] = "onDestruction"
  /\ Reaper \in pins
  /\ stateLock = NoThread
  /\ state' = IF state \in {"Starting", "Running", "Stopping"} THEN "Stopped" ELSE state
  /\ plan' = IF state \in {"Starting", "Running"} THEN "disposing" ELSE plan
  /\ Goto(Reaper, CASE state \in {"Starting", "Running"} -> "dispose"
                    [] state = "Stopping" -> "disposeStopping"
                    [] OTHER -> "unpin")
  /\ UNCHANGED <<callbackVars, locks, expired, sources, nodeVars, log, catalogVars>>

LogStopped ==
  /\ step[Reaper] = "logStopped"
  /\ log' = Append(log, "Stopped")
  /\ Goto(Reaper, "unpin")
  /\ UNCHANGED <<callbackVars, state, locks, planVars, nodeVars, catalogVars>>

-----------------------------------------------------------------------------
\* QueryCatalog::stopQuery

LockCatalog(t) ==
  /\ t \in {Stopper, Terminator}
  /\ step[t] = "idle"
  /\ catalogLock = NoThread
  /\ catalogLock' = t
  /\ Goto(t, IF t = Stopper THEN "stopQuery" ELSE "clear")
  /\ UNCHANGED <<callbackVars, state, stateLock, internalLock, planVars, nodeVars, log, catalogVars>>

\* The transition of stopQuery runs RunningQueryPlan::stop under the lock of
\* the AtomicState.  A query that clear() removed is not found any more.
StopQuery ==
  /\ step[Stopper] = "stopQuery"
  /\ stateLock = NoThread
  /\ IF ~cleared /\ state \in {"Starting", "Running"}
     THEN /\ stateLock' = Stopper
          /\ plan' = "stopping"
          /\ Goto(Stopper, "movePlan")
     ELSE /\ UNCHANGED <<stateLock, plan>>
          /\ Goto(Stopper, "unlockCatalog")
  /\ UNCHANGED <<callbackVars, state, catalogLock, internalLock, expired, sources, nodeVars, log, catalogVars>>

\* RunningQueryPlan::stop moves the callback owner and the sources out.
MovePlan ==
  /\ step[Stopper] = "movePlan"
  /\ internalLock = NoThread
  /\ sources' = IF sources = "plan" THEN "stopper" ELSE sources
  /\ Goto(Stopper, "destroyPlan")
  /\ UNCHANGED <<callbackVars, state, locks, plan, expired, nodeVars, log, catalogVars>>

\* As DestroyStoppedPlan, but cleanup() runs inside the transition.
DestroyStoppedPlanLocked ==
  /\ step[Stopper] = "destroyPlan"
  /\ internalLock = NoThread
  /\ plan' = "destroyed"
  /\ IF sources = "plan"
     THEN sources' = "gone" /\ DropRef(Node, "plan", requiresTermination)
     ELSE UNCHANGED <<sources, refs, node>>
  /\ state' = "Stopping"
  /\ Goto(Stopper, "cancelSetup")
  /\ UNCHANGED <<callbackVars, locks, expired, initialized, requiresTermination, log, catalogVars>>

\* The parameter of stop() goes out of scope: ~RunningQueryPlan of the plan
\* that was moved from, then the state is Stopping.
DestroyStoppedPlan ==
  /\ step[Stopper] = "destroyPlan"
  /\ internalLock = NoThread
  /\ plan' = "destroyed"
  /\ IF sources = "plan"
     THEN sources' = "gone" /\ DropRef(Node, "plan", requiresTermination)
     ELSE UNCHANGED <<sources, refs, node>>
  /\ state' = "Stopping"
  /\ stateLock' = NoThread
  /\ Goto(Stopper, "cancelSetup")
  /\ UNCHANGED <<callbackVars, catalogLock, internalLock, expired, initialized, requiresTermination, log, catalogVars>>

\* cleanup(): callbackOwner = {}, outside the lock of the AtomicState.
CancelSetup ==
  /\ step[Stopper] = "cancelSetup"
  /\ CB!Cancel(Stopper)
  /\ IF callback
     THEN DropRef(Node, "plan", requiresTermination)
     ELSE UNCHANGED <<refs, node>>
  /\ Goto(Stopper, "awaitSetup")
  /\ UNCHANGED <<state, locks, planVars, initialized, requiresTermination, log, catalogVars>>

AwaitSetup ==
  /\ step[Stopper] = "awaitSetup"
  /\ CB!CancelReturn(Stopper)
  /\ Goto(Stopper, "clearSources")
  /\ UNCHANGED <<state, locks, planVars, nodeVars, log, catalogVars>>

\* As ClearSources, without the call of clear().
ForgetSources ==
  /\ step[Stopper] = "clearSources"
  /\ Goto(Stopper, "unlockCatalog")
  /\ UNCHANGED <<callbackVars, state, locks, planVars, nodeVars, log, catalogVars>>

\* cleanup(): sources.clear().
ClearSources ==
  /\ step[Stopper] = "clearSources"
  /\ IF sources = "stopper"
     THEN sources' = "gone" /\ DropRef(Node, "plan", requiresTermination)
     ELSE UNCHANGED <<sources, refs, node>>
  /\ Goto(Stopper, "unlockCatalog")
  /\ UNCHANGED <<callbackVars, state, locks, plan, expired, initialized, requiresTermination, log, catalogVars>>

\* QueryCatalog::clear: the catalog drops its reference to the AtomicState.
Clear ==
  /\ step[Terminator] = "clear"
  /\ stateLock = NoThread
  /\ cleared' = TRUE
  /\ DestroyState(Terminator, pins = {}, "unlockCatalog")
  /\ UNCHANGED <<callbackVars, state, pins, locks, expired, sources, nodeVars, log>>

UnlockCatalog(t) ==
  /\ step[t] = "unlockCatalog"
  /\ catalogLock' = NoThread
  /\ Goto(t, "done")
  /\ UNCHANGED <<callbackVars, state, stateLock, internalLock, planVars, nodeVars, log, catalogVars>>

-----------------------------------------------------------------------------

Crashed == \E t \in Thread : step[t] = "crashed"

ThreadStep(t) ==
  \/ t = Starter /\ (SetCallback \/ ReturnPlan \/ Register \/ LogStarted \/ LeaveStart
                       \/ \E n \in Node : CreateNode(n))
  \/ t \in Node /\ (LockNode(t) \/ StartSucceeds(t) \/ StartFails(t) \/ Complete(t) \/ EndFailure(t))
  \/ DropCallbackRef(t) \/ TryExecute(t) \/ Pin(t) \/ Unpin(t) \/ CreateSources(t) \/ DanglingPlan(t)
  \/ UnlockInternal(t) \/ OnRunning(t) \/ LogRunning(t) \/ EndBody(t)
  \/ OnFailure(t) \/ LogFailed(t)
  \/ Dispose(t) \/ DisposeStopping(t) \/ DestroyLock(t) \/ Cancel(t) \/ Await(t) \/ Free(t)
  \/ t = Failer /\ EndSourceFailure
  \/ LockCatalog(t) \/ UnlockCatalog(t)
  \/ t = Stopper /\ (StopQuery \/ MovePlan \/ DestroyStoppedPlan
                       \/ CancelSetup \/ AwaitSetup \/ ClearSources)
  \/ t = Terminator /\ Clear
  \/ t = Reaper /\ (AllPipelinesExpired \/ OnDestruction \/ LogStopped)

\* Everything has been done; a source need not fail and a query that fails
\* is not reaped.
Settled ==
  /\ \A t \in Thread : \/ step[t] \in {"done", "crashed"}
                       \/ t \in {Failer, Reaper} /\ step[t] = "idle"
  /\ \A n \in Node : node[n] # "stopping"

Next ==
  \/ ~Crashed /\ \E t \in Thread : ThreadStep(t)
  \/ ~Crashed /\ (SourceFails \/ SourceEnds \/ \E n \in Node : StopPipeline(n))

Spec == Init /\ [][Next]_vars

\* Every thread that has started a handler is scheduled.
Fairness ==
  /\ \A t \in Thread : WF_vars(~Crashed /\ ThreadStep(t))
  /\ \A n \in Node : WF_vars(~Crashed /\ StopPipeline(n))

FairSpec == Spec /\ Fairness

-----------------------------------------------------------------------------

Statement ==
  {"idle", "done", "crashed", "create", "return", "register", "logStarted", "drop",
   "leave", "start", "exec", "complete", "try", "lockInternal", "unlockInternal",
   "onRunning", "logRunning", "endBody", "fail", "logFailed", "failed", "dispose",
   "disposeStopping", "destroy", "cancel", "await", "free", "onDestruction",
   "logStopped", "stopQuery", "movePlan", "destroyPlan", "cancelSetup",
   "awaitSetup", "clearSources", "unpin", "clear", "unlockCatalog"}

TypeOK ==
  /\ CB!TypeOK
  /\ step \in [Thread -> Statement]
  /\ state \in {"Reserved", "Starting", "Running", "Stopping", "Failed", "Stopped"}
  /\ pins \subseteq Thread
  /\ cleared \in BOOLEAN
  /\ {stateLock, catalogLock, internalLock} \subseteq Thread \cup {NoThread}
  /\ plan \in {"local", "state", "disposing", "stopping", "destroyed"}
  /\ expired \in BOOLEAN
  /\ sources \in {"none", "plan", "stopper", "gone"}
  /\ refs \in [Node -> SUBSET {"plan", "exec"}]
  /\ node \in [Node -> {"alive", "stopping", "gone"}]
  /\ initialized \subseteq Node
  /\ requiresTermination \in [Node -> BOOLEAN]
  /\ \A i \in 1..Len(log) : log[i] \in {"Started", "Running", "Failed", "Stopped"}

\* The two assertions of QueryCatalog::start (QueryEngine.cpp:857, 975): the
\* setup callback never finds the query Reserved, and the starter finds it
\* Reserved or failed.
NoWayAroundStarting ==
  /\ state = "Reserved" => \A t \in Thread : step[t] # "onRunning"
  /\ step[Starter] = "register" => state \in {"Reserved", "Failed"}

\* Nobody runs the body of the setup callback against a plan that is gone:
\* "This reference is guaranteed to be alive" (RunningQueryPlan.cpp:222).  The
\* exception is a stop request, which destroys the plan before it cancels the
\* callback; DanglingPlan is what may then happen.
SetupFindsItsPlan ==
  plan = "destroyed" /\ step[Stopper] \in {"idle", "done"} =>
    \A t \in Thread : step[t] # "lockInternal"

\* Once the plan is gone and every thread has finished, no source is running.
NoSourceOutlivesTheQuery ==
  Settled /\ ~Crashed /\ plan = "destroyed" => sources \in {"none", "gone"}

\* As long as nobody asks the query to stop, the status listener hears of
\* Running before it hears how the query ended: disposing of the plan waits
\* for the setup callback, and with it for onRunning.
RunningIsLoggedFirst ==
  (Stopper \in Actors => step[Stopper] = "idle") =>
    \A i, j \in 1..Len(log) :
      i < j /\ log[i] \in {"Failed", "Stopped"} => log[j] # "Running"

\* What the functions of the catalog and of the listener assert and rely on.
StartIsOrderly ==
  TypeOK /\ NoWayAroundStarting /\ NoSourceOutlivesTheQuery /\ RunningIsLoggedFirst

\* "If query is stopped, it should have a running timestamp"
\* (SingleNodeWorker.cpp:198): the log of a stopped query has a Running entry.
StoppedQueriesHaveRun ==
  (\E i \in 1..Len(log) : log[i] = "Stopped") => \E i \in 1..Len(log) : log[i] = "Running"

\* The catalog's view of the query is that of QueryLifecycle.
Lifecycle == INSTANCE QueryLifecycle WITH InitialState <- "Reserved"

\* The state of the query changes only as the catalog allows, whoever races:
\* a query that was stopped or has failed while it started does not run.
ImplementsLifecycle == Lifecycle!Spec

\* ~RunningQueryPlan waits for the setup callback with internal locked, and
\* the callback waits for that lock (RunningQueryPlan.cpp:225, 331).
SetupIsAwaitedUnderItsLock ==
  \E t, u \in Thread : step[t] = "await" /\ internalLock = t /\ step[u] = "lockInternal"

\* Every thread gets through: there is one cycle of waits between the three
\* locks, the setup callback and the termination callback, the one above.
EveryThreadFinishes == <>(Crashed \/ Settled \/ SetupIsAwaitedUnderItsLock)
=============================================================================
