----------------------------- MODULE RunningPlan -----------------------------
(***************************************************************************)
(* A query that is running: the graph of RunningQueryPlanNodes, which      *)
(* reference counting keeps alive from the sources forward, the work tasks *)
(* that flow through it and the ways it ends.  Models the handlers of      *)
(* WorkTask, StopSourceTask, PendingPipelineStopTask and StopPipelineTask  *)
(* (nes-query-engine/QueryEngine.cpp), the node deleter                    *)
(* (RunningQueryPlan.cpp) and RunningSource.cpp.                           *)
(*                                                                         *)
(* Tasks are handled in any order, by as many workers as there are tasks.  *)
(***************************************************************************)
EXTENDS Naturals, FiniteSets

CONSTANTS
  Source,
  Node,
  Successors,   \* Successors[o]: the nodes that source or node o feeds
  Work,         \* bound: the work tasks that are emitted
  MaxRepeats    \* bound: how often one work task is repeated

ASSUME SourcesAreNotNodes == Source \cap Node = {}
ASSUME GraphType == Successors \in [Source \cup Node -> SUBSET Node] /\ Node # {}
ASSUME WorkIsFinite == IsFiniteSet(Work) /\ MaxRepeats \in Nat

Edge == {e \in (Source \cup Node) \X Node : e[2] \in Successors[e[1]]}

VARIABLES
  edge,                 \* who holds the reference of each edge to its target
  life,                 \* of each node object
  requiresTermination,
  pendingTasks,
  task,                 \* the work tasks: where each one is
  target,               \* and the node it is for
  repeats,
  source,               \* what each source is doing
  state,                \* the state of the query in the catalog
  cleanup,              \* the function returned by RunningQueryPlan::stop is to run
  expired               \* the termination callback has not been cancelled

workVars == <<task, target, repeats>>
nodeVars == <<edge, life, requiresTermination, pendingTasks>>
queryVars == <<state, cleanup, expired>>
vars == <<nodeVars, workVars, source, queryVars>>

\* "held": by the predecessor itself.  "pending": by a PendingPipelineStopTask.
EdgeState == {"held", "pending", "dropped"}

\* "stopping": owned by a StopPipelineTask.
Life == {"shared", "stopping", "destroyed"}

\* "new": not emitted yet.  "failing": execute threw and the query is to fail.
\* "executed": the handler is through, completeTask remains.
TaskState == {"new", "queued", "executing", "failing", "executed", "done"}

\* As References, but a task that is executing keeps nothing alive.
ReferencesOfEdges(n) == {e \in Edge : e[2] = n /\ edge[e] # "dropped"}

\* The strong references to node n.
References(n) ==
  {e \in Edge : e[2] = n /\ edge[e] # "dropped"}
    \cup {w \in Work : target[w] = n /\ task[w] \in {"executing", "failing"}}

\* weak_ptr::lock succeeds.
Lockable(n) == life[n] = "shared" /\ References(n) # {}

\* All pipelines are initialised, the sources are running.
Init ==
  /\ edge = [e \in Edge |-> "held"]
  /\ life = [n \in Node |-> "shared"]
  /\ requiresTermination = [n \in Node |-> TRUE]
  /\ pendingTasks = [n \in Node |-> 0]
  /\ task = [w \in Work |-> "new"]
  /\ target = [w \in Work |-> CHOOSE n \in Node : TRUE]
  /\ repeats = [w \in Work |-> 0]
  /\ source = [s \in Source |-> "running"]
  /\ state = "Running"
  /\ cleanup = FALSE
  /\ expired = TRUE

-----------------------------------------------------------------------------
\* Work

\* ThreadPool::emitWork: counted on the node before it is queued.
EmitWork(w, n) ==
  /\ task[w] = "new"
  /\ pendingTasks' = [pendingTasks EXCEPT ![n] = @ + 1]
  /\ task' = [task EXCEPT ![w] = "queued"]
  /\ target' = [target EXCEPT ![w] = n]

\* The emit function of a source, for one buffer and one successor.
SourceEmits(s, w) ==
  /\ source[s] = "running"
  /\ \E n \in Successors[s] : EmitWork(w, n)
  /\ UNCHANGED <<edge, life, requiresTermination, repeats, source, queryVars>>

\* The stage emits a buffer, while it executes or while it is stopped.
StageEmits(n, w) ==
  /\ \/ life[n] = "stopping"
     \/ \E x \in Work : task[x] = "executing" /\ target[x] = n
  /\ \E m \in Successors[n] : EmitWork(w, m)
  /\ UNCHANGED <<edge, life, requiresTermination, repeats, source, queryVars>>

\* The handler of WorkTask locks its weak reference; an expired task is dropped
\* with its callbacks still to be called.
Execute(w) ==
  /\ task[w] = "queued"
  /\ task' = [task EXCEPT ![w] = IF Lockable(target[w]) THEN "executing" ELSE "executed"]
  /\ UNCHANGED <<nodeVars, target, repeats, source, queryVars>>

\* stage->execute asks to be repeated: a new task with the same callbacks.
Repeat(w) ==
  /\ task[w] = "executing"
  /\ repeats[w] < MaxRepeats
  /\ task' = [task EXCEPT ![w] = "queued"]
  /\ repeats' = [repeats EXCEPT ![w] = @ + 1]
  /\ UNCHANGED <<nodeVars, target, source, queryVars>>

Executed(w) ==
  /\ task[w] = "executing"
  /\ task' = [task EXCEPT ![w] = "executed"]
  /\ UNCHANGED <<nodeVars, target, repeats, source, queryVars>>

\* completeTask: injectReferenceCountReducer.
CompleteWork(w) ==
  /\ task[w] = "executed"
  /\ task' = [task EXCEPT ![w] = "done"]
  /\ pendingTasks' = IF Lockable(target[w])
                     THEN [pendingTasks EXCEPT ![target[w]] = @ - 1]
                     ELSE pendingTasks
  /\ UNCHANGED <<edge, life, requiresTermination, target, repeats, source, queryVars>>

-----------------------------------------------------------------------------
\* Failure

\* As Fail, but the sources of a running plan stay.
FailKeepingSources ==
  /\ state' = "Failed"
  /\ expired' = FALSE
  /\ requiresTermination' =
       IF state = "Running"
       THEN [n \in Node |-> requiresTermination[n] /\ ~Lockable(n)]
       ELSE requiresTermination
  /\ UNCHANGED <<edge, source, cleanup>>

\* onFailure: the query is Failed.  A RunningQueryPlan is disposed of: the
\* termination callback is cancelled, nodes lose their claim to be terminated
\* and the sources go.  A StoppingQueryPlan only loses the callback.
Fail ==
  /\ state' = "Failed"
  /\ expired' = FALSE
  /\ IF state = "Running"
     THEN /\ requiresTermination' =
               [n \in Node |-> requiresTermination[n] /\ ~Lockable(n)]
          /\ edge' = [e \in Edge |-> IF e[1] \in Source /\ edge[e] = "held"
                                     THEN "dropped" ELSE edge[e]]
          /\ source' = [s \in Source |-> "gone"]
     ELSE UNCHANGED <<requiresTermination, edge, source>>
  /\ UNCHANGED cleanup

\* stage->execute throws; the handler's reference goes, and if the node is
\* still there injectQueryFailure fails the query with it.
ExecuteFails(w) ==
  /\ task[w] = "executing"
  /\ IF References(target[w]) = {w}
     THEN task' = [task EXCEPT ![w] = "executed"]
     ELSE task' = [task EXCEPT ![w] = "failing"]
  /\ UNCHANGED <<nodeVars, target, repeats, source, queryVars>>

FailQuery(w) ==
  /\ task[w] = "failing"
  /\ Fail
  /\ task' = [task EXCEPT ![w] = "executed"]
  /\ UNCHANGED <<life, pendingTasks, target, repeats>>

\* FailSourceTask of a source that ended with an error.
SourceFails(s) ==
  /\ source[s] = "running"
  /\ Fail
  /\ UNCHANGED <<life, pendingTasks, workVars>>

-----------------------------------------------------------------------------
\* The end of a source, and of the query by request

\* The source thread reached the end of its input and submitted StopSourceTask.
SourceEnds(s) ==
  /\ source[s] = "running"
  /\ source' = [source EXCEPT ![s] = "ended"]
  /\ UNCHANGED <<nodeVars, workVars, queryVars>>

\* StopSourceTask: attemptUnregister, retried until the source thread is gone,
\* turns the source's references into PendingPipelineStopTasks.
StopSource(s) ==
  /\ source[s] = "ended"
  /\ source' = [source EXCEPT ![s] = "unregistered"]
  /\ edge' = [e \in Edge |-> IF e[1] = s /\ edge[e] = "held" THEN "pending" ELSE edge[e]]
  /\ UNCHANGED <<life, requiresTermination, pendingTasks, workVars, queryVars>>

\* QueryCatalog::stopQuery: RunningQueryPlan::stop within the transition.
StopQuery ==
  /\ state = "Running"
  /\ state' = "Stopping"
  /\ cleanup' = TRUE
  /\ UNCHANGED <<nodeVars, workVars, source, expired>>

\* As ClearSource, but something else still refers to the successors.
ClearSourceKeepingSuccessors(s) ==
  /\ cleanup
  /\ source[s] # "gone"
  /\ source' = [source EXCEPT ![s] = "gone"]
  /\ UNCHANGED <<nodeVars, workVars, queryVars>>

\* The cleanup function returned by RunningQueryPlan::stop destroys the
\* sources; it runs to its end even if the query fails meanwhile.
ClearSource(s) ==
  /\ cleanup
  /\ source[s] # "gone"
  /\ source' = [source EXCEPT ![s] = "gone"]
  /\ edge' = [e \in Edge |-> IF e[1] = s /\ edge[e] = "held" THEN "dropped" ELSE edge[e]]
  /\ UNCHANGED <<life, requiresTermination, pendingTasks, workVars, queryVars>>

-----------------------------------------------------------------------------
\* Pipelines

\* As PendingPipelineStop, without looking at pendingTasks.
PendingPipelineStopAtOnce(e) ==
  /\ edge[e] = "pending"
  /\ edge' = [edge EXCEPT ![e] = "dropped"]
  /\ UNCHANGED <<life, requiresTermination, pendingTasks, workVars, source, queryVars>>

\* PendingPipelineStopTask: repeated while the node has work, dropped with its
\* reference when there is none or when a hard stop overruled it.
PendingPipelineStop(e) ==
  /\ edge[e] = "pending"
  /\ ~requiresTermination[e[2]] \/ pendingTasks[e[2]] = 0
  /\ edge' = [edge EXCEPT ![e] = "dropped"]
  /\ UNCHANGED <<life, requiresTermination, pendingTasks, workVars, source, queryVars>>

\* RunningQueryPlanNodeDeleter: the last reference is gone.  The node is
\* rescued into a StopPipelineTask, or destroyed with its references.
Delete(n) ==
  /\ life[n] = "shared"
  /\ References(n) = {}
  /\ IF requiresTermination[n]
     THEN life' = [life EXCEPT ![n] = "stopping"] /\ UNCHANGED edge
     ELSE /\ life' = [life EXCEPT ![n] = "destroyed"]
          /\ edge' = [e \in Edge |-> IF e[1] = n THEN "dropped" ELSE edge[e]]
  /\ UNCHANGED <<requiresTermination, pendingTasks, workVars, source, queryVars>>

\* StopPipelineTask: stage->stop returned; onComplete emits a pending stop for
\* every successor and the task is destroyed with the node.
StopPipeline(n) ==
  /\ life[n] = "stopping"
  /\ requiresTermination' = [requiresTermination EXCEPT ![n] = FALSE]
  /\ edge' = [e \in Edge |-> IF e[1] = n THEN "pending" ELSE edge[e]]
  /\ life' = [life EXCEPT ![n] = "destroyed"]
  /\ UNCHANGED <<pendingTasks, workVars, source, queryVars>>

\* stage->stop throws: the query fails, and onComplete runs all the same.
StopPipelineFails(n) ==
  /\ life[n] = "stopping"
  /\ state' = "Failed"
  /\ expired' = FALSE
  /\ requiresTermination' =
       [m \in Node |-> IF m = n \/ (state = "Running" /\ Lockable(m))
                       THEN FALSE ELSE requiresTermination[m]]
  /\ edge' = [e \in Edge |->
                CASE e[1] = n -> "pending"
                  [] e[1] \in Source /\ edge[e] = "held" /\ state = "Running" -> "dropped"
                  [] OTHER -> edge[e]]
  /\ source' = [s \in Source |-> IF state = "Running" THEN "gone" ELSE source[s]]
  /\ life' = [life EXCEPT ![n] = "destroyed"]
  /\ UNCHANGED <<pendingTasks, workVars, cleanup>>

\* The last node is gone: onDestruction.
AllPipelinesExpired ==
  /\ \A n \in Node : life[n] = "destroyed"
  /\ expired
  /\ state' = "Stopped"
  /\ expired' = FALSE
  /\ source' = [s \in Source |-> "gone"]
  /\ UNCHANGED <<nodeVars, workVars, cleanup>>

-----------------------------------------------------------------------------

WorkStep(w) ==
  Execute(w) \/ Repeat(w) \/ Executed(w) \/ CompleteWork(w) \/ ExecuteFails(w) \/ FailQuery(w)

NodeStep(n) == Delete(n) \/ StopPipeline(n) \/ StopPipelineFails(n)

Next ==
  \/ \E w \in Work : WorkStep(w)
  \/ \E s \in Source, w \in Work : SourceEmits(s, w)
  \/ \E n \in Node, w \in Work : StageEmits(n, w)
  \/ \E s \in Source : SourceFails(s) \/ SourceEnds(s) \/ StopSource(s) \/ ClearSource(s)
  \/ \E e \in Edge : PendingPipelineStop(e)
  \/ \E n \in Node : NodeStep(n)
  \/ StopQuery
  \/ AllPipelinesExpired

Spec == Init /\ [][Next]_vars

\* Tasks in the internal queue are handled, and so is the StopSourceTask of a
\* source that ended (see TaskQueue for what that takes); destructors return.
Fairness ==
  /\ \A w \in Work : WF_vars(WorkStep(w))
  /\ \A n \in Node : WF_vars(NodeStep(n))
  /\ \A e \in Edge : WF_vars(PendingPipelineStop(e))
  /\ \A s \in Source : WF_vars(StopSource(s)) /\ WF_vars(ClearSource(s))
  /\ WF_vars(AllPipelinesExpired)

FairSpec == Spec /\ Fairness

-----------------------------------------------------------------------------

TypeOK ==
  /\ edge \in [Edge -> EdgeState]
  /\ life \in [Node -> Life]
  /\ requiresTermination \in [Node -> BOOLEAN]
  /\ pendingTasks \in [Node -> Nat]
  /\ task \in [Work -> TaskState]
  /\ target \in [Work -> Node]
  /\ repeats \in [Work -> 0..MaxRepeats]
  /\ source \in [Source -> {"running", "ended", "unregistered", "gone"}]
  /\ state \in {"Running", "Stopping", "Stopped", "Failed"}
  /\ {cleanup, expired} \subseteq BOOLEAN

Unfinished(n) == {w \in Work : target[w] = n /\ task[w] \notin {"new", "done"}}

\* pendingTasks of a node that can still be locked is the number of its work
\* tasks, so the count that reaches zero is never negative afterwards
\* (INVARIANT at QueryEngine.cpp:118).
PendingTasksAreCounted ==
  \A n \in Node : Lockable(n) => pendingTasks[n] = Cardinality(Unfinished(n))

\* A query that ends because its sources end loses no buffer: no work task
\* finds its node expired unless the query was stopped or has failed.
GracefulEndLosesNothing ==
  state = "Running" =>
    \A w \in Work : task[w] \in {"queued", "executing"} => Lockable(target[w])

\* A stage is not executed while or after it is stopped (the deleter hands the
\* node to StopPipelineTask as its only owner, RunningQueryPlan.cpp:47).
NotExecutedOnceStopping ==
  \A w \in Work : task[w] = "executing" => life[target[w]] = "shared"

\* "a node will always be alive if any of its predecessors is alive"
\* (RunningQueryPlan.hpp:44), also while the predecessor is being stopped.
AliveWithPredecessor ==
  \A e \in Edge : e[1] \in Node /\ life[e[1]] # "destroyed" => Lockable(e[2])

\* A node lives as long as it is needed and no longer executes once it is
\* being stopped, with tasks, edges and sources holding references to it.
NodesLiveLongEnough ==
  /\ TypeOK
  /\ PendingTasksAreCounted
  /\ NotExecutedOnceStopping
  /\ AliveWithPredecessor

\* A query that is stopped by request, or whose sources have all ended,
\* terminates.
QueryTerminates ==
  (state = "Stopping" \/ \A s \in Source : source[s] # "running") ~> (state \in {"Stopped", "Failed"})

\* However the query ends, every node is eventually destroyed.
NodesAreDestroyed ==
  (state # "Running") ~> (\A n \in Node : life[n] = "destroyed")

-----------------------------------------------------------------------------
\* The inductive invariant

\* The deleter runs when the last reference has gone, and no reference comes back.
ReferencedIsShared == \A n \in Node : References(n) # {} => life[n] = "shared"

\* Nodes and sources hold their successors until they end.
PredecessorsHold ==
  \A e \in Edge :
    /\ e[1] \in Node /\ life[e[1]] # "destroyed" => edge[e] = "held"
    /\ e[1] \in Source /\ source[e[1]] \in {"running", "ended"} => edge[e] = "held"

\* While nothing overrules the soft stop, an edge keeps the target of every task that is not completed.
SoftStopWaits ==
  state = "Running" =>
    /\ ~cleanup
    /\ \A n \in Node : life[n] # "destroyed" => requiresTermination[n]
    /\ \A w \in Work : task[w] \notin {"new", "done"} =>
         \E e \in Edge : e[2] = target[w] /\ edge[e] # "dropped"

IInv == TypeOK /\ PendingTasksAreCounted /\ ReferencedIsShared /\ PredecessorsHold /\ SoftStopWaits
=============================================================================
