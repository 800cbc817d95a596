------------------------- MODULE RunningPlanProofs --------------------------
(***************************************************************************)
(* Proofs for RunningPlan: in every graph of sources and nodes, a node     *)
(* lives as long as it is needed, and a query that ends because its        *)
(* sources end loses no work.                                              *)
(***************************************************************************)
EXTENDS RunningPlan, FiniteSetTheorems, TLAPS

WorkAction(w) == WorkStep(w) \/ (\E s \in Source : SourceEmits(s, w)) \/ (\E n \in Node : StageEmits(n, w))
OtherAction ==
  \/ \E s \in Source : SourceFails(s) \/ SourceEnds(s) \/ StopSource(s) \/ ClearSource(s)
  \/ \E e \in Edge : PendingPipelineStop(e)
  \/ \E n \in Node : NodeStep(n)
  \/ StopQuery
  \/ AllPipelinesExpired

LEMMA NextSplits == Next <=> OtherAction \/ \E w \in Work : WorkAction(w)
BY Zenon DEF Next, OtherAction, WorkAction

\* An edge leads from a source or a node to one of its successors.
LEMMA Edges ==
  /\ \A e \in Edge : e[1] \in Source \cup Node /\ e[2] \in Node
  /\ \A o \in Source \cup Node : \A n \in Successors[o] :
       n \in Node /\ <<o, n>> \in Edge /\ <<o, n>>[1] = o /\ <<o, n>>[2] = n
BY GraphType, Zenon DEF Edge

\* Where a task may be emitted to: a predecessor still holds its edge.
LEMMA EmittedOverHeldEdge ==
  ASSUME IInv, NEW w \in Work, NEW n,
         \/ \E s \in Source : source[s] = "running" /\ n \in Successors[s]
         \/ \E m \in Node : /\ life[m] = "stopping" \/ \E x \in Work : task[x] = "executing" /\ target[x] = m
                            /\ n \in Successors[m]
  PROVE  n \in Node /\ \E e \in Edge : e[2] = n /\ edge[e] = "held"
<1>1. CASE \E s \in Source : source[s] = "running" /\ n \in Successors[s]
  <2>1. PICK s \in Source : source[s] = "running" /\ n \in Successors[s]
    BY <1>1, Zenon
  <2>2. <<s, n>> \in Edge /\ <<s, n>>[1] = s /\ <<s, n>>[2] = n /\ n \in Node
    BY <2>1, Edges, Zenon
  <2>3. edge[<<s, n>>] = "held"
    BY <2>1, <2>2, Zenon DEF IInv, PredecessorsHold
  <2> QED
    BY <2>2, <2>3, Zenon
<1>2. CASE \E m \in Node : /\ life[m] = "stopping" \/ \E x \in Work : task[x] = "executing" /\ target[x] = m
                           /\ n \in Successors[m]
  <2>1. PICK m \in Node : /\ life[m] = "stopping" \/ \E x \in Work : task[x] = "executing" /\ target[x] = m
                          /\ n \in Successors[m]
    BY <1>2, Zenon
  <2>2. life[m] # "destroyed"
    <3>1. ASSUME NEW x \in Work, task[x] = "executing", target[x] = m PROVE life[m] = "shared"
      <4>1. x \in References(m)
        BY <3>1, Zenon DEF References
      <4> QED
        BY <4>1, Zenon DEF IInv, ReferencedIsShared
    <3> QED
      BY <2>1, <3>1, Zenon
  <2>3. <<m, n>> \in Edge /\ <<m, n>>[1] = m /\ <<m, n>>[2] = n /\ n \in Node
    BY <2>1, Edges, Zenon
  <2>4. edge[<<m, n>>] = "held"
    BY <2>2, <2>3, Zenon DEF IInv, PredecessorsHold
  <2> QED
    BY <2>3, <2>4, Zenon
<1> QED
  BY <1>1, <1>2, Zenon

LEMMA Emits ==
  ASSUME IInv, NEW w \in Work,
         (\E s \in Source : SourceEmits(s, w)) \/ (\E n \in Node : StageEmits(n, w))
  PROVE  /\ UNCHANGED <<edge, life, requiresTermination, repeats, source, queryVars>>
         /\ \E n \in Node : EmitWork(w, n) /\ \E e \in Edge : e[2] = n /\ edge[e] = "held"
<1>1. UNCHANGED <<edge, life, requiresTermination, repeats, source, queryVars>>
  BY Zenon DEF SourceEmits, StageEmits
<1>2. PICK n : /\ EmitWork(w, n)
               /\ \/ \E s \in Source : source[s] = "running" /\ n \in Successors[s]
                  \/ \E m \in Node : /\ life[m] = "stopping" \/ \E x \in Work : task[x] = "executing" /\ target[x] = m
                                     /\ n \in Successors[m]
  BY Zenon DEF SourceEmits, StageEmits
<1>3. n \in Node /\ \E e \in Edge : e[2] = n /\ edge[e] = "held"
  BY <1>2, EmittedOverHeldEdge, Zenon
<1> QED
  BY <1>1, <1>2, <1>3, Zenon

\* What each step does to a work task.
Steps(w) ==
  \/ task[w] = "queued" /\ task'[w] = "executing" /\ Lockable(target[w])
  \/ task[w] = "queued" /\ task'[w] = "executed"
  \/ task[w] = "executing" /\ task'[w] \in {"queued", "executed", "failing"}
  \/ task[w] = "failing" /\ task'[w] = "executed"

LEMMA WorkSteps ==
  ASSUME IInv, NEW w \in Work, WorkStep(w), ~CompleteWork(w)
  PROVE  /\ Steps(w) /\ \A x \in Work \ {w} : task'[x] = task[x]
         /\ task' \in [Work -> TaskState]
         /\ UNCHANGED <<life, pendingTasks, target>>
         /\ ~FailQuery(w) => UNCHANGED <<edge, requiresTermination, source, queryVars>>
<1>1. task \in [Work -> TaskState]
  BY Zenon DEF IInv, TypeOK
<1>2. CASE Execute(w)
  BY <1>1, <1>2, Zenon DEF Execute, nodeVars, Steps, TaskState
<1>3. CASE Repeat(w)
  BY <1>1, <1>3, Zenon DEF Repeat, nodeVars, Steps, TaskState
<1>4. CASE Executed(w)
  BY <1>1, <1>4, Zenon DEF Executed, nodeVars, Steps, TaskState
<1>5. CASE ExecuteFails(w)
  BY <1>1, <1>5, Zenon DEF ExecuteFails, nodeVars, Steps, TaskState
<1>6. CASE FailQuery(w)
  BY <1>1, <1>6, Zenon DEF FailQuery, Steps, TaskState
<1> QED
  BY <1>2, <1>3, <1>4, <1>5, <1>6, Zenon DEF WorkStep

LEMMA UnfinishedIsFinite ==
  \A n : IsFiniteSet(Unfinished(n)) /\ Cardinality(Unfinished(n)) \in Nat
<1> SUFFICES ASSUME NEW n PROVE IsFiniteSet(Unfinished(n)) /\ Cardinality(Unfinished(n)) \in Nat
  BY Zenon
<1>1. Unfinished(n) \subseteq Work
  BY Zenon DEF Unfinished
<1> QED
  BY <1>1, WorkIsFinite, FS_Subset, FS_CardinalityType, Zenon

\* The parts of the type invariant
PlanTypes ==
  /\ edge \in [Edge -> EdgeState]
  /\ life \in [Node -> Life]
  /\ requiresTermination \in [Node -> BOOLEAN]
  /\ source \in [Source -> {"running", "ended", "unregistered", "gone"}]
  /\ state \in {"Running", "Stopping", "Stopped", "Failed"}
  /\ {cleanup, expired} \subseteq BOOLEAN
WorkTypes ==
  /\ pendingTasks \in [Node -> Nat]
  /\ task \in [Work -> TaskState]
  /\ target \in [Work -> Node]
  /\ repeats \in [Work -> 0..MaxRepeats]

LEMMA Types == (TypeOK <=> PlanTypes /\ WorkTypes) /\ (TypeOK' <=> PlanTypes' /\ WorkTypes')
BY Zenon DEF TypeOK, PlanTypes, WorkTypes

LEMMA PlanTypesStay ==
  ASSUME IInv, Next
  PROVE  PlanTypes'
<1>1. PlanTypes
  BY Types, Zenon DEF IInv
<1>2. CASE UNCHANGED <<edge, life, requiresTermination, source, queryVars>>
  BY <1>1, <1>2, Zenon DEF PlanTypes, queryVars
<1>3. ASSUME Fail, UNCHANGED life PROVE PlanTypes'
  BY <1>1, <1>3, ZenonT(30) DEF Fail, PlanTypes, EdgeState
<1>4. ASSUME NEW w \in Work, WorkAction(w) PROVE PlanTypes'
  <2>1. CASE FailQuery(w)
    BY <1>3, <2>1, Zenon DEF FailQuery
  <2>2. CASE CompleteWork(w)
    BY <1>2, <2>2, Zenon DEF CompleteWork
  <2>3. CASE WorkStep(w) /\ ~CompleteWork(w) /\ ~FailQuery(w)
    BY <1>2, <2>3, WorkSteps, Zenon
  <2>4. CASE (\E s \in Source : SourceEmits(s, w)) \/ (\E n \in Node : StageEmits(n, w))
    BY <1>2, <2>4, Zenon DEF SourceEmits, StageEmits
  <2> QED
    BY <1>4, <2>1, <2>2, <2>3, <2>4, Zenon DEF WorkAction
<1>5. ASSUME NEW s \in Source, SourceFails(s) \/ SourceEnds(s) \/ StopSource(s) \/ ClearSource(s) PROVE PlanTypes'
  <2>1. CASE SourceFails(s)
    BY <1>3, <2>1, Zenon DEF SourceFails
  <2>2. CASE SourceEnds(s)
    BY <1>1, <2>2, Zenon DEF SourceEnds, PlanTypes, nodeVars, queryVars
  <2>3. CASE StopSource(s) \/ ClearSource(s)
    BY <1>1, <2>3, Zenon DEF StopSource, ClearSource, PlanTypes, EdgeState, queryVars
  <2> QED
    BY <1>5, <2>1, <2>2, <2>3, Zenon
<1>6. ASSUME NEW e \in Edge, PendingPipelineStop(e) PROVE PlanTypes'
  BY <1>1, <1>6, Zenon DEF PendingPipelineStop, PlanTypes, EdgeState, queryVars
<1>7. ASSUME NEW n \in Node, NodeStep(n) PROVE PlanTypes'
  <2>1. CASE Delete(n)
    BY <1>1, <2>1, ZenonT(30) DEF Delete, PlanTypes, EdgeState, Life, queryVars
  <2>2. CASE StopPipeline(n)
    BY <1>1, <2>2, Zenon DEF StopPipeline, PlanTypes, EdgeState, Life, queryVars
  <2>3. CASE StopPipelineFails(n)
    <3>1. /\ requiresTermination' =
               [m \in Node |-> IF m = n \/ (state = "Running" /\ Lockable(m))
                               THEN FALSE ELSE requiresTermination[m]]
          /\ edge' = [e \in Edge |->
                        CASE e[1] = n -> "pending"
                          [] e[1] \in Source /\ edge[e] = "held" /\ state = "Running" -> "dropped"
                          [] OTHER -> edge[e]]
          /\ source' = [s \in Source |-> IF state = "Running" THEN "gone" ELSE source[s]]
          /\ life' = [life EXCEPT ![n] = "destroyed"]
          /\ state' = "Failed" /\ expired' = FALSE /\ cleanup' = cleanup
      BY <2>3, Zenon DEF StopPipelineFails
    <3>2. requiresTermination' \in [Node -> BOOLEAN] /\ life' \in [Node -> Life]
      BY <1>1, <3>1, Zenon DEF PlanTypes, Life
    <3>3. edge' \in [Edge -> EdgeState]
      BY <1>1, <3>1, Zenon DEF PlanTypes, EdgeState
    <3>4. source' \in [Source -> {"running", "ended", "unregistered", "gone"}]
      BY <1>1, <3>1, Zenon DEF PlanTypes
    <3> QED
      BY <1>1, <3>1, <3>2, <3>3, <3>4, Zenon DEF PlanTypes
  <2> QED
    BY <1>7, <2>1, <2>2, <2>3, Zenon DEF NodeStep
<1>8. CASE StopQuery
  BY <1>1, <1>8, Zenon DEF StopQuery, PlanTypes, nodeVars
<1>9. CASE AllPipelinesExpired
  BY <1>1, <1>9, Zenon DEF AllPipelinesExpired, PlanTypes, nodeVars
<1> QED
  BY <1>4, <1>5, <1>6, <1>7, <1>8, <1>9, NextSplits, Zenon DEF OtherAction

LEMMA OthersLeaveWork ==
  ASSUME OtherAction
  PROVE  UNCHANGED <<pendingTasks, task, target, repeats>>
BY Zenon DEF OtherAction, SourceFails, SourceEnds, StopSource, ClearSource, PendingPipelineStop, NodeStep, Delete,
             StopPipeline, StopPipelineFails, StopQuery, AllPipelinesExpired, workVars, nodeVars

LEMMA WorkTypesStay ==
  ASSUME IInv, Next
  PROVE  WorkTypes'
<1>1. WorkTypes
  BY Types, Zenon DEF IInv
<1>2. CASE OtherAction
  BY <1>1, <1>2, OthersLeaveWork, Zenon DEF WorkTypes
<1>3. ASSUME NEW w \in Work, WorkStep(w), ~CompleteWork(w) PROVE WorkTypes'
  <2>1. task' \in [Work -> TaskState] /\ UNCHANGED <<pendingTasks, target>>
    BY <1>3, WorkSteps, Zenon
  <2>2. repeats' \in [Work -> 0..MaxRepeats]
    <3>1. CASE Repeat(w)
      BY <1>1, <3>1, WorkIsFinite DEF Repeat, WorkTypes
    <3>2. CASE ~Repeat(w)
      <4>1. UNCHANGED repeats
        BY <1>3, <3>2, Zenon DEF WorkStep, Execute, Executed, ExecuteFails, FailQuery
      <4> QED
        BY <1>1, <4>1, Zenon DEF WorkTypes
    <3> QED
      BY <3>1, <3>2, Zenon
  <2> QED
    BY <1>1, <2>1, <2>2, Zenon DEF WorkTypes
<1>4. ASSUME NEW w \in Work, CompleteWork(w) PROVE WorkTypes'
  <2>1. task' \in [Work -> TaskState] /\ UNCHANGED <<target, repeats>>
    BY <1>1, <1>4, Zenon DEF CompleteWork, WorkTypes, TaskState
  <2>2. pendingTasks' \in [Node -> Nat]
    <3>1. CASE Lockable(target[w])
      <4>1. PICK n \in Node : n = target[w]
        BY <1>1, Zenon DEF WorkTypes
      <4>2. pendingTasks[n] = Cardinality(Unfinished(n))
        BY <3>1, <4>1, Zenon DEF IInv, PendingTasksAreCounted
      <4>3. w \in Unfinished(n)
        BY <1>4, <4>1, Zenon DEF Unfinished, CompleteWork
      <4>4. pendingTasks[n] - 1 \in Nat
        BY <4>2, <4>3, UnfinishedIsFinite, FS_EmptySet
      <4>5. pendingTasks' = [pendingTasks EXCEPT ![n] = pendingTasks[n] - 1]
        BY <1>4, <3>1, <4>1, Zenon DEF CompleteWork
      <4> QED
        BY <1>1, <4>4, <4>5, Zenon DEF WorkTypes
    <3>2. CASE ~Lockable(target[w])
      BY <1>1, <1>4, <3>2, Zenon DEF CompleteWork, WorkTypes
    <3> QED
      BY <3>1, <3>2, Zenon
  <2> QED
    BY <1>1, <2>1, <2>2, Zenon DEF WorkTypes
<1>5. ASSUME NEW w \in Work, (\E s \in Source : SourceEmits(s, w)) \/ (\E n \in Node : StageEmits(n, w))
      PROVE  WorkTypes'
  <2>1. PICK n \in Node : EmitWork(w, n)
    BY <1>5, Emits, Zenon
  <2>2. UNCHANGED repeats
    BY <1>5, Emits, Zenon
  <2> QED
    BY <1>1, <2>1, <2>2 DEF EmitWork, WorkTypes, TaskState
<1> QED
  BY <1>2, <1>3, <1>4, <1>5, NextSplits, Zenon DEF WorkAction, WorkStep

-----------------------------------------------------------------------------
(* Edges and references *)

LEMMA WorkLeavesThePlan ==
  ASSUME IInv, NEW w \in Work, WorkAction(w), ~FailQuery(w)
  PROVE  UNCHANGED <<edge, life, requiresTermination, source, state, cleanup, expired>>
<1>1. CASE CompleteWork(w)
  BY <1>1, Zenon DEF CompleteWork, queryVars
<1>2. CASE WorkStep(w) /\ ~CompleteWork(w)
  BY <1>2, WorkSteps, Zenon DEF queryVars
<1>3. CASE (\E s \in Source : SourceEmits(s, w)) \/ (\E n \in Node : StageEmits(n, w))
  BY <1>3, Emits, Zenon DEF queryVars
<1> QED
  BY <1>1, <1>2, <1>3, Zenon DEF WorkAction

\* Who ends gives up its edges, nobody else's change, and none comes back.
LEMMA EdgesStay ==
  ASSUME IInv, Next
  PROVE  /\ PredecessorsHold'
         /\ \A e \in Edge : edge'[e] # "dropped" => edge[e] # "dropped"
<1> DEFINE Goal == /\ PredecessorsHold'
                   /\ \A e \in Edge : edge'[e] # "dropped" => edge[e] # "dropped"
<1> SUFFICES Goal
  BY Zenon
<1>1. PlanTypes /\ PredecessorsHold
  BY Types, Zenon DEF IInv
<1>2. \A e \in Edge : e[1] \in Node => e[1] \notin Source
  BY SourcesAreNotNodes, Zenon
<1>3. CASE UNCHANGED <<edge, life>> /\ \A s \in Source : source'[s] \in {"running", "ended"} => source[s] \in {"running", "ended"}
  BY <1>1, <1>3, Zenon DEF PredecessorsHold
<1>4. ASSUME Fail, UNCHANGED life PROVE Goal
  <2>1. CASE state = "Running"
    <3>1. /\ edge' = [e \in Edge |-> IF e[1] \in Source /\ edge[e] = "held" THEN "dropped" ELSE edge[e]]
          /\ \A s \in Source : source'[s] = "gone"
      BY <1>4, <2>1, Zenon DEF Fail
    <3> QED
      BY <1>1, <1>2, <1>4, <3>1, Zenon DEF PredecessorsHold
  <2>2. CASE state # "Running"
    BY <1>3, <1>4, <2>2, Zenon DEF Fail
  <2> QED
    BY <2>1, <2>2, Zenon
<1>5. ASSUME NEW w \in Work, WorkAction(w) PROVE Goal
  <2>1. CASE FailQuery(w)
    BY <1>4, <2>1, Zenon DEF FailQuery
  <2>2. CASE ~FailQuery(w)
    BY <1>3, <1>5, <2>2, WorkLeavesThePlan, Zenon
  <2> QED
    BY <2>1, <2>2, Zenon
<1>6. ASSUME NEW s \in Source, SourceFails(s) \/ SourceEnds(s) \/ StopSource(s) \/ ClearSource(s) PROVE Goal
  <2>1. CASE SourceFails(s)
    BY <1>4, <2>1, Zenon DEF SourceFails
  <2>2. CASE SourceEnds(s)
    <3>1. \A r \in Source : source'[r] \in {"running", "ended"} => source[r] \in {"running", "ended"}
      BY <1>1, <2>2, Zenon DEF SourceEnds, PlanTypes
    <3> QED
      BY <1>3, <2>2, <3>1, Zenon DEF SourceEnds, nodeVars
  <2>3. ASSUME NEW x \in {"pending", "dropped"}, NEW y \in {"unregistered", "gone"},
               source' = [source EXCEPT ![s] = y], UNCHANGED life,
               edge' = [e \in Edge |-> IF e[1] = s /\ edge[e] = "held" THEN x ELSE edge[e]]
        PROVE  Goal
    BY <1>1, <1>2, <2>3, Zenon DEF PredecessorsHold, PlanTypes
  <2>4. CASE StopSource(s)
    BY <2>3, <2>4, Zenon DEF StopSource
  <2>5. CASE ClearSource(s)
    BY <2>3, <2>5, Zenon DEF ClearSource
  <2> QED
    BY <1>6, <2>1, <2>2, <2>4, <2>5, Zenon
<1>7. ASSUME NEW d \in Edge, PendingPipelineStop(d) PROVE Goal
  <2>1. edge[d] = "pending" /\ edge' = [edge EXCEPT ![d] = "dropped"] /\ UNCHANGED <<life, source>>
    BY <1>7, Zenon DEF PendingPipelineStop
  <2> QED
    BY <1>1, <2>1, Zenon DEF PredecessorsHold, PlanTypes
<1>8. ASSUME NEW n \in Node, NodeStep(n) PROVE Goal
  <2>1. CASE Delete(n) /\ UNCHANGED edge
    <3>1. life' = [life EXCEPT ![n] = "stopping"] \/ life' = [life EXCEPT ![n] = "destroyed"]
      BY <2>1, Zenon DEF Delete
    <3>2. life[n] = "shared" /\ UNCHANGED source
      BY <2>1, Zenon DEF Delete
    <3>3. \A e \in Edge : e[1] \in Node /\ life'[e[1]] # "destroyed" => life[e[1]] # "destroyed"
      BY <1>1, <3>1, <3>2, Zenon DEF PlanTypes
    <3> QED
      BY <1>1, <2>1, <3>2, <3>3, Zenon DEF PredecessorsHold
  <2>2. ASSUME NEW x \in {"pending", "dropped"},
               edge' = [e \in Edge |-> IF e[1] = n THEN x ELSE edge[e]],
               x = "pending" => life[n] = "stopping",
               life' = [life EXCEPT ![n] = "destroyed"], UNCHANGED source
        PROVE  Goal
    <3>1. \A e \in Edge : edge'[e] # "dropped" => edge[e] # "dropped"
      <4>1. ASSUME NEW e \in Edge, edge'[e] # "dropped" PROVE edge[e] # "dropped"
        <5>1. CASE e[1] = n
          <6>1. edge[e] = "held"
            BY <1>1, <2>2, <4>1, <5>1, Zenon DEF PredecessorsHold
          <6> QED
            BY <6>1, Zenon
        <5>2. CASE e[1] # n
          BY <2>2, <4>1, <5>2, Zenon
        <5> QED
          BY <5>1, <5>2, Zenon
      <4> QED
        BY <4>1, Zenon
    <3>2. PredecessorsHold'
      BY <1>1, <1>2, <2>2, Zenon DEF PredecessorsHold, PlanTypes
    <3> QED
      BY <3>1, <3>2, Zenon
  <2>3. CASE Delete(n) /\ ~UNCHANGED edge
    BY <2>2, <2>3, Zenon DEF Delete
  <2>4. CASE StopPipeline(n)
    BY <2>2, <2>4, Zenon DEF StopPipeline
  <2>5. CASE StopPipelineFails(n)
    <3>1. /\ \A e \in Edge : edge'[e] = IF e[1] = n THEN "pending"
                                        ELSE IF e[1] \in Source /\ edge[e] = "held" /\ state = "Running"
                                        THEN "dropped" ELSE edge[e]
          /\ \A s \in Source : source'[s] = IF state = "Running" THEN "gone" ELSE source[s]
          /\ life' = [life EXCEPT ![n] = "destroyed"] /\ life[n] = "stopping"
      <4>1. /\ edge' = [e \in Edge |->
                          CASE e[1] = n -> "pending"
                            [] e[1] \in Source /\ edge[e] = "held" /\ state = "Running" -> "dropped"
                            [] OTHER -> edge[e]]
            /\ source' = [s \in Source |-> IF state = "Running" THEN "gone" ELSE source[s]]
            /\ life' = [life EXCEPT ![n] = "destroyed"] /\ life[n] = "stopping"
        BY <2>5, Zenon DEF StopPipelineFails
      <4>2. ASSUME NEW e \in Edge
            PROVE  edge'[e] = IF e[1] = n THEN "pending"
                              ELSE IF e[1] \in Source /\ edge[e] = "held" /\ state = "Running"
                              THEN "dropped" ELSE edge[e]
        <5>1. n \notin Source
          BY SourcesAreNotNodes, Zenon
        <5> QED
          BY <4>1, <5>1, Zenon
      <4> QED
        BY <4>1, <4>2, Zenon
    <3>2. ASSUME NEW e \in Edge, edge'[e] # "dropped" PROVE edge[e] # "dropped"
      <4>1. CASE e[1] = n
        <5>1. edge[e] = "held"
          BY <1>1, <3>1, <4>1, Zenon DEF PredecessorsHold
        <5> QED
          BY <5>1, Zenon
      <4>2. CASE e[1] # n
        BY <3>1, <3>2, <4>2, Zenon
      <4> QED
        BY <4>1, <4>2, Zenon
    <3>3. ASSUME NEW e \in Edge
          PROVE  /\ e[1] \in Node /\ life'[e[1]] # "destroyed" => edge'[e] = "held"
                 /\ e[1] \in Source /\ source'[e[1]] \in {"running", "ended"} => edge'[e] = "held"
      <4>1. CASE e[1] \in Node
        BY <1>1, <1>2, <3>1, <4>1, Zenon DEF PredecessorsHold, PlanTypes
      <4>2. CASE e[1] \in Source
        BY <1>1, <1>2, <3>1, <4>2, Zenon DEF PredecessorsHold, PlanTypes
      <4> QED
        BY <4>1, <4>2, Zenon
    <3> QED
      BY <3>2, <3>3, Zenon DEF PredecessorsHold
  <2> QED
    BY <1>8, <2>1, <2>3, <2>4, <2>5, Zenon DEF NodeStep
<1>9. CASE StopQuery
  BY <1>3, <1>9, Zenon DEF StopQuery, nodeVars
<1>10. CASE AllPipelinesExpired
  <2>1. \A s \in Source : source'[s] = "gone"
    BY <1>10, Zenon DEF AllPipelinesExpired
  <2> QED
    BY <1>3, <1>10, <2>1, Zenon DEF AllPipelinesExpired, nodeVars
<1> HIDE DEF Goal
<1> QED
  BY <1>5, <1>6, <1>7, <1>8, <1>9, <1>10, NextSplits, Zenon DEF OtherAction

\* A node that has lost its last reference does not get another one.
LEMMA NoRevival ==
  ASSUME IInv, Next, NEW n \in Node
  PROVE  /\ References(n)' # {} => References(n) # {}
         /\ Lockable(n)' => Lockable(n)
<1>1. ASSUME NEW x, x \in References(n)' PROVE References(n) # {}
  <2>1. CASE x \in Edge /\ x[2] = n /\ edge'[x] # "dropped"
    <3>1. x \in References(n)
      BY <2>1, EdgesStay, Zenon DEF References
    <3> QED
      BY <3>1, Zenon
  <2>2. CASE x \in Work /\ target'[x] = n /\ task'[x] \in {"executing", "failing"}
    <3>1. WorkTypes
      BY Types, Zenon DEF IInv
    <3>2. CASE target[x] = n /\ task[x] \in {"executing", "failing"}
      <4>1. x \in References(n)
        BY <2>2, <3>2, Zenon DEF References
      <4> QED
        BY <4>1, Zenon
    <3>3. CASE OtherAction
      BY <2>2, <3>2, <3>3, OthersLeaveWork, Zenon
    <3>4. ASSUME NEW w \in Work, WorkStep(w), ~CompleteWork(w) PROVE References(n) # {}
      BY <2>2, <3>2, <3>4, WorkSteps, Zenon DEF Steps, Lockable
    <3>5. ASSUME NEW w \in Work, CompleteWork(w) PROVE References(n) # {}
      BY <2>2, <3>1, <3>2, <3>5, Zenon DEF CompleteWork, WorkTypes
    <3>6. ASSUME NEW w \in Work, (\E s \in Source : SourceEmits(s, w)) \/ (\E m \in Node : StageEmits(m, w))
          PROVE  References(n) # {}
      <4>1. PICK m \in Node : EmitWork(w, m)
        BY <3>6, Emits, Zenon
      <4> QED
        BY <2>2, <3>1, <3>2, <4>1, Zenon DEF EmitWork, WorkTypes
    <3> QED
      BY <3>3, <3>4, <3>5, <3>6, NextSplits, Zenon DEF WorkAction, WorkStep
  <2> QED
    BY <1>1, <2>1, <2>2, Zenon DEF References
<1>2. ASSUME life'[n] = "shared" PROVE life[n] = "shared"
  <2>1. PlanTypes
    BY Types, Zenon DEF IInv
  <2>2. ASSUME NEW w \in Work, WorkAction(w) PROVE UNCHANGED life
    BY <2>2, WorkLeavesThePlan, Zenon DEF FailQuery
  <2>3. UNCHANGED life \/ \E m \in Node : life' = [life EXCEPT ![m] = "stopping"] \/ life' = [life EXCEPT ![m] = "destroyed"]
    BY <2>2, NextSplits, Zenon DEF OtherAction, SourceFails, SourceEnds, StopSource, ClearSource, PendingPipelineStop,
             NodeStep, Delete, StopPipeline, StopPipelineFails, StopQuery, AllPipelinesExpired, nodeVars
  <2> QED
    BY <1>2, <2>1, <2>3, Zenon DEF PlanTypes
<1> QED
  BY <1>1, <1>2, Zenon DEF Lockable

LEMMA SharedStays ==
  ASSUME IInv, Next
  PROVE  ReferencedIsShared'
<1> SUFFICES ASSUME NEW n \in Node, References(n)' # {} PROVE life'[n] = "shared"
  BY Zenon DEF ReferencedIsShared
<1>1. References(n) # {} /\ life[n] = "shared"
  BY NoRevival, Zenon DEF IInv, ReferencedIsShared
<1>2. ASSUME NEW w \in Work, WorkAction(w) PROVE UNCHANGED life
  BY <1>2, WorkLeavesThePlan, Zenon DEF FailQuery
<1>3. \/ UNCHANGED life
      \/ \E m \in Node : /\ life[m] = "stopping" \/ References(m) = {}
                         /\ life' = [life EXCEPT ![m] = "stopping"] \/ life' = [life EXCEPT ![m] = "destroyed"]
  BY <1>2, NextSplits, Zenon DEF OtherAction, SourceFails, SourceEnds, StopSource, ClearSource, PendingPipelineStop,
           NodeStep, Delete, StopPipeline, StopPipelineFails, StopQuery, AllPipelinesExpired, nodeVars
<1>4. PlanTypes
  BY Types, Zenon DEF IInv
<1> QED
  BY <1>1, <1>3, <1>4, Zenon DEF PlanTypes

-----------------------------------------------------------------------------
(* Counts, and what a soft stop waits for *)

LEMMA CountsStay ==
  ASSUME IInv, Next
  PROVE  PendingTasksAreCounted'
<1>1. WorkTypes
  BY Types, Zenon DEF IInv
<1> SUFFICES ASSUME NEW n \in Node, Lockable(n)' PROVE pendingTasks'[n] = Cardinality(Unfinished(n)')
  BY Zenon DEF PendingTasksAreCounted
<1>2. Lockable(n) /\ pendingTasks[n] = Cardinality(Unfinished(n))
  BY NoRevival, Zenon DEF IInv, PendingTasksAreCounted
<1>3. CASE OtherAction
  <2>1. Unfinished(n)' = Unfinished(n) /\ UNCHANGED pendingTasks
    BY <1>3, OthersLeaveWork, Zenon DEF Unfinished
  <2> QED
    BY <1>2, <2>1, Zenon
<1>4. ASSUME NEW w \in Work, WorkStep(w), ~CompleteWork(w) PROVE pendingTasks'[n] = Cardinality(Unfinished(n)')
  <2>1. Unfinished(n)' = Unfinished(n) /\ UNCHANGED pendingTasks
    BY <1>4, WorkSteps, Zenon DEF Steps, Unfinished
  <2> QED
    BY <1>2, <2>1, Zenon
<1>5. ASSUME NEW w \in Work, CompleteWork(w) PROVE pendingTasks'[n] = Cardinality(Unfinished(n)')
  <2>1. task[w] = "executed" /\ task' = [task EXCEPT ![w] = "done"] /\ UNCHANGED target
    BY <1>5, Zenon DEF CompleteWork
  <2>2. CASE target[w] = n
    <3>1. w \in Unfinished(n) /\ Unfinished(n)' = Unfinished(n) \ {w}
      BY <1>1, <2>1, <2>2, Zenon DEF Unfinished, WorkTypes
    <3>2. pendingTasks'[n] = pendingTasks[n] - 1
      BY <1>1, <1>2, <1>5, <2>2, Zenon DEF CompleteWork, WorkTypes
    <3>3. Cardinality(Unfinished(n) \ {w}) = Cardinality(Unfinished(n)) - 1
      BY <3>1, UnfinishedIsFinite, FS_RemoveElement, Zenon
    <3> QED
      BY <1>2, <3>1, <3>2, <3>3, Zenon
  <2>3. CASE target[w] # n
    <3>1. Unfinished(n)' = Unfinished(n)
      BY <1>1, <2>1, <2>3, Zenon DEF Unfinished, WorkTypes
    <3>2. pendingTasks'[n] = pendingTasks[n]
      BY <1>1, <1>5, <2>3, Zenon DEF CompleteWork, WorkTypes
    <3> QED
      BY <1>2, <3>1, <3>2, Zenon
  <2> QED
    BY <2>2, <2>3, Zenon
<1>6. ASSUME NEW w \in Work, (\E s \in Source : SourceEmits(s, w)) \/ (\E m \in Node : StageEmits(m, w))
      PROVE  pendingTasks'[n] = Cardinality(Unfinished(n)')
  <2>1. PICK m \in Node : EmitWork(w, m)
    BY <1>6, Emits, Zenon
  <2>2. CASE m = n
    <3>1. w \notin Unfinished(n) /\ Unfinished(n)' = Unfinished(n) \cup {w} /\ pendingTasks'[n] = pendingTasks[n] + 1
      BY <1>1, <2>1, <2>2, Zenon DEF EmitWork, Unfinished, WorkTypes
    <3>2. Cardinality(Unfinished(n) \cup {w}) = Cardinality(Unfinished(n)) + 1
      BY <3>1, UnfinishedIsFinite, FS_AddElement, Zenon
    <3> QED
      BY <1>2, <3>1, <3>2, Zenon
  <2>3. CASE m # n
    <3>1. Unfinished(n)' = Unfinished(n) /\ pendingTasks'[n] = pendingTasks[n]
      BY <1>1, <2>1, <2>3, Zenon DEF EmitWork, Unfinished, WorkTypes
    <3> QED
      BY <1>2, <3>1, Zenon
  <2> QED
    BY <2>2, <2>3, Zenon
<1> QED
  BY <1>3, <1>4, <1>5, <1>6, NextSplits, Zenon DEF WorkAction, WorkStep

\* While the query stays Running, an edge is dropped only when its target has nothing left to do.
LEMMA RunningKeepsEdges ==
  ASSUME IInv, Next, state' = "Running"
  PROVE  /\ state = "Running" /\ ~cleanup'
         /\ \A n \in Node : life'[n] # "destroyed" => requiresTermination'[n]
         /\ \A e \in Edge : edge'[e] = "dropped" => edge[e] = "dropped" \/ Unfinished(e[2]) = {}
<1> DEFINE Goal == /\ state = "Running" /\ ~cleanup'
                   /\ \A n \in Node : life'[n] # "destroyed" => requiresTermination'[n]
                   /\ \A e \in Edge : edge'[e] = "dropped" => edge[e] = "dropped" \/ Unfinished(e[2]) = {}
<1> SUFFICES Goal
  BY Zenon
<1>1. PlanTypes /\ SoftStopWaits
  BY Types, Zenon DEF IInv
<1>2. ~Fail
  BY Zenon DEF Fail
<1>3. CASE UNCHANGED <<edge, life, requiresTermination, state, cleanup>>
  BY <1>1, <1>3, Zenon DEF SoftStopWaits
<1>4. ASSUME NEW w \in Work, WorkAction(w) PROVE Goal
  <2>1. ~FailQuery(w)
    BY <1>2, Zenon DEF FailQuery
  <2> QED
    BY <1>3, <1>4, <2>1, WorkLeavesThePlan, Zenon
<1>5. ASSUME NEW s \in Source, SourceFails(s) \/ SourceEnds(s) \/ StopSource(s) \/ ClearSource(s) PROVE Goal
  <2>1. ~SourceFails(s)
    BY <1>2, Zenon DEF SourceFails
  <2>2. CASE SourceEnds(s)
    BY <1>3, <2>2, Zenon DEF SourceEnds, nodeVars, queryVars
  <2>3. CASE StopSource(s)
    <3>1. /\ edge' = [e \in Edge |-> IF e[1] = s /\ edge[e] = "held" THEN "pending" ELSE edge[e]]
          /\ UNCHANGED <<life, requiresTermination, state, cleanup>>
      BY <2>3, Zenon DEF StopSource, queryVars
    <3> QED
      BY <1>1, <3>1, Zenon DEF SoftStopWaits
  <2>4. CASE ClearSource(s)
    <3>1. cleanup /\ UNCHANGED state
      BY <2>4, Zenon DEF ClearSource, queryVars
    <3> QED
      BY <1>1, <3>1, Zenon DEF SoftStopWaits
  <2> QED
    BY <1>5, <2>1, <2>2, <2>3, <2>4, Zenon
<1>6. ASSUME NEW d \in Edge, PendingPipelineStop(d) PROVE Goal
  <2>1. /\ edge[d] = "pending" /\ edge' = [edge EXCEPT ![d] = "dropped"]
        /\ ~requiresTermination[d[2]] \/ pendingTasks[d[2]] = 0
        /\ UNCHANGED <<life, requiresTermination, state, cleanup>>
    BY <1>6, Zenon DEF PendingPipelineStop, queryVars
  <2>2. d[2] \in Node /\ d \in References(d[2])
    BY <2>1, Edges, Zenon DEF References
  <2>3. life[d[2]] = "shared" /\ Lockable(d[2])
    BY <2>2, Zenon DEF IInv, ReferencedIsShared, Lockable
  <2>4. requiresTermination[d[2]]
    BY <1>1, <2>1, <2>2, <2>3, Zenon DEF SoftStopWaits
  <2>5. Cardinality(Unfinished(d[2])) = 0
    BY <2>1, <2>2, <2>3, <2>4, Zenon DEF IInv, PendingTasksAreCounted
  <2>6. Unfinished(d[2]) = {}
    BY <2>5, UnfinishedIsFinite, FS_EmptySet, Zenon
  <2>7. \A e \in Edge \ {d} : edge'[e] = edge[e]
    BY <1>1, <2>1, Zenon DEF PlanTypes
  <2> QED
    BY <1>1, <2>1, <2>6, <2>7, Zenon DEF SoftStopWaits
<1>7. ASSUME NEW n \in Node, NodeStep(n) PROVE Goal
  <2>1. ~StopPipelineFails(n)
    BY Zenon DEF StopPipelineFails
  <2>2. CASE Delete(n)
    <3>1. life[n] = "shared" /\ UNCHANGED <<requiresTermination, state, cleanup>>
      BY <2>2, Zenon DEF Delete, queryVars
    <3>2. requiresTermination[n]
      BY <1>1, <3>1, Zenon DEF SoftStopWaits
    <3>3. life' = [life EXCEPT ![n] = "stopping"] /\ UNCHANGED edge
      BY <2>2, <3>2, Zenon DEF Delete
    <3>4. \A m \in Node : life'[m] # "destroyed" => life[m] # "destroyed"
      BY <1>1, <3>1, <3>3, Zenon DEF PlanTypes
    <3> QED
      BY <1>1, <3>1, <3>3, <3>4, Zenon DEF SoftStopWaits
  <2>3. CASE StopPipeline(n)
    <3>1. /\ requiresTermination' = [requiresTermination EXCEPT ![n] = FALSE]
          /\ edge' = [e \in Edge |-> IF e[1] = n THEN "pending" ELSE edge[e]]
          /\ life' = [life EXCEPT ![n] = "destroyed"]
          /\ UNCHANGED <<state, cleanup>>
      BY <2>3, Zenon DEF StopPipeline, queryVars
    <3>2. \A m \in Node : life'[m] # "destroyed" => m # n /\ life[m] # "destroyed" /\ requiresTermination'[m] = requiresTermination[m]
      BY <1>1, <3>1, Zenon DEF PlanTypes
    <3>3. \A e \in Edge : edge'[e] = "dropped" => edge[e] = "dropped"
      BY <3>1, Zenon
    <3> QED
      BY <1>1, <3>1, <3>2, <3>3, Zenon DEF SoftStopWaits
  <2> QED
    BY <1>7, <2>1, <2>2, <2>3, Zenon DEF NodeStep
<1>8. ~StopQuery /\ ~AllPipelinesExpired
  BY Zenon DEF StopQuery, AllPipelinesExpired
<1> HIDE DEF Goal
<1> QED
  BY <1>4, <1>5, <1>6, <1>7, <1>8, NextSplits, Zenon DEF OtherAction

LEMMA SoftStopStays ==
  ASSUME IInv, Next
  PROVE  SoftStopWaits'
<1> SUFFICES ASSUME state' = "Running"
             PROVE  \A w \in Work : task'[w] \notin {"new", "done"} =>
                      \E e \in Edge : e[2] = target'[w] /\ edge'[e] # "dropped"
  BY RunningKeepsEdges, Zenon DEF SoftStopWaits
<1>1. WorkTypes
  BY Types, Zenon DEF IInv
<1>2. state = "Running" /\ \A e \in Edge : edge'[e] = "dropped" => edge[e] = "dropped" \/ Unfinished(e[2]) = {}
  BY RunningKeepsEdges, Zenon
<1>3. ASSUME NEW w \in Work, task'[w] \notin {"new", "done"}, task[w] \notin {"new", "done"}, target'[w] = target[w]
      PROVE  \E e \in Edge : e[2] = target'[w] /\ edge'[e] # "dropped"
  <2>1. PICK e \in Edge : e[2] = target[w] /\ edge[e] # "dropped"
    BY <1>2, <1>3, Zenon DEF IInv, SoftStopWaits
  <2>2. w \in Unfinished(e[2])
    BY <1>3, <2>1, Zenon DEF Unfinished
  <2> QED
    BY <1>2, <1>3, <2>1, <2>2, Zenon
<1>4. CASE OtherAction
  BY <1>3, <1>4, OthersLeaveWork, Zenon
<1>5. ASSUME NEW w \in Work, WorkStep(w), ~CompleteWork(w), NEW x \in Work, task'[x] \notin {"new", "done"}
      PROVE  \E e \in Edge : e[2] = target'[x] /\ edge'[e] # "dropped"
  <2>1. task[x] \notin {"new", "done"} /\ target'[x] = target[x]
    BY <1>5, WorkSteps, Zenon DEF Steps
  <2> QED
    BY <1>3, <1>5, <2>1, Zenon
<1>6. ASSUME NEW w \in Work, CompleteWork(w), NEW x \in Work, task'[x] \notin {"new", "done"}
      PROVE  \E e \in Edge : e[2] = target'[x] /\ edge'[e] # "dropped"
  <2>1. task[x] \notin {"new", "done"} /\ target'[x] = target[x]
    BY <1>1, <1>6, Zenon DEF CompleteWork, WorkTypes
  <2> QED
    BY <1>3, <1>6, <2>1, Zenon
<1>7. ASSUME NEW w \in Work, (\E s \in Source : SourceEmits(s, w)) \/ (\E m \in Node : StageEmits(m, w)),
             NEW x \in Work, task'[x] \notin {"new", "done"}
      PROVE  \E e \in Edge : e[2] = target'[x] /\ edge'[e] # "dropped"
  <2>1. PICK m \in Node : EmitWork(w, m) /\ \E e \in Edge : e[2] = m /\ edge[e] = "held"
    BY <1>7, Emits, Zenon
  <2>2. CASE x = w
    <3>1. UNCHANGED edge /\ target'[x] = m
      BY <1>1, <1>7, <2>1, <2>2, Emits, Zenon DEF EmitWork, WorkTypes
    <3> QED
      BY <2>1, <3>1, Zenon
  <2>3. CASE x # w
    <3>1. task'[x] = task[x] /\ target'[x] = target[x]
      BY <1>1, <2>1, <2>3, Zenon DEF EmitWork, WorkTypes
    <3> QED
      BY <1>3, <1>7, <3>1, Zenon
  <2> QED
    BY <2>2, <2>3, Zenon
<1> QED
  BY <1>4, <1>5, <1>6, <1>7, NextSplits, Zenon DEF WorkAction, WorkStep

-----------------------------------------------------------------------------
(* The invariant *)

LEMMA InitIInv == Init => IInv
<1> SUFFICES ASSUME Init PROVE IInv
  BY Zenon
<1>1. TypeOK
  <2>1. PlanTypes
    BY Zenon DEF Init, PlanTypes, EdgeState, Life
  <2>2. WorkTypes
    BY GraphType, WorkIsFinite DEF Init, WorkTypes, TaskState
  <2> QED
    BY <2>1, <2>2, Types, Zenon
<1>2. PendingTasksAreCounted
  <2> SUFFICES ASSUME NEW n \in Node PROVE pendingTasks[n] = Cardinality(Unfinished(n))
    BY Zenon DEF PendingTasksAreCounted
  <2>1. Unfinished(n) = {} /\ pendingTasks[n] = 0
    BY Zenon DEF Init, Unfinished
  <2> QED
    BY <2>1, FS_EmptySet, Zenon
<1>3. ReferencedIsShared /\ PredecessorsHold /\ SoftStopWaits
  BY Zenon DEF Init, ReferencedIsShared, PredecessorsHold, SoftStopWaits
<1> QED
  BY <1>1, <1>2, <1>3, Zenon DEF IInv

LEMMA StutterIInv == IInv /\ UNCHANGED vars => IInv'
<1> SUFFICES ASSUME IInv, UNCHANGED vars PROVE IInv'
  BY Zenon
<1>1. /\ UNCHANGED <<edge, life, requiresTermination, pendingTasks, task, target, repeats>>
      /\ UNCHANGED <<source, state, cleanup, expired>>
  BY Zenon DEF vars, nodeVars, workVars, queryVars
<1>2. \A n : References(n)' = References(n) /\ Unfinished(n)' = Unfinished(n)
  BY <1>1, Zenon DEF References, Unfinished
<1>3. TypeOK' /\ PredecessorsHold' /\ SoftStopWaits'
  BY <1>1, Zenon DEF IInv, TypeOK, PredecessorsHold, SoftStopWaits
<1>4. PendingTasksAreCounted' /\ ReferencedIsShared'
  BY <1>1, <1>2, Zenon DEF IInv, PendingTasksAreCounted, ReferencedIsShared, Lockable
<1> QED
  BY <1>3, <1>4, Zenon DEF IInv

\* The inductive invariant of a running plan holds in every reachable state, for every graph of sources and
\* nodes and every finite number of tasks: what RunningQueryPlanNode's reference count and pendingTasks
\* say of the edges, tasks and cleanup functions that QueryEngine.cpp and RunningSource.cpp hand around.
THEOREM Invariance == Spec => []IInv
<1>1. IInv /\ [Next]_vars => IInv'
  <2>1. ASSUME IInv, Next PROVE IInv'
    <3>1. TypeOK'
      BY <2>1, PlanTypesStay, WorkTypesStay, Types, Zenon
    <3> QED
      BY <2>1, <3>1, EdgesStay, SharedStays, CountsStay, SoftStopStays, Zenon DEF IInv
  <2> QED
    BY <2>1, StutterIInv, Zenon
<1> QED
  BY InitIInv, <1>1, PTL DEF Spec

\* The comment of RunningQueryPlan.hpp:44, the INVARIANT of QueryEngine.cpp:118 and the single owner of a node
\* that is stopped: a node is alive while a predecessor is, its pendingTasks is the number of its unfinished
\* tasks, and its stage is not executed once it is being stopped.
THEOREM NodesAlwaysLiveLongEnough == Spec => []NodesLiveLongEnough
<1>1. ASSUME IInv PROVE NodesLiveLongEnough
  <2>1. ASSUME NEW w \in Work, task[w] = "executing" PROVE life[target[w]] = "shared"
    <3>1. target[w] \in Node /\ w \in References(target[w])
      BY <1>1, <2>1, Zenon DEF IInv, TypeOK, References
    <3> QED
      BY <1>1, <3>1, Zenon DEF IInv, ReferencedIsShared
  <2>2. ASSUME NEW e \in Edge, e[1] \in Node, life[e[1]] # "destroyed" PROVE Lockable(e[2])
    <3>1. edge[e] = "held"
      BY <1>1, <2>2, Zenon DEF IInv, PredecessorsHold
    <3>2. e[2] \in Node /\ e \in References(e[2])
      BY <3>1, Edges, Zenon DEF References
    <3> QED
      BY <1>1, <3>2, Zenon DEF IInv, ReferencedIsShared, Lockable
  <2> QED
    BY <1>1, <2>1, <2>2, Zenon DEF IInv, NodesLiveLongEnough, NotExecutedOnceStopping, AliveWithPredecessor
<1> QED
  BY Invariance, <1>1, PTL

\* While the query is Running, however its sources end and whichever pipelines stop one after the other, no
\* WorkTask of QueryEngine.cpp finds its pipeline expired: PendingPipelineStopTask waits for all of them.
THEOREM GracefulEndNeverLoses == Spec => []GracefulEndLosesNothing
<1>1. ASSUME IInv PROVE GracefulEndLosesNothing
  <2> SUFFICES ASSUME state = "Running", NEW w \in Work, task[w] \in {"queued", "executing"}
               PROVE  Lockable(target[w])
    BY Zenon DEF GracefulEndLosesNothing
  <2>1. PICK e \in Edge : e[2] = target[w] /\ edge[e] # "dropped"
    BY <1>1, Zenon DEF IInv, SoftStopWaits
  <2>2. e[2] \in Node /\ e \in References(e[2])
    BY <2>1, Edges, Zenon DEF References
  <2> QED
    BY <1>1, <2>1, <2>2, Zenon DEF IInv, ReferencedIsShared, Lockable
<1> QED
  BY Invariance, <1>1, PTL
=============================================================================
