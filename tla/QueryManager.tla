---------------------------- MODULE QueryManager ----------------------------
(***************************************************************************)
(* Distributed queries: the query manager of the frontend (nes-frontend,   *)
(* QueryManager.cpp) starts, polls and stops one local query on every host *)
(* of a plan through the submission backends; each worker (SingleNodeWorker*)
(* and NodeEngine) logs the status of its local queries and hands start    *)
(* and stop to the worker threads of its engine as tasks.                  *)
(*                                                                         *)
(* The manager is single-threaded, a worker's threads are not.  A call on  *)
(* a backend can fail before or after it took effect, and a worker process *)
(* can crash.  How the engine starts, runs and ends a local query is       *)
(* abstracted to its steps in QueryLifecycle, which QueryStart and         *)
(* RunningPlan implement.                                                  *)
(***************************************************************************)
EXTENDS Naturals, Sequences

CONSTANTS
  Query,          \* the distributed query ids; each is submitted once
  Host,           \* every plan has one local plan on each of them
  WorkerThreads,  \* threads of an engine
  MaxFaults,      \* bound: failed calls and crashes
  MaxStops        \* bound: calls of QueryManager::stop

ASSUME EngineHasThreads == WorkerThreads \in Nat \ {0}
ASSUME SomeQuery == Query # {}
ASSUME BoundsAreNumbers == MaxFaults \in Nat /\ MaxStops \in Nat

VARIABLES
  queries,      \* QueryManagerState::queries
  manager,      \* what the manager is doing: [op, query, left, started, failed]
  startAnswer,  \* what start returned for each query
  stopAnswer,   \* what the last stop returned for each query
  catalog,      \* the engine's state of each local query
  log,          \* the status changes in a worker's QueryLog
  tasks,        \* start and stop tasks of each engine not handled yet, oldest first
  missed,       \* local queries that a stop task did not find in the catalog
  lost,         \* local queries for which a failed call left the manager in the dark
  faults, stops

callVars == <<queries, startAnswer, stopAnswer>>
workerVars == <<catalog, log, tasks, missed>>
vars == <<callVars, manager, workerVars, lost, faults, stops>>

Local == Query \X Host
Task == [kind : {"start", "stop"}, of : Local]

Idle == [op |-> "idle", query |-> CHOOSE q \in Query : TRUE, left |-> {}, started |-> {}, failed |-> FALSE]

Init ==
  /\ queries = {}
  /\ manager = Idle
  /\ startAnswer = [q \in Query |-> "none"]
  /\ stopAnswer = [q \in Query |-> "none"]
  /\ catalog = [l \in Local |-> "absent"]
  /\ log = [l \in Local |-> {}]
  /\ tasks = [h \in Host |-> <<>>]
  /\ missed = {} /\ lost = {}
  /\ faults = 0 /\ stops = 0

-----------------------------------------------------------------------------
\* Status

Priority == <<"Failed", "Stopped", "Running", "Started", "Registered">>

\* getQueryStatusImpl: events may arrive out of order, the status is the one
\* of the highest priority.
LocalStatus(l) ==
  IF log[l] = {} THEN "NotFound" ELSE Head(SelectSeq(Priority, LAMBDA s : s \in log[l]))

\* DistributedQueryStatusSnapshot::getGlobalQueryStatus
GlobalStatus(q) ==
  LET status == {LocalStatus(<<q, h>>) : h \in Host}
  IN IF "Failed" \in status THEN "Failed"
     ELSE IF "NotFound" \in status THEN "Unreachable"
     ELSE IF status = {"Stopped"} THEN "Stopped"
     ELSE IF "Stopped" \in status THEN "PartiallyStopped"
     ELSE IF status = {"Registered"} THEN "Registered"
     ELSE "Running"

-----------------------------------------------------------------------------
\* The calls on a backend.  Each one either takes effect and is answered,
\* fails without an effect, or takes effect and its answer is lost.

Fault == faults < MaxFaults /\ faults' = faults + 1
NoFault == UNCHANGED faults

\* NodeEngine::startQuery: the query is logged, then handed to the engine.
WorkerStarts(l) ==
  /\ log' = [log EXCEPT ![l] = @ \cup {"Registered"}]
  /\ tasks' = [tasks EXCEPT ![l[2]] = Append(@, [kind |-> "start", of |-> l])]
  /\ UNCHANGED <<catalog, missed>>

\* NodeEngine::stopQuery
WorkerStops(l) ==
  /\ tasks' = [tasks EXCEPT ![l[2]] = Append(@, [kind |-> "stop", of |-> l])]
  /\ UNCHANGED <<catalog, log, missed>>

-----------------------------------------------------------------------------
\* QueryManager::start

\* An id that is tracked is refused with QueryAlreadyRegistered.
BeginStart(q) ==
  /\ manager.op = "idle"
  /\ startAnswer[q] = "none"
  /\ q \notin queries
  /\ manager' = [Idle EXCEPT !.op = "start", !.query = q, !.left = Host]
  /\ UNCHANGED <<callVars, workerVars, lost, faults, stops>>

StartLocal(h) ==
  /\ manager.op = "start" /\ h \in manager.left
  /\ WorkerStarts(<<manager.query, h>>)
  /\ manager' = [manager EXCEPT !.left = @ \ {h}, !.started = @ \cup {h}]
  /\ NoFault
  /\ UNCHANGED <<callVars, lost, stops>>

\* The request does not arrive, the plan does not compile, or its instantiation throws, which
\* NodeEngine::startQuery does only after it logged the query.
StartLocalFails(h) ==
  /\ manager.op = "start" /\ h \in manager.left
  /\ Fault
  /\ manager' = [manager EXCEPT !.left = @ \ {h}, !.failed = TRUE]
  /\ log' \in {log, [log EXCEPT ![<<manager.query, h>>] = @ \cup {"Registered"}]}
  /\ UNCHANGED <<callVars, catalog, tasks, missed, lost, stops>>

StartReplyLost(h) ==
  /\ manager.op = "start" /\ h \in manager.left
  /\ Fault
  /\ WorkerStarts(<<manager.query, h>>)
  /\ manager' = [manager EXCEPT !.left = @ \ {h}, !.failed = TRUE]
  /\ lost' = lost \cup {<<manager.query, h>>}
  /\ UNCHANGED <<callVars, stops>>

\* As LocalsStarted, but the partial deployment stays.
LocalsStartedWithoutUnwinding ==
  /\ manager.op = "start" /\ manager.left = {}
  /\ IF manager.failed
     THEN /\ manager' = [manager EXCEPT !.op = "unwind"]
          /\ UNCHANGED queries
     ELSE /\ manager' = [manager EXCEPT !.op = "poll", !.left = Host]
          /\ queries' = queries \cup {manager.query}
  /\ UNCHANGED <<startAnswer, stopAnswer, workerVars, lost, faults, stops>>

\* After the last local plan: the query is tracked, or what did start is
\* stopped again.
LocalsStarted ==
  /\ manager.op = "start" /\ manager.left = {}
  /\ IF manager.failed
     THEN /\ manager' = [manager EXCEPT !.op = "unwind", !.left = manager.started]
          /\ UNCHANGED queries
     ELSE /\ manager' = [manager EXCEPT !.op = "poll", !.left = Host]
          /\ queries' = queries \cup {manager.query}
  /\ UNCHANGED <<startAnswer, stopAnswer, workerVars, lost, faults, stops>>

\* Errors while unwinding are logged and otherwise ignored.
Unwind(h) ==
  /\ manager.op = "unwind" /\ h \in manager.left
  /\ manager' = [manager EXCEPT !.left = @ \ {h}]
  /\ \/ WorkerStops(<<manager.query, h>>) /\ NoFault /\ UNCHANGED lost
     \/ /\ Fault
        /\ lost' = lost \cup {<<manager.query, h>>}
        /\ UNCHANGED workerVars
  /\ UNCHANGED <<callVars, stops>>

\* As Poll, but any answer will do.
PollOnce(h) ==
  /\ manager.op = "poll" /\ h \in manager.left
  /\ \/ NoFault /\ manager' = [manager EXCEPT !.left = @ \ {h}]
     \/ Fault /\ manager' = [manager EXCEPT !.left = @ \ {h}, !.failed = TRUE]
  /\ UNCHANGED <<callVars, workerVars, lost, stops>>

\* As Poll, but a status that cannot be had is asked for again.
PollAgain(h) ==
  /\ manager.op = "poll" /\ h \in manager.left
  /\ LocalStatus(<<manager.query, h>>) \notin {"Registered", "NotFound"}
  /\ NoFault
  /\ manager' = [manager EXCEPT !.left = @ \ {h}]
  /\ UNCHANGED <<callVars, workerVars, lost, stops>>

\* One status request of a polling round; a local query that is still
\* Registered is asked again in the next round.
Poll(h) ==
  /\ manager.op = "poll" /\ h \in manager.left
  /\ \/ /\ LocalStatus(<<manager.query, h>>) # "Registered"
        /\ NoFault
        /\ manager' = [manager EXCEPT !.left = @ \ {h},
                         !.failed = @ \/ LocalStatus(<<manager.query, h>>) = "NotFound"]
     \/ Fault /\ manager' = [manager EXCEPT !.left = @ \ {h}, !.failed = TRUE]
  /\ UNCHANGED <<callVars, workerVars, lost, stops>>

\* statusPollDeadline
PollTimesOut ==
  /\ manager.op = "poll" /\ manager.left # {}
  /\ manager' = [manager EXCEPT !.left = {}, !.failed = TRUE]
  /\ UNCHANGED <<callVars, workerVars, lost, faults, stops>>

StartReturns ==
  /\ manager.op \in {"unwind", "poll"} /\ manager.left = {}
  /\ startAnswer' = [startAnswer EXCEPT ![manager.query] = IF manager.failed THEN "error" ELSE "ok"]
  /\ manager' = Idle
  /\ UNCHANGED <<queries, stopAnswer, workerVars, lost, faults, stops>>

-----------------------------------------------------------------------------
\* QueryManager::stop

\* An id that is not tracked is refused with QueryNotFound.
BeginStop(q) ==
  /\ manager.op = "idle"
  /\ q \in queries
  /\ stops < MaxStops
  /\ stops' = stops + 1
  /\ manager' = [Idle EXCEPT !.op = "stop", !.query = q, !.left = Host]
  /\ UNCHANGED <<callVars, workerVars, lost, faults>>

StopLocal(h) ==
  /\ manager.op = "stop" /\ h \in manager.left
  /\ WorkerStops(<<manager.query, h>>)
  /\ \/ NoFault /\ manager' = [manager EXCEPT !.left = @ \ {h}]
     \/ Fault /\ manager' = [manager EXCEPT !.left = @ \ {h}, !.failed = TRUE]
  /\ UNCHANGED <<callVars, lost, stops>>

StopLocalFails(h) ==
  /\ manager.op = "stop" /\ h \in manager.left
  /\ Fault
  /\ manager' = [manager EXCEPT !.left = @ \ {h}, !.failed = TRUE]
  /\ UNCHANGED <<callVars, workerVars, lost, stops>>

\* The id that erase is called with was moved into getQuery before: it is
\* empty, and no query is erased.
StopReturns ==
  /\ manager.op = "stop" /\ manager.left = {}
  /\ stopAnswer' = [stopAnswer EXCEPT ![manager.query] = IF manager.failed THEN "error" ELSE "ok"]
  /\ manager' = Idle
  /\ UNCHANGED <<queries, startAnswer, workerVars, lost, faults, stops>>

-----------------------------------------------------------------------------
\* The engine of a worker

managerVars == <<callVars, manager, lost, faults, stops>>

Enter(l, state) == catalog' = [catalog EXCEPT ![l] = state]
Log(l, status) == log' = [log EXCEPT ![l] = @ \cup {status}]

Without(queue, i) == [j \in 1..Len(queue) - 1 |-> queue[IF j < i THEN j ELSE j + 1]]

\* Tasks leave the queue in order, but the thread that took one may be
\* overtaken by the others.
Take(h, i) ==
  /\ i \in DOMAIN tasks[h] /\ i <= WorkerThreads
  /\ tasks' = [tasks EXCEPT ![h] = Without(@, i)]

\* StartQueryTask: QueryCatalog::start; a pipeline may have failed before the
\* query leaves Reserved.
HandleStart(h, i) ==
  /\ Take(h, i)
  /\ tasks[h][i].kind = "start"
  /\ \/ Enter(tasks[h][i].of, "Starting") /\ Log(tasks[h][i].of, "Started")
     \/ Enter(tasks[h][i].of, "Failed") /\ Log(tasks[h][i].of, "Failed")
  /\ UNCHANGED <<managerVars, missed>>

\* StopQueryTask: QueryCatalog::stopQuery; a query that is not in the catalog
\* gets a warning in the engine's log.
HandleStop(h, i) ==
  /\ Take(h, i)
  /\ tasks[h][i].kind = "stop"
  /\ LET l == tasks[h][i].of
     IN /\ catalog' = [catalog EXCEPT ![l] = IF @ \in {"Starting", "Running"} THEN "Stopping" ELSE @]
        /\ missed' = IF catalog[l] = "absent" THEN missed \cup {l} ELSE missed
  /\ UNCHANGED <<managerVars, log>>

\* onRunning: the entry is made whether or not the query was Starting.
OnRunning(l) ==
  /\ catalog[l] \in {"Starting", "Stopping"}
  /\ "Running" \notin log[l]
  /\ Enter(l, IF catalog[l] = "Starting" THEN "Running" ELSE catalog[l])
  /\ Log(l, "Running")
  /\ UNCHANGED <<managerVars, tasks, missed>>

\* onDestruction
OnDestruction(l) ==
  /\ catalog[l] \in {"Starting", "Running", "Stopping"}
  /\ Enter(l, "Stopped") /\ Log(l, "Stopped")
  /\ UNCHANGED <<managerVars, tasks, missed>>

\* onFailure
OnFailure(l) ==
  /\ catalog[l] \in {"Starting", "Running", "Stopping"}
  /\ Enter(l, "Failed") /\ Log(l, "Failed")
  /\ UNCHANGED <<managerVars, tasks, missed>>

\* The worker process dies and is started anew; nothing of it persists.
Crash(h) ==
  /\ Fault
  /\ catalog' = [l \in Local |-> IF l[2] = h THEN "absent" ELSE catalog[l]]
  /\ log' = [l \in Local |-> IF l[2] = h THEN {} ELSE log[l]]
  /\ tasks' = [tasks EXCEPT ![h] = <<>>]
  /\ UNCHANGED <<callVars, manager, missed, lost, stops>>

-----------------------------------------------------------------------------

ManagerStep ==
  \/ LocalsStarted \/ StartReturns \/ StopReturns
  \/ \E h \in Host : \/ StartLocal(h) \/ StartLocalFails(h) \/ StartReplyLost(h)
                     \/ Unwind(h) \/ Poll(h) \/ StopLocal(h) \/ StopLocalFails(h)

EngineStep(h) == \E i \in DOMAIN tasks[h] : HandleStart(h, i) \/ HandleStop(h, i)

Next ==
  \/ \E q \in Query : BeginStart(q) \/ BeginStop(q)
  \/ ManagerStep \/ PollTimesOut
  \/ \E h \in Host : EngineStep(h) \/ Crash(h)
  \/ \E l \in Local : OnRunning(l) \/ OnDestruction(l) \/ OnFailure(l)

\* The manager and the threads of the engines make progress, and a query that
\* is stopped ends: RunningPlan checks it, provided that no worker thread waits
\* for ever for a source that ends (WorkersAreStuck of SourceThreads).  Nothing
\* makes a query that runs end, nor the poll time out.
Fairness ==
  /\ WF_vars(ManagerStep)
  /\ \A h \in Host : WF_vars(EngineStep(h))
  /\ \A l \in Local : WF_vars(catalog[l] = "Stopping" /\ (OnDestruction(l) \/ OnFailure(l)))

Spec == Init /\ [][Next]_vars /\ Fairness

-----------------------------------------------------------------------------

TypeOK ==
  /\ queries \subseteq Query
  /\ manager \in [op : {"idle", "start", "unwind", "poll", "stop"}, query : Query,
                  left : SUBSET Host, started : SUBSET Host, failed : BOOLEAN]
  /\ startAnswer \in [Query -> {"none", "ok", "error"}]
  /\ stopAnswer \in [Query -> {"none", "ok", "error"}]
  /\ catalog \in [Local -> {"absent", "Starting", "Running", "Stopping", "Stopped", "Failed"}]
  /\ log \in [Local -> SUBSET {"Registered", "Started", "Running", "Stopped", "Failed"}]
  /\ tasks \in [Host -> Seq(Task)]
  /\ \A h \in Host : \A i \in DOMAIN tasks[h] : tasks[h][i].of[2] = h
  /\ missed \subseteq Local /\ lost \subseteq Local
  /\ faults \in 0..MaxFaults /\ stops \in 0..MaxStops

Pending(l, kind) == \E i \in DOMAIN tasks[l[2]] : tasks[l[2]][i] = [kind |-> kind, of |-> l]

\* It runs, or will, and nobody has asked the engine to stop it.
RunsOn(l) ==
  /\ Pending(l, "start") \/ catalog[l] \in {"Starting", "Running"}
  /\ ~Pending(l, "stop")

\* Between two calls every local query that runs on belongs to a query that
\* the manager tracks, so that it can be stopped: start unwinds a partial
\* deployment, "so nobody would ever stop them" does not come true
\* (QueryManager.cpp:153).  Two cases remain: a call failed and the manager
\* cannot know, or the stop task of the unwinding overtook the start task
\* (QueryEngine.cpp:1012).
NoQueryIsForgotten ==
  /\ TypeOK
  /\ manager.op = "idle" =>
       \A l \in Local : RunsOn(l) => l[1] \in queries \/ l \in lost \cup missed

\* A query that start reported as started and stop as stopped ends on every
\* host: because start polls until every local query has left Registered, no
\* stop task can be early.  This is about the calls of QueryManager::stop; that a
\* query in Stopping ends is assumed, and an engine that is stuck in
\* WorkersAreStuck (SourceThreads) is the exception.
StopEndsTheQuery ==
  \A q \in Query :
    startAnswer[q] = "ok" /\ stopAnswer[q] = "ok" ~>
      /\ GlobalStatus(q) \in {"Stopped", "Failed", "Unreachable"}
      /\ \A h \in Host : ~RunsOn(<<q, h>>)

\* Every call of start and stop returns, although calls on workers fail and
\* workers crash while it polls them, and without the poll's deadline.
CallsReturn == manager.op # "idle" ~> manager.op = "idle"

-----------------------------------------------------------------------------
\* The inductive invariant

\* A local query is started once on a worker: while its start task waits it is not in the catalog, and
\* there is no second one.
StartsAreUnique ==
  \A h \in Host : \A i \in DOMAIN tasks[h] : tasks[h][i].kind = "start" =>
    /\ catalog[tasks[h][i].of] = "absent"
    /\ \A j \in DOMAIN tasks[h] : tasks[h][j] = tasks[h][i] => j = i

\* What start has not reached is not on a worker.
Fresh(l) == ~Pending(l, "start") /\ catalog[l] = "absent"
BeforeStartIsFresh ==
  /\ \A q \in Query : startAnswer[q] = "none" /\ ~(manager.op \in {"start", "unwind", "poll"} /\ manager.query = q) =>
       \A h \in Host : Fresh(<<q, h>>)
  /\ manager.op = "start" => \A h \in manager.left : Fresh(<<manager.query, h>>)

\* A local query that runs on without being tracked is one that start is going to track or to unwind.
UntrackedIsInHand ==
  \A l \in Local : RunsOn(l) =>
    \/ l[1] \in queries \/ l \in lost \cup missed
    \/ /\ manager.query = l[1]
       /\ \/ manager.op = "start" /\ l[2] \in manager.started
          \/ manager.op = "unwind" /\ l[2] \in manager.left

IInv == TypeOK /\ StartsAreUnique /\ BeforeStartIsFresh /\ UntrackedIsInHand
=============================================================================
