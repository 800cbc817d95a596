---------------------------- MODULE SourceThreads ----------------------------
(***************************************************************************)
(* Source threads and the workers that end them: dataSourceThread and      *)
(* SourceThread::tryStop in nes-sources/src/SourceThread.cpp, the emit     *)
(* function, attemptUnregister and ~RunningSource in                       *)
(* nes-query-engine/RunningSource.cpp, and the tasks of QueryEngine.cpp    *)
(* that meet them through the bounded admission queue.  A source thread    *)
(* can wait for back pressure, for a buffer, for the semaphore of buffers  *)
(* in flight and for room in the admission queue.                          *)
(*                                                                         *)
(* Every source belongs to a query of its own.  A read of the task queue   *)
(* is one step here; TaskQueue has its grain.                              *)
(***************************************************************************)
EXTENDS Naturals, Sequences, FiniteSets

CONSTANTS
  Source,
  Worker,
  Buffer,              \* the pool that all sources share
  Fanout,              \* how many pipelines a source feeds
  InflightLimit,       \* SourceRuntimeConfiguration::inflightBufferLimit
  AdmissionCapacity,
  MaxStops,            \* bound: stop requests for each query
  NoBuffer, NoWorker

ASSUME LimitsArePositive ==
  /\ Fanout \in Nat \ {0}
  /\ InflightLimit \in Nat \ {0}
  /\ AdmissionCapacity \in Nat \ {0}
  /\ MaxStops \in Nat
ASSUME ThreadsAreFinite == IsFiniteSet(Worker) /\ Source # {}
ASSUME NoBufferIsNone == NoBuffer \notin Buffer

VARIABLES
  pc,           \* where each source thread is
  hand,         \* the buffer in its hand
  left,         \* successors that this buffer has yet to be emitted to
  stop,         \* sources whose stop token was triggered
  available,    \* the semaphore availableBuffer
  joinable,     \* sources whose thread has not been joined
  planned,      \* sources that their RunningQueryPlan still owns
  unregistered, \* sources whose onSourceStopped was called
  pressure,     \* sources whose back pressure channel is closed
  asked,        \* how often the stop of each source's query was asked for
  admission,    \* the admission queue
  retry,        \* StopSourceTasks to be repeated
  job,          \* what each worker does
  catalogLock   \* QueryCatalog::mutex

sourceVars == <<pc, hand, left>>
tokenVars == <<stop, available>>
ownerVars == <<joinable, planned, unregistered>>
queueVars == <<admission, retry>>
vars == <<sourceVars, tokenVars, ownerVars, pressure, asked, queueVars, job, catalogLock>>

Task == [kind : {"work", "stopSource", "failSource", "stopQuery"},
         source : Source, buffer : Buffer \cup {NoBuffer}]
Job == [at : {"idle", "work", "failing", "unregister", "lock", "release", "join", "finish"},
        source : Source, buffer : Buffer \cup {NoBuffer}]
Place == {"wait", "buffer", "fill", "emit", "acquire", "check", "leave", "add",
          "end", "eos", "error", "exit", "exited"}

\* Tasks of a kind for source s in the admission queue.
Queued(kind, s) == {i \in DOMAIN admission : admission[i].kind = kind /\ admission[i].source = s}

\* WorkTasks of s whose callback has not run.
InFlight(s) ==
  Cardinality(Queued("work", s)) +
  Cardinality({w \in Worker : job[w].source = s /\ job[w].buffer # NoBuffer})

\* Buffers that neither a source nor a task refers to.
Free == {b \in Buffer : /\ \A s \in Source : hand[s] # b
                        /\ \A i \in DOMAIN admission : admission[i].buffer # b
                        /\ \A w \in Worker : job[w].buffer # b}

\* Workers with a shared_ptr to the RunningSource s.
Holds(w, s) == job[w].source = s /\ job[w].at \in {"unregister", "failing", "release"}
Alive(s) == s \in planned \/ \E w \in Worker : Holds(w, s)

Init ==
  /\ pc = [s \in Source |-> "wait"]
  /\ hand = [s \in Source |-> NoBuffer]
  /\ left = [s \in Source |-> 0]
  /\ stop = {}
  /\ available = [s \in Source |-> InflightLimit]
  /\ joinable = Source
  /\ planned = Source
  /\ unregistered = {}
  /\ pressure = {}
  /\ asked = [s \in Source |-> 0]
  /\ admission = <<>>
  /\ retry = {}
  /\ job = [w \in Worker |->
              [at |-> "idle", source |-> CHOOSE s \in Source : TRUE, buffer |-> NoBuffer]]
  /\ catalogLock = NoWorker

-----------------------------------------------------------------------------
\* The source thread

Goto(s, place) == pc' = [pc EXCEPT ![s] = place]

\* Reading the stop token: on to the end if it was triggered.
GotoUnlessStopped(s, place) == Goto(s, IF s \in stop THEN "exit" ELSE place)

\* BackpressureListener::wait returns when the channel is open or on stop.
Wait(s) ==
  /\ pc[s] = "wait"
  /\ s \notin pressure \/ s \in stop
  /\ GotoUnlessStopped(s, "buffer")
  /\ UNCHANGED <<hand, left, tokenVars, ownerVars, pressure, asked, queueVars, job, catalogLock>>

\* getBufferWithTimeout is repeated until there is a buffer or a stop.
GetBuffer(s) ==
  /\ pc[s] = "buffer"
  /\ \/ s \in stop /\ hand' = hand
     \/ s \notin stop /\ \E b \in Free : hand' = [hand EXCEPT ![s] = b]
  /\ GotoUnlessStopped(s, "fill")
  /\ UNCHANGED <<left, tokenVars, ownerVars, pressure, asked, queueVars, job, catalogLock>>

\* fillTupleBuffer reads data,
FillData(s) ==
  /\ pc[s] = "fill"
  /\ left' = [left EXCEPT ![s] = Fanout]
  /\ Goto(s, "emit")
  /\ UNCHANGED <<hand, tokenVars, ownerVars, pressure, asked, queueVars, job, catalogLock>>

\* or nothing, which means end of stream unless a stop was requested,
FillNothing(s) ==
  /\ pc[s] = "fill"
  /\ hand' = [hand EXCEPT ![s] = NoBuffer]
  /\ GotoUnlessStopped(s, "end")
  /\ UNCHANGED <<left, tokenVars, ownerVars, pressure, asked, queueVars, job, catalogLock>>

\* or throws.
FillThrows(s) ==
  /\ pc[s] = "fill"
  /\ hand' = [hand EXCEPT ![s] = NoBuffer]
  /\ Goto(s, "error")
  /\ UNCHANGED <<left, tokenVars, ownerVars, pressure, asked, queueVars, job, catalogLock>>

Fill(s) == FillData(s) \/ FillNothing(s) \/ FillThrows(s)

\* The stop callback of the emit function is registered; it runs at once if a
\* stop was requested before.
Register(s) ==
  /\ pc[s] = "emit"
  /\ available' = [available EXCEPT ![s] = IF s \in stop THEN @ + 1 ELSE @]
  /\ Goto(s, "acquire")
  /\ UNCHANGED <<hand, left, stop, ownerVars, pressure, asked, queueVars, job, catalogLock>>

Acquire(s) ==
  /\ pc[s] = "acquire"
  /\ available[s] > 0
  /\ available' = [available EXCEPT ![s] = @ - 1]
  /\ Goto(s, "check")
  /\ UNCHANGED <<hand, left, stop, ownerVars, pressure, asked, queueVars, job, catalogLock>>

\* After a stop request the emit function returns STOP_REQUESTED, which the
\* routine ignores: it meets the stop token again in its loop.
Check(s) ==
  /\ pc[s] = "check"
  /\ hand' = [hand EXCEPT ![s] = IF s \in stop THEN NoBuffer ELSE @]
  /\ Goto(s, IF s \in stop THEN "wait" ELSE "leave")
  /\ UNCHANGED <<left, tokenVars, ownerVars, pressure, asked, queueVars, job, catalogLock>>

\* The stop callback is registered until its scope ends, after the test: a stop in between puts a token
\* into the semaphore that nobody waits for.
Leave(s) ==
  /\ pc[s] = "leave"
  /\ Goto(s, "add")
  /\ UNCHANGED <<hand, left, tokenVars, ownerVars, pressure, asked, queueVars, job, catalogLock>>

\* addAdmissionTaskBlocking with an empty stop token.
Enqueue(kind, s, b) ==
  /\ Len(admission) < AdmissionCapacity
  /\ admission' = Append(admission, [kind |-> kind, source |-> s, buffer |-> b])
  /\ UNCHANGED retry

\* emitWork from a thread that is not a worker.  It always returns true.
Add(s) ==
  /\ pc[s] = "add"
  /\ Enqueue("work", s, hand[s])
  /\ left' = [left EXCEPT ![s] = @ - 1]
  /\ hand' = [hand EXCEPT ![s] = IF left[s] = 1 THEN NoBuffer ELSE @]
  /\ Goto(s, IF left[s] = 1 THEN "wait" ELSE "emit")
  /\ UNCHANGED <<tokenVars, ownerVars, pressure, asked, job, catalogLock>>

\* The routine returned EndOfStream; the event is emitted unless a stop was
\* requested meanwhile.
End(s) ==
  /\ pc[s] = "end"
  /\ GotoUnlessStopped(s, "eos")
  /\ UNCHANGED <<hand, left, tokenVars, ownerVars, pressure, asked, queueVars, job, catalogLock>>

\* As EmitEnd, but through the internal queue, past the admitted tasks.
EmitEndInternally(s) ==
  /\ pc[s] = "eos"
  /\ retry' = retry \cup {s}
  /\ Goto(s, "exit")
  /\ UNCHANGED <<hand, left, tokenVars, ownerVars, pressure, asked, admission, job, catalogLock>>

\* initializeSourceStop
EmitEnd(s) ==
  /\ pc[s] = "eos"
  /\ Enqueue("stopSource", s, NoBuffer)
  /\ Goto(s, "exit")
  /\ UNCHANGED <<hand, left, tokenVars, ownerVars, pressure, asked, job, catalogLock>>

\* initializeSourceFailure
EmitError(s) ==
  /\ pc[s] = "error"
  /\ Enqueue("failSource", s, NoBuffer)
  /\ Goto(s, "exit")
  /\ UNCHANGED <<hand, left, tokenVars, ownerVars, pressure, asked, job, catalogLock>>

\* At the thread's exit the termination future becomes ready.
Exit(s) ==
  /\ pc[s] = "exit"
  /\ Goto(s, "exited")
  /\ UNCHANGED <<hand, left, tokenVars, ownerVars, pressure, asked, queueVars, job, catalogLock>>

-----------------------------------------------------------------------------
\* Workers

At(w, place, s, b) == job' = [job EXCEPT ![w] = [at |-> place, source |-> s, buffer |-> b]]
Step(w, place) == At(w, place, job[w].source, job[w].buffer)

\* As RequestStop, but nobody registered for the stop token.
RequestStopSilently(s) ==
  /\ stop' = stop \cup {s}
  /\ UNCHANGED available

\* request_stop of s runs the stop callback of the emit function, the first
\* time and if it is registered.
RequestStop(s) ==
  /\ stop' = stop \cup {s}
  /\ available' = [available EXCEPT ![s] =
                     IF s \notin stop /\ pc[s] \in {"acquire", "check", "leave"} THEN @ + 1 ELSE @]

\* A worker reads the admission queue.  The two source tasks lock their weak
\* reference first.
TakeAdmitted(w) ==
  /\ job[w].at = "idle"
  /\ admission # <<>>
  /\ admission' = Tail(admission)
  /\ LET t == Head(admission)
         place == CASE t.kind = "work" -> "work"
                    [] t.kind = "stopQuery" -> "lock"
                    [] t.kind = "stopSource" /\ Alive(t.source) -> "unregister"
                    [] t.kind = "failSource" /\ Alive(t.source) -> "failing"
                    [] OTHER -> "idle"
     IN At(w, place, t.source, t.buffer)
  /\ UNCHANGED <<sourceVars, tokenVars, ownerVars, pressure, asked, retry, catalogLock>>

\* A repeated StopSourceTask comes back through the internal queue.
TakeRetry(w, s) ==
  /\ job[w].at = "idle"
  /\ s \in retry
  /\ retry' = retry \ {s}
  /\ At(w, IF Alive(s) THEN "unregister" ELSE "idle", s, NoBuffer)
  /\ UNCHANGED <<sourceVars, tokenVars, ownerVars, pressure, asked, admission, catalogLock>>

\* The stage executed the buffer.
Execute(w) ==
  /\ job[w].at = "work"
  /\ Step(w, "finish")
  /\ UNCHANGED <<sourceVars, tokenVars, ownerVars, pressure, asked, queueVars, catalogLock>>

\* The stage or the source failed: onFailure takes the plan, and with it the
\* sources, out of the catalog and disposes of it.
Fail(w) ==
  /\ job[w].at \in {"work", "failing"}
  /\ planned' = planned \ {job[w].source}
  /\ Step(w, IF job[w].at = "failing" \/ job[w].source \in planned THEN "release" ELSE "finish")
  /\ UNCHANGED <<sourceVars, tokenVars, joinable, unregistered, pressure, asked, queueVars, catalogLock>>

\* As Unregister, but a stop that timed out is not attempted again.
UnregisterOnce(w) ==
  /\ job[w].at = "unregister"
  /\ LET s == job[w].source
         success == s \in joinable /\ pc[s] = "exited"
     IN /\ RequestStop(s)
        /\ joinable' = IF success THEN joinable \ {s} ELSE joinable
        /\ unregistered' = IF success THEN unregistered \cup {s} ELSE unregistered
  /\ Step(w, "release")
  /\ UNCHANGED <<sourceVars, planned, pressure, asked, queueVars, catalogLock>>

\* StopSourceTask: attemptUnregister tries to stop the thread without waiting
\* for it and hands the successors on if that succeeds; otherwise the task is
\* repeated.
Unregister(w) ==
  /\ job[w].at = "unregister"
  /\ LET s == job[w].source
         success == s \in joinable /\ pc[s] = "exited"
     IN /\ RequestStop(s)
        /\ joinable' = IF success THEN joinable \ {s} ELSE joinable
        /\ unregistered' = IF success THEN unregistered \cup {s} ELSE unregistered
        /\ retry' = IF s \in joinable /\ ~success THEN retry \cup {s} ELSE retry
  /\ Step(w, "release")
  /\ UNCHANGED <<sourceVars, planned, pressure, asked, admission, catalogLock>>

\* stopQuery holds the catalog's mutex until its cleanup has returned.
LockCatalog(w) ==
  /\ job[w].at = "lock"
  /\ catalogLock = NoWorker
  /\ catalogLock' = w
  /\ planned' = planned \ {job[w].source}
  /\ Step(w, IF job[w].source \in planned THEN "release" ELSE "finish")
  /\ UNCHANGED <<sourceVars, tokenVars, joinable, unregistered, pressure, asked, queueVars>>

\* All pipelines of a query expired after its source was unregistered:
\* onDestruction disposes of the plan.
Expire(w, s) ==
  /\ job[w].at = "idle"
  /\ s \in planned \cap unregistered
  /\ InFlight(s) = 0
  /\ planned' = planned \ {s}
  /\ At(w, "release", s, NoBuffer)
  /\ UNCHANGED <<sourceVars, tokenVars, joinable, unregistered, pressure, asked, queueVars, catalogLock>>

\* The worker drops its reference to the RunningSource.  The last one runs
\* ~RunningSource, which asks a thread that was not joined yet to stop.
Release(w) ==
  /\ job[w].at = "release"
  /\ LET s == job[w].source
         last == s \notin planned /\ \A v \in Worker \ {w} : ~Holds(v, s)
     IN IF last /\ s \in joinable
        THEN RequestStop(s) /\ Step(w, "join")
        ELSE UNCHANGED tokenVars /\ Step(w, "finish")
  /\ UNCHANGED <<sourceVars, ownerVars, pressure, asked, queueVars, catalogLock>>

\* The destructor of the SourceThread joins.
Join(w) ==
  /\ job[w].at = "join"
  /\ pc[job[w].source] = "exited"
  /\ joinable' = joinable \ {job[w].source}
  /\ Step(w, "finish")
  /\ UNCHANGED <<sourceVars, tokenVars, planned, unregistered, pressure, asked, queueVars, catalogLock>>

\* The handler returns, and the task's completion releases the semaphore.
Finish(w) ==
  /\ job[w].at = "finish"
  /\ available' = [available EXCEPT ![job[w].source] =
                     IF job[w].buffer = NoBuffer THEN @ ELSE @ + 1]
  /\ At(w, "idle", job[w].source, NoBuffer)
  /\ catalogLock' = IF catalogLock = w THEN NoWorker ELSE catalogLock
  /\ UNCHANGED <<sourceVars, stop, ownerVars, pressure, asked, queueVars>>

-----------------------------------------------------------------------------
\* The environment: a user stops a query, a sink applies or releases pressure.

AskToStop(s) ==
  /\ asked[s] < MaxStops
  /\ asked' = [asked EXCEPT ![s] = @ + 1]
  /\ Enqueue("stopQuery", s, NoBuffer)
  /\ UNCHANGED <<sourceVars, tokenVars, ownerVars, pressure, job, catalogLock>>

ApplyPressure(s) ==
  /\ s \notin pressure /\ s \in joinable
  /\ pressure' = pressure \cup {s}
  /\ UNCHANGED <<sourceVars, tokenVars, ownerVars, asked, queueVars, job, catalogLock>>

ReleasePressure(s) ==
  /\ s \in pressure /\ s \in joinable
  /\ pressure' = pressure \ {s}
  /\ UNCHANGED <<sourceVars, tokenVars, ownerVars, asked, queueVars, job, catalogLock>>

-----------------------------------------------------------------------------

SourceStep(s) ==
  \/ Wait(s) \/ GetBuffer(s) \/ Register(s) \/ Acquire(s) \/ Check(s) \/ Leave(s) \/ Add(s)
  \/ End(s) \/ EmitEnd(s) \/ EmitError(s) \/ Exit(s)

WorkerStep(w) ==
  \/ TakeAdmitted(w) \/ Execute(w) \/ Fail(w) \/ Unregister(w) \/ LockCatalog(w)
  \/ Release(w) \/ Join(w) \/ Finish(w)
  \/ \E s \in Source : TakeRetry(w, s) \/ Expire(w, s)

Next ==
  \/ \E s \in Source : \/ SourceStep(s) \/ Fill(s)
                       \/ AskToStop(s) \/ ApplyPressure(s) \/ ReleasePressure(s)
  \/ \E w \in Worker : WorkerStep(w)

Spec == Init /\ [][Next]_vars

\* Threads are scheduled, and fillTupleBuffer heeds the stop token: it
\* returns once a stop was requested.  It may block for ever otherwise.
Fairness ==
  /\ \A s \in Source : WF_vars(SourceStep(s)) /\ WF_vars(s \in stop /\ Fill(s))
  /\ \A w \in Worker : WF_vars(WorkerStep(w))

FairSpec == Spec /\ Fairness

-----------------------------------------------------------------------------

TypeOK ==
  /\ pc \in [Source -> Place]
  /\ hand \in [Source -> Buffer \cup {NoBuffer}]
  /\ left \in [Source -> 0..Fanout]
  /\ available \in [Source -> 0..InflightLimit + 2]
  /\ stop \subseteq Source /\ joinable \subseteq Source /\ planned \subseteq Source
  /\ unregistered \subseteq Source /\ pressure \subseteq Source
  /\ asked \in [Source -> 0..MaxStops] /\ retry \subseteq Source
  /\ admission \in Seq(Task) /\ Len(admission) <= AdmissionCapacity
  /\ job \in [Worker -> Job]
  /\ catalogLock \in Worker \cup {NoWorker}

\* A source never has more buffers in flight than inflightBufferLimit, not
\* even when the stop callback has put one or two more tokens into the
\* semaphore (RunningSource.cpp:65-72).
InflightIsBounded ==
  \A s \in Source :
    InFlight(s) + (IF pc[s] \in {"leave", "add"} THEN 1 ELSE 0) <= InflightLimit

\* When a StopSourceTask is handled or repeated, and when the successors are
\* soft-stopped after it, everything that the source emitted has been read
\* from the admission queue and nothing comes after it.  The successors are
\* handed on only when the thread ended (RunningSource.cpp:155-176).
NothingFollowsTheEnd ==
  /\ \A s \in Source :
       (s \in retry \cup unregistered \/ \E w \in Worker : job[w].at = "unregister" /\ job[w].source = s)
         => Queued("work", s) = {} /\ pc[s] \in {"exit", "exited"}
  /\ \A s \in unregistered : pc[s] = "exited"

\* What a source emits is bounded while it runs and complete when it ends.
SourcesKeepOrder == TypeOK /\ InflightIsBounded /\ NothingFollowsTheEnd

\* Every worker waits for a source thread that waits for room in the admission
\* queue, or for the catalog's mutex that such a worker holds.
WorkersAreStuck ==
  /\ Len(admission) = AdmissionCapacity
  /\ \A w \in Worker :
       \/ job[w].at = "join" /\ pc[job[w].source] \in {"add", "eos", "error"}
       \/ job[w].at = "lock" /\ catalogLock # NoWorker

\* A source thread that is asked to stop ends, wherever it waits: the emit
\* function looks at the stop token while "the admission queue might be full"
\* (RunningSource.cpp:73-85).  It does not once it has passed the semaphore,
\* where it blocks without a token (QueryEngine.cpp:324): the one way not to
\* end is that all workers are stuck behind such threads.
StopEndsTheSource ==
  \A s \in Source : s \in stop ~> (pc[s] = "exited" \/ WorkersAreStuck)

\* A source that ended by itself is eventually joined, whatever the time at
\* which the first attempt to stop it comes, unless the workers are stuck.
EndedSourcesAreJoined ==
  \A s \in Source : pc[s] = "exited" ~> (s \notin joinable \/ WorkersAreStuck)
-----------------------------------------------------------------------------
\* The inductive invariant

\* The tokens of a source are in its semaphore, with its tasks or in its hand.
Tokens(s) ==
  available[s] + InFlight(s) + (IF pc[s] \in {"check", "leave", "add"} THEN 1 ELSE 0)

\* A stop adds one for the thread between registering for it and looking at the stop token; the thread
\* takes that one with it.  It adds another one, for good, if it comes after the look and before the end
\* of the registration.
TokensAreConserved ==
  \A s \in Source :
    LET granted == InflightLimit + (IF s \in stop /\ pc[s] \in {"acquire", "check"} THEN 1 ELSE 0)
    IN  Tokens(s) \in granted .. granted + (IF s \in stop THEN 1 ELSE 0)

\* A thread that emits has a buffer and a successor to emit it to.
EmitsABuffer ==
  \A s \in Source :
    /\ pc[s] \in {"fill", "emit", "acquire", "check", "leave", "add"} => hand[s] # NoBuffer
    /\ pc[s] \in {"emit", "acquire", "check", "leave", "add"} => left[s] > 0

\* Buffers travel with WorkTasks only.
WorkHasTheBuffers ==
  /\ \A i \in DOMAIN admission : admission[i].buffer # NoBuffer <=> admission[i].kind = "work"
  /\ \A w \in Worker : job[w].at = "idle" => job[w].buffer = NoBuffer

\* A StopSourceTask is the last that its source submits.
EndIsLast ==
  \A i \in DOMAIN admission : admission[i].kind = "stopSource" =>
    /\ pc[admission[i].source] \in {"exit", "exited"}
    /\ \A j \in DOMAIN admission :
         j > i /\ admission[j].source = admission[i].source => admission[j].kind # "work"

IInv ==
  /\ TypeOK /\ TokensAreConserved /\ InflightIsBounded /\ EmitsABuffer
  /\ WorkHasTheBuffers /\ EndIsLast /\ NothingFollowsTheEnd
=============================================================================
