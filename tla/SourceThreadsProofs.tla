------------------------ MODULE SourceThreadsProofs -------------------------
(***************************************************************************)
(* Proofs for SourceThreads, for any number of sources, workers and        *)
(* buffers and all limits: the buffers in flight stay within their limit,  *)
(* and nothing that a source emits follows its end.                        *)
(***************************************************************************)
EXTENDS SourceThreads, FiniteSetTheorems, TLAPS

-----------------------------------------------------------------------------
(* Tasks in a queue and with workers *)

QueuedIn(q, kind, s) == {i \in DOMAIN q : q[i].kind = kind /\ q[i].source = s}
CarriersIn(jobs, s) == {w \in Worker : jobs[w].source = s /\ jobs[w].buffer # NoBuffer}

LEMMA InFlightIs ==
  /\ \A s : InFlight(s) = Cardinality(QueuedIn(admission, "work", s)) + Cardinality(CarriersIn(job, s))
  /\ \A s : InFlight(s)' = Cardinality(QueuedIn(admission', "work", s)) + Cardinality(CarriersIn(job', s))
  /\ \A k, s : Queued(k, s) = QueuedIn(admission, k, s) /\ Queued(k, s)' = QueuedIn(admission', k, s)
BY Zenon DEF InFlight, Queued, QueuedIn, CarriersIn

LEMMA FiniteSets ==
  /\ \A q \in Seq(Task) : \A k, s : IsFiniteSet(QueuedIn(q, k, s)) /\ Cardinality(QueuedIn(q, k, s)) \in Nat
  /\ \A jobs, s : IsFiniteSet(CarriersIn(jobs, s)) /\ Cardinality(CarriersIn(jobs, s)) \in Nat
<1>1. ASSUME NEW q \in Seq(Task), NEW k, NEW s
      PROVE  IsFiniteSet(QueuedIn(q, k, s)) /\ Cardinality(QueuedIn(q, k, s)) \in Nat
  <2>1. QueuedIn(q, k, s) \subseteq 1 .. Len(q)
    BY DEF QueuedIn
  <2>2. IsFiniteSet(1 .. Len(q))
    BY FS_Interval
  <2> QED
    BY <2>1, <2>2, FS_Subset, FS_CardinalityType, Zenon
<1>2. ASSUME NEW jobs, NEW s
      PROVE  IsFiniteSet(CarriersIn(jobs, s)) /\ Cardinality(CarriersIn(jobs, s)) \in Nat
  <2>1. CarriersIn(jobs, s) \subseteq Worker
    BY Zenon DEF CarriersIn
  <2> QED
    BY <2>1, ThreadsAreFinite, FS_Subset, FS_CardinalityType, Zenon
<1> QED
  BY <1>1, <1>2, Zenon

\* One task more at the end of the queue
LEMMA Appended ==
  ASSUME NEW q \in Seq(Task), NEW t \in Task, NEW k, NEW s
  PROVE  /\ (t.kind # k \/ t.source # s) => QueuedIn(Append(q, t), k, s) = QueuedIn(q, k, s)
         /\ t.kind = k /\ t.source = s =>
              Cardinality(QueuedIn(Append(q, t), k, s)) = Cardinality(QueuedIn(q, k, s)) + 1
<1>1. /\ DOMAIN Append(q, t) = DOMAIN q \cup {Len(q) + 1} /\ Len(q) + 1 \notin DOMAIN q
      /\ Append(q, t)[Len(q) + 1] = t /\ \A i \in DOMAIN q : Append(q, t)[i] = q[i]
  OBVIOUS
<1>2. CASE t.kind # k \/ t.source # s
  BY <1>1, <1>2, Zenon DEF QueuedIn
<1>3. CASE t.kind = k /\ t.source = s
  <2>1. QueuedIn(Append(q, t), k, s) = QueuedIn(q, k, s) \cup {Len(q) + 1} /\ Len(q) + 1 \notin QueuedIn(q, k, s)
    BY <1>1, <1>3, Zenon DEF QueuedIn
  <2>2. Cardinality(QueuedIn(q, k, s) \cup {Len(q) + 1}) = Cardinality(QueuedIn(q, k, s)) + 1
    BY <2>1, FiniteSets, FS_AddElement, Zenon
  <2> QED
    BY <1>3, <2>1, <2>2, Zenon
<1> QED
  BY <1>2, <1>3, Zenon

\* One task less at its head
LEMMA Taken ==
  ASSUME NEW q \in Seq(Task), q # <<>>, NEW k, NEW s
  PROVE  /\ Head(q).kind = k /\ Head(q).source = s =>
              Cardinality(QueuedIn(Tail(q), k, s)) = Cardinality(QueuedIn(q, k, s)) - 1
         /\ (Head(q).kind # k \/ Head(q).source # s) =>
              Cardinality(QueuedIn(Tail(q), k, s)) = Cardinality(QueuedIn(q, k, s))
<1>1. /\ DOMAIN Tail(q) = 1 .. Len(q) - 1 /\ DOMAIN q = 1 .. Len(q) /\ Len(q) \in Nat \ {0}
      /\ q[1] = Head(q) /\ \A i \in 1 .. Len(q) - 1 : Tail(q)[i] = q[i + 1]
  OBVIOUS
<1> DEFINE S == QueuedIn(q, k, s) \ {1}
           T == QueuedIn(Tail(q), k, s)
           f == [i \in S |-> i - 1]
<1>2. Cardinality(T) = Cardinality(S)
  <2>1. IsFiniteSet(S)
    BY FiniteSets, FS_Subset, Zenon
  <2>2. f \in [S -> T]
    <3> SUFFICES ASSUME NEW i \in S PROVE i - 1 \in T
      BY Zenon
    <3>1. i \in 2 .. Len(q) /\ q[i].kind = k /\ q[i].source = s
      BY <1>1 DEF QueuedIn
    <3>2. i - 1 \in 1 .. Len(q) - 1 /\ Tail(q)[i - 1] = q[i]
      BY <1>1, <3>1
    <3> QED
      BY <1>1, <3>1, <3>2, Zenon DEF QueuedIn
  <2>3. \A i, j \in S : f[i] = f[j] => i = j
    <3>1. S \subseteq Int
      BY <1>1 DEF QueuedIn
    <3> QED
      BY <3>1
  <2>4. \A j \in T : \E i \in S : f[i] = j
    <3> SUFFICES ASSUME NEW j \in T PROVE j + 1 \in S /\ (j + 1) - 1 = j
      BY Zenon
    <3>1. j \in 1 .. Len(q) - 1 /\ Tail(q)[j].kind = k /\ Tail(q)[j].source = s
      BY <1>1, Zenon DEF QueuedIn
    <3> QED
      BY <1>1, <3>1 DEF QueuedIn
  <2> HIDE DEF f, S, T
  <2>5. f \in Bijection(S, T)
    BY <2>2, <2>3, <2>4, Zenon DEF Bijection, Injection, IsInjective, Surjection
  <2> QED
    BY <2>1, <2>5, FS_Bijection, Zenon DEF ExistsBijection
<1>3. CASE Head(q).kind = k /\ Head(q).source = s
  <2>1. 1 \in QueuedIn(q, k, s)
    BY <1>1, <1>3 DEF QueuedIn
  <2>2. Cardinality(S) = Cardinality(QueuedIn(q, k, s)) - 1
    BY <2>1, FiniteSets, FS_RemoveElement, Zenon
  <2> QED
    BY <1>2, <1>3, <2>2, Zenon
<1>4. CASE Head(q).kind # k \/ Head(q).source # s
  <2>1. S = QueuedIn(q, k, s)
    BY <1>1, <1>4, Zenon DEF QueuedIn
  <2> QED
    BY <1>2, <1>4, <2>1, Zenon
<1> QED
  BY <1>3, <1>4, Zenon

\* One worker takes up another job
LEMMA Reassigned ==
  ASSUME NEW jobs \in [Worker -> Job], NEW w \in Worker, NEW j \in Job, NEW s
  PROVE  LET after == CarriersIn([jobs EXCEPT ![w] = j], s)
             before == CarriersIn(jobs, s)
         IN /\ jobs[w].source = j.source /\ jobs[w].buffer = j.buffer => after = before
            /\ jobs[w].buffer = NoBuffer /\ j.buffer = NoBuffer => after = before
            /\ jobs[w].buffer = NoBuffer /\ j.source # s => after = before
            /\ jobs[w].source # s /\ j.buffer = NoBuffer => after = before
            /\ jobs[w].buffer = NoBuffer /\ j.source = s /\ j.buffer # NoBuffer =>
                 Cardinality(after) = Cardinality(before) + 1
            /\ jobs[w].source = s /\ jobs[w].buffer # NoBuffer /\ j.buffer = NoBuffer =>
                 Cardinality(after) = Cardinality(before) - 1
<1> DEFINE after == CarriersIn([jobs EXCEPT ![w] = j], s)
           before == CarriersIn(jobs, s)
<1>1. /\ jobs[w].source = j.source /\ jobs[w].buffer = j.buffer => after = before
      /\ jobs[w].buffer = NoBuffer /\ j.buffer = NoBuffer => after = before
      /\ jobs[w].buffer = NoBuffer /\ j.source # s => after = before
      /\ jobs[w].source # s /\ j.buffer = NoBuffer => after = before
  BY Zenon DEF CarriersIn
<1>2. ASSUME jobs[w].buffer = NoBuffer, j.source = s, j.buffer # NoBuffer
      PROVE  Cardinality(after) = Cardinality(before) + 1
  <2>1. after = before \cup {w} /\ w \notin before
    BY <1>2, Zenon DEF CarriersIn
  <2> HIDE DEF after
  <2> QED
    BY <2>1, FiniteSets, FS_AddElement, Zenon
<1>3. ASSUME jobs[w].source = s, jobs[w].buffer # NoBuffer, j.buffer = NoBuffer
      PROVE  Cardinality(after) = Cardinality(before) - 1
  <2>1. after = before \ {w} /\ w \in before
    BY <1>3, Zenon DEF CarriersIn
  <2> HIDE DEF after
  <2> QED
    BY <2>1, FiniteSets, FS_RemoveElement, Zenon
<1> QED
  BY <1>1, <1>2, <1>3, Zenon

-----------------------------------------------------------------------------
(* The steps *)

\* Steps of a source thread outside its emit function, and the environment's
Moves(s) == Wait(s) \/ GetBuffer(s) \/ Fill(s) \/ End(s) \/ Exit(s)
Emits(s) == Register(s) \/ Acquire(s) \/ Check(s) \/ Leave(s) \/ Add(s) \/ EmitEnd(s) \/ EmitError(s)
Presses(s) == ApplyPressure(s) \/ ReleasePressure(s)

LEMMA NextSplits ==
  Next <=> \/ \E s \in Source : Moves(s) \/ Emits(s) \/ AskToStop(s) \/ Presses(s)
           \/ \E w \in Worker : WorkerStep(w)
BY Zenon DEF Next, SourceStep, Moves, Emits, Presses

\* The parts of the type invariant
SourceTypes ==
  /\ pc \in [Source -> Place]
  /\ hand \in [Source -> Buffer \cup {NoBuffer}]
  /\ left \in [Source -> 0..Fanout]
SetTypes ==
  /\ stop \subseteq Source /\ joinable \subseteq Source /\ planned \subseteq Source
  /\ unregistered \subseteq Source /\ pressure \subseteq Source
  /\ asked \in [Source -> 0..MaxStops] /\ retry \subseteq Source
  /\ catalogLock \in Worker \cup {NoWorker}
QueueType == admission \in Seq(Task) /\ Len(admission) <= AdmissionCapacity
JobType == job \in [Worker -> Job]
AvailableType == available \in [Source -> 0..InflightLimit + 2]

LEMMA Types ==
  /\ TypeOK <=> SourceTypes /\ SetTypes /\ QueueType /\ JobType /\ AvailableType
  /\ TypeOK' <=> SourceTypes' /\ SetTypes' /\ QueueType' /\ JobType' /\ AvailableType'
BY Zenon DEF TypeOK, SourceTypes, SetTypes, QueueType, JobType, AvailableType

\* What the moves of a thread leave alone, and where they lead
MovesOn(s) ==
  /\ UNCHANGED <<available, stop, joinable, planned, unregistered, pressure, asked, admission, retry, job, catalogLock>>
  /\ \A r \in Source \ {s} : pc'[r] = pc[r] /\ hand'[r] = hand[r] /\ left'[r] = left[r]
  /\ pc[s] \notin {"emit", "acquire", "check", "leave", "add"} /\ pc'[s] \notin {"acquire", "check", "leave", "add"}
  /\ pc[s] \in {"exit", "exited"} => pc'[s] = "exited"
  /\ pc[s] # "exited"
  /\ pc'[s] \in {"fill", "emit"} => hand'[s] # NoBuffer
  /\ pc'[s] = "emit" => left'[s] > 0

LEMMA MovesLead ==
  ASSUME IInv, NEW s \in Source, Moves(s)
  PROVE  SourceTypes' /\ MovesOn(s)
<1>1. SourceTypes /\ (pc[s] = "fill" => hand[s] # NoBuffer)
  BY Types, Zenon DEF IInv, EmitsABuffer
<1>2. UNCHANGED <<available, stop, joinable, planned, unregistered, pressure, asked, admission, retry, job, catalogLock>>
  BY Zenon DEF Moves, Wait, GetBuffer, Fill, FillData, FillNothing, FillThrows, End, Exit, tokenVars, ownerVars, queueVars
<1>3. CASE Wait(s)
  BY <1>1, <1>2, <1>3, Zenon DEF Wait, GotoUnlessStopped, Goto, SourceTypes, Place, MovesOn
<1>4. CASE GetBuffer(s)
  <2>1. \A b \in Free : b \in Buffer /\ b # NoBuffer
    BY NoBufferIsNone, Zenon DEF Free
  <2> HIDE DEF Free
  <2> QED
    BY <1>1, <1>2, <1>4, <2>1, Zenon DEF GetBuffer, GotoUnlessStopped, Goto, SourceTypes, Place, MovesOn
<1>5. CASE FillData(s)
  BY <1>1, <1>2, <1>5, LimitsArePositive DEF FillData, Goto, SourceTypes, Place, MovesOn
<1>6. CASE FillNothing(s)
  BY <1>1, <1>2, <1>6, Zenon DEF FillNothing, GotoUnlessStopped, Goto, SourceTypes, Place, MovesOn
<1>7. CASE FillThrows(s)
  BY <1>1, <1>2, <1>7, Zenon DEF FillThrows, Goto, SourceTypes, Place, MovesOn
<1>8. CASE End(s)
  BY <1>1, <1>2, <1>8, Zenon DEF End, GotoUnlessStopped, Goto, SourceTypes, Place, MovesOn
<1>9. CASE Exit(s)
  BY <1>1, <1>2, <1>9, Zenon DEF Exit, Goto, SourceTypes, Place, MovesOn
<1> QED
  BY <1>3, <1>4, <1>5, <1>6, <1>7, <1>8, <1>9, Zenon DEF Moves, Fill

\* What the emit function leaves alone, and where it leads
EmitsOn(s) ==
  /\ UNCHANGED <<stop, joinable, planned, unregistered, pressure, asked, retry, job, catalogLock>>
  /\ \A r \in Source \ {s} : /\ pc'[r] = pc[r] /\ hand'[r] = hand[r] /\ left'[r] = left[r]
                             /\ available'[r] = available[r]
  /\ pc[s] \notin {"exit", "exited"}
  /\ pc'[s] \in {"fill", "emit", "acquire", "check", "leave", "add"} => hand'[s] # NoBuffer
  /\ pc'[s] \in {"emit", "acquire", "check", "leave", "add"} => left'[s] > 0

LEMMA EmitsLead ==
  ASSUME IInv, NEW s \in Source, Emits(s)
  PROVE  SourceTypes' /\ EmitsOn(s) /\ available' \in [Source -> Int]
<1>1. /\ SourceTypes /\ available \in [Source -> Int]
      /\ pc[s] \in {"emit", "acquire", "check", "leave", "add"} => hand[s] # NoBuffer /\ left[s] > 0
  BY Types DEF IInv, EmitsABuffer, AvailableType
<1>2. UNCHANGED <<stop, joinable, planned, unregistered, pressure, asked, retry, job, catalogLock>>
  BY Zenon DEF Emits, Register, Acquire, Check, Leave, Add, EmitEnd, EmitError, Enqueue, tokenVars, ownerVars, queueVars
<1>3. CASE Register(s)
  BY <1>1, <1>2, <1>3 DEF Register, Goto, SourceTypes, Place, EmitsOn
<1>4. CASE Acquire(s)
  BY <1>1, <1>2, <1>4 DEF Acquire, Goto, SourceTypes, Place, EmitsOn
<1>5. CASE Check(s)
  BY <1>1, <1>2, <1>5, Zenon DEF Check, Goto, SourceTypes, Place, EmitsOn, tokenVars
<1>6. CASE Add(s)
  <2>1. left[s] \in 1..Fanout /\ left[s] - 1 \in 0..Fanout
    BY <1>1, <1>6, LimitsArePositive DEF Add, SourceTypes
  <2> QED
    BY <1>1, <1>2, <1>6, <2>1 DEF Add, Goto, SourceTypes, Place, EmitsOn, tokenVars
<1>7. CASE EmitEnd(s)
  BY <1>1, <1>2, <1>7, Zenon DEF EmitEnd, Goto, SourceTypes, Place, EmitsOn, tokenVars
<1>8. CASE EmitError(s)
  BY <1>1, <1>2, <1>8, Zenon DEF EmitError, Goto, SourceTypes, Place, EmitsOn, tokenVars
<1>9. CASE Leave(s)
  BY <1>1, <1>2, <1>9, Zenon DEF Leave, Goto, SourceTypes, Place, EmitsOn, tokenVars
<1> QED
  BY <1>3, <1>4, <1>5, <1>6, <1>7, <1>8, <1>9, Zenon DEF Emits

Places == {"idle", "work", "failing", "unregister", "lock", "release", "join", "finish"}

LEMMA AtLeads ==
  ASSUME JobType, NEW w \in Worker, NEW place \in Places, NEW s \in Source, NEW b \in Buffer \cup {NoBuffer},
         At(w, place, s, b)
  PROVE  /\ JobType' /\ \A v \in Worker \ {w} : job'[v] = job[v]
         /\ job'[w] = [at |-> place, source |-> s, buffer |-> b]
         /\ job'[w].at = place /\ job'[w].source = s /\ job'[w].buffer = b
         /\ [at |-> place, source |-> s, buffer |-> b] \in Job
BY Zenon DEF At, JobType, Job, Places

LEMMA StepLeads ==
  ASSUME JobType, NEW w \in Worker, NEW place \in Places, Step(w, place)
  PROVE  /\ JobType' /\ \A v \in Worker \ {w} : job'[v] = job[v]
         /\ job'[w].at = place /\ job'[w].source = job[w].source /\ job'[w].buffer = job[w].buffer
<1>1. job[w].source \in Source /\ job[w].buffer \in Buffer \cup {NoBuffer}
  BY Zenon DEF JobType, Job
<1>2. PICK s \in Source, b \in Buffer \cup {NoBuffer} :
        s = job[w].source /\ b = job[w].buffer /\ At(w, place, s, b)
  BY <1>1, Zenon DEF Step
<1>3. /\ JobType' /\ \A v \in Worker \ {w} : job'[v] = job[v]
      /\ job'[w].at = place /\ job'[w].source = s /\ job'[w].buffer = b
  BY <1>2, AtLeads, ZenonT(30)
<1> QED
  BY <1>2, <1>3, Zenon

\* Every other step of a worker only moves it on with its source and its buffer.
Goes(w) == \E place \in Places \ {"idle"} : Step(w, place)

LEMMA WorkersGo ==
  ASSUME NEW w \in Worker,
         Execute(w) \/ Fail(w) \/ Unregister(w) \/ LockCatalog(w) \/ Release(w) \/ Join(w)
  PROVE  /\ Goes(w) /\ UNCHANGED <<pc, hand, left, pressure, asked, admission>>
<1>1. UNCHANGED <<pc, hand, left, pressure, asked, admission>>
  BY Zenon DEF Execute, Fail, Unregister, LockCatalog, Release, Join, sourceVars, queueVars
<1>2. Goes(w)
  BY Zenon DEF Goes, Places, Execute, Fail, Unregister, LockCatalog, Release, Join
<1> QED
  BY <1>1, <1>2, Zenon

LEMMA HeadTask ==
  ASSUME IInv, admission # <<>>
  PROVE  /\ Head(admission) \in Task /\ Head(admission) = admission[1] /\ 1 \in DOMAIN admission
         /\ Tail(admission) \in Seq(Task) /\ Len(Tail(admission)) = Len(admission) - 1 /\ Len(admission) \in Nat
         /\ \A i \in DOMAIN Tail(admission) : i + 1 \in DOMAIN admission /\ Tail(admission)[i] = admission[i + 1]
         /\ Head(admission).buffer # NoBuffer <=> Head(admission).kind = "work"
<1>1. admission \in Seq(Task)
  BY Types, Zenon DEF IInv, QueueType
<1>2. Head(admission) = admission[1] /\ 1 \in DOMAIN admission
  BY <1>1
<1> QED
  BY <1>1, <1>2 DEF IInv, WorkHasTheBuffers

\* The place to which a worker takes an admitted task
LEMMA Takes ==
  ASSUME IInv, NEW w \in Worker, TakeAdmitted(w)
  PROVE  /\ \E place \in Places :
              /\ At(w, place, Head(admission).source, Head(admission).buffer)
              /\ place = "unregister" => Head(admission).kind = "stopSource"
              /\ place = "idle" => Head(admission).buffer = NoBuffer
         /\ admission # <<>> /\ admission' = Tail(admission) /\ job[w].at = "idle"
         /\ UNCHANGED <<pc, hand, left, stop, available, joinable, planned, unregistered, pressure, asked, retry, catalogLock>>
<1> DEFINE t == Head(admission)
           place == CASE t.kind = "work" -> "work"
                      [] t.kind = "stopQuery" -> "lock"
                      [] t.kind = "stopSource" /\ Alive(t.source) -> "unregister"
                      [] t.kind = "failSource" /\ Alive(t.source) -> "failing"
                      [] OTHER -> "idle"
<1>1. /\ At(w, place, t.source, t.buffer)
      /\ admission # <<>> /\ admission' = Tail(admission) /\ job[w].at = "idle"
      /\ UNCHANGED <<pc, hand, left, stop, available, joinable, planned, unregistered, pressure, asked, retry, catalogLock>>
  BY Zenon DEF TakeAdmitted, sourceVars, tokenVars, ownerVars
<1>2. t \in Task /\ (t.buffer # NoBuffer <=> t.kind = "work")
  BY <1>1, HeadTask, Zenon
<1>3. t.kind \in {"work", "stopSource", "failSource", "stopQuery"}
  BY <1>2, Zenon DEF Task
<1>4. place \in Places /\ (place = "unregister" => t.kind = "stopSource") /\ (place = "idle" => t.kind # "work")
  <2> HIDE DEF t
  <2>1. CASE t.kind = "work"
    BY <2>1, Zenon DEF Places
  <2>2. CASE t.kind = "stopQuery"
    BY <2>2, Zenon DEF Places
  <2>3. CASE t.kind = "stopSource"
    BY <2>3, Zenon DEF Places
  <2>4. CASE t.kind = "failSource"
    BY <2>4, Zenon DEF Places
  <2> QED
    BY <1>3, <2>1, <2>2, <2>3, <2>4, Zenon
<1> HIDE DEF place
<1> QED
  BY <1>1, <1>2, <1>4, Zenon

WorkerOn(w) ==
  /\ UNCHANGED <<pc, hand, left, pressure, asked>>
  /\ \A v \in Worker \ {w} : job'[v] = job[v]
  /\ job'[w].at = "idle" => job'[w].buffer = NoBuffer

LEMMA WorkersLead ==
  ASSUME IInv, NEW w \in Worker, WorkerStep(w)
  PROVE  JobType' /\ WorkerOn(w)
<1>1. JobType
  BY Types, Zenon DEF IInv
<1>2. CASE Execute(w) \/ Fail(w) \/ Unregister(w) \/ LockCatalog(w) \/ Release(w) \/ Join(w)
  BY <1>1, <1>2, WorkersGo, StepLeads DEF Goes, WorkerOn
<1>3. CASE TakeAdmitted(w)
  <2>1. Head(admission).source \in Source /\ Head(admission).buffer \in Buffer \cup {NoBuffer}
    BY <1>3, Takes, HeadTask, Zenon DEF Task
  <2>2. PICK place \in Places, s \in Source, b \in Buffer \cup {NoBuffer} :
          At(w, place, s, b) /\ (place = "idle" => b = NoBuffer)
    BY <1>3, <2>1, Takes, Zenon
  <2>3. UNCHANGED <<pc, hand, left, pressure, asked>>
    BY <1>3, Takes, Zenon
  <2>4. JobType' /\ (\A v \in Worker \ {w} : job'[v] = job[v]) /\ job'[w].at = place /\ job'[w].buffer = b
    BY <1>1, <2>2, AtLeads, ZenonT(30)
  <2> QED
    BY <2>2, <2>3, <2>4, Zenon DEF WorkerOn
<1>4. CASE Finish(w)
  <2>1. job[w].source \in Source /\ "idle" \in Places
    BY <1>1, Zenon DEF JobType, Job, Places
  <2>2. At(w, "idle", job[w].source, NoBuffer) /\ UNCHANGED <<pc, hand, left, pressure, asked>>
    BY <1>4, Zenon DEF Finish, sourceVars
  <2> QED
    <3>1. JobType' /\ (\A v \in Worker \ {w} : job'[v] = job[v]) /\ job'[w].buffer = NoBuffer
      BY <1>1, <2>1, <2>2, AtLeads, ZenonT(30)
    <3> QED
      BY <2>2, <3>1, Zenon DEF WorkerOn
<1>5. ASSUME NEW s \in Source, TakeRetry(w, s) \/ Expire(w, s) PROVE JobType' /\ WorkerOn(w)
  <2>1. \E place \in Places : At(w, place, s, NoBuffer)
    BY <1>5, Zenon DEF TakeRetry, Expire, Places
  <2>2. UNCHANGED <<pc, hand, left, pressure, asked>>
    BY <1>5, Zenon DEF TakeRetry, Expire, sourceVars
  <2> QED
    <3>1. JobType' /\ (\A v \in Worker \ {w} : job'[v] = job[v]) /\ job'[w].buffer = NoBuffer
      BY <1>1, <2>1, AtLeads, ZenonT(30)
    <3> QED
      BY <2>2, <3>1, Zenon DEF WorkerOn
<1> QED
  BY <1>2, <1>3, <1>4, <1>5, Zenon DEF WorkerStep

-----------------------------------------------------------------------------
(* Buffers in flight *)

LEMMA InFlightIsNat == ASSUME IInv PROVE \A s : InFlight(s) \in Nat
BY InFlightIs, FiniteSets, Types DEF IInv, QueueType

LEMMA Enqueued ==
  ASSUME IInv, NEW kind \in {"work", "stopSource", "failSource", "stopQuery"}, NEW s \in Source,
         NEW b \in Buffer \cup {NoBuffer}, Enqueue(kind, s, b), UNCHANGED job
  PROVE  /\ QueueType'
         /\ DOMAIN admission' = DOMAIN admission \cup {Len(admission) + 1}
         /\ Len(admission) \in Nat /\ \A i \in DOMAIN admission : i \in Nat /\ i <= Len(admission)
         /\ \A i \in DOMAIN admission : admission'[i] = admission[i]
         /\ admission'[Len(admission) + 1] = [kind |-> kind, source |-> s, buffer |-> b]
         /\ kind # "work" => \A r : InFlight(r)' = InFlight(r) /\ Queued("work", r)' = Queued("work", r)
         /\ \A r : r # s => InFlight(r)' = InFlight(r) /\ Queued("work", r)' = Queued("work", r)
         /\ kind = "work" => InFlight(s)' = InFlight(s) + 1
<1> DEFINE t == [kind |-> kind, source |-> s, buffer |-> b]
<1>1. t \in Task /\ admission \in Seq(Task) /\ t.kind = kind /\ t.source = s
  BY Types, Zenon DEF IInv, QueueType, Task
<1>2. admission' = Append(admission, t) /\ Len(admission) < AdmissionCapacity
  BY Zenon DEF Enqueue
<1> HIDE DEF t
<1>3. /\ QueueType' /\ DOMAIN admission' = DOMAIN admission \cup {Len(admission) + 1}
      /\ Len(admission) \in Nat /\ \A i \in DOMAIN admission : i \in Nat /\ i <= Len(admission)
      /\ \A i \in DOMAIN admission : admission'[i] = admission[i]
      /\ admission'[Len(admission) + 1] = t
  BY <1>1, <1>2, LimitsArePositive DEF QueueType
<1>4. ASSUME NEW r, kind # "work" \/ r # s
      PROVE  InFlight(r)' = InFlight(r) /\ Queued("work", r)' = Queued("work", r)
  <2>1. QueuedIn(admission', "work", r) = QueuedIn(admission, "work", r)
    BY <1>1, <1>2, <1>4, Appended
  <2> QED
    BY <2>1, InFlightIs, Zenon
<1>5. ASSUME kind = "work" PROVE InFlight(s)' = InFlight(s) + 1
  <2>1. Cardinality(QueuedIn(admission', "work", s)) = Cardinality(QueuedIn(admission, "work", s)) + 1
    BY <1>1, <1>2, <1>5, Appended
  <2>2. Cardinality(QueuedIn(admission, "work", s)) \in Nat /\ Cardinality(CarriersIn(job, s)) \in Nat
    BY <1>1, FiniteSets, Zenon
  <2> QED
    BY <2>1, <2>2, InFlightIs
<1> QED
  BY <1>3, <1>4, <1>5, Zenon DEF t

\* A task that is taken stays in flight.
LEMMA TakenInFlight ==
  ASSUME IInv, NEW w \in Worker, TakeAdmitted(w), NEW r
  PROVE  InFlight(r)' = InFlight(r)
<1>1. PICK place \in Places : At(w, place, Head(admission).source, Head(admission).buffer)
  BY Takes, Zenon
<1>2. admission \in Seq(Task) /\ admission # <<>> /\ admission' = Tail(admission) /\ job[w].buffer = NoBuffer
  BY Takes, Types, Zenon DEF IInv, WorkHasTheBuffers, QueueType
<1>3. PICK t \in Task : t = Head(admission) /\ (t.buffer # NoBuffer <=> t.kind = "work")
  BY <1>2, HeadTask, Zenon
<1> DEFINE j == [at |-> place, source |-> t.source, buffer |-> t.buffer]
<1>4. j \in Job /\ j.source = t.source /\ j.buffer = t.buffer /\ job' = [job EXCEPT ![w] = j] /\ job \in [Worker -> Job]
  BY <1>1, <1>3, Types, Zenon DEF At, Task, Job, Places, IInv, JobType
<1> HIDE DEF j
<1>5. Cardinality(QueuedIn(admission, "work", r)) \in Nat /\ Cardinality(CarriersIn(job, r)) \in Nat
  BY <1>2, FiniteSets, Zenon
<1>6. CASE t.kind = "work" /\ t.source = r
  <2>1. Cardinality(QueuedIn(admission', "work", r)) = Cardinality(QueuedIn(admission, "work", r)) - 1
    BY <1>2, <1>3, <1>6, Taken, ZenonT(30)
  <2>2. Cardinality(CarriersIn(job', r)) = Cardinality(CarriersIn(job, r)) + 1
    BY <1>2, <1>3, <1>4, <1>6, Reassigned, Zenon
  <2> QED
    BY <1>5, <2>1, <2>2, InFlightIs
<1>7. CASE t.kind # "work" \/ t.source # r
  <2>1. Cardinality(QueuedIn(admission', "work", r)) = Cardinality(QueuedIn(admission, "work", r))
    BY <1>2, <1>3, <1>7, Taken, Zenon
  <2>2. CarriersIn(job', r) = CarriersIn(job, r)
    BY <1>2, <1>3, <1>4, <1>7, Reassigned, ZenonT(30)
  <2> QED
    BY <2>1, <2>2, InFlightIs, Zenon
<1> QED
  BY <1>6, <1>7, Zenon

\* A worker that moves on keeps what it has.
LEMMA GoesInFlight ==
  ASSUME IInv, NEW w \in Worker, Goes(w), UNCHANGED admission, NEW r
  PROVE  InFlight(r)' = InFlight(r)
<1>1. PICK place \in Places : Step(w, place)
  BY Zenon DEF Goes
<1> DEFINE j == [at |-> place, source |-> job[w].source, buffer |-> job[w].buffer]
<1>2. j \in Job /\ j.source = job[w].source /\ j.buffer = job[w].buffer /\ job' = [job EXCEPT ![w] = j] /\ job \in [Worker -> Job]
  BY <1>1, Types, Zenon DEF Step, At, Job, Places, IInv, JobType
<1> HIDE DEF j
<1>3. CarriersIn(job', r) = CarriersIn(job, r)
  BY <1>2, Reassigned, Zenon
<1> QED
  BY <1>3, InFlightIs, Zenon

\* So does one that had nothing and gets nothing.
LEMMA NothingInFlight ==
  ASSUME IInv, NEW w \in Worker, NEW place \in Places, NEW s \in Source, At(w, place, s, NoBuffer), UNCHANGED admission,
         NEW r, job[w].buffer = NoBuffer \/ job[w].source # r
  PROVE  InFlight(r)' = InFlight(r)
<1> DEFINE j == [at |-> place, source |-> s, buffer |-> NoBuffer]
<1>1. j \in Job /\ j.buffer = NoBuffer /\ job' = [job EXCEPT ![w] = j] /\ job \in [Worker -> Job]
  BY Types, Zenon DEF At, Job, Places, IInv, JobType
<1> HIDE DEF j
<1>2. CarriersIn(job', r) = CarriersIn(job, r)
  BY <1>1, Reassigned, Zenon
<1> QED
  BY <1>2, InFlightIs, Zenon

\* The completion of a WorkTask
LEMMA CompletedInFlight ==
  ASSUME IInv, NEW w \in Worker, Finish(w), NEW s \in Source, s = job[w].source, job[w].buffer # NoBuffer
  PROVE  InFlight(s)' = InFlight(s) - 1
<1> DEFINE j == [at |-> "idle", source |-> job[w].source, buffer |-> NoBuffer]
<1>1. j \in Job /\ j.buffer = NoBuffer /\ job' = [job EXCEPT ![w] = j] /\ job \in [Worker -> Job] /\ UNCHANGED admission
  BY Types, Zenon DEF Finish, At, Job, IInv, JobType, queueVars
<1> HIDE DEF j
<1>2. Cardinality(CarriersIn(job', s)) = Cardinality(CarriersIn(job, s)) - 1
  BY <1>1, Reassigned, Zenon
<1>3. Cardinality(QueuedIn(admission, "work", s)) \in Nat /\ Cardinality(CarriersIn(job, s)) \in Nat
  BY FiniteSets, Types, Zenon DEF IInv, QueueType
<1>4. QueuedIn(admission', "work", s) = QueuedIn(admission, "work", s)
  BY <1>1, Zenon
<1>5. InFlight(s) = Cardinality(QueuedIn(admission, "work", s)) + Cardinality(CarriersIn(job, s))
  BY InFlightIs, Zenon
<1>6. InFlight(s)' = Cardinality(QueuedIn(admission, "work", s)) + Cardinality(CarriersIn(job', s))
  BY <1>4, InFlightIs, Zenon
<1> QED
  BY <1>2, <1>3, <1>5, <1>6

-----------------------------------------------------------------------------
(* Tokens *)

\* The account of one source, with n tokens in the semaphore and f buffers in flight, at a place of its thread
\* and before or after a stop
Balance(n, f, place, stopped) ==
  /\ n + f + (IF place \in {"check", "leave", "add"} THEN 1 ELSE 0)
       >= InflightLimit + (IF stopped /\ place \in {"acquire", "check"} THEN 1 ELSE 0)
  /\ n + f + (IF place \in {"check", "leave", "add"} THEN 1 ELSE 0)
       <= InflightLimit + (IF stopped /\ place \in {"acquire", "check"} THEN 1 ELSE 0) + (IF stopped THEN 1 ELSE 0)
  /\ f + (IF place \in {"leave", "add"} THEN 1 ELSE 0) <= InflightLimit

Balanced(s) == Balance(available[s], InFlight(s), pc[s], s \in stop)

TokensGoal == (\A s \in Source : Balanced(s)') /\ available' \in [Source -> Nat]

LEMMA AvailableIsNat == ASSUME IInv PROVE available \in [Source -> Nat]
BY Types, LimitsArePositive DEF IInv, AvailableType

LEMMA AccountIs ==
  ASSUME IInv, \A s \in Source : InFlight(s) \in Nat
  PROVE  \A s \in Source : Balanced(s)
<1> SUFFICES ASSUME NEW s \in Source PROVE Balanced(s)
  BY Zenon
<1>1. available[s] \in Nat /\ InFlight(s) \in Nat /\ InflightLimit \in Nat
  BY AvailableIsNat, LimitsArePositive, Zenon
<1>2. /\ LET granted == InflightLimit + (IF s \in stop /\ pc[s] \in {"acquire", "check"} THEN 1 ELSE 0)
         IN  Tokens(s) \in granted .. granted + (IF s \in stop THEN 1 ELSE 0)
      /\ InFlight(s) + (IF pc[s] \in {"leave", "add"} THEN 1 ELSE 0) <= InflightLimit
  BY Zenon DEF IInv, TokensAreConserved, InflightIsBounded
<1> QED
  BY <1>1, <1>2 DEF Tokens, Balanced, Balance

LEMMA AccountIsNext ==
  ASSUME available' \in [Source -> Nat], \A s \in Source : InFlight(s)' \in Nat, \A s \in Source : Balanced(s)'
  PROVE  TokensAreConserved' /\ InflightIsBounded'
<1>1. ASSUME NEW s \in Source
      PROVE  /\ LET granted == InflightLimit + (IF s \in stop' /\ pc'[s] \in {"acquire", "check"} THEN 1 ELSE 0)
                IN  Tokens(s)' \in granted .. granted + (IF s \in stop' THEN 1 ELSE 0)
             /\ InFlight(s)' + (IF pc'[s] \in {"leave", "add"} THEN 1 ELSE 0) <= InflightLimit
  <2>1. /\ available'[s] \in Nat /\ InFlight(s)' \in Nat /\ InflightLimit \in Nat
        /\ Balance(available'[s], InFlight(s)', pc'[s], s \in stop')
        /\ Tokens(s)' = available'[s] + InFlight(s)' + (IF pc'[s] \in {"check", "leave", "add"} THEN 1 ELSE 0)
    BY LimitsArePositive, Zenon DEF Balanced, Tokens
  <2> QED
    BY <2>1 DEF Balance
<1> QED
  BY <1>1, Zenon DEF TokensAreConserved, InflightIsBounded

LEMMA AccountIsNow == ASSUME IInv PROVE \A s \in Source : Balanced(s)
BY InFlightIsNat, AccountIs, Zenon

LEMMA TokensAlone ==
  ASSUME IInv, UNCHANGED <<pc, stop, available>>, \A r \in Source : InFlight(r)' = InFlight(r)
  PROVE  TokensGoal
BY AvailableIsNat, AccountIsNow, Zenon DEF Balanced, TokensGoal

LEMMA TokensOfRequest ==
  ASSUME IInv, NEW s \in Source, RequestStop(s), UNCHANGED pc, \A r \in Source : InFlight(r)' = InFlight(r)
  PROVE  TokensGoal
<1>1. available \in [Source -> Nat] /\ InflightLimit \in Nat /\ \A r : InFlight(r) \in Nat
  BY AvailableIsNat, InFlightIsNat, LimitsArePositive, Zenon
<1>2. /\ stop' = stop \cup {s}
      /\ available' = [available EXCEPT ![s] =
                         IF s \notin stop /\ pc[s] \in {"acquire", "check", "leave"} THEN @ + 1 ELSE @]
  BY Zenon DEF RequestStop
<1>3. available' \in [Source -> Nat]
  BY <1>1, <1>2
<1>4. ASSUME NEW r \in Source PROVE Balanced(r)'
  <2>1. Balanced(r)
    BY AccountIsNow, Zenon
  <2>2. CASE r # s
    <3>1. available'[r] = available[r] /\ (r \in stop' <=> r \in stop)
      BY <1>1, <1>2, <2>2, Zenon
    <3> QED
      BY <2>1, <3>1, Zenon DEF Balanced, Balance
  <2>3. CASE r = s
    <3>1. /\ available'[s] = IF s \notin stop /\ pc[s] \in {"acquire", "check", "leave"}
                             THEN available[s] + 1 ELSE available[s]
          /\ s \in stop'
      BY <1>1, <1>2, Zenon
    <3>2. available[s] \in Nat /\ InFlight(s) \in Nat
      BY <1>1, Zenon
    <3> QED
      BY <1>1, <2>1, <2>3, <3>1, <3>2 DEF Balanced, Balance
  <2> QED
    BY <2>2, <2>3, Zenon
<1> QED
  BY <1>3, <1>4, Zenon DEF TokensGoal

LEMMA TokensOfSources ==
  ASSUME IInv, NEW s \in Source, Moves(s) \/ Emits(s) \/ AskToStop(s) \/ Presses(s)
  PROVE  TokensGoal
<1>1. available \in [Source -> Nat] /\ InflightLimit \in Nat /\ (\A r : InFlight(r) \in Nat) /\ SourceTypes
  BY AvailableIsNat, InFlightIsNat, LimitsArePositive, Types, Zenon DEF IInv
<1>2. \A r \in Source : Balanced(r)
  BY AccountIsNow, Zenon
<1>3. ASSUME UNCHANGED stop, available' \in [Source -> Nat],
             \A r \in Source \ {s} : InFlight(r)' = InFlight(r) /\ available'[r] = available[r] /\ pc'[r] = pc[r],
             Balance(available'[s], InFlight(s)', pc'[s], s \in stop)
      PROVE  TokensGoal
  <2>1. ASSUME NEW r \in Source PROVE Balanced(r)'
    BY <1>2, <1>3, Zenon DEF Balanced, Balance
  <2> QED
    BY <1>3, <2>1, Zenon DEF TokensGoal
<1>0. /\ Balance(available[s], InFlight(s), pc[s], s \in stop)
       /\ available[s] \in Nat /\ InFlight(s) \in Nat /\ InflightLimit \in Nat
  BY <1>1, <1>2, Zenon DEF Balanced
<1>4. ASSUME UNCHANGED <<admission, job>> PROVE \A r : InFlight(r)' = InFlight(r)
  BY <1>4, InFlightIs, Zenon
<1>5. CASE Moves(s)
  <2>1. MovesOn(s)
    BY <1>5, MovesLead, Zenon
  <2>2. \A r : InFlight(r)' = InFlight(r)
    BY <1>4, <2>1, Zenon DEF MovesOn
  <2>3. Balance(available[s], InFlight(s), pc'[s], s \in stop)
    BY <1>0, <2>1 DEF MovesOn, Balance
  <2> QED
    BY <1>1, <1>3, <2>1, <2>2, <2>3, Zenon DEF MovesOn
<1>6. CASE Register(s) \/ Acquire(s) \/ Check(s) \/ Leave(s)
  <2>1. EmitsOn(s) /\ \A r : InFlight(r)' = InFlight(r)
    BY <1>4, <1>6, EmitsLead, Zenon DEF Emits, EmitsOn, Register, Acquire, Check, Leave, queueVars
  <2>2. ASSUME NEW n \in Nat, available' = [available EXCEPT ![s] = n], Balance(n, InFlight(s), pc'[s], s \in stop)
        PROVE  TokensGoal
    <3>1. available' \in [Source -> Nat] /\ available'[s] = n
      BY <1>1, <2>2, Zenon
    <3> QED
      BY <1>3, <2>1, <2>2, <3>1, Zenon DEF EmitsOn
  <2>3. CASE Register(s)
    <3>1. /\ pc[s] = "emit" /\ pc'[s] = "acquire"
          /\ available' = [available EXCEPT ![s] = IF s \in stop THEN available[s] + 1 ELSE available[s]]
      BY <1>1, <2>3, Zenon DEF Register, Goto, SourceTypes
    <3> DEFINE n == IF s \in stop THEN available[s] + 1 ELSE available[s]
    <3>2. n \in Nat /\ Balance(n, InFlight(s), pc'[s], s \in stop)
      BY <1>0, <3>1 DEF Balance
    <3> QED
      BY <2>2, <3>1, <3>2, Zenon
  <2>4. CASE Acquire(s)
    <3>1. /\ pc[s] = "acquire" /\ pc'[s] = "check" /\ available[s] > 0
          /\ available' = [available EXCEPT ![s] = available[s] - 1]
      BY <1>1, <2>4, Zenon DEF Acquire, Goto, SourceTypes
    <3>2. available[s] - 1 \in Nat /\ Balance(available[s] - 1, InFlight(s), pc'[s], s \in stop)
      BY <1>0, <3>1 DEF Balance
    <3> QED
      BY <2>2, <3>1, <3>2, Zenon
  <2>5. CASE Check(s) \/ Leave(s)
    <3>1. /\ \/ pc[s] = "check" /\ pc'[s] = (IF s \in stop THEN "wait" ELSE "leave")
             \/ pc[s] = "leave" /\ pc'[s] = "add"
          /\ UNCHANGED available
      BY <1>1, <2>5, Zenon DEF Check, Leave, Goto, SourceTypes, tokenVars
    <3>2. Balance(available[s], InFlight(s), pc'[s], s \in stop)
      BY <1>0, <3>1 DEF Balance
    <3>3. available' = [available EXCEPT ![s] = available[s]]
      BY <1>1, <3>1, Zenon
    <3> QED
      BY <1>0, <2>2, <3>2, <3>3, Zenon
  <2> QED
    BY <1>6, <2>3, <2>4, <2>5, Zenon
<1>7. CASE Add(s)
  <2>1. EmitsOn(s) /\ Enqueue("work", s, hand[s]) /\ UNCHANGED <<available, job>> /\ hand[s] \in Buffer \cup {NoBuffer}
    BY <1>1, <1>7, EmitsLead, Zenon DEF Emits, EmitsOn, Add, tokenVars, SourceTypes
  <2>2. InFlight(s)' = InFlight(s) + 1 /\ \A r \in Source \ {s} : InFlight(r)' = InFlight(r)
    BY <2>1, Enqueued, Zenon
  <2>3. pc[s] = "add" /\ pc'[s] \in {"wait", "emit"}
    BY <1>1, <1>7, Zenon DEF Add, Goto, SourceTypes
  <2>4. Balance(available[s], InFlight(s)', pc'[s], s \in stop)
    BY <1>0, <2>2, <2>3 DEF Balance
  <2> QED
    BY <1>1, <1>3, <2>1, <2>2, <2>4, Zenon DEF EmitsOn
<1>8. CASE EmitEnd(s) \/ EmitError(s)
  <2>1. /\ EmitsOn(s) /\ UNCHANGED <<available, job>>
        /\ Enqueue("stopSource", s, NoBuffer) \/ Enqueue("failSource", s, NoBuffer)
    BY <1>8, EmitsLead, Zenon DEF Emits, EmitsOn, EmitEnd, EmitError, tokenVars
  <2>2. \A r : InFlight(r)' = InFlight(r)
    BY <2>1, Enqueued, Zenon
  <2>3. pc[s] \in {"eos", "error"} /\ pc'[s] = "exit"
    BY <1>1, <1>8, Zenon DEF EmitEnd, EmitError, Goto, SourceTypes
  <2>4. Balance(available[s], InFlight(s), pc'[s], s \in stop)
    BY <1>0, <2>3 DEF Balance
  <2> QED
    BY <1>1, <1>3, <2>1, <2>2, <2>4, Zenon DEF EmitsOn
<1>9. CASE AskToStop(s)
  <2>1. Enqueue("stopQuery", s, NoBuffer) /\ UNCHANGED <<pc, stop, available, job>>
    BY <1>9, Zenon DEF AskToStop, sourceVars, tokenVars
  <2>2. \A r : InFlight(r)' = InFlight(r)
    BY <2>1, Enqueued, Zenon
  <2> QED
    BY <2>1, <2>2, TokensAlone, Zenon
<1>10. CASE Presses(s)
  BY <1>4, <1>10, TokensAlone, Zenon DEF Presses, ApplyPressure, ReleasePressure, sourceVars, tokenVars, queueVars
<1> QED
  BY <1>5, <1>6, <1>7, <1>8, <1>9, <1>10, Zenon DEF Emits

LEMMA TokensOfWorkers ==
  ASSUME IInv, NEW w \in Worker, WorkerStep(w)
  PROVE  TokensGoal
<1>1. UNCHANGED pc /\ JobType
  BY WorkersLead, Types, Zenon DEF WorkerOn, IInv
<1>2. PICK s \in Source : s = job[w].source
  BY <1>1, Zenon DEF JobType, Job
<1>3. CASE TakeAdmitted(w)
  BY <1>3, Takes, TakenInFlight, TokensAlone, Zenon
<1>4. CASE Execute(w) \/ Fail(w) \/ LockCatalog(w) \/ Join(w)
  <2>1. \A r : InFlight(r)' = InFlight(r)
    BY <1>4, WorkersGo, GoesInFlight, Zenon
  <2>2. UNCHANGED <<stop, available>>
    BY <1>4, Zenon DEF Execute, Fail, LockCatalog, Join, tokenVars
  <2> QED
    BY <1>1, <2>1, <2>2, TokensAlone, Zenon
<1>5. CASE Unregister(w) \/ Release(w)
  <2>1. \A r : InFlight(r)' = InFlight(r)
    BY <1>5, WorkersGo, GoesInFlight, Zenon
  <2>2. RequestStop(s) \/ UNCHANGED <<stop, available>>
    BY <1>2, <1>5, Zenon DEF Unregister, Release, tokenVars
  <2> QED
    BY <1>1, <2>1, <2>2, TokensAlone, TokensOfRequest, Zenon
<1>6. ASSUME NEW r \in Source, TakeRetry(w, r) \/ Expire(w, r) PROVE TokensGoal
  <2>1. /\ \E place \in Places : At(w, place, r, NoBuffer)
        /\ UNCHANGED <<admission, stop, available>> /\ job[w].at = "idle"
    BY <1>6, Zenon DEF TakeRetry, Expire, Places, tokenVars, queueVars
  <2>2. job[w].buffer = NoBuffer
    BY <2>1, Zenon DEF IInv, WorkHasTheBuffers
  <2>3. \A x : InFlight(x)' = InFlight(x)
    BY <2>1, <2>2, NothingInFlight, Zenon
  <2> QED
    BY <1>1, <2>1, <2>3, TokensAlone, Zenon
<1>7. CASE Finish(w)
  <2>1. /\ available' = [available EXCEPT ![s] = IF job[w].buffer = NoBuffer THEN @ ELSE @ + 1]
        /\ At(w, "idle", s, NoBuffer) /\ UNCHANGED <<stop, admission>> /\ "idle" \in Places
    BY <1>2, <1>7, Zenon DEF Finish, queueVars, Places
  <2>2. \A r : job[w].buffer = NoBuffer \/ r # s => InFlight(r)' = InFlight(r)
    BY <1>2, <2>1, NothingInFlight, Zenon
  <2>3. available \in [Source -> Nat] /\ \A r : InFlight(r) \in Nat
    BY AvailableIsNat, InFlightIsNat, Zenon
  <2>4. CASE job[w].buffer = NoBuffer
    <3>1. UNCHANGED available
      BY <2>1, <2>3, <2>4, Zenon
    <3> QED
      BY <1>1, <2>1, <2>2, <2>4, <3>1, TokensAlone, Zenon
  <2>5. CASE job[w].buffer # NoBuffer
    <3>1. InFlight(s)' = InFlight(s) - 1 /\ available'[s] = available[s] + 1 /\ available' \in [Source -> Nat]
      BY <1>2, <1>7, <2>1, <2>3, <2>5, CompletedInFlight
    <3>2. \A r \in Source : /\ available'[r] + InFlight(r)' = available[r] + InFlight(r)
                            /\ available'[r] \in Nat /\ InFlight(r)' \in Int /\ available'[r] >= available[r]
      BY <2>1, <2>2, <2>3, <3>1
    <3>3. ASSUME NEW r \in Source PROVE Balanced(r)'
      <4>1. /\ Balance(available[r], InFlight(r), pc[r], r \in stop) /\ InflightLimit \in Nat
            /\ available[r] \in Nat /\ InFlight(r) \in Nat /\ InFlight(r)' <= InFlight(r)
        BY <2>2, <2>3, <3>1, AccountIsNow, LimitsArePositive DEF Balanced
      <4>2. Balance(available'[r], InFlight(r)', pc[r], r \in stop)
        BY <3>2, <4>1 DEF Balance
      <4> QED
        BY <1>1, <2>1, <4>2, Zenon DEF Balanced
    <3> QED
      BY <3>1, <3>3, Zenon DEF TokensGoal
  <2> QED
    BY <2>4, <2>5, Zenon
<1> QED
  BY <1>3, <1>4, <1>5, <1>6, <1>7, Zenon DEF WorkerStep

-----------------------------------------------------------------------------
(* The end of a source *)

LEMMA SetTypesStay ==
  ASSUME IInv, Next
  PROVE  SetTypes' /\ JobType'
<1>1. SetTypes /\ JobType
  BY Types, Zenon DEF IInv
<1>2. ASSUME NEW s \in Source, Moves(s) \/ Emits(s) \/ AskToStop(s) \/ Presses(s) PROVE SetTypes' /\ JobType'
  <2>1. CASE Moves(s)
    BY <1>1, <2>1, MovesLead, Zenon DEF MovesOn, SetTypes, JobType
  <2>2. CASE Emits(s)
    BY <1>1, <2>2, EmitsLead, Zenon DEF EmitsOn, SetTypes, JobType
  <2>3. CASE AskToStop(s)
    BY <1>1, <2>3, LimitsArePositive DEF AskToStop, Enqueue, tokenVars, ownerVars, SetTypes, JobType
  <2>4. CASE Presses(s)
    BY <1>1, <2>4, Zenon DEF Presses, ApplyPressure, ReleasePressure, tokenVars, ownerVars, queueVars, SetTypes, JobType
  <2> QED
    BY <1>2, <2>1, <2>2, <2>3, <2>4, Zenon
<1>3. ASSUME NEW w \in Worker, WorkerStep(w) PROVE SetTypes' /\ JobType'
  <2>1. JobType' /\ UNCHANGED <<pressure, asked>>
    BY <1>3, WorkersLead, Zenon DEF WorkerOn
  <2>2. PICK s \in Source : s = job[w].source
    BY <1>1, Zenon DEF JobType, Job
  <2>3. stop' \subseteq Source
    <3>1. \/ UNCHANGED stop \/ RequestStop(s)
      BY <1>3, <2>2, Zenon DEF WorkerStep, TakeAdmitted, Execute, Fail, Unregister, LockCatalog, Release, Join, Finish,
                               TakeRetry, Expire, tokenVars
    <3> QED
      BY <1>1, <3>1, Zenon DEF SetTypes, RequestStop
  <2>4. joinable' \subseteq joinable /\ planned' \subseteq planned /\ unregistered' \subseteq unregistered \cup {s} /\ retry' \subseteq retry \cup {s}
    <3>1. CASE Unregister(w)
      BY <2>2, <3>1, Zenon DEF Unregister
    <3>2. CASE Fail(w) \/ LockCatalog(w) \/ Join(w)
      BY <3>2, Zenon DEF Fail, LockCatalog, Join, queueVars
    <3>3. CASE TakeAdmitted(w)
      BY <3>3, Takes, Zenon
    <3>4. CASE Execute(w) \/ Release(w) \/ Finish(w) \/ \E r \in Source : TakeRetry(w, r) \/ Expire(w, r)
      BY <3>4, Zenon DEF Execute, Release, Finish, TakeRetry, Expire, ownerVars, queueVars
    <3> QED
      BY <1>3, <3>1, <3>2, <3>3, <3>4, Zenon DEF WorkerStep
  <2>5. catalogLock' \in Worker \cup {NoWorker}
    <3>1. catalogLock' \in {catalogLock, w, NoWorker}
      BY <1>3, Zenon DEF WorkerStep, TakeAdmitted, Execute, Fail, Unregister, LockCatalog, Release, Join, Finish, TakeRetry, Expire
    <3> QED
      BY <1>1, <3>1, Zenon DEF SetTypes
  <2> QED
    BY <1>1, <2>1, <2>2, <2>3, <2>4, <2>5, Zenon DEF SetTypes
<1> QED
  BY <1>2, <1>3, NextSplits, Zenon

\* What happens to the admission queue
LEMMA QueueSteps ==
  ASSUME IInv, Next
  PROVE  \/ UNCHANGED admission
         \/ UNCHANGED job /\ \E s \in Source : Add(s) /\ Enqueue("work", s, hand[s]) /\ hand[s] \in Buffer
         \/ UNCHANGED job /\ \E s \in Source : EmitEnd(s) /\ Enqueue("stopSource", s, NoBuffer)
         \/ UNCHANGED job /\ \E s \in Source, kind \in {"failSource", "stopQuery"} : Enqueue(kind, s, NoBuffer)
         \/ \E w \in Worker : TakeAdmitted(w)
<1>1. ASSUME NEW s \in Source, Add(s)
      PROVE  UNCHANGED job /\ Enqueue("work", s, hand[s]) /\ hand[s] \in Buffer
  BY <1>1, Types, Zenon DEF Add, IInv, EmitsABuffer, SourceTypes
<1>2. ASSUME NEW s \in Source, Moves(s) \/ Presses(s) \/ Register(s) \/ Acquire(s) \/ Check(s) \/ Leave(s)
      PROVE  UNCHANGED admission
  <2>1. CASE Moves(s)
    BY <2>1, MovesLead, Zenon DEF MovesOn
  <2> QED
    BY <1>2, <2>1, Zenon DEF Presses, ApplyPressure, ReleasePressure, Register, Acquire, Check, Leave, queueVars
<1>3. ASSUME NEW s \in Source, EmitEnd(s) PROVE UNCHANGED job /\ Enqueue("stopSource", s, NoBuffer)
  BY <1>3, Zenon DEF EmitEnd
<1>4. ASSUME NEW s \in Source, EmitError(s) \/ AskToStop(s)
      PROVE  UNCHANGED job /\ \E kind \in {"failSource", "stopQuery"} : Enqueue(kind, s, NoBuffer)
  BY <1>4, Zenon DEF EmitError, AskToStop
<1>5. ASSUME NEW w \in Worker, WorkerStep(w), ~TakeAdmitted(w) PROVE UNCHANGED admission
  BY <1>5, Zenon DEF WorkerStep, Execute, Fail, Unregister, LockCatalog, Release, Join, Finish, TakeRetry, Expire, queueVars
<1> QED
  BY <1>1, <1>2, <1>3, <1>4, <1>5, NextSplits, Zenon DEF Emits

\* A thread that is about to exit does nothing else.
LEMMA EndsStay ==
  ASSUME IInv, Next
  PROVE  /\ SourceTypes' /\ EmitsABuffer'
         /\ \A s \in Source : /\ pc[s] \in {"exit", "exited"} => pc'[s] \in {"exit", "exited"}
                              /\ pc[s] = "exited" => pc'[s] = "exited"
<1> DEFINE Goal == /\ SourceTypes' /\ EmitsABuffer'
                   /\ \A s \in Source : /\ pc[s] \in {"exit", "exited"} => pc'[s] \in {"exit", "exited"}
                                        /\ pc[s] = "exited" => pc'[s] = "exited"
<1>1. SourceTypes /\ EmitsABuffer
  BY Types, Zenon DEF IInv
<1>2. CASE UNCHANGED <<pc, hand, left>>
  BY <1>1, <1>2, Zenon DEF SourceTypes, EmitsABuffer
<1>3. ASSUME NEW s \in Source, Moves(s) PROVE Goal
  BY <1>1, <1>3, MovesLead, Zenon DEF MovesOn, EmitsABuffer
<1>4. ASSUME NEW s \in Source, Emits(s) PROVE Goal
  BY <1>1, <1>4, EmitsLead, Zenon DEF EmitsOn, EmitsABuffer
<1>5. ASSUME NEW s \in Source, AskToStop(s) \/ Presses(s) PROVE UNCHANGED <<pc, hand, left>>
  BY <1>5, Zenon DEF AskToStop, Presses, ApplyPressure, ReleasePressure, sourceVars
<1>6. ASSUME NEW w \in Worker, WorkerStep(w) PROVE UNCHANGED <<pc, hand, left>>
  BY <1>6, WorkersLead, Zenon DEF WorkerOn
<1> HIDE DEF Goal
<1>7. Goal
  BY <1>2, <1>3, <1>4, <1>5, <1>6, NextSplits, Zenon DEF Goal
<1> QED
  BY <1>7, Zenon DEF Goal

LEMMA QueueStays ==
  ASSUME IInv, Next
  PROVE  QueueType' /\ EndIsLast' /\ \A i \in DOMAIN admission' : admission'[i].buffer # NoBuffer <=> admission'[i].kind = "work"
<1> DEFINE Goal == /\ QueueType' /\ EndIsLast'
                   /\ \A i \in DOMAIN admission' : admission'[i].buffer # NoBuffer <=> admission'[i].kind = "work"
<1>1. /\ QueueType /\ SourceTypes
      /\ \A i \in DOMAIN admission : admission[i].buffer # NoBuffer <=> admission[i].kind = "work"
      /\ \A i \in DOMAIN admission : admission[i].kind = "stopSource" =>
           /\ pc[admission[i].source] \in {"exit", "exited"}
           /\ \A j \in DOMAIN admission :
                j > i /\ admission[j].source = admission[i].source => admission[j].kind # "work"
  BY Types, Zenon DEF IInv, WorkHasTheBuffers, EndIsLast
<1>2. \A i \in DOMAIN admission : admission[i] \in Task /\ admission[i].source \in Source
  <2>1. admission \in Seq(Task)
    BY <1>1, Zenon DEF QueueType
  <2>2. \A i \in DOMAIN admission : admission[i] \in Task
    BY <2>1, SMT
  <2>3. \A x \in Task : x.source \in Source
    BY SMT DEF Task
  <2> QED
    BY <2>2, <2>3, Zenon
<1>3. \A s \in Source : pc[s] \in {"exit", "exited"} => pc'[s] \in {"exit", "exited"}
  BY EndsStay, Zenon
<1>4. CASE UNCHANGED admission
  BY <1>1, <1>2, <1>3, <1>4 DEF QueueType, EndIsLast
<1>5. ASSUME NEW kind \in {"work", "stopSource", "failSource", "stopQuery"}, NEW s \in Source, NEW b \in Buffer \cup {NoBuffer},
             Enqueue(kind, s, b), UNCHANGED job, b # NoBuffer <=> kind = "work",
             kind = "work" => pc[s] = "add", kind = "stopSource" => pc'[s] = "exit"
      PROVE  Goal
  <2> DEFINE n == Len(admission) + 1
  <2>1. /\ QueueType' /\ DOMAIN admission' = DOMAIN admission \cup {n}
        /\ n \in Nat /\ \A i \in DOMAIN admission : i \in Nat /\ i < n
        /\ \A i \in DOMAIN admission : admission'[i] = admission[i]
        /\ admission'[n].kind = kind /\ admission'[n].source = s /\ admission'[n].buffer = b
    <3>1. /\ QueueType' /\ DOMAIN admission' = DOMAIN admission \cup {n}
          /\ Len(admission) \in Nat /\ \A i \in DOMAIN admission : i \in Nat /\ i <= Len(admission)
          /\ \A i \in DOMAIN admission : admission'[i] = admission[i]
          /\ admission'[n] = [kind |-> kind, source |-> s, buffer |-> b]
      BY <1>5, Enqueued, Zenon
    <3> QED
      BY <3>1
  <2> HIDE DEF n
  <2>2. \A i \in DOMAIN admission' : admission'[i].buffer # NoBuffer <=> admission'[i].kind = "work"
    BY <1>1, <1>5, <2>1, ZenonT(30)
  <2>3. ASSUME NEW i \in DOMAIN admission', admission'[i].kind = "stopSource"
        PROVE  /\ pc'[admission'[i].source] \in {"exit", "exited"}
               /\ \A j \in DOMAIN admission' :
                    j > i /\ admission'[j].source = admission'[i].source => admission'[j].kind # "work"
    <3>1. CASE i = n
      BY <1>5, <2>1, <2>3, <3>1
    <3>2. CASE i \in DOMAIN admission
      <4>1. pc[admission[i].source] \in {"exit", "exited"} /\ admission'[i] = admission[i]
        BY <1>1, <2>1, <2>3, <3>2, Zenon
      <4>2. pc'[admission'[i].source] \in {"exit", "exited"}
        BY <1>2, <1>3, <3>2, <4>1, Zenon
      <4>3. ASSUME NEW j \in DOMAIN admission', j > i, admission'[j].source = admission'[i].source
            PROVE  admission'[j].kind # "work"
        <5>1. CASE j = n
          BY <1>5, <2>1, <4>1, <4>3, <5>1, Zenon
        <5>2. CASE j \in DOMAIN admission
          BY <1>1, <2>1, <2>3, <3>2, <4>1, <4>3, <5>2, Zenon
        <5> QED
          BY <2>1, <5>1, <5>2, Zenon
      <4> QED
        BY <4>2, <4>3, Zenon
    <3> QED
      BY <2>1, <3>1, <3>2, Zenon
  <2> QED
    BY <2>1, <2>2, <2>3, Zenon DEF EndIsLast
<1>6. ASSUME NEW w \in Worker, TakeAdmitted(w) PROVE Goal
  <2>1. admission # <<>> /\ admission' = Tail(admission)
    BY <1>6, Takes, Zenon
  <2>2. /\ admission' \in Seq(Task) /\ Len(admission') = Len(admission) - 1 /\ Len(admission) \in Nat
        /\ \A i \in DOMAIN admission' : i \in Nat /\ i + 1 \in DOMAIN admission /\ admission'[i] = admission[i + 1]
    BY <2>1, HeadTask
  <2>3. QueueType'
    BY <1>1, <2>2, LimitsArePositive DEF QueueType
  <2>4. ASSUME NEW i \in DOMAIN admission', admission'[i].kind = "stopSource"
        PROVE  /\ pc'[admission'[i].source] \in {"exit", "exited"}
               /\ \A j \in DOMAIN admission' :
                    j > i /\ admission'[j].source = admission'[i].source => admission'[j].kind # "work"
    <3>1. \A j \in DOMAIN admission' : j > i => j + 1 > i + 1
      BY <2>2
    <3> QED
      BY <1>1, <1>2, <1>3, <2>2, <2>4, <3>1, ZenonT(30)
  <2> QED
    BY <1>1, <2>2, <2>3, <2>4, ZenonT(30) DEF EndIsLast
<1> HIDE DEF Goal
<1>7. ASSUME NEW s \in Source, Add(s), Enqueue("work", s, hand[s]), hand[s] \in Buffer, UNCHANGED job PROVE Goal
  <2>1. hand[s] # NoBuffer /\ pc[s] = "add"
    BY <1>7, NoBufferIsNone, Zenon DEF Add
  <2> QED
    BY <1>5, <1>7, <2>1, Zenon
<1>8. ASSUME NEW s \in Source, EmitEnd(s), Enqueue("stopSource", s, NoBuffer), UNCHANGED job PROVE Goal
  <2>1. pc'[s] = "exit"
    BY <1>1, <1>8, Zenon DEF EmitEnd, Goto, SourceTypes
  <2> QED
    BY <1>5, <1>8, <2>1, Zenon
<1>9. ASSUME NEW s \in Source, NEW kind \in {"failSource", "stopQuery"}, Enqueue(kind, s, NoBuffer), UNCHANGED job PROVE Goal
  BY <1>5, <1>9, Zenon
<1>10. Goal
  <2>1. CASE UNCHANGED admission
    BY <1>4, <2>1, Zenon DEF Goal
  <2> QED
    BY <1>6, <1>7, <1>8, <1>9, <2>1, QueueSteps, Zenon
<1> QED
  BY <1>10, Zenon DEF Goal

LEMMA IdleStays ==
  ASSUME IInv, Next
  PROVE  \A w \in Worker : job'[w].at = "idle" => job'[w].buffer = NoBuffer
<1>1. \A w \in Worker : job[w].at = "idle" => job[w].buffer = NoBuffer
  BY Zenon DEF IInv, WorkHasTheBuffers
<1>2. ASSUME NEW w \in Worker, WorkerStep(w) PROVE \A v \in Worker : job'[v].at = "idle" => job'[v].buffer = NoBuffer
  BY <1>1, <1>2, WorkersLead, Zenon DEF WorkerOn
<1>3. ASSUME NEW s \in Source, Moves(s) \/ Emits(s) \/ AskToStop(s) \/ Presses(s) PROVE UNCHANGED job
  <2>1. CASE Moves(s)
    BY <2>1, MovesLead, Zenon DEF MovesOn
  <2>2. CASE Emits(s)
    BY <2>2, EmitsLead, Zenon DEF EmitsOn
  <2> QED
    BY <1>3, <2>1, <2>2, Zenon DEF AskToStop, Presses, ApplyPressure, ReleasePressure
<1> QED
  BY <1>1, <1>2, <1>3, NextSplits, Zenon

\* A StopSourceTask of s is being handled or repeated, or has succeeded.
Ended(s) == s \in retry \cup unregistered \/ \E w \in Worker : job[w].at = "unregister" /\ job[w].source = s

\* It gets there through the admission queue.
LEMMA EndedComesFromTheQueue ==
  ASSUME IInv, Next, NEW s \in Source, Ended(s)'
  PROVE  /\ Ended(s) \/ \E w \in Worker : /\ TakeAdmitted(w) /\ admission # <<>> /\ admission' = Tail(admission)
                                          /\ Head(admission).kind = "stopSource" /\ Head(admission).source = s
         /\ s \in unregistered' => s \in unregistered \/ pc[s] = "exited"
<1>1. JobType
  BY Types, Zenon DEF IInv
<1>2. CASE UNCHANGED <<retry, unregistered, job>>
  BY <1>2, Zenon DEF Ended
<1>3. ASSUME NEW r \in Source, Moves(r) \/ Emits(r) \/ AskToStop(r) \/ Presses(r) PROVE UNCHANGED <<retry, unregistered, job>>
  <2>1. CASE Moves(r)
    BY <2>1, MovesLead, Zenon DEF MovesOn
  <2>2. CASE Emits(r)
    BY <2>2, EmitsLead, Zenon DEF EmitsOn
  <2> QED
    BY <1>3, <2>1, <2>2, Zenon DEF AskToStop, Enqueue, Presses, ApplyPressure, ReleasePressure, ownerVars, queueVars
<1>4. ASSUME NEW w \in Worker, WorkerStep(w)
      PROVE  /\ Ended(s) \/ /\ TakeAdmitted(w) /\ admission # <<>> /\ admission' = Tail(admission)
                            /\ Head(admission).kind = "stopSource" /\ Head(admission).source = s
             /\ s \in unregistered' => s \in unregistered \/ pc[s] = "exited"
  <2>1. \A v \in Worker \ {w} : job'[v] = job[v]
    BY <1>4, WorkersLead, Zenon DEF WorkerOn
  <2>2. CASE Unregister(w)
    <3>1. /\ retry' \subseteq retry \cup {job[w].source} /\ unregistered' \subseteq unregistered \cup {job[w].source}
          /\ job[w].source \in unregistered' => job[w].source \in unregistered \/ pc[job[w].source] = "exited"
          /\ job[w].at = "unregister" /\ Step(w, "release")
      BY <2>2, Zenon DEF Unregister
    <3>2. job'[w].at = "release"
      BY <1>1, <3>1, StepLeads, Zenon DEF Places
    <3> QED
      BY <2>1, <3>1, <3>2, Zenon DEF Ended
  <2>3. CASE TakeAdmitted(w)
    <3>1. PICK place \in Places : /\ At(w, place, Head(admission).source, Head(admission).buffer)
                                  /\ place = "unregister" => Head(admission).kind = "stopSource"
      BY <2>3, Takes, Zenon
    <3>2. /\ admission # <<>> /\ admission' = Tail(admission) /\ UNCHANGED <<retry, unregistered>>
          /\ Head(admission).source \in Source /\ Head(admission).buffer \in Buffer \cup {NoBuffer}
      BY <2>3, Takes, HeadTask, Zenon DEF Task
    <3>3. job'[w].at = place /\ job'[w].source = Head(admission).source
      BY <1>1, <3>1, Zenon DEF At, JobType
    <3> QED
      BY <2>1, <2>3, <3>1, <3>2, <3>3, Zenon DEF Ended
  <2>4. ASSUME NEW r \in Source, TakeRetry(w, r)
        PROVE  Ended(s) /\ UNCHANGED unregistered
    <3>1. r \in retry /\ retry' = retry \ {r} /\ UNCHANGED unregistered /\ job'[w].source = r
      BY <1>1, <2>4, Zenon DEF TakeRetry, ownerVars, At, JobType
    <3> QED
      BY <2>1, <3>1, Zenon DEF Ended
  <2>5. ASSUME NEW r \in Source, Expire(w, r)
        PROVE  Ended(s) /\ UNCHANGED unregistered
    <3>1. UNCHANGED <<retry, unregistered>> /\ job'[w].at = "release"
      BY <1>1, <2>5, Zenon DEF Expire, queueVars, At, JobType
    <3> QED
      BY <2>1, <3>1, Zenon DEF Ended
  <2>6. CASE Execute(w) \/ Fail(w) \/ LockCatalog(w) \/ Release(w) \/ Join(w) \/ Finish(w)
    <3>1. UNCHANGED <<retry, unregistered>>
      BY <2>6, Zenon DEF Execute, Fail, LockCatalog, Release, Join, Finish, ownerVars, queueVars
    <3>2. \E place \in {"finish", "release", "join", "idle"} : \E b : At(w, place, job[w].source, b)
      BY <2>6, Zenon DEF Execute, Fail, LockCatalog, Release, Join, Finish, Step
    <3>3. job'[w].at # "unregister"
      BY <1>1, <3>2 DEF At, JobType
    <3> QED
      BY <2>1, <3>1, <3>3, Zenon DEF Ended
  <2> QED
    BY <1>4, <2>2, <2>3, <2>4, <2>5, <2>6, Zenon DEF WorkerStep
<1> QED
  BY <1>2, <1>3, <1>4, NextSplits, Zenon

LEMMA NothingFollowsStays ==
  ASSUME IInv, Next
  PROVE  NothingFollowsTheEnd'
<1>1. /\ \A s \in Source : Ended(s) => Queued("work", s) = {} /\ pc[s] \in {"exit", "exited"}
      /\ \A s \in unregistered : pc[s] = "exited"
  BY Zenon DEF IInv, NothingFollowsTheEnd, Ended
<1>2. \A s \in Source : /\ pc[s] \in {"exit", "exited"} => pc'[s] \in {"exit", "exited"}
                        /\ pc[s] = "exited" => pc'[s] = "exited"
  BY EndsStay, Zenon
<1>3. ASSUME NEW s \in Source, Ended(s)' PROVE Queued("work", s)' = {} /\ pc'[s] \in {"exit", "exited"}
  <2>1. CASE Ended(s)
    <3>1. Queued("work", s) = {} /\ pc[s] \in {"exit", "exited"}
      BY <1>1, <2>1, Zenon
    <3>2. ASSUME UNCHANGED admission PROVE Queued("work", s)' = {}
      BY <3>1, <3>2, Zenon DEF Queued
    <3>3. ASSUME NEW r \in Source, NEW kind \in {"work", "stopSource", "failSource", "stopQuery"},
                 NEW b \in Buffer \cup {NoBuffer}, Enqueue(kind, r, b), UNCHANGED job, kind = "work" => pc[r] = "add"
          PROVE  Queued("work", s)' = {}
      <4>1. kind # "work" \/ s # r
        BY <3>1, <3>3, Zenon
      <4>2. Queued("work", s)' = Queued("work", s)
        BY <3>3, <4>1, Enqueued, Zenon
      <4> QED
        BY <3>1, <4>2, Zenon
    <3>4. ASSUME NEW w \in Worker, TakeAdmitted(w) PROVE Queued("work", s)' = {}
      <4>1. /\ \A i \in DOMAIN admission' : i + 1 \in DOMAIN admission /\ admission'[i] = admission[i + 1]
        BY <3>4, Takes, HeadTask, Zenon
      <4> QED
        BY <3>1, <4>1, Zenon DEF Queued
    <3>5. ASSUME NEW r \in Source, Add(r), Enqueue("work", r, hand[r]), hand[r] \in Buffer, UNCHANGED job
          PROVE  Queued("work", s)' = {}
      <4>1. pc[r] = "add"
        BY <3>5, Zenon DEF Add
      <4> QED
        BY <3>3, <3>5, <4>1, Zenon
    <3>6. Queued("work", s)' = {}
      BY <3>2, <3>3, <3>4, <3>5, QueueSteps, ZenonT(30)
    <3> QED
      BY <1>2, <3>1, <3>6, Zenon
  <2>2. ASSUME NEW w \in Worker, TakeAdmitted(w), admission # <<>>, admission' = Tail(admission),
               Head(admission).kind = "stopSource", Head(admission).source = s
        PROVE  Queued("work", s)' = {} /\ pc'[s] \in {"exit", "exited"}
    <3>1. /\ 1 \in DOMAIN admission /\ admission[1].kind = "stopSource" /\ admission[1].source = s
          /\ \A i \in DOMAIN admission' : i + 1 \in DOMAIN admission /\ admission'[i] = admission[i + 1] /\ i + 1 > 1
      <4>1. Head(admission) = admission[1] /\ 1 \in DOMAIN admission /\ Tail(admission) \in Seq(Task)
        BY <2>2, HeadTask, Zenon
      <4>2. \A i \in DOMAIN Tail(admission) : i + 1 \in DOMAIN admission /\ Tail(admission)[i] = admission[i + 1]
        BY <2>2, HeadTask, Zenon
      <4>3. \A i \in DOMAIN Tail(admission) : i + 1 > 1
        BY <4>1
      <4> QED
        BY <2>2, <4>1, <4>2, <4>3, Zenon
    <3>2. pc[s] \in {"exit", "exited"} /\ \A j \in DOMAIN admission : j > 1 /\ admission[j].source = s => admission[j].kind # "work"
      BY <3>1, Zenon DEF IInv, EndIsLast
    <3>3. \A i \in DOMAIN admission' : admission'[i].source = s => admission'[i].kind # "work"
      BY <3>1, <3>2, Zenon
    <3> QED
      BY <1>2, <3>2, <3>3, Zenon DEF Queued
  <2> QED
    BY <1>3, <2>1, <2>2, EndedComesFromTheQueue, Zenon
<1>4. ASSUME NEW s \in unregistered' PROVE pc'[s] = "exited"
  <2>1. s \in Source
    BY SetTypesStay, Zenon DEF SetTypes
  <2>2. Ended(s)'
    BY <1>4, Zenon DEF Ended
  <2> QED
    BY <1>1, <1>2, <1>4, <2>1, <2>2, EndedComesFromTheQueue, Zenon
<1> QED
  BY <1>3, <1>4, Zenon DEF NothingFollowsTheEnd, Ended

-----------------------------------------------------------------------------
(* The invariant *)

LEMMA InitIInv == Init => IInv
<1> SUFFICES ASSUME Init PROVE IInv
  BY Zenon
<1>1. PICK s0 \in Source : job = [w \in Worker |-> [at |-> "idle", source |-> s0, buffer |-> NoBuffer]]
  BY ThreadsAreFinite, Zenon DEF Init
<1>2. SourceTypes /\ SetTypes
  BY LimitsArePositive DEF Init, SourceTypes, SetTypes, Place
<1>3. QueueType /\ AvailableType
  BY LimitsArePositive DEF Init, QueueType, AvailableType
<1>4. JobType
  BY <1>1, Zenon DEF JobType, Job
<1>5. \A s : InFlight(s) = 0
  <2> SUFFICES ASSUME NEW s PROVE InFlight(s) = 0
    BY Zenon
  <2>1. QueuedIn(admission, "work", s) = {}
    BY DEF Init, QueuedIn
  <2>2. CarriersIn(job, s) = {}
    BY <1>1, Zenon DEF CarriersIn
  <2> QED
    BY <2>1, <2>2, InFlightIs, FS_EmptySet
<1>6. TokensAreConserved /\ InflightIsBounded /\ EmitsABuffer
  BY <1>5, LimitsArePositive DEF Init, TokensAreConserved, Tokens, InflightIsBounded, EmitsABuffer
<1>7. WorkHasTheBuffers /\ EndIsLast
  <2>1. DOMAIN admission = {} /\ \A s \in Source : pc[s] = "wait"
    BY DEF Init
  <2>2. \A w \in Worker : job[w] = [at |-> "idle", source |-> s0, buffer |-> NoBuffer]
    BY <1>1, Zenon
  <2>3. EndIsLast
    BY <2>1, Zenon DEF EndIsLast
  <2>4. WorkHasTheBuffers
    BY <2>1, <2>2 DEF WorkHasTheBuffers
  <2> QED
    BY <2>3, <2>4, Zenon
<1>8. NothingFollowsTheEnd
  <2>1. retry \cup unregistered = {} /\ \A w \in Worker : job[w].at # "unregister"
    BY <1>1 DEF Init
  <2> QED
    BY <2>1, Zenon DEF NothingFollowsTheEnd
<1> QED
  BY <1>2, <1>3, <1>4, <1>6, <1>7, <1>8, Types, Zenon DEF IInv

LEMMA StepIInv == IInv /\ Next => IInv'
<1> SUFFICES ASSUME IInv, Next PROVE IInv'
  BY Zenon
<1>1. TokensGoal
  BY TokensOfSources, TokensOfWorkers, NextSplits, Zenon
<1>2. SourceTypes' /\ EmitsABuffer' /\ SetTypes' /\ JobType' /\ QueueType' /\ EndIsLast'
  BY EndsStay, SetTypesStay, QueueStays, Zenon
<1>3. \A s \in Source : InFlight(s)' \in Nat
  BY <1>2, InFlightIs, FiniteSets DEF QueueType
<1>4. TokensAreConserved' /\ InflightIsBounded'
  BY <1>1, <1>3, AccountIsNext, Zenon DEF TokensGoal
<1>5. AvailableType'
  <2>1. available' \in [Source -> Nat] /\ InflightLimit \in Nat
    BY <1>1, LimitsArePositive, Zenon DEF TokensGoal
  <2>2. ASSUME NEW s \in Source PROVE available'[s] <= InflightLimit + 2
    <3>1. InFlight(s)' \in Nat /\ Balance(available'[s], InFlight(s)', pc'[s], s \in stop')
      BY <1>1, <1>3, Zenon DEF TokensGoal, Balanced
    <3> QED
      BY <2>1, <3>1 DEF Balance
  <2>3. \A s \in Source : available'[s] \in 0..InflightLimit + 2
    BY <2>1, <2>2
  <2> QED
    BY <2>1, <2>3, Zenon DEF AvailableType
<1>6. WorkHasTheBuffers'
  BY QueueStays, IdleStays, Zenon DEF WorkHasTheBuffers
<1> QED
  BY <1>2, <1>5, <1>6, <1>4, NothingFollowsStays, Types, ZenonT(30) DEF IInv

LEMMA StutterIInv == IInv /\ UNCHANGED vars => IInv'
<1> SUFFICES ASSUME IInv, UNCHANGED vars PROVE IInv'
  BY Zenon
<1>1. /\ UNCHANGED <<pc, hand, left, stop, available, joinable, planned, unregistered>>
      /\ UNCHANGED <<pressure, asked, admission, retry, job, catalogLock>>
  BY Zenon DEF vars, sourceVars, tokenVars, ownerVars, queueVars
<1>2. \A s : InFlight(s)' = InFlight(s) /\ Queued("work", s)' = Queued("work", s)
  BY <1>1, Zenon DEF InFlight, Queued
<1>3. TypeOK'
  BY <1>1, Zenon DEF IInv, TypeOK
<1>4. TokensAreConserved' /\ InflightIsBounded'
  BY <1>1, <1>2, Zenon DEF IInv, TokensAreConserved, Tokens, InflightIsBounded
<1>5. EmitsABuffer' /\ WorkHasTheBuffers' /\ EndIsLast'
  BY <1>1, SMTT(30) DEF IInv, EmitsABuffer, WorkHasTheBuffers, EndIsLast
<1>6. NothingFollowsTheEnd'
  BY <1>1, <1>2, Zenon DEF IInv, NothingFollowsTheEnd
<1> QED
  BY <1>3, <1>4, <1>5, <1>6, Zenon DEF IInv

\* The inductive invariant of source threads and workers holds in every reachable state: the account of the
\* semaphore of RunningSource.cpp with the extra token of its stop callback, and the order in which the
\* admission queue of QueryEngine.cpp carries what a source emits.
THEOREM Invariance == Spec => []IInv
<1>1. IInv /\ [Next]_vars => IInv'
  BY StepIInv, StutterIInv, Zenon
<1> QED
  BY InitIInv, <1>1, PTL DEF Spec

\* With any number of sources and workers and all limits, a source never has more buffers in flight than its
\* inflightBufferLimit, stop or not (RunningSource.cpp:65-72), and when its StopSourceTask is handled nothing
\* that it emitted is left in the admission queue; its successors are handed on when its thread has ended.
THEOREM SourcesAlwaysKeepOrder == Spec => []SourcesKeepOrder
<1>1. IInv => SourcesKeepOrder
  BY Zenon DEF IInv, SourcesKeepOrder
<1> QED
  BY Invariance, <1>1, PTL
=============================================================================
