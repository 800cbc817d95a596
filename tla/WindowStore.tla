----------------------------- MODULE WindowStore -----------------------------
(***************************************************************************)
(* Windows of a join: DefaultTimeBasedSliceStore.cpp with the handlers     *)
(* that drive it (WindowBasedOperatorHandler.cpp,                          *)
(* StreamJoinOperatorHandler.cpp, the window build and probe operators).   *)
(* Workers put the records of chunks into slices, create slices and        *)
(* windows on demand, trigger the windows the watermark has passed, probe  *)
(* the triggered windows and collect what no window needs.  Each origin    *)
(* has a build pipeline; when it ends, and the last one has, the remaining *)
(* windows are triggered.                                                  *)
(***************************************************************************)
EXTENDS SequenceQueue, SliceAssigner

CONSTANTS WindowSize, WindowSlide

ASSUME WindowsAreValid == WindowSlide \in Nat \ {0} /\ WindowSize \in Nat \ {0}

\* What the sources promise: an origin's timestamps do not go back from one
\* sequence number to the next.
ASSUME TimestampsAscend ==
    \A c, d \in Input : (c.origin = d.origin /\ c.sn < d.sn /\ c.ts # 0 /\ d.ts # 0) => c.ts <= d.ts

VARIABLES
    todo,           \* the chunks whose build task is in the task queue
    done,           \* the chunks whose build task has ended
    ended,          \* the origins whose pipeline has been terminated
    active,         \* numberOfActiveInputPipelines
    slices,         \* slice end -> the records (chunks) in the slice
    windows,        \* window end -> its state and its slices
    windowsLock,    \* who holds the lock on windows
    probes,         \* the probe tasks in the task queue
    probed,         \* the probe tasks that have reported their watermark
    emitted         \* the triggered windows, at their sequence numbers

storeVars == <<slices, windows, windowsLock, emitted>>
taskVars == <<todo, done, ended, active, probes, probed>>
vars == <<worker, queueVars, storeVars, taskVars>>

-----------------------------------------------------------------------------
\* The slice of a timestamp, and the ends of the windows that contain it.
SliceStart(ts) == getSliceStartTs(WindowSize, WindowSlide, ts)
SliceEnd(ts) == getSliceEndTs(WindowSize, WindowSlide, ts)
WindowsOf(ts) == getAllWindowsForSlice(WindowSize, WindowSlide, SliceStart(ts), SliceEnd(ts))

Times == {c.ts : c \in Input} \ {0}
SliceEnds == {SliceEnd(t) : t \in Times}
WindowEnds == UNION {WindowsOf(t) : t \in Times}

-----------------------------------------------------------------------------
NoTask == [origin |-> Origins[1], sn |-> 0]
Idle == [at |-> "idle", task |-> NoTask, value |-> 0, seen |-> <<>>, trigger |-> {}]

Absent == [state |-> "Absent", slices |-> {}]

Init ==
    /\ worker = [w \in Worker |-> Idle]
    /\ QueueInit
    /\ todo = Input /\ done = {} /\ ended = {}
    /\ active = Cardinality(Origin)
    /\ slices = [e \in {} |-> {}]
    /\ windows = [e \in WindowEnds |-> Absent]
    /\ windowsLock = {}
    /\ probes = {} /\ probed = {} /\ emitted = <<>>

-----------------------------------------------------------------------------
\* A worker starts on a chunk: with a record, it looks for the record's slice.
BeginBuild(w, c) ==
    /\ At(w, "idle")
    /\ c \in todo
    /\ todo' = todo \ {c}
    /\ worker' = [worker EXCEPT ![w].task = c, ![w].at = IF c.ts = 0 THEN "merge" ELSE "find"]
    /\ UNCHANGED <<queueVars, storeVars, done, ended, active, probes, probed>>

\* getSlicesOrCreate: the lookup under the read lock.
FindSlice(w) ==
    /\ At(w, "find")
    /\ Goto(w, IF SliceEnd(worker[w].task.ts) \in DOMAIN slices THEN "insert" ELSE "create")
    /\ UNCHANGED <<queueVars, storeVars, taskVars>>

\* Under both locks, the lookup again; a new slice is added, and the lock on
\* the slices released while the one on the windows is kept.
CreateSlice(w) ==
    LET end == SliceEnd(worker[w].task.ts)
    IN  /\ At(w, "create")
        /\ windowsLock = {}
        /\ IF end \in DOMAIN slices
           THEN Goto(w, "insert") /\ UNCHANGED <<slices, windowsLock>>
           ELSE /\ slices' = [e \in DOMAIN slices \cup {end} |-> IF e = end THEN {} ELSE slices[e]]
                /\ windowsLock' = windowsLock \cup {w}
                /\ Goto(w, "register")
        /\ UNCHANGED <<queueVars, windows, emitted, taskVars>>

\* The slice is added to its windows.  (A window that was triggered already
\* would throw: see NoRecordIsLate.)
RegisterSlice(w) ==
    LET ts == worker[w].task.ts
    IN  /\ At(w, "register")
        /\ windows' = [e \in WindowEnds |-> IF e \in WindowsOf(ts)
                            THEN [state |-> "Filling", slices |-> windows[e].slices \cup {SliceEnd(ts)}]
                            ELSE windows[e]]
        /\ windowsLock' = windowsLock \ {w}
        /\ Goto(w, "insert")
        /\ UNCHANGED <<queueVars, slices, emitted, taskVars>>

\* The build operator writes the record into the slice's data structure.
InsertRecord(w) ==
    LET c == worker[w].task
        e == SliceEnd(c.ts)
    IN  /\ At(w, "insert")
        /\ slices' = [slices EXCEPT ![e] = @ \cup {c}]
        /\ Goto(w, "merge")
        /\ UNCHANGED <<queueVars, windows, windowsLock, emitted, taskVars>>

-----------------------------------------------------------------------------
\* Another worker is where it may hold the lock: trying to lock can fail.
WindowsContended(w) ==
    windowsLock # {} \/ \E v \in Worker \ {w} : worker[v].at \in {"create", "trigger", "gcWindows", "terminate"}
SlicesContended(w) ==
    \E v \in Worker \ {w} : worker[v].at \in {"find", "create", "probe", "gcSlices"}

Ascending(s) == \A i, j \in DOMAIN s : i < j => s[i] < s[j]

\* The windows of a set are numbered in the order of their ends and marked as
\* triggered; the worker will emit them with the slices they have now.
Trigger(w, ends) ==
    \E order \in [1..Cardinality(ends) -> ends] :
        /\ Ascending(order)
        /\ emitted' = emitted \o order
        /\ worker' = [worker EXCEPT ![w].at = "emit",
                ![w].trigger = {[sn |-> Len(emitted) + i, slices |-> windows[order[i]].slices] : i \in DOMAIN order}]

Marked(ends, state) ==
    [e \in WindowEnds |-> IF e \in ends THEN [windows[e] EXCEPT !.state = state] ELSE windows[e]]

\* As Triggerable, but also a window that was triggered before.
TriggerableAgain(watermark) ==
    {e \in WindowEnds : e < watermark /\ windows[e].state # "Absent"}

Triggerable(watermark) ==
    {e \in WindowEnds : e < watermark /\ windows[e].state \in {"Filling", "Waiting"}}

\* checkAndTriggerWindows: the windows that end before the watermark are
\* triggered, unless the lock is not free: then nothing is.
TriggerWindows(w) ==
    /\ At(w, "trigger")
    /\ \/ /\ windowsLock = {}
          /\ windows' = Marked(Triggerable(Watermark(w)), "Emitted")
          /\ Trigger(w, Triggerable(Watermark(w)))
       \/ /\ WindowsContended(w)
          /\ Goto(w, "emit")
          /\ UNCHANGED <<windows, emitted>>
    /\ UNCHANGED <<queueVars, slices, windowsLock, taskVars>>

\* The pipeline of an origin all of whose tasks are done is terminated.
BeginTerminate(w, o) ==
    /\ At(w, "idle")
    /\ o \in Origin \ ended
    /\ {c \in Input : c.origin = o} \subseteq done
    /\ ended' = ended \cup {o}
    /\ worker' = [worker EXCEPT ![w].at = "terminate", ![w].task = [origin |-> o, sn |-> 0]]
    /\ UNCHANGED <<queueVars, storeVars, todo, done, active, probes, probed>>

\* As Pending, but not the windows of an earlier pipeline's end.
PendingFilling == {e \in WindowEnds : windows[e].state = "Filling"}

Pending == {e \in WindowEnds : windows[e].state \in {"Filling", "Waiting"}}

\* getAllNonTriggeredSlices: only the last pipeline's end triggers the rest.
TerminatePipeline(w) ==
    /\ At(w, "terminate")
    /\ windowsLock = {}
    /\ active' = active - 1
    /\ \/ /\ active' > 0
          /\ windows' = Marked(Pending, "Waiting")
          /\ Goto(w, "emit")
          /\ UNCHANGED emitted
       \/ /\ active' <= 0
          /\ windows' = Marked(Pending, "Emitted")
          /\ Trigger(w, Pending)
    /\ UNCHANGED <<queueVars, slices, windowsLock, todo, done, ended, probes, probed>>

\* InnerJoinTriggerStrategy: a probe task for every pair of the window's slices.
Pairs(number, ends) ==
    {[sn |-> number, left |-> l, right |-> r, total |-> Cardinality(ends) * Cardinality(ends)] : l, r \in ends}

EmitWindows(w) ==
    /\ At(w, "emit")
    /\ probes' = probes \cup
         UNION {Pairs(t.sn, t.slices) : t \in worker[w].trigger}
    /\ done' = done \cup ({worker[w].task} \cap Input)
    /\ worker' = [worker EXCEPT ![w] = Idle]
    /\ UNCHANGED <<queueVars, storeVars, todo, ended, active, probed>>

-----------------------------------------------------------------------------
BeginProbe(w, p) ==
    /\ At(w, "idle")
    /\ p \in probes
    /\ probes' = probes \ {p}
    /\ worker' = [worker EXCEPT ![w].at = "probe", ![w].task = p]
    /\ UNCHANGED <<queueVars, storeVars, todo, done, ended, active, probed>>

\* The watermark of the probe side: the start of the last window before the
\* first that is not probed completely.
Complete(sn) == \E p \in probed : p.sn = sn /\ Cardinality({q \in probed : q.sn = sn}) = p.total
ProbeSequence == Max({n \in 0..Len(emitted) : \A k \in 1..n : Complete(k)})

\* As ProbeWatermark, but of any window that was probed completely.
ProbeWatermarkOfAny ==
    LET n == Max({0} \cup {k \in 1..Len(emitted) : Complete(k)})
    IN  IF n = 0 THEN 0 ELSE emitted[n] - WindowSize

ProbeWatermark == IF ProbeSequence = 0 THEN 0 ELSE emitted[ProbeSequence] - WindowSize

\* The probe ends: it has used the two slices, reports its watermark to a queue
\* like the build side's (one step here) and reads the current one.
CloseProbe(w) ==
    /\ At(w, "probe")
    /\ probed' = probed \cup {worker[w].task}
    /\ UNCHANGED <<queueVars, storeVars, todo, done, ended, active, probes>>
    /\ worker' = [worker EXCEPT ![w].at = "gcWindows", ![w].value = ProbeWatermark']

\* garbageCollectSlicesAndWindows: first the windows, then the slices, each
\* only if its lock is free.
CollectWindows(w) ==
    /\ At(w, "gcWindows")
    /\ Goto(w, "gcSlices")
    /\ \/ /\ windowsLock = {}
          /\ windows' = [e \in WindowEnds |->
                IF e < worker[w].value /\ windows[e].state = "Emitted" THEN Absent ELSE windows[e]]
       \/ WindowsContended(w) /\ UNCHANGED windows
    /\ UNCHANGED <<queueVars, slices, windowsLock, emitted, taskVars>>

CollectSlices(w) ==
    LET kept == {e \in DOMAIN slices : ~(e + WindowSize < worker[w].value)}
    IN  /\ At(w, "gcSlices")
        /\ worker' = [worker EXCEPT ![w] = Idle]
        /\ \/ slices' = [e \in kept |-> slices[e]]
           \/ SlicesContended(w) /\ UNCHANGED slices
        /\ UNCHANGED <<queueVars, windows, windowsLock, emitted, taskVars>>

-----------------------------------------------------------------------------
Step(w) ==
    \/ \E c \in Input : BeginBuild(w, c)
    \/ FindSlice(w) \/ CreateSlice(w) \/ RegisterSlice(w) \/ InsertRecord(w)
    \/ UpdateWatermark(w) /\ UNCHANGED <<storeVars, taskVars>>
    \/ TriggerWindows(w)
    \/ \E o \in Origin : BeginTerminate(w, o)
    \/ TerminatePipeline(w)
    \/ EmitWindows(w)
    \/ \E p \in probes : BeginProbe(w, p)
    \/ CloseProbe(w) \/ CollectWindows(w) \/ CollectSlices(w)

Next == \E w \in Worker : Step(w)

\* No loop is unbounded, and the one lock that is waited for is held for one
\* step only: every worker goes on.
Spec == Init /\ [][Next]_vars /\ \A w \in Worker : WF_vars(Step(w))

-----------------------------------------------------------------------------
\* Every worker has its local variables, whatever they hold.
Local(r) == r \in [at : {r.at}, task : {r.task}, value : {r.value}, seen : {r.seen}, trigger : {r.trigger}]
Shape == worker = [w \in Worker |-> worker[w]] /\ \A w \in Worker : Local(worker[w])

\* The types of the store and of the tasks; one worker at most has the lock.
TypeOK ==
    /\ Shape
    /\ collected \in [Key -> [value : Nat, counter : Int]]
    /\ slot \in [Key \cup {<<o, 0>> : o \in Origin} -> [set : BOOLEAN, value : Nat]]
    /\ currentSeq \in [Origin -> Nat]
    /\ \A o \in Origin : currentSeq[o] <= Cardinality(Sequence(o))
    /\ todo \subseteq Input /\ done \subseteq Input /\ ended \subseteq Origin
    /\ active \in 0..Len(Origins)
    /\ DOMAIN slices \subseteq SliceEnds
    /\ windows \in [WindowEnds -> [state : {"Absent", "Filling", "Waiting", "Emitted"},
                                   slices : SUBSET SliceEnds]]
    /\ windowsLock \in {{}} \cup {{w} : w \in Worker}
    /\ emitted \in Seq(Nat)

Building(w) == worker[w].at \in {"find", "create", "register", "insert"}

-----------------------------------------------------------------------------
\* The inductive invariant

Build == {"find", "create", "register", "insert", "merge", "count"}
Report == {"storeSeq", "storeValue", "shift", "moveHead", "read", "trigger"}

\* The chunks that are not counted yet: they may still bring a record.
Ahead == todo \cup {worker[w].task : w \in {v \in Worker : worker[v].at \in Build}}

Holds(w) == worker[w].at \in Build \cup Report \cup {"emit"} /\ worker[w].task \in Input

\* Every chunk is to do, done or in the hands of one worker.
ChunksAreHeldOnce ==
    /\ todo \cap done = {}
    /\ \A w \in Worker : worker[w].at \in Build \cup Report => worker[w].task \in Input
    /\ \A w \in Worker : Building(w) => worker[w].task.ts # 0
    /\ \A w \in Worker : Holds(w) => worker[w].task \notin todo \cup done
    /\ \A v, w \in Worker : Holds(v) /\ Holds(w) /\ worker[v].task = worker[w].task => v = w

\* The origins whose pipelines count as active.
Open == {o \in Origin : o \notin ended
            \/ \E w \in Worker : At(w, "terminate") /\ worker[w].task.origin = o}

\* The chunks of a terminated pipeline are done, and the count is exact.
PipelinesEndOnce ==
    /\ active = Cardinality(Open)
    /\ \A c \in Input : c.origin \in ended => c \in done
    /\ \A w \in Worker : At(w, "terminate") => worker[w].task.sn = 0 /\ worker[w].task.origin \in ended
    /\ \A v, w \in Worker : At(v, "terminate") /\ At(w, "terminate")
                              /\ worker[v].task.origin = worker[w].task.origin => v = w

\* A counter that is back at zero has seen all chunks of its sequence number.
CountersAreExact ==
    \A k \in Key : LET counted == Chunks(k) \ Ahead
                   IN  collected[k].counter =
                         (IF \E c \in counted : c.last THEN Cardinality(Chunks(k)) ELSE 0) - Cardinality(counted)

Values(k) == {0} \cup {c.ts : c \in Chunks(k)}
Storing(w) == worker[w].at \in {"storeSeq", "storeValue"}

\* A watermark is zero or a timestamp of its own sequence number, though the
\* number may be stored before the value.
ValuesAreTimestamps ==
    /\ \A k \in Key : collected[k].value \in Values(k)
    /\ \A k \in Key \cup {<<o, 0>> : o \in Origin} : slot[k].value \in Values(k)
    /\ \A w \in Worker : Storing(w) => worker[w].value \in Values(KeyOf(w))

\* What is stored, and so what the current sequence number has passed, is complete.
StoredIsComplete ==
    /\ \A k \in Key : slot[k].set => Chunks(k) \cap Ahead = {}
    /\ \A w \in Worker : Storing(w) => Chunks(KeyOf(w)) \cap Ahead = {}
    /\ \A o \in Origin : \A n \in 1..currentSeq[o] : <<o, n>> \in Key /\ slot[<<o, n>>].set

\* No origin's watermark that a worker has read is later than a record that
\* is still to come.
SeenIsSafe ==
    \A w \in Worker :
        /\ worker[w].seen \in Seq(Nat)
        /\ At(w, "trigger") => Len(worker[w].seen) = Len(Origins)
        /\ worker[w].at \notin {"trigger", "emit"} => Len(worker[w].seen) < Len(Origins)
        /\ \A i \in DOMAIN worker[w].seen : \A c \in Ahead :
              c.origin = Origins[i] /\ c.ts # 0 => worker[w].seen[i] <= c.ts

\* Triggered windows end before what is still to come and what is pending.
TriggeredIsPast ==
    /\ \A i \in DOMAIN emitted : \A c \in Ahead : c.ts # 0 => emitted[i] < c.ts
    /\ \A i \in DOMAIN emitted : \A e \in Pending : emitted[i] < e

IInv ==
    /\ TypeOK /\ NoShiftIsLost
    /\ ChunksAreHeldOnce /\ PipelinesEndOnce
    /\ CountersAreExact /\ ValuesAreTimestamps /\ StoredIsComplete /\ SeenIsSafe
    /\ TriggeredIsPast /\ Ascending(emitted)

-----------------------------------------------------------------------------
\* A window is complete when it is triggered: no worker still has a record for
\* it, so no record is missing from it, and the WindowingError of a slice added
\* to a triggered window is never thrown.
NoRecordIsLate ==
    \A w \in Worker : Building(w) =>
        \A i \in DOMAIN emitted :
            emitted[i] \notin ContainingWindows(WindowSize, WindowSlide, worker[w].task.ts)

\* Every window is triggered once, and sequence numbers follow the window ends,
\* although many workers trigger windows: the watermark and the garbage
\* collection of the probe side depend on it.
TriggeredOnceInOrder == TypeOK /\ Ascending(emitted)

\* The probe tasks that workers are at.
InHand == {worker[w].task : w \in {v \in Worker : At(v, "probe")}}

\* A slice is not collected while a probe task needs it (the INVARIANT of
\* NLJProbePhysicalOperatorBase.cpp; the probe uses the slice without owning it).
ProbesFindTheirSlices ==
    \A p \in probes \cup InHand : {p.left, p.right} \subseteq DOMAIN slices

\* Every window that holds a record is triggered and probed in the end, though
\* a worker that finds the lock taken triggers nothing.
EveryWindowIsProbed ==
    <>[](\A t \in Times : \A e \in ContainingWindows(WindowSize, WindowSlide, t) :
            \E i \in DOMAIN emitted : emitted[i] = e /\ Complete(i))

-----------------------------------------------------------------------------
\* The inductive invariant of the probe side, which rests on IInv

ProbeTasks == probes \cup InHand \cup probed

\* The tasks of a sequence number are the pairs of one set of slices.  They come
\* into being all at once, when the worker that triggered the window emits it,
\* and each is at one place.
ProbesAreCounted ==
    /\ \A w \in Worker : ~At(w, "emit") => worker[w].trigger = {}
    /\ \A w \in Worker : \A t \in worker[w].trigger :
          /\ t.sn \in DOMAIN emitted /\ t.slices \subseteq SliceEnds
          /\ \A p \in ProbeTasks : p.sn # t.sn
          /\ \A v \in Worker : \A u \in worker[v].trigger : u.sn = t.sn => v = w /\ u = t
    /\ \A p \in ProbeTasks : p.sn \in DOMAIN emitted
    /\ \A k \in DOMAIN emitted : \E ends \in SUBSET SliceEnds :
          \A p \in ProbeTasks : p.sn = k => p \in Pairs(k, ends)
    /\ (probes \cup InHand) \cap probed = {} /\ probes \cap InHand = {}
    /\ \A v, w \in Worker : At(v, "probe") /\ At(w, "probe") /\ worker[v].task = worker[w].task => v = w

\* A slice of a window that ends there, which is in the store.
IsSliceOf(s, end) == s \in DOMAIN slices /\ end < s + WindowSize

\* Slices are in the store as long as a window or a task needs them.
NeededSlicesAreKept ==
    /\ \A e \in WindowEnds : windows[e].state = "Absent" => windows[e].slices = {}
    /\ \A e \in WindowEnds : windows[e].state = "Emitted" => \E i \in DOMAIN emitted : emitted[i] = e
    /\ \A e \in Pending : \A s \in windows[e].slices : IsSliceOf(s, e)
    /\ \A w \in Worker : At(w, "register") => SliceEnd(worker[w].task.ts) \in DOMAIN slices
    /\ \A w \in Worker : \A t \in worker[w].trigger : \A s \in t.slices : IsSliceOf(s, emitted[t.sn])
    /\ \A p \in probes \cup InHand : IsSliceOf(p.left, emitted[p.sn]) /\ IsSliceOf(p.right, emitted[p.sn])

\* The watermark of a collection is the start of a window that is probed
\* completely, as all before it are, also when the watermark is used late.
CollectionIsSafe ==
    \A w \in Worker : worker[w].at \in {"gcWindows", "gcSlices"} =>
        \/ worker[w].value = 0
        \/ \E n \in DOMAIN emitted : worker[w].value = emitted[n] - WindowSize /\ \A k \in 1..n : Complete(k)

ProbeInv == ProbesAreCounted /\ NeededSlicesAreKept /\ CollectionIsSafe
=============================================================================
