------------------------- MODULE QueryManagerProofs -------------------------
(***************************************************************************)
(* That no local query is forgotten, for all queries, hosts, worker        *)
(* threads and faults.  The first lemmas are about the queues of tasks,    *)
(* then one lemma for each way a step changes a worker, and one for each   *)
(* conjunct of the inductive invariant.                                    *)
(***************************************************************************)
EXTENDS QueryManager, TLAPS

Occurs(queue, t) == \E i \in DOMAIN queue : queue[i] = t
Once(queue, t) == \A i, j \in DOMAIN queue : queue[i] = t /\ queue[j] = t => i = j

StartOf(l) == [kind |-> "start", of |-> l]
StopOf(l) == [kind |-> "stop", of |-> l]

LEMMA TasksOf ==
  ASSUME NEW l \in Local
  PROVE  /\ StartOf(l) \in Task /\ StopOf(l) \in Task /\ StartOf(l) # StopOf(l) /\ l[1] \in Query /\ l[2] \in Host
         /\ StartOf(l).of = l /\ StopOf(l).of = l /\ l = <<l[1], l[2]>>
         /\ \A k \in Local : StartOf(k) # StopOf(l)
         /\ \A k \in Local : StartOf(k) = StartOf(l) \/ StopOf(k) = StopOf(l) => k = l
BY DEF StartOf, StopOf, Task, Local

LEMMA TaskIs ==
  ASSUME NEW t \in Task
  PROVE  /\ t.of \in Local
         /\ t.kind = "start" => t = StartOf(t.of)
         /\ t.kind = "stop" => t = StopOf(t.of)
BY Zenon DEF StartOf, StopOf, Task

LEMMA Appended ==
  ASSUME NEW queue \in Seq(Task), NEW t \in Task
  PROVE  /\ Append(queue, t) \in Seq(Task)
         /\ \A u : Occurs(Append(queue, t), u) <=> Occurs(queue, u) \/ u = t
         /\ \A u : Once(queue, u) /\ (u = t => ~Occurs(queue, u)) => Once(Append(queue, t), u)
<1> DEFINE longer == Append(queue, t)
           n == Len(queue) + 1
<1>1. /\ longer \in Seq(Task) /\ n \in Nat /\ DOMAIN queue = 1..n - 1 /\ DOMAIN longer = 1..n
      /\ longer[n] = t /\ \A i \in DOMAIN queue : longer[i] = queue[i]
  OBVIOUS
<1>2. DOMAIN longer = DOMAIN queue \cup {n} /\ n \notin DOMAIN queue
  BY <1>1
<1> HIDE DEF longer, n
<1>3. \A u : Occurs(longer, u) <=> Occurs(queue, u) \/ u = t
  BY <1>1, <1>2, Zenon DEF Occurs
<1>4. \A u : Once(queue, u) /\ (u = t => ~Occurs(queue, u)) => Once(longer, u)
  BY <1>1, <1>2, Zenon DEF Occurs, Once
<1> QED
  BY <1>1, <1>3, <1>4, Zenon DEF longer

LEMMA Removed ==
  ASSUME NEW queue \in Seq(Task), NEW i \in DOMAIN queue
  PROVE  /\ Without(queue, i) \in Seq(Task)
         /\ \A u : Occurs(Without(queue, i), u) => Occurs(queue, u)
         /\ \A u : Occurs(queue, u) /\ u # queue[i] => Occurs(Without(queue, i), u)
         /\ \A u : Once(queue, u) => Once(Without(queue, i), u)
         /\ Once(queue, queue[i]) => ~Occurs(Without(queue, i), queue[i])
<1> DEFINE shorter == Without(queue, i)
           n == Len(queue)
           Old(j) == IF j < i THEN j ELSE j + 1
           New(j) == IF j < i THEN j ELSE j - 1
<1>1. n \in Nat /\ DOMAIN queue = 1..n /\ i \in 1..n /\ \A j \in 1..n : queue[j] \in Task
  OBVIOUS
<1>2. /\ DOMAIN shorter = 1..n - 1
      /\ \A j \in DOMAIN shorter : shorter[j] = queue[Old(j)]
  BY Zenon DEF Without
<1>3. \A j \in DOMAIN shorter : Old(j) \in DOMAIN queue /\ Old(j) # i
  BY <1>1, <1>2
<1>4. \A j \in DOMAIN queue : j # i => New(j) \in DOMAIN shorter /\ Old(New(j)) = j
  BY <1>1, <1>2
<1>5. \A j, k \in DOMAIN shorter : Old(j) = Old(k) => j = k
  BY <1>1, <1>2
<1>6. shorter \in Seq(Task)
  <2>1. shorter = [j \in 1..n - 1 |-> queue[Old(j)]] /\ n - 1 \in Nat
    BY <1>1 DEF Without
  <2>2. \A j \in 1..n - 1 : queue[Old(j)] \in Task
    BY <1>1
  <2> HIDE DEF shorter, n, Old
  <2> QED
    BY <2>1, <2>2
<1> HIDE DEF shorter, n, Old, New
<1>7. \A u : Occurs(shorter, u) => Occurs(queue, u)
  BY <1>2, <1>3, Zenon DEF Occurs
<1>8. ASSUME NEW u, Occurs(queue, u), u # queue[i] PROVE Occurs(shorter, u)
  <2>1. PICK j \in DOMAIN queue : queue[j] = u
    BY <1>8, Zenon DEF Occurs
  <2>2. j # i
    BY <1>8, <2>1, Zenon
  <2>3. New(j) \in DOMAIN shorter /\ shorter[New(j)] = u
    BY <1>2, <1>4, <2>1, <2>2, Zenon
  <2> QED
    BY <2>3, Zenon DEF Occurs
<1>9. \A u : Once(queue, u) => Once(shorter, u)
  BY <1>2, <1>3, <1>5, Zenon DEF Once
<1>10. Once(queue, queue[i]) => ~Occurs(shorter, queue[i])
  BY <1>2, <1>3, Zenon DEF Occurs, Once
<1> QED
  BY <1>6, <1>7, <1>8, <1>9, <1>10, Zenon DEF shorter

LEMMA EmptyQueue == <<>> \in Seq(Task) /\ \A t : ~Occurs(<<>>, t) /\ Once(<<>>, t)
BY DEF Occurs, Once

-----------------------------------------------------------------------------
(* What the invariant says of queues and catalog *)

\* The queue of one worker, given its catalog.
QueueIsSound(queue, h, inCatalog) ==
  /\ queue \in Seq(Task)
  /\ \A t : Occurs(queue, t) => t.of[2] = h
  /\ \A l \in Local : Occurs(queue, StartOf(l)) => inCatalog[l] = "absent"
  /\ \A l \in Local : Once(queue, StartOf(l))

WorkersAreSound == tasks \in [Host -> Seq(Task)] /\ \A h \in Host : QueueIsSound(tasks[h], h, catalog)

TasksOK ==
  /\ tasks \in [Host -> Seq(Task)]
  /\ \A h \in Host : \A i \in DOMAIN tasks[h] : tasks[h][i].of[2] = h

LEMMA PendingIs ==
  \A l : /\ Pending(l, "start") <=> Occurs(tasks[l[2]], StartOf(l))
         /\ Pending(l, "stop") <=> Occurs(tasks[l[2]], StopOf(l))
         /\ Pending(l, "start")' <=> Occurs(tasks'[l[2]], StartOf(l))
         /\ Pending(l, "stop")' <=> Occurs(tasks'[l[2]], StopOf(l))
BY Zenon DEF Pending, Occurs, StartOf, StopOf

LEMMA SoundWorkers == TasksOK /\ StartsAreUnique <=> WorkersAreSound
<1>1. ASSUME TasksOK, StartsAreUnique PROVE WorkersAreSound
  <2> SUFFICES ASSUME NEW h \in Host PROVE QueueIsSound(tasks[h], h, catalog)
    BY <1>1, Zenon DEF WorkersAreSound, TasksOK
  <2>1. tasks[h] \in Seq(Task) /\ \A t : Occurs(tasks[h], t) => t.of[2] = h
    BY <1>1, Zenon DEF TasksOK, Occurs
  <2>2. ASSUME NEW l \in Local PROVE /\ Occurs(tasks[h], StartOf(l)) => catalog[l] = "absent"
                                     /\ Once(tasks[h], StartOf(l))
    <3>1. StartOf(l).kind = "start" /\ StartOf(l).of = l
      BY Zenon DEF StartOf
    <3> QED
      BY <1>1, <3>1, Zenon DEF StartsAreUnique, Occurs, Once
  <2> QED
    BY <2>1, <2>2, Zenon DEF QueueIsSound
<1>2. ASSUME WorkersAreSound PROVE TasksOK /\ StartsAreUnique
  <2>1. TasksOK
    BY <1>2, Zenon DEF WorkersAreSound, QueueIsSound, TasksOK, Occurs
  <2>2. ASSUME NEW h \in Host, NEW i \in DOMAIN tasks[h], tasks[h][i].kind = "start"
        PROVE  /\ catalog[tasks[h][i].of] = "absent"
               /\ \A j \in DOMAIN tasks[h] : tasks[h][j] = tasks[h][i] => j = i
    <3>1. tasks[h][i] \in Task
      BY <2>1 DEF TasksOK
    <3>2. PICK l \in Local : l = tasks[h][i].of /\ tasks[h][i] = StartOf(l)
      BY <2>2, <3>1, TaskIs, Zenon
    <3>3. Occurs(tasks[h], StartOf(l)) /\ Once(tasks[h], StartOf(l)) /\ catalog[l] = "absent"
      BY <1>2, <3>2, Zenon DEF WorkersAreSound, QueueIsSound, Occurs
    <3> QED
      BY <3>2, <3>3, Zenon DEF Once
  <2> QED
    BY <2>1, <2>2, Zenon DEF StartsAreUnique
<1> QED
  BY <1>1, <1>2, Zenon

-----------------------------------------------------------------------------
(* The steps of a worker *)

\* What start has not reached stays so, and no local query begins to run on.
Keeps(l) == (Fresh(l) => Fresh(l)') /\ (RunsOn(l)' => RunsOn(l))
CatalogType == catalog \in [Local -> {"absent", "Starting", "Running", "Stopping", "Stopped", "Failed"}]
LogType == log \in [Local -> SUBSET {"Registered", "Started", "Running", "Stopped", "Failed"}]
WorkerTypes == CatalogType /\ LogType /\ WorkersAreSound /\ missed \subseteq Local

\* An entry of the log alone starts and stops nothing.
LEMMA OnlyLogged ==
  ASSUME WorkerTypes, LogType', UNCHANGED <<catalog, tasks, missed>>
  PROVE  WorkerTypes' /\ \A l \in Local : Keeps(l)
<1>1. WorkersAreSound'
  BY Zenon DEF WorkerTypes, WorkersAreSound
<1> QED
  BY <1>1, PendingIs, Zenon DEF WorkerTypes, CatalogType, Keeps, Fresh, RunsOn

LEMMA UnchangedWorkers ==
  ASSUME WorkerTypes, UNCHANGED workerVars
  PROVE  WorkerTypes' /\ \A l \in Local : Keeps(l)
<1>1. UNCHANGED <<catalog, log, tasks, missed>>
  BY Zenon DEF workerVars
<1>2. LogType'
  BY <1>1, Zenon DEF WorkerTypes, LogType
<1> QED
  BY <1>1, <1>2, OnlyLogged, Zenon

LEMMA OtherQueue ==
  ASSUME NEW l \in Local, tasks'[l[2]] = tasks[l[2]], catalog'[l] = catalog[l]
  PROVE  Keeps(l)
BY PendingIs, Zenon DEF Keeps, Fresh, RunsOn

LEMMA Started ==
  ASSUME WorkerTypes, NEW l \in Local, Fresh(l), WorkerStarts(l)
  PROVE  WorkerTypes' /\ \A k \in Local : k # l => Keeps(k)
<1> DEFINE h == l[2]
           queue == Append(tasks[h], StartOf(l))
<1>1. h \in Host /\ StartOf(l) \in Task /\ StartOf(l).of = l
  BY TasksOf, Zenon
<1>2. /\ tasks \in [Host -> Seq(Task)] /\ \A g \in Host : QueueIsSound(tasks[g], g, catalog)
      /\ ~Occurs(tasks[h], StartOf(l)) /\ catalog[l] = "absent"
  BY PendingIs, Zenon DEF WorkerTypes, WorkersAreSound, Fresh
<1>3. /\ tasks' = [tasks EXCEPT ![h] = queue] /\ UNCHANGED <<catalog, missed>>
      /\ log' = [log EXCEPT ![l] = @ \cup {"Registered"}]
  BY Zenon DEF WorkerStarts, StartOf
<1>4. /\ queue \in Seq(Task)
      /\ \A u : Occurs(queue, u) <=> Occurs(tasks[h], u) \/ u = StartOf(l)
      /\ \A u : Once(tasks[h], u) /\ (u = StartOf(l) => ~Occurs(tasks[h], u)) => Once(queue, u)
  BY <1>1, <1>2, Appended
<1>5. tasks' \in [Host -> Seq(Task)] /\ tasks'[h] = queue /\ \A g \in Host : g # h => tasks'[g] = tasks[g]
  BY <1>1, <1>2, <1>3, <1>4, Zenon
<1> HIDE DEF queue
<1>6. QueueIsSound(queue, h, catalog)
  <2>1. \A t : Occurs(queue, t) => t.of[2] = h
    BY <1>1, <1>2, <1>4, Zenon DEF QueueIsSound
  <2>2. \A k \in Local : Occurs(queue, StartOf(k)) => catalog[k] = "absent"
    BY <1>1, <1>2, <1>4, TasksOf, Zenon DEF QueueIsSound
  <2>3. \A k \in Local : Once(queue, StartOf(k))
    BY <1>1, <1>2, <1>4, Zenon DEF QueueIsSound
  <2> QED
    BY <1>4, <2>1, <2>2, <2>3, Zenon DEF QueueIsSound
<1>7. WorkersAreSound'
  <2>1. \A g \in Host : QueueIsSound(tasks'[g], g, catalog')
    BY <1>2, <1>3, <1>5, <1>6, Zenon
  <2> QED
    BY <1>5, <2>1, Zenon DEF WorkersAreSound, QueueIsSound
<1>8. WorkerTypes'
  BY <1>3, <1>7, Zenon DEF WorkerTypes, CatalogType, LogType
<1>9. ASSUME NEW k \in Local, k # l PROVE Keeps(k)
  <2>1. CASE k[2] # h
    BY <1>3, <1>5, <2>1, OtherQueue, TasksOf, Zenon
  <2>2. CASE k[2] = h
    <3>1. StartOf(k) # StartOf(l) /\ StopOf(k) # StartOf(l)
      BY <1>9, TasksOf, Zenon
    <3>2. /\ Occurs(tasks'[k[2]], StartOf(k)) <=> Occurs(tasks[k[2]], StartOf(k))
          /\ Occurs(tasks'[k[2]], StopOf(k)) <=> Occurs(tasks[k[2]], StopOf(k))
      BY <1>4, <1>5, <2>2, <3>1, Zenon
    <3> QED
      BY <1>3, <3>2, PendingIs, Zenon DEF Keeps, Fresh, RunsOn
  <2> QED
    BY <2>1, <2>2, Zenon
<1> QED
  BY <1>8, <1>9, Zenon

LEMMA Stopped ==
  ASSUME WorkerTypes, NEW l \in Local, WorkerStops(l)
  PROVE  WorkerTypes' /\ ~RunsOn(l)' /\ \A k \in Local : Keeps(k)
<1> DEFINE h == l[2]
           queue == Append(tasks[h], StopOf(l))
<1>1. h \in Host /\ StopOf(l) \in Task /\ StopOf(l).of = l
  BY TasksOf, Zenon
<1>2. tasks \in [Host -> Seq(Task)] /\ \A g \in Host : QueueIsSound(tasks[g], g, catalog)
  BY Zenon DEF WorkerTypes, WorkersAreSound
<1>3. tasks' = [tasks EXCEPT ![h] = queue] /\ UNCHANGED <<catalog, log, missed>>
  BY Zenon DEF WorkerStops, StopOf
<1>4. /\ queue \in Seq(Task)
      /\ \A u : Occurs(queue, u) <=> Occurs(tasks[h], u) \/ u = StopOf(l)
      /\ \A u : Once(tasks[h], u) /\ (u = StopOf(l) => ~Occurs(tasks[h], u)) => Once(queue, u)
  BY <1>1, <1>2, Appended
<1>5. tasks' \in [Host -> Seq(Task)] /\ tasks'[h] = queue /\ \A g \in Host : g # h => tasks'[g] = tasks[g]
  BY <1>1, <1>2, <1>3, <1>4, Zenon
<1> HIDE DEF queue
<1>6. \A k \in Local : StartOf(k) # StopOf(l)
  BY TasksOf, Zenon
<1>7. QueueIsSound(queue, h, catalog)
  <2>1. \A t : Occurs(queue, t) => t.of[2] = h
    BY <1>1, <1>2, <1>4 DEF QueueIsSound
  <2> QED
    BY <1>1, <1>2, <1>4, <1>6, <2>1, Zenon DEF QueueIsSound
<1>8. WorkerTypes'
  <2>1. \A g \in Host : QueueIsSound(tasks'[g], g, catalog')
    BY <1>2, <1>3, <1>5, <1>7, Zenon
  <2>2. WorkersAreSound'
    BY <1>5, <2>1, Zenon DEF WorkersAreSound, QueueIsSound
  <2> QED
    BY <1>3, <2>2, Zenon DEF WorkerTypes, CatalogType, LogType
<1>9. ~RunsOn(l)'
  BY <1>4, <1>5, PendingIs, Zenon DEF RunsOn
<1>10. ASSUME NEW k \in Local PROVE Keeps(k)
  <2>1. /\ Occurs(tasks'[k[2]], StartOf(k)) <=> Occurs(tasks[k[2]], StartOf(k))
        /\ Occurs(tasks[k[2]], StopOf(k)) => Occurs(tasks'[k[2]], StopOf(k))
    BY <1>4, <1>5, <1>6, TasksOf, Zenon
  <2> QED
    BY <1>3, <2>1, PendingIs, Zenon DEF Keeps, Fresh, RunsOn
<1> QED
  BY <1>8, <1>9, <1>10, Zenon

\* Taking a task leaves the other tasks where they are.
LEMMA Taken ==
  ASSUME WorkerTypes, NEW h \in Host, NEW i \in DOMAIN tasks[h], Take(h, i)
  PROVE  /\ tasks' \in [Host -> Seq(Task)] /\ \A g \in Host : g # h => tasks'[g] = tasks[g]
         /\ tasks[h][i] \in Task /\ tasks[h][i].of \in Local /\ tasks[h][i].of[2] = h
         /\ \A u : Occurs(tasks'[h], u) => Occurs(tasks[h], u)
         /\ \A u : Occurs(tasks[h], u) /\ u # tasks[h][i] => Occurs(tasks'[h], u)
         /\ \A u : Once(tasks[h], u) => Once(tasks'[h], u)
         /\ Once(tasks[h], tasks[h][i]) => ~Occurs(tasks'[h], tasks[h][i])
<1> DEFINE queue == Without(tasks[h], i)
<1>1. tasks \in [Host -> Seq(Task)] /\ tasks[h] \in Seq(Task) /\ QueueIsSound(tasks[h], h, catalog)
  BY Zenon DEF WorkerTypes, WorkersAreSound
<1>2. /\ queue \in Seq(Task)
      /\ \A u : Occurs(queue, u) => Occurs(tasks[h], u)
      /\ \A u : Occurs(tasks[h], u) /\ u # tasks[h][i] => Occurs(queue, u)
      /\ \A u : Once(tasks[h], u) => Once(queue, u)
      /\ Once(tasks[h], tasks[h][i]) => ~Occurs(queue, tasks[h][i])
  BY <1>1, Removed, Zenon
<1>3. tasks' = [tasks EXCEPT ![h] = queue]
  BY Zenon DEF Take
<1>4. tasks[h][i] \in Task /\ Occurs(tasks[h], tasks[h][i])
  BY <1>1 DEF Occurs
<1>5. tasks[h][i].of \in Local /\ tasks[h][i].of[2] = h
  BY <1>1, <1>4, TaskIs, Zenon DEF QueueIsSound
<1> HIDE DEF queue
<1>6. tasks' \in [Host -> Seq(Task)] /\ tasks'[h] = queue /\ \A g \in Host : g # h => tasks'[g] = tasks[g]
  BY <1>1, <1>2, <1>3, Zenon
<1> QED
  BY <1>2, <1>4, <1>5, <1>6, Zenon

\* Entering what is not absent into the catalog keeps the queues sound unless a start task waits.
LEMMA Entered ==
  ASSUME WorkerTypes, NEW l \in Local, CatalogType', tasks' \in [Host -> Seq(Task)],
         \A k \in Local : k # l => catalog'[k] = catalog[k],
         \A g \in Host : \A u : Occurs(tasks'[g], u) => Occurs(tasks[g], u),
         \A g \in Host : \A u : Once(tasks[g], u) => Once(tasks'[g], u),
         \A g \in Host : Occurs(tasks'[g], StartOf(l)) => catalog'[l] = "absent"
  PROVE  WorkersAreSound'
<1>1. ASSUME NEW g \in Host PROVE QueueIsSound(tasks'[g], g, catalog')
  <2>1. QueueIsSound(tasks[g], g, catalog)
    BY Zenon DEF WorkerTypes, WorkersAreSound
  <2>2. \A k \in Local : Occurs(tasks'[g], StartOf(k)) => catalog'[k] = "absent"
    BY <2>1, Zenon DEF QueueIsSound
  <2>3. tasks'[g] \in Seq(Task) /\ \A t : Occurs(tasks'[g], t) => t.of[2] = g
    BY <2>1, Zenon DEF QueueIsSound
  <2>4. \A k \in Local : Once(tasks'[g], StartOf(k))
    BY <2>1, Zenon DEF QueueIsSound
  <2> QED
    BY <2>2, <2>3, <2>4, Zenon DEF QueueIsSound
<1> QED
  BY <1>1, Zenon DEF WorkersAreSound, QueueIsSound

LEMMA HandledStart ==
  ASSUME WorkerTypes, NEW h \in Host, NEW i \in DOMAIN tasks[h], HandleStart(h, i)
  PROVE  WorkerTypes' /\ \A k \in Local : Keeps(k)
<1>1. Take(h, i) /\ UNCHANGED missed
  BY Zenon DEF HandleStart
<1>2. PICK l \in Local : l = tasks[h][i].of /\ l[2] = h /\ tasks[h][i] = StartOf(l)
  BY <1>1, Taken, TaskIs DEF HandleStart
<1>3. \E state \in {"Starting", "Failed"} : catalog' = [catalog EXCEPT ![l] = state]
  BY <1>2, Zenon DEF HandleStart, Enter
<1>4. \E status \in {"Started", "Failed"} : log' = [log EXCEPT ![l] = @ \cup {status}]
  BY <1>2, Zenon DEF HandleStart, Log
<1>5. CatalogType' /\ LogType'
  BY <1>3, <1>4 DEF WorkerTypes, CatalogType, LogType
<1>6. \A k \in Local : k # l => catalog'[k] = catalog[k]
  BY <1>3, Zenon DEF WorkerTypes, CatalogType
<1>7. /\ tasks' \in [Host -> Seq(Task)] /\ \A g \in Host : g # h => tasks'[g] = tasks[g]
      /\ \A u : Occurs(tasks'[h], u) => Occurs(tasks[h], u)
      /\ \A u : Occurs(tasks[h], u) /\ u # StartOf(l) => Occurs(tasks'[h], u)
      /\ \A u : Once(tasks[h], u) => Once(tasks'[h], u)
      /\ Once(tasks[h], StartOf(l)) => ~Occurs(tasks'[h], StartOf(l))
  <2>1. /\ tasks' \in [Host -> Seq(Task)] /\ \A g \in Host : g # h => tasks'[g] = tasks[g]
        /\ \A u : Occurs(tasks'[h], u) => Occurs(tasks[h], u)
        /\ \A u : Occurs(tasks[h], u) /\ u # tasks[h][i] => Occurs(tasks'[h], u)
        /\ \A u : Once(tasks[h], u) => Once(tasks'[h], u)
        /\ Once(tasks[h], tasks[h][i]) => ~Occurs(tasks'[h], tasks[h][i])
    BY <1>1, Taken, Zenon
  <2> QED
    BY <1>2, <2>1, Zenon
<1>8. \A g \in Host : QueueIsSound(tasks[g], g, catalog)
  BY Zenon DEF WorkerTypes, WorkersAreSound
<1>9. \A g \in Host : ~Occurs(tasks'[g], StartOf(l))
  BY <1>2, <1>7, <1>8, TasksOf DEF QueueIsSound
<1>10. /\ \A g \in Host : \A u : Occurs(tasks'[g], u) => Occurs(tasks[g], u)
       /\ \A g \in Host : \A u : Once(tasks[g], u) => Once(tasks'[g], u)
  BY <1>7, Zenon
<1>11. WorkersAreSound'
  BY <1>5, <1>6, <1>7, <1>9, <1>10, Entered, Zenon
<1>12. ASSUME NEW k \in Local PROVE Keeps(k)
  <2>1. CASE k = l
    <3>1. Occurs(tasks[h], StartOf(l)) /\ StopOf(l) # StartOf(l)
      BY <1>2, TasksOf, Zenon DEF Occurs
    <3>2. ~Fresh(l)
      BY <1>2, <3>1, PendingIs, Zenon DEF Fresh
    <3>3. Occurs(tasks[h], StopOf(l)) => Occurs(tasks'[h], StopOf(l))
      BY <1>7, <3>1, Zenon
    <3> QED
      BY <1>2, <2>1, <3>1, <3>2, <3>3, PendingIs, Zenon DEF Keeps, RunsOn
  <2>2. CASE k # l
    <3>1. StartOf(k) # StartOf(l) /\ StopOf(k) # StartOf(l) /\ k[2] \in Host
      BY <2>2, TasksOf, Zenon
    <3>2. /\ Occurs(tasks'[k[2]], StartOf(k)) <=> Occurs(tasks[k[2]], StartOf(k))
          /\ Occurs(tasks'[k[2]], StopOf(k)) <=> Occurs(tasks[k[2]], StopOf(k))
      BY <1>7, <3>1, Zenon
    <3> QED
      BY <1>6, <2>2, <3>2, PendingIs, Zenon DEF Keeps, Fresh, RunsOn
  <2> QED
    BY <2>1, <2>2, Zenon
<1> QED
  BY <1>1, <1>5, <1>11, <1>12, Zenon DEF WorkerTypes

\* A stop task that is handled lets its local query run on only if it came before the start task.
LEMMA HandledStop ==
  ASSUME WorkerTypes, NEW h \in Host, NEW i \in DOMAIN tasks[h], HandleStop(h, i)
  PROVE  /\ WorkerTypes' /\ missed \subseteq missed'
         /\ \A k \in Local : k \in missed' \/ Keeps(k)
         /\ \A k \in Local : Fresh(k) => Fresh(k)'
<1>1. Take(h, i) /\ UNCHANGED log
  BY Zenon DEF HandleStop
<1>2. PICK l \in Local : l = tasks[h][i].of /\ l[2] = h /\ tasks[h][i] = StopOf(l)
  BY <1>1, Taken, TaskIs DEF HandleStop
<1>3. /\ catalog' = [catalog EXCEPT ![l] = IF catalog[l] \in {"Starting", "Running"} THEN "Stopping" ELSE catalog[l]]
      /\ missed' = IF catalog[l] = "absent" THEN missed \cup {l} ELSE missed
  BY <1>2, Zenon DEF HandleStop
<1>4. CatalogType' /\ LogType' /\ missed' \subseteq Local /\ missed \subseteq missed'
  BY <1>1, <1>3, Zenon DEF WorkerTypes, CatalogType, LogType
<1>5. /\ \A k \in Local : k # l => catalog'[k] = catalog[k]
      /\ catalog[l] = "absent" => catalog'[l] = "absent"
      /\ catalog'[l] \notin {"Starting", "Running"}
  BY <1>3, Zenon DEF WorkerTypes, CatalogType
<1>6. /\ tasks' \in [Host -> Seq(Task)] /\ \A g \in Host : g # h => tasks'[g] = tasks[g]
      /\ \A u : Occurs(tasks'[h], u) => Occurs(tasks[h], u)
      /\ \A u : Occurs(tasks[h], u) /\ u # StopOf(l) => Occurs(tasks'[h], u)
      /\ \A u : Once(tasks[h], u) => Once(tasks'[h], u)
  <2>1. /\ tasks' \in [Host -> Seq(Task)] /\ \A g \in Host : g # h => tasks'[g] = tasks[g]
        /\ \A u : Occurs(tasks'[h], u) => Occurs(tasks[h], u)
        /\ \A u : Occurs(tasks[h], u) /\ u # tasks[h][i] => Occurs(tasks'[h], u)
        /\ \A u : Once(tasks[h], u) => Once(tasks'[h], u)
        /\ Once(tasks[h], tasks[h][i]) => ~Occurs(tasks'[h], tasks[h][i])
    BY <1>1, Taken, Zenon
  <2> QED
    BY <1>2, <2>1, Zenon
<1>7. \A g \in Host : QueueIsSound(tasks[g], g, catalog)
  BY Zenon DEF WorkerTypes, WorkersAreSound
<1>8. /\ \A g \in Host : \A u : Occurs(tasks'[g], u) => Occurs(tasks[g], u)
      /\ \A g \in Host : \A u : Once(tasks[g], u) => Once(tasks'[g], u)
  BY <1>6, Zenon
<1>9. \A g \in Host : Occurs(tasks'[g], StartOf(l)) => catalog[l] = "absent" /\ catalog'[l] = "absent"
  BY <1>5, <1>7, <1>8, Zenon DEF QueueIsSound
<1>10. WorkersAreSound'
  BY <1>4, <1>5, <1>6, <1>8, <1>9, Entered, Zenon
<1>11. \A k \in Local : Fresh(k) => Fresh(k)'
  BY <1>5, <1>8, PendingIs, TasksOf, Zenon DEF Fresh
<1>12. ASSUME NEW k \in Local, k \notin missed' PROVE Keeps(k)
  <2>1. CASE k = l
    <3>1. catalog[l] # "absent"
      BY <1>3, <1>12, <2>1, Zenon
    <3>2. ~RunsOn(l)'
      BY <1>2, <1>5, <1>9, <3>1, PendingIs, Zenon DEF RunsOn
    <3> QED
      BY <1>11, <2>1, <3>2, Zenon DEF Keeps
  <2>2. CASE k # l
    <3>1. StopOf(k) # StopOf(l) /\ StartOf(k) # StopOf(l) /\ k[2] \in Host
      BY <2>2, TasksOf, Zenon
    <3>2. /\ Occurs(tasks'[k[2]], StartOf(k)) <=> Occurs(tasks[k[2]], StartOf(k))
          /\ Occurs(tasks'[k[2]], StopOf(k)) <=> Occurs(tasks[k[2]], StopOf(k))
      BY <1>6, <3>1, Zenon
    <3> QED
      BY <1>5, <2>2, <3>2, PendingIs, Zenon DEF Keeps, Fresh, RunsOn
  <2> QED
    BY <2>1, <2>2, Zenon
<1> QED
  BY <1>4, <1>10, <1>11, <1>12, Zenon DEF WorkerTypes

LEMMA Went ==
  ASSUME WorkerTypes, NEW l \in Local, OnRunning(l) \/ OnDestruction(l) \/ OnFailure(l)
  PROVE  WorkerTypes' /\ \A k \in Local : Keeps(k)
<1>1. PICK state \in {"Running", "Stopping", "Stopped", "Failed"} :
         /\ catalog' = [catalog EXCEPT ![l] = state]
         /\ state = "Running" => catalog[l] = "Starting"
  BY Zenon DEF OnRunning, OnDestruction, OnFailure, Enter
<1>2. PICK status \in {"Running", "Stopped", "Failed"} : log' = [log EXCEPT ![l] = @ \cup {status}]
  BY Zenon DEF OnRunning, OnDestruction, OnFailure, Log
<1>3. UNCHANGED <<tasks, missed>> /\ catalog[l] # "absent"
  BY Zenon DEF OnRunning, OnDestruction, OnFailure
<1>4. CatalogType' /\ LogType' /\ \A k \in Local : k # l => catalog'[k] = catalog[k]
  BY <1>1, <1>2, Zenon DEF WorkerTypes, CatalogType, LogType
<1>5. tasks' \in [Host -> Seq(Task)] /\ \A g \in Host : QueueIsSound(tasks[g], g, catalog)
  BY <1>3, Zenon DEF WorkerTypes, WorkersAreSound
<1>6. /\ \A g \in Host : \A u : Occurs(tasks'[g], u) => Occurs(tasks[g], u)
      /\ \A g \in Host : \A u : Once(tasks[g], u) => Once(tasks'[g], u)
  BY <1>3, Zenon
<1>7. \A g \in Host : ~Occurs(tasks'[g], StartOf(l))
  BY <1>3, <1>5, Zenon DEF QueueIsSound
<1>8. WorkersAreSound'
  BY <1>4, <1>5, <1>6, <1>7, Entered, Zenon
<1>9. ASSUME NEW k \in Local PROVE Keeps(k)
  <2>1. CASE k = l
    <3>1. catalog'[l] \in {"Starting", "Running"} => catalog[l] = "Starting"
      BY <1>1, Zenon DEF WorkerTypes, CatalogType
    <3>2. l[2] \in Host
      BY TasksOf, Zenon
    <3> QED
      BY <1>3, <1>7, <2>1, <3>1, <3>2, PendingIs, Zenon DEF Keeps, Fresh, RunsOn
  <2>2. CASE k # l
    BY <1>3, <1>4, <2>2, OtherQueue, Zenon
  <2> QED
    BY <2>1, <2>2, Zenon
<1> QED
  BY <1>3, <1>4, <1>8, <1>9, Zenon DEF WorkerTypes

LEMMA Crashed ==
  ASSUME WorkerTypes, NEW h \in Host, Crash(h)
  PROVE  WorkerTypes' /\ \A k \in Local : Keeps(k)
<1>1. /\ catalog' = [l \in Local |-> IF l[2] = h THEN "absent" ELSE catalog[l]]
      /\ log' = [l \in Local |-> IF l[2] = h THEN {} ELSE log[l]]
      /\ tasks' = [tasks EXCEPT ![h] = <<>>] /\ UNCHANGED missed
  BY Zenon DEF Crash
<1>2. tasks \in [Host -> Seq(Task)] /\ \A g \in Host : QueueIsSound(tasks[g], g, catalog)
  BY Zenon DEF WorkerTypes, WorkersAreSound
<1>3. tasks' \in [Host -> Seq(Task)] /\ tasks'[h] = <<>> /\ \A g \in Host : g # h => tasks'[g] = tasks[g]
  BY <1>1, <1>2, EmptyQueue, Zenon
<1>4. CatalogType' /\ LogType'
  BY <1>1, Zenon DEF WorkerTypes, CatalogType, LogType
<1>5. /\ \A l \in Local : l[2] = h => catalog'[l] = "absent"
      /\ \A l \in Local : l[2] # h => catalog'[l] = catalog[l]
      /\ \A l \in Local : catalog[l] = "absent" => catalog'[l] = "absent"
  BY <1>1, Zenon
<1>6. ASSUME NEW g \in Host PROVE QueueIsSound(tasks'[g], g, catalog')
  <2>1. CASE g = h
    BY <1>3, <2>1, EmptyQueue, Zenon DEF QueueIsSound
  <2>2. CASE g # h
    BY <1>2, <1>3, <1>5, <2>2, Zenon DEF QueueIsSound
  <2> QED
    BY <2>1, <2>2, Zenon
<1>7. WorkersAreSound'
  BY <1>3, <1>6, Zenon DEF WorkersAreSound, QueueIsSound
<1>8. ASSUME NEW k \in Local PROVE Keeps(k)
  <2>1. CASE k[2] = h
    <3>1. ~Occurs(tasks'[k[2]], StartOf(k))
      BY <1>3, <2>1, EmptyQueue, Zenon
    <3> QED
      BY <1>5, <2>1, <3>1, PendingIs, Zenon DEF Keeps, Fresh, RunsOn
  <2>2. CASE k[2] # h
    BY <1>3, <1>5, <2>2, OtherQueue, TasksOf, Zenon
  <2> QED
    BY <2>1, <2>2, Zenon
<1> QED
  BY <1>1, <1>4, <1>7, <1>8, Zenon DEF WorkerTypes

-----------------------------------------------------------------------------
(* The manager *)

ManagerTypes ==
  /\ queries \subseteq Query
  /\ manager \in [op : {"idle", "start", "unwind", "poll", "stop"}, query : Query,
                  left : SUBSET Host, started : SUBSET Host, failed : BOOLEAN]
  /\ startAnswer \in [Query -> {"none", "ok", "error"}]
  /\ stopAnswer \in [Query -> {"none", "ok", "error"}]
  /\ lost \subseteq Local
  /\ faults \in 0..MaxFaults /\ stops \in 0..MaxStops

LEMMA Types == TypeOK /\ StartsAreUnique <=> ManagerTypes /\ WorkerTypes
<1>1. TypeOK <=> ManagerTypes /\ CatalogType /\ LogType /\ missed \subseteq Local /\ TasksOK
  BY Zenon DEF TypeOK, ManagerTypes, CatalogType, LogType, TasksOK
<1> QED
  BY <1>1, SoundWorkers, Zenon DEF WorkerTypes

\* The primed form, for the states after a step.
LEMMA TypesAfter == (TypeOK /\ StartsAreUnique)' <=> ManagerTypes' /\ WorkerTypes'
BY Types, PTL

LEMMA IdleType ==
  /\ Idle.op = "idle" /\ Idle.query \in Query /\ Idle.left = {} /\ Idle.started = {} /\ Idle.failed = FALSE
  /\ Idle \in [op : {"idle", "start", "unwind", "poll", "stop"}, query : Query,
               left : SUBSET Host, started : SUBSET Host, failed : BOOLEAN]
<1>1. (CHOOSE q \in Query : TRUE) \in Query
  BY SomeQuery, Zenon
<1> QED
  BY <1>1, Zenon DEF Idle

Starting == {"start", "unwind", "poll"}
Before(q) == startAnswer[q] = "none" /\ ~(manager.op \in Starting /\ manager.query = q)
InHand(l) ==
  /\ manager.query = l[1]
  /\ \/ manager.op = "start" /\ l[2] \in manager.started
     \/ manager.op = "unwind" /\ l[2] \in manager.left

LEMMA FreshStays ==
  ASSUME IInv, \A l \in Local : Fresh(l) => Fresh(l)',
         \A q \in Query : Before(q)' => Before(q),
         manager'.op = "start" => manager'.query \in Query /\ manager'.left \subseteq Host
                                  /\ \A h \in manager'.left : Fresh(<<manager'.query, h>>)
  PROVE  BeforeStartIsFresh'
<1>1. \A q \in Query, h \in Host : <<q, h>> \in Local
  BY Zenon DEF Local
<1>2. ASSUME NEW q \in Query, Before(q)', NEW h \in Host PROVE Fresh(<<q, h>>)'
  <2>1. Fresh(<<q, h>>)
    BY <1>2, Zenon DEF IInv, BeforeStartIsFresh, Before, Starting
  <2> QED
    BY <1>1, <2>1, Zenon
<1>3. ASSUME manager'.op = "start", NEW h \in manager'.left PROVE Fresh(<<manager.query, h>>)'
  <2>1. PICK q \in Query : q = manager'.query
    BY <1>3, Zenon
  <2>2. Fresh(<<q, h>>) /\ <<q, h>> \in Local
    BY <1>1, <1>3, <2>1, Zenon
  <2>3. Fresh(<<q, h>>)'
    BY <2>2, Zenon
  <2> QED
    BY <2>1, <2>3, Zenon DEF Fresh, Pending
<1> QED
  BY <1>2, <1>3, Zenon DEF BeforeStartIsFresh, Before, Starting

LEMMA HandsStay ==
  ASSUME IInv, queries \subseteq queries', lost \cup missed \subseteq lost' \cup missed',
         \A l \in Local : RunsOn(l)' => RunsOn(l) \/ l \in lost' \cup missed' \/ InHand(l)',
         \A l \in Local : RunsOn(l)' /\ InHand(l) => InHand(l)' \/ l[1] \in queries' \/ l \in lost' \cup missed'
  PROVE  UntrackedIsInHand'
<1> SUFFICES ASSUME NEW l \in Local, RunsOn(l)' PROVE l[1] \in queries' \/ l \in lost' \cup missed' \/ InHand(l)'
  BY Zenon DEF UntrackedIsInHand, InHand
<1>1. RunsOn(l) => l[1] \in queries \/ l \in lost \cup missed \/ InHand(l)
  BY Zenon DEF IInv, UntrackedIsInHand, InHand
<1> QED
  BY <1>1, Zenon

Goal == ManagerTypes' /\ WorkerTypes' /\ BeforeStartIsFresh' /\ UntrackedIsInHand'

\* Steps of the workers alone.
LEMMA ManagerRests ==
  ASSUME IInv, UNCHANGED <<queries, startAnswer, stopAnswer, manager, lost, stops>>, faults' \in 0..MaxFaults,
         WorkerTypes', missed \subseteq missed',
         \A l \in Local : Fresh(l) => Fresh(l)', \A l \in Local : l \in missed' \/ Keeps(l)
  PROVE  Goal
<1>1. ManagerTypes
  BY Types, Zenon DEF IInv
<1>2. ManagerTypes'
  BY <1>1, Zenon DEF ManagerTypes
<1>3. BeforeStartIsFresh'
  <2>1. \A q \in Query : Before(q)' => Before(q)
    BY Zenon DEF Before
  <2>2. manager'.op = "start" => manager'.query \in Query /\ manager'.left \subseteq Host
                                 /\ \A h \in manager'.left : Fresh(<<manager'.query, h>>)
    BY <1>1, Zenon DEF ManagerTypes, IInv, BeforeStartIsFresh
  <2> QED
    BY <2>1, <2>2, FreshStays, Zenon
<1>4. UntrackedIsInHand'
  <2>1. \A l \in Local : InHand(l)' <=> InHand(l)
    BY Zenon DEF InHand
  <2> QED
    BY <2>1, HandsStay, Zenon DEF Keeps
<1> QED
  BY <1>2, <1>3, <1>4, Zenon DEF Goal

LEMMA WorkerSteps ==
  ASSUME IInv, \/ \E h \in Host : EngineStep(h) \/ Crash(h)
               \/ \E l \in Local : OnRunning(l) \/ OnDestruction(l) \/ OnFailure(l)
  PROVE  Goal
<1>1. WorkerTypes /\ ManagerTypes
  BY Types, Zenon DEF IInv
<1>2. ASSUME NEW h \in Host, NEW i \in DOMAIN tasks[h], HandleStart(h, i) PROVE Goal
  <2>1. UNCHANGED <<queries, startAnswer, stopAnswer, manager, lost, stops, faults, missed>>
    BY <1>2, Zenon DEF HandleStart, managerVars, callVars
  <2>2. WorkerTypes' /\ \A l \in Local : Keeps(l)
    BY <1>1, <1>2, HandledStart, Zenon
  <2> QED
    BY <1>1, <2>1, <2>2, ManagerRests, Zenon DEF Keeps, ManagerTypes
<1>3. ASSUME NEW h \in Host, NEW i \in DOMAIN tasks[h], HandleStop(h, i) PROVE Goal
  <2>1. UNCHANGED <<queries, startAnswer, stopAnswer, manager, lost, stops, faults>>
    BY <1>3, Zenon DEF HandleStop, managerVars, callVars
  <2>2. /\ WorkerTypes' /\ missed \subseteq missed'
        /\ \A l \in Local : l \in missed' \/ Keeps(l)
        /\ \A l \in Local : Fresh(l) => Fresh(l)'
    BY <1>1, <1>3, HandledStop, Zenon
  <2> QED
    BY <1>1, <2>1, <2>2, ManagerRests, Zenon DEF ManagerTypes
<1>4. ASSUME NEW h \in Host, Crash(h) PROVE Goal
  <2>1. UNCHANGED <<queries, startAnswer, stopAnswer, manager, lost, stops, missed>>
    BY <1>4, Zenon DEF Crash, callVars
  <2>2. faults' \in 0..MaxFaults
    BY <1>1, <1>4, BoundsAreNumbers DEF Crash, Fault, ManagerTypes
  <2>3. WorkerTypes' /\ \A l \in Local : Keeps(l)
    BY <1>1, <1>4, Crashed, Zenon
  <2> QED
    BY <2>1, <2>2, <2>3, ManagerRests, Zenon DEF Keeps
<1>5. ASSUME NEW l \in Local, OnRunning(l) \/ OnDestruction(l) \/ OnFailure(l) PROVE Goal
  <2>1. UNCHANGED <<queries, startAnswer, stopAnswer, manager, lost, stops, faults, missed>>
    BY <1>5, Zenon DEF OnRunning, OnDestruction, OnFailure, managerVars, callVars
  <2>2. WorkerTypes' /\ \A k \in Local : Keeps(k)
    BY <1>1, <1>5, Went, Zenon
  <2> QED
    BY <1>1, <2>1, <2>2, ManagerRests, Zenon DEF Keeps, ManagerTypes
<1> QED
  BY <1>2, <1>3, <1>4, <1>5, Zenon DEF EngineStep

\* Steps of the manager that leave the workers alone, or only stop a local query.
LEMMA ManagerGoes ==
  ASSUME IInv, ManagerTypes', WorkerTypes', queries \subseteq queries', lost \subseteq lost', UNCHANGED missed,
         \A l \in Local : Keeps(l),
         \A q \in Query : Before(q)' => Before(q),
         manager'.op = "start" => \A h \in manager'.left : Fresh(<<manager'.query, h>>),
         \A l \in Local : RunsOn(l)' /\ InHand(l) => InHand(l)' \/ l[1] \in queries' \/ l \in lost'
  PROVE  Goal
<1>1. BeforeStartIsFresh'
  <2>1. manager'.query \in Query /\ manager'.left \subseteq Host
    BY Zenon DEF ManagerTypes
  <2> QED
    BY <2>1, FreshStays, Zenon DEF Keeps
<1>2. UntrackedIsInHand'
  BY HandsStay, Zenon DEF Keeps
<1> QED
  BY <1>1, <1>2, Zenon DEF Goal

Managers == [op : {"idle", "start", "unwind", "poll", "stop"}, query : Query,
             left : SUBSET Host, started : SUBSET Host, failed : BOOLEAN]

LEMMA CallsBegin ==
  ASSUME IInv, NEW q \in Query, BeginStart(q) \/ BeginStop(q)
  PROVE  Goal
<1>1. WorkerTypes /\ ManagerTypes
  BY Types, Zenon DEF IInv
<1>2. UNCHANGED <<queries, startAnswer, stopAnswer, lost, faults>> /\ UNCHANGED workerVars /\ manager.op = "idle"
  BY Zenon DEF BeginStart, BeginStop, callVars
<1>3. WorkerTypes' /\ UNCHANGED missed /\ \A l \in Local : Keeps(l)
  BY <1>1, <1>2, UnchangedWorkers, Zenon DEF workerVars
<1>4. PICK op \in {"start", "stop"} : manager' = [Idle EXCEPT !.op = op, !.query = q, !.left = Host]
  BY Zenon DEF BeginStart, BeginStop
<1>5. manager' \in Managers /\ manager'.op = op /\ manager'.query = q /\ manager'.left = Host
  BY <1>4, IdleType, Zenon DEF Managers
<1>6. stops' \in 0..MaxStops
  BY <1>1, BoundsAreNumbers DEF BeginStart, BeginStop, ManagerTypes
<1>7. ManagerTypes'
  BY <1>1, <1>2, <1>5, <1>6, Zenon DEF ManagerTypes, Managers
<1>8. \A r \in Query : Before(r)' => Before(r)
  BY <1>2, Zenon DEF Before, Starting
<1>9. ASSUME manager'.op = "start" PROVE \A h \in manager'.left : Fresh(<<manager'.query, h>>)
  <2>1. Before(q)
    <3>1. CASE BeginStart(q)
      BY <3>1, <1>2, Zenon DEF BeginStart, Before, Starting
    <3>2. CASE BeginStop(q)
      <4>1. manager'.op = "stop"
        BY <3>2, IdleType, Zenon DEF BeginStop
      <4> QED
        BY <1>9, <4>1, Zenon
    <3> QED
      BY <3>1, <3>2, Zenon
  <2> QED
    BY <1>5, <2>1, Zenon DEF IInv, BeforeStartIsFresh, Before, Starting
<1>10. \A l \in Local : ~InHand(l)
  BY <1>2, Zenon DEF InHand
<1> QED
  BY <1>2, <1>3, <1>7, <1>8, <1>9, <1>10, ManagerGoes, Zenon

LEMMA StartProceeds ==
  ASSUME IInv, NEW h \in Host, StartLocal(h) \/ StartReplyLost(h)
  PROVE  Goal
<1>1. WorkerTypes /\ ManagerTypes
  BY Types, Zenon DEF IInv
<1>2. PICK q \in Query : q = manager.query
  BY <1>1, Zenon DEF ManagerTypes
<1> DEFINE l == <<q, h>>
<1>3. l \in Local /\ l[1] = q /\ l[2] = h /\ WorkerStarts(l) /\ manager.op = "start" /\ h \in manager.left
  BY <1>2, Zenon DEF StartLocal, StartReplyLost, Local
<1>4. Fresh(l)
  BY <1>2, <1>3, Zenon DEF IInv, BeforeStartIsFresh
<1>5. UNCHANGED <<queries, startAnswer, stopAnswer, stops, missed>>
  BY <1>3, Zenon DEF StartLocal, StartReplyLost, callVars, WorkerStarts
<1> HIDE DEF l
<1>6. WorkerTypes' /\ \A k \in Local : k # l => Keeps(k)
  BY <1>1, <1>3, <1>4, Started, Zenon
<1>7. /\ manager' \in Managers /\ manager'.op = "start" /\ manager'.query = q /\ manager'.left = manager.left \ {h}
      /\ manager.started \subseteq manager'.started
  <2>1. manager \in Managers
    BY <1>1, Zenon DEF ManagerTypes, Managers
  <2>2. CASE StartLocal(h)
    BY <1>2, <1>3, <2>1, <2>2, Zenon DEF StartLocal, Managers
  <2>3. CASE StartReplyLost(h)
    BY <1>2, <1>3, <2>1, <2>3, Zenon DEF StartReplyLost, Managers
  <2> QED
    BY <2>2, <2>3, Zenon
<1>8. lost \subseteq lost' /\ (h \in manager'.started \/ l \in lost')
  <2>1. CASE StartLocal(h)
    BY <1>1, <2>1, Zenon DEF StartLocal, ManagerTypes
  <2>2. CASE StartReplyLost(h)
    BY <1>2, <2>2, Zenon DEF StartReplyLost, l
  <2> QED
    BY <2>1, <2>2, Zenon
<1>9. lost' \subseteq Local /\ faults' \in 0..MaxFaults
  <2>1. CASE StartLocal(h)
    BY <1>1, <2>1, Zenon DEF StartLocal, ManagerTypes, NoFault
  <2>2. CASE StartReplyLost(h)
    <3>1. lost' = lost \cup {l}
      BY <1>2, <2>2, Zenon DEF StartReplyLost, l
    <3>2. faults' \in 0..MaxFaults
      BY <1>1, <2>2, BoundsAreNumbers DEF StartReplyLost, ManagerTypes, Fault
    <3> QED
      BY <1>1, <1>3, <3>1, <3>2, Zenon DEF ManagerTypes
  <2> QED
    BY <2>1, <2>2, Zenon
<1>10. ManagerTypes'
  BY <1>1, <1>5, <1>7, <1>9, Zenon DEF ManagerTypes, Managers
<1>11. BeforeStartIsFresh'
  <2>1. ASSUME NEW r \in Query, NEW g \in Host, r # q \/ g # h PROVE Fresh(<<r, g>>) => Fresh(<<r, g>>)'
    <3>1. <<r, g>> \in Local /\ <<r, g>> # l
      BY <2>1, Zenon DEF Local, l
    <3> QED
      BY <1>6, <3>1, Zenon DEF Keeps
  <2>2. ASSUME NEW r \in Query, Before(r)', NEW g \in Host PROVE Fresh(<<r, g>>)'
    <3>1. r # q /\ startAnswer[r] = "none"
      BY <1>5, <1>7, <2>2, Zenon DEF Before, Starting
    <3>2. Fresh(<<r, g>>)
      BY <1>2, <3>1, Zenon DEF IInv, BeforeStartIsFresh
    <3> QED
      BY <2>1, <3>1, <3>2, Zenon
  <2>3. ASSUME NEW g \in manager'.left PROVE Fresh(<<manager.query, g>>)'
    <3>1. g \in Host /\ g # h /\ Fresh(<<q, g>>)
      BY <1>1, <1>2, <1>3, <1>7, <2>3, Zenon DEF IInv, BeforeStartIsFresh, ManagerTypes
    <3>2. Fresh(<<q, g>>)'
      BY <2>1, <3>1, Zenon
    <3> QED
      BY <1>7, <3>2, Zenon DEF Fresh, Pending
  <2> QED
    BY <2>2, <2>3, Zenon DEF BeforeStartIsFresh, Before, Starting
<1>12. UntrackedIsInHand'
  <2>1. \A k \in Local : InHand(k) => InHand(k)'
    BY <1>2, <1>3, <1>7, Zenon DEF InHand
  <2>2. InHand(l)' \/ l \in lost'
    BY <1>3, <1>7, <1>8, Zenon DEF InHand
  <2> QED
    BY <1>5, <1>6, <1>8, <2>1, <2>2, HandsStay, Zenon DEF Keeps
<1> QED
  BY <1>6, <1>10, <1>11, <1>12, Zenon DEF Goal

\* A call that fails, or a local query that need not be polled any longer.
LEMMA LeavesOneOut ==
  ASSUME IInv, NEW h \in Host, StartLocalFails(h) \/ Poll(h) \/ PollTimesOut \/ StopLocalFails(h)
  PROVE  Goal
<1>1. WorkerTypes /\ ManagerTypes /\ manager \in Managers
  BY Types, Zenon DEF IInv, ManagerTypes, Managers
<1>2. /\ manager' \in Managers /\ manager'.op = manager.op /\ manager'.query = manager.query
      /\ manager'.left \subseteq manager.left /\ manager'.started = manager.started /\ manager.op # "unwind"
  <2>1. CASE StartLocalFails(h)
    BY <1>1, <2>1, Zenon DEF StartLocalFails, Managers
  <2>2. CASE Poll(h)
    <3>1. CASE manager' = [manager EXCEPT !.left = @ \ {h}, !.failed = TRUE]
      BY <1>1, <2>2, <3>1, Zenon DEF Poll, Managers
    <3> DEFINE unknown == LocalStatus(<<manager.query, h>>) = "NotFound"
    <3>2. unknown \in BOOLEAN
      BY Zenon
    <3> HIDE DEF unknown
    <3>3. CASE manager' = [manager EXCEPT !.left = @ \ {h}, !.failed = @ \/ unknown]
      BY <1>1, <2>2, <3>2, <3>3, Zenon DEF Poll, Managers
    <3> QED
      BY <2>2, <3>1, <3>3, Zenon DEF Poll, unknown
  <2>3. CASE PollTimesOut
    BY <1>1, <2>3, Zenon DEF PollTimesOut, Managers
  <2>4. CASE StopLocalFails(h)
    BY <1>1, <2>4, Zenon DEF StopLocalFails, Managers
  <2> QED
    BY <2>1, <2>2, <2>3, <2>4, Zenon
<1>3. UNCHANGED <<queries, startAnswer, stopAnswer, lost, stops>> /\ UNCHANGED <<catalog, tasks, missed>>
  BY Zenon DEF StartLocalFails, Poll, PollTimesOut, StopLocalFails, callVars, workerVars
<1>4. faults' \in 0..MaxFaults
  BY <1>1, BoundsAreNumbers DEF StartLocalFails, Poll, PollTimesOut, StopLocalFails, Fault, NoFault, ManagerTypes
<1>5. ManagerTypes'
  BY <1>1, <1>2, <1>3, <1>4, Zenon DEF ManagerTypes, Managers
<1>6. WorkerTypes' /\ UNCHANGED missed /\ \A l \in Local : Keeps(l)
  <2>1. LogType'
    <3>1. log' = log \/ log' = [log EXCEPT ![<<manager.query, h>>] = @ \cup {"Registered"}]
      BY Zenon DEF StartLocalFails, Poll, PollTimesOut, StopLocalFails, workerVars
    <3> QED
      BY <1>1, <3>1, Zenon DEF WorkerTypes, LogType
  <2> QED
    BY <1>1, <1>3, <2>1, OnlyLogged, Zenon
<1>7. \A q \in Query : Before(q)' => Before(q)
  BY <1>2, <1>3, Zenon DEF Before
<1>8. manager'.op = "start" => \A g \in manager'.left : Fresh(<<manager'.query, g>>)
  BY <1>2, Zenon DEF IInv, BeforeStartIsFresh
<1>9. \A l \in Local : InHand(l) => InHand(l)'
  BY <1>2, Zenon DEF InHand
<1> QED
  BY <1>3, <1>5, <1>6, <1>7, <1>8, <1>9, ManagerGoes, Zenon

LEMMA StopsOne ==
  ASSUME IInv, NEW h \in Host, Unwind(h) \/ StopLocal(h)
  PROVE  Goal
<1>1. WorkerTypes /\ ManagerTypes /\ manager \in Managers
  BY Types, Zenon DEF IInv, ManagerTypes, Managers
<1>2. PICK q \in Query : q = manager.query
  BY <1>1, Zenon DEF ManagerTypes
<1> DEFINE l == <<q, h>>
<1>3. l \in Local /\ l[1] = q /\ l[2] = h /\ \A k \in Local : k[1] = q /\ k[2] = h => k = l
  BY DEF Local
<1>4. /\ manager' \in Managers /\ manager'.op = manager.op /\ manager'.query = manager.query
      /\ manager'.left = manager.left \ {h} /\ manager.op \in {"unwind", "stop"}
  <2>1. CASE Unwind(h)
    BY <1>1, <2>1, Zenon DEF Unwind, Managers
  <2>2. CASE StopLocal(h)
    BY <1>1, <2>2, ZenonT(30) DEF StopLocal, Managers
  <2> QED
    BY <2>1, <2>2, Zenon
<1>5. UNCHANGED <<queries, startAnswer, stopAnswer, stops>>
  BY Zenon DEF Unwind, StopLocal, callVars
<1>6. /\ (WorkerStops(l) /\ UNCHANGED lost) \/ (UNCHANGED workerVars /\ lost' = lost \cup {l})
      /\ faults' = faults \/ (faults < MaxFaults /\ faults' = faults + 1)
  <2>1. CASE Unwind(h)
    BY <1>2, <2>1, Zenon DEF Unwind, Fault, NoFault
  <2>2. CASE StopLocal(h)
    BY <1>2, <2>2, Zenon DEF StopLocal, Fault, NoFault
  <2> QED
    BY <2>1, <2>2, Zenon
<1> HIDE DEF l
<1>7. faults' \in 0..MaxFaults
  BY <1>1, <1>6, BoundsAreNumbers DEF ManagerTypes
<1>8. /\ WorkerTypes' /\ UNCHANGED missed /\ \A k \in Local : Keeps(k)
      /\ ~RunsOn(l)' \/ l \in lost'
  <2>1. CASE WorkerStops(l) /\ UNCHANGED lost
    BY <1>1, <1>3, <2>1, Stopped, Zenon DEF WorkerStops
  <2>2. CASE UNCHANGED workerVars /\ lost' = lost \cup {l}
    BY <1>1, <2>2, UnchangedWorkers, Zenon DEF workerVars
  <2> QED
    BY <1>6, <2>1, <2>2, Zenon
<1>9. lost \subseteq lost' /\ lost' \subseteq Local
  BY <1>1, <1>3, <1>6, Zenon DEF ManagerTypes
<1>10. ManagerTypes'
  BY <1>1, <1>4, <1>5, <1>7, <1>9, Zenon DEF ManagerTypes, Managers
<1>11. \A r \in Query : Before(r)' => Before(r)
  BY <1>4, <1>5, Zenon DEF Before
<1>12. ASSUME NEW k \in Local, RunsOn(k)', InHand(k) PROVE InHand(k)' \/ k \in lost'
  <2>1. CASE k = l
    BY <1>8, <1>12, <2>1, Zenon
  <2>2. CASE k # l
    BY <1>2, <1>3, <1>4, <1>12, <2>2, Zenon DEF InHand
  <2> QED
    BY <2>1, <2>2, Zenon
<1>13. manager'.op # "start"
  BY <1>4, Zenon
<1> QED
  BY <1>5, <1>8, <1>9, <1>10, <1>11, <1>12, <1>13, ManagerGoes, Zenon

\* When start has unwound, polled or tracked what it started, and when a call returns, nothing is in hand.
LEMMA CallsGoOn ==
  ASSUME IInv, LocalsStarted \/ StartReturns \/ StopReturns
  PROVE  Goal
<1>1. WorkerTypes /\ ManagerTypes /\ manager \in Managers /\ manager.query \in Query
  BY Types, Zenon DEF IInv, ManagerTypes, Managers
<1>2. UNCHANGED <<lost, faults, stops>> /\ UNCHANGED workerVars
  BY Zenon DEF LocalsStarted, StartReturns, StopReturns
<1>3. WorkerTypes' /\ UNCHANGED missed /\ \A l \in Local : Keeps(l)
  BY <1>1, <1>2, UnchangedWorkers, Zenon DEF workerVars
<1>4. CASE LocalsStarted
  <2>1. UNCHANGED <<startAnswer, stopAnswer>> /\ manager.op = "start"
    BY <1>4, Zenon DEF LocalsStarted
  <2>2. CASE manager.failed
    <3>1. manager' = [manager EXCEPT !.op = "unwind", !.left = manager.started] /\ UNCHANGED queries
      BY <1>4, <2>2, Zenon DEF LocalsStarted
    <3>2. manager' \in Managers /\ manager'.op = "unwind" /\ manager'.left = manager.started /\ manager'.query = manager.query
      BY <1>1, <3>1, Zenon DEF Managers
    <3>3. ManagerTypes'
      BY <1>1, <1>2, <2>1, <3>1, <3>2, Zenon DEF ManagerTypes, Managers
    <3>4. /\ \A q \in Query : Before(q)' => Before(q)
          /\ \A l \in Local : InHand(l) => InHand(l)'
      BY <2>1, <3>2, Zenon DEF Before, InHand, Starting
    <3> QED
      BY <1>2, <1>3, <3>1, <3>2, <3>3, <3>4, ManagerGoes, Zenon
  <2>3. CASE ~manager.failed
    <3>1. manager' = [manager EXCEPT !.op = "poll", !.left = Host] /\ queries' = queries \cup {manager.query}
      BY <1>4, <2>3, Zenon DEF LocalsStarted
    <3>2. manager' \in Managers /\ manager'.op = "poll" /\ manager'.query = manager.query
      BY <1>1, <3>1, Zenon DEF Managers
    <3>3. ManagerTypes'
      BY <1>1, <1>2, <2>1, <3>1, <3>2, Zenon DEF ManagerTypes, Managers
    <3>4. /\ \A q \in Query : Before(q)' => Before(q)
          /\ \A l \in Local : InHand(l) => l[1] \in queries'
      BY <2>1, <3>1, <3>2, Zenon DEF Before, InHand, Starting
    <3> QED
      BY <1>2, <1>3, <3>1, <3>2, <3>3, <3>4, ManagerGoes, Zenon
  <2> QED
    BY <2>2, <2>3, Zenon
<1>5. CASE StartReturns \/ StopReturns
  <2>1. manager' = Idle /\ UNCHANGED queries /\ manager.op # "start" /\ manager.left = {}
    BY <1>5, Zenon DEF StartReturns, StopReturns
  <2>2. PICK answer \in {"ok", "error"} :
           \/ /\ startAnswer' = [startAnswer EXCEPT ![manager.query] = answer]
              /\ UNCHANGED stopAnswer
           \/ /\ stopAnswer' = [stopAnswer EXCEPT ![manager.query] = answer]
              /\ UNCHANGED startAnswer /\ manager.op = "stop"
    BY <1>5, Zenon DEF StartReturns, StopReturns
  <2>3. startAnswer' \in [Query -> {"none", "ok", "error"}] /\ stopAnswer' \in [Query -> {"none", "ok", "error"}]
    BY <1>1, <2>2, ZenonT(30) DEF ManagerTypes
  <2>4. ManagerTypes'
    BY <1>1, <1>2, <2>1, <2>3, IdleType, Zenon DEF ManagerTypes
  <2>5. \A q \in Query : Before(q)' => Before(q)
    BY <1>1, <2>1, <2>2, Zenon DEF Before, Starting, ManagerTypes
  <2>6. manager'.op # "start" /\ \A l \in Local : ~InHand(l)
    BY <2>1, IdleType, Zenon DEF InHand
  <2> QED
    BY <1>2, <1>3, <2>1, <2>4, <2>5, <2>6, ManagerGoes, Zenon
<1> QED
  BY <1>4, <1>5, Zenon

-----------------------------------------------------------------------------
(* The invariant *)

LEMMA InitIInv == Init => IInv
<1> SUFFICES ASSUME Init PROVE IInv
  BY Zenon
<1>1. ManagerTypes
  BY IdleType, BoundsAreNumbers DEF Init, ManagerTypes
<1>2. CatalogType /\ LogType /\ missed = {} /\ \A h \in Host : tasks[h] = <<>>
  BY Zenon DEF Init, CatalogType, LogType
<1>3. WorkersAreSound
  <2>1. \A h \in Host : QueueIsSound(tasks[h], h, catalog)
    BY <1>2, EmptyQueue, Zenon DEF QueueIsSound
  <2>2. tasks \in [Host -> Seq(Task)]
    BY EmptyQueue, Zenon DEF Init
  <2> QED
    BY <2>1, <2>2, Zenon DEF WorkersAreSound
<1>4. \A l \in Local : ~Pending(l, "start") /\ catalog[l] = "absent"
  <2>1. \A l \in Local : ~Occurs(tasks[l[2]], StartOf(l))
    BY <1>2, EmptyQueue, TasksOf, Zenon
  <2> QED
    BY <2>1, PendingIs, Zenon DEF Init
<1>5. UntrackedIsInHand
  BY <1>4, Zenon DEF UntrackedIsInHand, RunsOn
<1>6. BeforeStartIsFresh
  <2>1. manager.op = "idle"
    BY IdleType, Zenon DEF Init
  <2>2. \A q \in Query, h \in Host : <<q, h>> \in Local
    BY Zenon DEF Local
  <2> QED
    BY <1>4, <2>1, <2>2, Zenon DEF BeforeStartIsFresh, Fresh
<1> QED
  BY <1>1, <1>2, <1>3, <1>5, <1>6, Types, Zenon DEF WorkerTypes, IInv

LEMMA StepIInv == IInv /\ Next => IInv'
<1> SUFFICES ASSUME IInv, Next PROVE IInv'
  BY Zenon
<1>1. ASSUME NEW q \in Query, BeginStart(q) \/ BeginStop(q) PROVE Goal
  BY <1>1, CallsBegin, Zenon
<1>2. ASSUME LocalsStarted \/ StartReturns \/ StopReturns PROVE Goal
  BY <1>2, CallsGoOn, Zenon
<1>3. ASSUME NEW h \in Host, StartLocal(h) \/ StartReplyLost(h) PROVE Goal
  BY <1>3, StartProceeds, Zenon
<1>4. ASSUME NEW h \in Host, StartLocalFails(h) \/ Poll(h) \/ StopLocalFails(h) PROVE Goal
  BY <1>4, LeavesOneOut, Zenon
<1>5. ASSUME NEW h \in Host, Unwind(h) \/ StopLocal(h) PROVE Goal
  BY <1>5, StopsOne, Zenon
<1>6. ASSUME PollTimesOut PROVE Goal
  <2>1. PICK h \in Host : TRUE
    BY <1>6, Types, Zenon DEF PollTimesOut, IInv, ManagerTypes
  <2> QED
    BY <1>6, LeavesOneOut, Zenon
<1>7. ASSUME \/ \E h \in Host : EngineStep(h) \/ Crash(h)
             \/ \E l \in Local : OnRunning(l) \/ OnDestruction(l) \/ OnFailure(l)
      PROVE  Goal
  BY <1>7, WorkerSteps, Zenon
<1>8. Goal
  BY <1>1, <1>2, <1>3, <1>4, <1>5, <1>6, <1>7, Zenon DEF Next, ManagerStep
<1> QED
  BY <1>8, TypesAfter, Zenon DEF Goal, IInv

LEMMA StutterIInv == IInv /\ UNCHANGED vars => IInv'
<1> SUFFICES ASSUME IInv, UNCHANGED vars PROVE IInv'
  BY Zenon
<1>1. UNCHANGED <<queries, startAnswer, stopAnswer, manager, lost, faults, stops>> /\ UNCHANGED workerVars
  BY Zenon DEF vars, callVars
<1>2. WorkerTypes' /\ UNCHANGED missed /\ \A l \in Local : Keeps(l)
  BY <1>1, UnchangedWorkers, Types, Zenon DEF IInv, workerVars
<1>3. faults' \in 0..MaxFaults
  BY <1>1, Types, Zenon DEF IInv, ManagerTypes
<1>4. Goal
  BY <1>1, <1>2, <1>3, ManagerRests, Zenon DEF Keeps
<1> QED
  BY <1>4, TypesAfter, Zenon DEF Goal, IInv

\* The inductive invariant of the query manager and its workers holds in every reachable state: what
\* QueryManager::start has sent out and not yet tracked or unwound, and that the engine of a worker is given
\* one start task for each local query.
THEOREM Invariance == Spec => []IInv
<1>1. IInv /\ [Next]_vars => IInv'
  BY StepIInv, StutterIInv, Zenon
<1> QED
  BY InitIInv, <1>1, PTL DEF Spec

\* With any number of queries, hosts and worker threads, and whatever calls fail and workers crash: when
\* QueryManager::start or stop has returned, no local query runs on that is not tracked (the comment of
\* QueryManager.cpp:153), but for those that a failed call left unknown or whose stop task overtook the start.
THEOREM NoQueryIsEverForgotten == Spec => []NoQueryIsForgotten
<1>1. IInv => NoQueryIsForgotten
  BY Zenon DEF IInv, NoQueryIsForgotten, UntrackedIsInHand
<1> QED
  BY Invariance, <1>1, PTL
=============================================================================
