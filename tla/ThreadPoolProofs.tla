-------------------------- MODULE ThreadPoolProofs ---------------------------
(***************************************************************************)
(* Safety of the task queue and of the thread pool that uses it, for any   *)
(* number of threads, any capacity and any set of tasks.                   *)
(*                                                                         *)
(* The queue's SemaphoreInvariant is not inductive: a reader that took a   *)
(* token and has not taken its element yet must be counted.  The           *)
(* strengthening is TokensMatchElements, which counts the token of every   *)
(* thread inside a call, and SpinnersFindATask, which counts the readers   *)
(* that may no longer take their element from the internal queue.          *)
(*                                                                         *)
(* The pool implements TaskQueue, so the queue's invariant holds in the    *)
(* pool; with it, a pool whose workers have all drained the queue has      *)
(* completed every task.                                                   *)
(***************************************************************************)
EXTENDS ThreadPool, FiniteSetTheorems, FunctionTheorems, TLAPS

-----------------------------------------------------------------------------
\* The task queue.  Q(D) is the queue with any set D of threads that only
\* submit internal tasks; the pool's queue is one of these.
Q(D) == INSTANCE TaskQueue WITH Delayer <- D

\* Cardinality means the same in every module.
LEMMA QueueCounts == ASSUME NEW D, NEW S PROVE Q(D)!Cardinality(S) = Cardinality(S)
  BY ZenonT(30) DEF Q!Cardinality, Cardinality

\* The number of threads at a label is a natural number.
LEMMA CountType ==
  ASSUME NEW D, IsFiniteSet(Q(D)!Thread), NEW f, NEW label
  PROVE  IsFiniteSet(Q(D)!At(f, label)) /\ Q(D)!Count(f, label) \in Nat
<1>1. Q(D)!At(f, label) \subseteq Q(D)!Thread
  BY DEF Q!At
<1>2. IsFiniteSet(Q(D)!At(f, label))
  BY <1>1, FS_Subset, Zenon
<1> QED
  BY <1>2, QueueCounts, FS_CardinalityType DEF Q!Count

\* A thread that moves from label a to label b is counted at b instead of a.
LEMMA Move ==
  ASSUME NEW D, IsFiniteSet(Q(D)!Thread),
         NEW f \in [Q(D)!Thread -> Q(D)!PC], NEW t \in Q(D)!Thread,
         NEW a \in Q(D)!PC, NEW b \in Q(D)!PC, a # b, f[t] = a
  PROVE  /\ Q(D)!Count([f EXCEPT ![t] = b], a) = Q(D)!Count(f, a) - 1
         /\ Q(D)!Count([f EXCEPT ![t] = b], b) = Q(D)!Count(f, b) + 1
         /\ Q(D)!Count(f, a) > 0
<1> DEFINE g == [f EXCEPT ![t] = b]
<1>2. /\ Q(D)!At(g, a) = Q(D)!At(f, a) \ {t}
      /\ Q(D)!At(g, b) = Q(D)!At(f, b) \cup {t}
      /\ t \in Q(D)!At(f, a)
      /\ t \notin Q(D)!At(f, b)
  BY DEF Q!At
<1>3. Cardinality(Q(D)!At(f, a) \ {t}) = Cardinality(Q(D)!At(f, a)) - 1
  BY <1>2, CountType, FS_RemoveElement, Zenon
<1>4. Cardinality(Q(D)!At(f, b) \cup {t}) = Cardinality(Q(D)!At(f, b)) + 1
  BY <1>2, CountType, FS_AddElement, Zenon
<1>5. Q(D)!Count(f, a) > 0
  <2>1. IsFiniteSet(Q(D)!At(f, a) \ {t})
    BY CountType, FS_RemoveElement
  <2>2. Cardinality(Q(D)!At(f, a) \ {t}) \in Nat
    BY <2>1, FS_CardinalityType
  <2> QED
    BY <2>2, <1>3, QueueCounts, CountType DEF Q!Count
<1>7. Q(D)!Count(g, a) = Q(D)!Count(f, a) - 1
  BY <1>2, <1>3, QueueCounts, Zenon DEF Q!Count
<1>8. Q(D)!Count(g, b) = Q(D)!Count(f, b) + 1
  BY <1>2, <1>4, QueueCounts, Zenon DEF Q!Count
<1> QED
  BY <1>5, <1>7, <1>8, Zenon

\* ... and the counts of the other labels stay.
LEMMA Stay ==
  ASSUME NEW D, IsFiniteSet(Q(D)!Thread),
         NEW f \in [Q(D)!Thread -> Q(D)!PC], NEW t \in Q(D)!Thread, NEW b \in Q(D)!PC
  PROVE  \A c \in Q(D)!PC \ {f[t], b} : Q(D)!Count([f EXCEPT ![t] = b], c) = Q(D)!Count(f, c)
<1> SUFFICES ASSUME NEW c \in Q(D)!PC \ {f[t], b}
             PROVE  Q(D)!Count([f EXCEPT ![t] = b], c) = Q(D)!Count(f, c)
  BY Zenon
<1>1. Q(D)!At([f EXCEPT ![t] = b], c) = Q(D)!At(f, c)
  BY DEF Q!At
<1> QED
  BY <1>1, Zenon DEF Q!Count

LEMMA QueueInit ==
  ASSUME NEW D, IsFiniteSet(Q(D)!Thread), AdmissionCapacity \in Nat \ {0}
  PROVE  Q(D)!Init => Q(D)!IInv
<1> SUFFICES ASSUME Q(D)!Init PROVE Q(D)!IInv
  OBVIOUS
<1>1. Q(D)!At(pc, "acquired") = {} /\ Q(D)!At(pc, "spinning") = {} /\ Q(D)!At(pc, "written") = {}
  BY DEF Q!Init, Q!At
<1>2. /\ Q(D)!Count(pc, "acquired") = 0
      /\ Q(D)!Count(pc, "spinning") = 0
      /\ Q(D)!Count(pc, "written") = 0
  BY <1>1, QueueCounts, FS_EmptySet, Zenon DEF Q!Count
<1>3. Q(D)!TypeOK
  BY DEF Q!Init, Q!TypeOK, Q!PC
<1>4. Len(internal) = 0 /\ Len(admission) = 0 /\ tasksAvailable = 0
  BY DEF Q!Init
<1>5. Q(D)!TokensMatchElements /\ Q(D)!SpinnersFindATask
  BY <1>1, <1>2, <1>4 DEF Q!TokensMatchElements, Q!SpinnersFindATask
<1> QED
  BY <1>3, <1>5 DEF Q!IInv

\* Every step of the queue preserves the inductive invariant.
LEMMA QueueStays ==
  ASSUME NEW D, IsFiniteSet(Q(D)!Thread), AdmissionCapacity \in Nat \ {0}
  PROVE  Q(D)!IInv /\ [Q(D)!Next]_(Q(D)!vars) => Q(D)!IInv'
<1> SUFFICES ASSUME Q(D)!IInv, [Q(D)!Next]_(Q(D)!vars) PROVE Q(D)!IInv'
  OBVIOUS
<1> DEFINE A == Q(D)!Count(pc, "acquired")
           S == Q(D)!Count(pc, "spinning")
           W == Q(D)!Count(pc, "written")
<1>0. Q(D)!TypeOK /\ Q(D)!TokensMatchElements /\ Q(D)!SpinnersFindATask
  BY DEF Q!IInv
<1>p. pc \in [Q(D)!Thread -> Q(D)!PC]
  BY <1>0 DEF Q!TypeOK
<1>n. /\ A \in Nat /\ S \in Nat /\ W \in Nat
      /\ Len(internal) \in Nat /\ Len(admission) \in Nat /\ tasksAvailable \in Nat
  BY <1>0, CountType DEF Q!TypeOK
<1>s. "idle" \in Q(D)!PC /\ "written" \in Q(D)!PC /\ "acquired" \in Q(D)!PC /\ "spinning" \in Q(D)!PC
  BY DEF Q!PC
<1>k. Len(internal) + Len(admission) = tasksAvailable + A + S + W /\ S <= Len(admission)
  BY <1>0 DEF Q!TokensMatchElements, Q!SpinnersFindATask
<1>q. ASSUME Len(internal') + Len(admission') = tasksAvailable' + A' + S' + W',
             S' <= Len(admission')
      PROVE  Q(D)!TokensMatchElements' /\ Q(D)!SpinnersFindATask'
  BY <1>q DEF Q!TokensMatchElements, Q!SpinnersFindATask
<1>1. ASSUME NEW t \in Outsider, NEW task \in Task, Q(D)!WriteAdmission(t, task)
      PROVE  Q(D)!IInv'
  <2> DEFINE moved == [pc EXCEPT ![t] = "written"]
  <2>a. t \in Q(D)!Thread /\ pc[t] = "idle"
    BY <1>1 DEF Q!Thread, Q!WriteAdmission
  <2>b. pc' = moved
    BY <1>1 DEF Q!WriteAdmission
  <2>2. /\ Len(admission) < AdmissionCapacity
        /\ admission' = Append(admission, task)
        /\ internal' = internal
        /\ tasksAvailable' = tasksAvailable
    BY <1>1 DEF Q!WriteAdmission
  <2>3. Q(D)!Count(moved, "acquired") = A /\ Q(D)!Count(moved, "spinning") = S
    <3>1. \A c \in Q(D)!PC \ {pc[t], "written"} : Q(D)!Count(moved, c) = Q(D)!Count(pc, c)
      BY <2>a, <1>p, <1>s, Stay, ZenonT(30)
    <3>2. "acquired" \in Q(D)!PC \ {pc[t], "written"} /\ "spinning" \in Q(D)!PC \ {pc[t], "written"}
      BY <2>a, <1>s
    <3> QED
      BY <3>1, <3>2, Zenon
  <2>4. Q(D)!Count(moved, "written") = W + 1
    BY <2>a, <1>p, <1>s, Move, ZenonT(30)
  <2>5. A' = A /\ S' = S /\ W' = W + 1
    BY <2>b, <2>3, <2>4
  <2>c. admission' \in Seq(Task)
    BY <2>2, <1>0 DEF Q!TypeOK
  <2>6. /\ Len(internal') = Len(internal)
        /\ Len(admission') = Len(admission) + 1
        /\ tasksAvailable' = tasksAvailable
    BY <2>2, <1>0 DEF Q!TypeOK
  <2>7. Q(D)!TypeOK'
    BY <2>a, <2>b, <2>2, <2>c, <2>6, <1>0, <1>n DEF Q!TypeOK, Q!PC
  <2> HIDE DEF A, S, W
  <2>8. Q(D)!TokensMatchElements' /\ Q(D)!SpinnersFindATask'
    BY <2>5, <2>6, <1>k, <1>n, <1>q
  <2> QED
    BY <2>7, <2>8 DEF Q!IInv
<1>2. ASSUME NEW t \in Worker \cup D, NEW task \in Task, Q(D)!WriteInternal(t, task)
      PROVE  Q(D)!IInv'
  <2> DEFINE moved == [pc EXCEPT ![t] = "written"]
  <2>a. t \in Q(D)!Thread /\ pc[t] = "idle"
    BY <1>2 DEF Q!Thread, Q!WriteInternal
  <2>b. pc' = moved
    BY <1>2 DEF Q!WriteInternal
  <2>2. /\ internal' = Append(internal, task)
        /\ admission' = admission
        /\ tasksAvailable' = tasksAvailable
    BY <1>2 DEF Q!WriteInternal
  <2>3. Q(D)!Count(moved, "acquired") = A /\ Q(D)!Count(moved, "spinning") = S
    <3>1. \A c \in Q(D)!PC \ {pc[t], "written"} : Q(D)!Count(moved, c) = Q(D)!Count(pc, c)
      BY <2>a, <1>p, <1>s, Stay, ZenonT(30)
    <3>2. "acquired" \in Q(D)!PC \ {pc[t], "written"} /\ "spinning" \in Q(D)!PC \ {pc[t], "written"}
      BY <2>a, <1>s
    <3> QED
      BY <3>1, <3>2, Zenon
  <2>4. Q(D)!Count(moved, "written") = W + 1
    BY <2>a, <1>p, <1>s, Move, ZenonT(30)
  <2>5. A' = A /\ S' = S /\ W' = W + 1
    BY <2>b, <2>3, <2>4
  <2>c. internal' \in Seq(Task)
    BY <2>2, <1>0 DEF Q!TypeOK
  <2>6. /\ Len(internal') = Len(internal) + 1
        /\ Len(admission') = Len(admission)
        /\ tasksAvailable' = tasksAvailable
    BY <2>2, <1>0 DEF Q!TypeOK
  <2>7. Q(D)!TypeOK'
    BY <2>a, <2>b, <2>2, <2>c, <2>6, <1>0, <1>n DEF Q!TypeOK, Q!PC
  <2> HIDE DEF A, S, W
  <2>8. Q(D)!TokensMatchElements' /\ Q(D)!SpinnersFindATask'
    BY <2>5, <2>6, <1>k, <1>n, <1>q
  <2> QED
    BY <2>7, <2>8 DEF Q!IInv
<1>3. ASSUME NEW t \in Q(D)!Thread, Q(D)!Release(t)
      PROVE  Q(D)!IInv'
  <2> DEFINE moved == [pc EXCEPT ![t] = "idle"]
  <2>a. t \in Q(D)!Thread /\ pc[t] = "written"
    BY <1>3 DEF Q!Thread, Q!Release
  <2>b. pc' = moved
    BY <1>3 DEF Q!Release
  <2>2. /\ tasksAvailable' = tasksAvailable + 1
        /\ internal' = internal
        /\ admission' = admission
    BY <1>3 DEF Q!Release
  <2>3. Q(D)!Count(moved, "acquired") = A /\ Q(D)!Count(moved, "spinning") = S
    <3>1. \A c \in Q(D)!PC \ {pc[t], "idle"} : Q(D)!Count(moved, c) = Q(D)!Count(pc, c)
      BY <2>a, <1>p, <1>s, Stay, ZenonT(30)
    <3>2. "acquired" \in Q(D)!PC \ {pc[t], "idle"} /\ "spinning" \in Q(D)!PC \ {pc[t], "idle"}
      BY <2>a, <1>s
    <3> QED
      BY <3>1, <3>2, Zenon
  <2>4. Q(D)!Count(moved, "written") = W - 1
    BY <2>a, <1>p, <1>s, Move, ZenonT(30)
  <2>5. A' = A /\ S' = S /\ W' = W - 1
    BY <2>b, <2>3, <2>4
  <2>6. /\ Len(internal') = Len(internal)
        /\ Len(admission') = Len(admission)
        /\ tasksAvailable' = tasksAvailable + 1
    BY <2>2, <1>0 DEF Q!TypeOK
  <2>7. Q(D)!TypeOK'
    BY <2>a, <2>b, <2>2, <2>6, <1>0, <1>n DEF Q!TypeOK, Q!PC
  <2> HIDE DEF A, S, W
  <2>8. Q(D)!TokensMatchElements' /\ Q(D)!SpinnersFindATask'
    BY <2>5, <2>6, <1>k, <1>n, <1>q
  <2> QED
    BY <2>7, <2>8 DEF Q!IInv
<1>4. ASSUME NEW t \in Worker, Q(D)!Acquire(t)
      PROVE  Q(D)!IInv'
  <2> DEFINE moved == [pc EXCEPT ![t] = "acquired"]
  <2>a. t \in Q(D)!Thread /\ pc[t] = "idle"
    BY <1>4 DEF Q!Thread, Q!Acquire
  <2>b. pc' = moved
    BY <1>4 DEF Q!Acquire
  <2>2. /\ tasksAvailable > 0
        /\ tasksAvailable' = tasksAvailable - 1
        /\ internal' = internal
        /\ admission' = admission
    BY <1>4 DEF Q!Acquire
  <2>3. Q(D)!Count(moved, "spinning") = S /\ Q(D)!Count(moved, "written") = W
    <3>1. \A c \in Q(D)!PC \ {pc[t], "acquired"} : Q(D)!Count(moved, c) = Q(D)!Count(pc, c)
      BY <2>a, <1>p, <1>s, Stay, ZenonT(30)
    <3>2. "spinning" \in Q(D)!PC \ {pc[t], "acquired"} /\ "written" \in Q(D)!PC \ {pc[t], "acquired"}
      BY <2>a, <1>s
    <3> QED
      BY <3>1, <3>2, Zenon
  <2>4. Q(D)!Count(moved, "acquired") = A + 1
    BY <2>a, <1>p, <1>s, Move, ZenonT(30)
  <2>5. A' = A + 1 /\ S' = S /\ W' = W
    BY <2>b, <2>3, <2>4
  <2>6. /\ Len(internal') = Len(internal)
        /\ Len(admission') = Len(admission)
        /\ tasksAvailable' = tasksAvailable - 1
    BY <2>2, <1>0 DEF Q!TypeOK
  <2>7. Q(D)!TypeOK'
    BY <2>a, <2>b, <2>2, <2>6, <1>0, <1>n DEF Q!TypeOK, Q!PC
  <2> HIDE DEF A, S, W
  <2>8. Q(D)!TokensMatchElements' /\ Q(D)!SpinnersFindATask'
    BY <2>5, <2>6, <1>k, <1>n, <1>q
  <2> QED
    BY <2>7, <2>8 DEF Q!IInv
<1>5. ASSUME NEW t \in Worker, Q(D)!ReadInternal(t)
      PROVE  Q(D)!IInv'
  <2> DEFINE moved == [pc EXCEPT ![t] = "idle"]
  <2>a. t \in Q(D)!Thread /\ pc[t] = "acquired"
    BY <1>5 DEF Q!Thread, Q!ReadInternal
  <2>b. pc' = moved
    BY <1>5 DEF Q!ReadInternal
  <2>2. /\ internal # <<>>
        /\ internal' = Tail(internal)
        /\ admission' = admission
        /\ tasksAvailable' = tasksAvailable
    BY <1>5 DEF Q!ReadInternal
  <2>3. Q(D)!Count(moved, "spinning") = S /\ Q(D)!Count(moved, "written") = W
    <3>1. \A c \in Q(D)!PC \ {pc[t], "idle"} : Q(D)!Count(moved, c) = Q(D)!Count(pc, c)
      BY <2>a, <1>p, <1>s, Stay, ZenonT(30)
    <3>2. "spinning" \in Q(D)!PC \ {pc[t], "idle"} /\ "written" \in Q(D)!PC \ {pc[t], "idle"}
      BY <2>a, <1>s
    <3> QED
      BY <3>1, <3>2, Zenon
  <2>4. Q(D)!Count(moved, "acquired") = A - 1
    BY <2>a, <1>p, <1>s, Move, ZenonT(30)
  <2>5. A' = A - 1 /\ S' = S /\ W' = W
    BY <2>b, <2>3, <2>4
  <2>c. internal' \in Seq(Task)
    BY <2>2, <1>0 DEF Q!TypeOK
  <2>6. /\ Len(internal') = Len(internal) - 1
        /\ Len(admission') = Len(admission)
        /\ tasksAvailable' = tasksAvailable
    BY <2>2, <1>0 DEF Q!TypeOK
  <2>7. Q(D)!TypeOK'
    BY <2>a, <2>b, <2>2, <2>c, <2>6, <1>0, <1>n DEF Q!TypeOK, Q!PC
  <2> HIDE DEF A, S, W
  <2>8. Q(D)!TokensMatchElements' /\ Q(D)!SpinnersFindATask'
    BY <2>5, <2>6, <1>k, <1>n, <1>q
  <2> QED
    BY <2>7, <2>8 DEF Q!IInv
\* The reader's element is in the admission queue: the internal queue is
\* empty and TokensMatchElements counts this reader besides the spinning ones.
<1>6. ASSUME NEW t \in Worker, Q(D)!GiveUpOnInternal(t)
      PROVE  Q(D)!IInv'
  <2> DEFINE moved == [pc EXCEPT ![t] = "spinning"]
  <2>a. t \in Q(D)!Thread /\ pc[t] = "acquired"
    BY <1>6 DEF Q!Thread, Q!GiveUpOnInternal
  <2>b. pc' = moved
    BY <1>6 DEF Q!GiveUpOnInternal
  <2>2. /\ internal = <<>>
        /\ internal' = internal
        /\ admission' = admission
        /\ tasksAvailable' = tasksAvailable
    BY <1>6 DEF Q!GiveUpOnInternal
  <2>3. Q(D)!Count(moved, "written") = W
    <3>1. \A c \in Q(D)!PC \ {pc[t], "spinning"} : Q(D)!Count(moved, c) = Q(D)!Count(pc, c)
      BY <2>a, <1>p, <1>s, Stay, ZenonT(30)
    <3>2. "written" \in Q(D)!PC \ {pc[t], "spinning"}
      BY <2>a, <1>s
    <3> QED
      BY <3>1, <3>2, Zenon
  <2>4. Q(D)!Count(moved, "acquired") = A - 1 /\ Q(D)!Count(moved, "spinning") = S + 1 /\ A > 0
    BY <2>a, <1>p, <1>s, Move, ZenonT(30)
  <2>5. A' = A - 1 /\ S' = S + 1 /\ W' = W
    BY <2>b, <2>3, <2>4
  <2>c. Len(internal) = 0
    BY <2>2, <1>0 DEF Q!TypeOK
  <2>6. /\ Len(internal') = Len(internal)
        /\ Len(admission') = Len(admission)
        /\ tasksAvailable' = tasksAvailable
    BY <2>2, <1>0 DEF Q!TypeOK
  <2>7. Q(D)!TypeOK'
    BY <2>a, <2>b, <2>2, <2>6, <1>0, <1>n DEF Q!TypeOK, Q!PC
  <2>d. A > 0
    BY <2>4
  <2> HIDE DEF A, S, W
  <2>8. Q(D)!TokensMatchElements' /\ Q(D)!SpinnersFindATask'
    BY <2>c, <2>d, <2>5, <2>6, <1>k, <1>n, <1>q
  <2> QED
    BY <2>7, <2>8 DEF Q!IInv
<1>7. ASSUME NEW t \in Worker, Q(D)!ReadAdmission(t)
      PROVE  Q(D)!IInv'
  <2> DEFINE moved == [pc EXCEPT ![t] = "idle"]
  <2>a. t \in Q(D)!Thread /\ pc[t] = "spinning"
    BY <1>7 DEF Q!Thread, Q!ReadAdmission
  <2>b. pc' = moved
    BY <1>7 DEF Q!ReadAdmission
  <2>2. /\ admission # <<>>
        /\ admission' = Tail(admission)
        /\ internal' = internal
        /\ tasksAvailable' = tasksAvailable
    BY <1>7 DEF Q!ReadAdmission
  <2>3. Q(D)!Count(moved, "acquired") = A /\ Q(D)!Count(moved, "written") = W
    <3>1. \A c \in Q(D)!PC \ {pc[t], "idle"} : Q(D)!Count(moved, c) = Q(D)!Count(pc, c)
      BY <2>a, <1>p, <1>s, Stay, ZenonT(30)
    <3>2. "acquired" \in Q(D)!PC \ {pc[t], "idle"} /\ "written" \in Q(D)!PC \ {pc[t], "idle"}
      BY <2>a, <1>s
    <3> QED
      BY <3>1, <3>2, Zenon
  <2>4. Q(D)!Count(moved, "spinning") = S - 1
    BY <2>a, <1>p, <1>s, Move, ZenonT(30)
  <2>5. A' = A /\ S' = S - 1 /\ W' = W
    BY <2>b, <2>3, <2>4
  <2>c. admission' \in Seq(Task)
    BY <2>2, <1>0 DEF Q!TypeOK
  <2>6. /\ Len(internal') = Len(internal)
        /\ Len(admission') = Len(admission) - 1
        /\ tasksAvailable' = tasksAvailable
    BY <2>2, <1>0 DEF Q!TypeOK
  <2>7. Q(D)!TypeOK'
    BY <2>a, <2>b, <2>2, <2>c, <2>6, <1>0, <1>n DEF Q!TypeOK, Q!PC
  <2> HIDE DEF A, S, W
  <2>8. Q(D)!TokensMatchElements' /\ Q(D)!SpinnersFindATask'
    BY <2>5, <2>6, <1>k, <1>n, <1>q
  <2> QED
    BY <2>7, <2>8 DEF Q!IInv
<1>8. CASE UNCHANGED Q(D)!vars
  <2>1. internal' = internal /\ admission' = admission
        /\ tasksAvailable' = tasksAvailable /\ pc' = pc
    BY <1>8 DEF Q!vars
  <2> QED
    BY <2>1, <1>0 DEF Q!IInv, Q!TypeOK, Q!TokensMatchElements, Q!SpinnersFindATask
<1>9. CASE Q(D)!Next
  BY <1>9, <1>1, <1>2, <1>3, <1>4, <1>5, <1>6, <1>7, Zenon DEF Q!Next, Q!Read
<1> QED
  BY <1>8, <1>9, Zenon

-----------------------------------------------------------------------------

\* Every call on the queue, interleaved with any others, preserves the
\* invariant that the semaphore's promise rests on.
THEOREM QueueInvariance ==
  ASSUME NEW D, IsFiniteSet(Q(D)!Thread), AdmissionCapacity \in Nat \ {0}
  PROVE  Q(D)!Spec => []Q(D)!IInv
<1>1. Q(D)!Init => Q(D)!IInv
  BY QueueInit, Zenon
<1>2. Q(D)!IInv /\ [Q(D)!Next]_(Q(D)!vars) => Q(D)!IInv'
  BY QueueStays, Zenon
<1> QED
  BY <1>1, <1>2, PTL DEF Q!Spec

\* The queue's calls keep their types in every interleaving: the admission
\* queue never exceeds its capacity and only workers are inside a read.
THEOREM QueueTypeCorrect ==
  ASSUME NEW D, IsFiniteSet(Q(D)!Thread), AdmissionCapacity \in Nat \ {0}
  PROVE  Q(D)!Spec => []Q(D)!TypeOK
<1>1. Q(D)!IInv => Q(D)!TypeOK
  BY DEF Q!IInv
<1> QED
  BY <1>1, QueueInvariance, PTL

\* A reader that fell through to admission.read always has an element there,
\* whatever the other readers and writers do.
THEOREM SpinnersAlwaysFindATask ==
  ASSUME NEW D, IsFiniteSet(Q(D)!Thread), AdmissionCapacity \in Nat \ {0}
  PROVE  Q(D)!Spec => []Q(D)!SpinnersFindATask
<1>1. Q(D)!IInv => Q(D)!SpinnersFindATask
  BY DEF Q!IInv
<1> QED
  BY <1>1, QueueInvariance, PTL

\* Queued elements and semaphore tokens, counting those in transit, match.
THEOREM TokensAlwaysMatch ==
  ASSUME NEW D, IsFiniteSet(Q(D)!Thread), AdmissionCapacity \in Nat \ {0}
  PROVE  Q(D)!Spec => []Q(D)!TokensMatchElements
<1>1. Q(D)!IInv => Q(D)!TokensMatchElements
  BY DEF Q!IInv
<1> QED
  BY <1>1, QueueInvariance, PTL

\* The class invariant stated in TaskQueue.hpp:40.
THEOREM SemaphoreInvariantHolds ==
  ASSUME NEW D, IsFiniteSet(Q(D)!Thread), AdmissionCapacity \in Nat \ {0}
  PROVE  Q(D)!Spec => []Q(D)!SemaphoreInvariant
<1>1. Q(D)!IInv => Q(D)!SemaphoreInvariant
  <2> SUFFICES ASSUME Q(D)!IInv PROVE Q(D)!SemaphoreInvariant
    OBVIOUS
  <2>1. /\ Q(D)!Count(pc, "acquired") \in Nat
        /\ Q(D)!Count(pc, "spinning") \in Nat
        /\ Q(D)!Count(pc, "written") \in Nat
        /\ Len(internal) \in Nat /\ Len(admission) \in Nat /\ tasksAvailable \in Nat
    BY CountType DEF Q!IInv, Q!TypeOK
  <2> QED
    BY <2>1 DEF Q!IInv, Q!TokensMatchElements, Q!SemaphoreInvariant
<1> QED
  BY <1>1, QueueInvariance, PTL

-----------------------------------------------------------------------------
\* The pool's steps are steps of its queue, or leave it alone.
LEMMA QueueStep == TypeOK /\ [Next]_vars => [TQ!Next]_(TQ!vars)
<1> SUFFICES ASSUME TypeOK, [Next]_vars PROVE [TQ!Next]_(TQ!vars)
  BY Zenon
<1>h. hand \in [Worker \cup {Submitter} -> Task \cup {NoTask}]
  BY Zenon DEF TypeOK
<1>1. ASSUME NEW w \in Worker, WorkerStep(w) PROVE [TQ!Next]_(TQ!vars)
  <2>1. CASE ReleaseOther(w)
    BY <2>1, Zenon DEF ReleaseOther, TQ!Next, TQ!Thread
  <2>2. CASE Acquire(w) \/ TakeInternal(w) \/ MissInternal(w) \/ TakeAdmitted(w)
    BY <2>2, Zenon DEF Acquire, TakeInternal, MissInternal, TakeAdmitted, TQ!Next, TQ!Read
  <2>3. ASSUME NEW task \in Task, Emit(w, task) PROVE [TQ!Next]_(TQ!vars)
    BY <2>3, Zenon DEF Emit, TQ!Next
  <2>4. CASE RepeatNow(w)
    <3>1. hand[w] \in Task
      BY <2>4, <1>h, Zenon DEF RepeatNow, MayRepeat, Handling
    <3> QED
      BY <2>4, <3>1, Zenon DEF RepeatNow, TQ!Next
  <2>5. CASE UNCHANGED queueVars
    BY <2>5, Zenon DEF queueVars, TQ!vars
  <2> QED
    BY <1>1, <2>1, <2>2, <2>3, <2>4, <2>5, ZenonT(30)
    DEF WorkerStep, Complete, RepeatLater, LeaveLoop, EnterOnce, RequestJoin, Join,
        FailDelayed, ReturnFromOnce, BeginDrain, EndDrain
<1>2. ASSUME NEW o \in Outsider, OutsiderStep(o) PROVE [TQ!Next]_(TQ!vars)
  BY <1>2, Zenon DEF OutsiderStep, Submit, ReleaseOther, TQ!Next, TQ!Thread
<1>3. CASE SubmitterStep
  <2>1. ASSUME NEW task \in Task, TakeDue(task) PROVE [TQ!Next]_(TQ!vars)
    BY <2>1, Zenon DEF TakeDue, queueVars, TQ!vars
  <2>2. CASE SubmitDue
    <3>1. hand[Submitter] \in Task
      BY <2>2, <1>h, Zenon DEF SubmitDue
    <3> QED
      BY <2>2, <3>1, Zenon DEF SubmitDue, TQ!Next
  <2>3. CASE ReleaseOther(Submitter)
    BY <2>3, Zenon DEF ReleaseOther, TQ!Next, TQ!Thread
  <2> QED
    BY <1>3, <2>1, <2>2, <2>3, Zenon DEF SubmitterStep
<1>4. CASE TerminatorStep
  <2>1. CASE ReleaseOther(Terminator)
    BY <2>1, Zenon DEF ReleaseOther, TQ!Next, TQ!Thread
  <2>2. ASSUME NEW task \in Task, ClearEmit(task) PROVE [TQ!Next]_(TQ!vars)
    BY <2>2, Zenon DEF ClearEmit, TQ!Next
  <2>3. CASE UNCHANGED queueVars
    BY <2>3, Zenon DEF queueVars, TQ!vars
  <2> QED
    BY <1>4, <2>1, <2>2, <2>3, Zenon DEF TerminatorStep, BeginClear, EndClear, RequestStop
<1>5. CASE UNCHANGED vars
  BY <1>5, Zenon DEF vars, queueVars, TQ!vars
<1> QED
  BY <1>1, <1>2, <1>3, <1>4, <1>5, Zenon DEF Next, Terminated

-----------------------------------------------------------------------------
\* Counting the places of a task

\* One if the two are the same, else none.
One(x, y) == IF x = y THEN 1 ELSE 0

\* Where a value occurs.
Spots(f, x) == {i \in DOMAIN f : f[i] = x}

LEMMA OccurrencesAreNumbers ==
  ASSUME NEW f, NEW x, IsFiniteSet(DOMAIN f)
  PROVE  IsFiniteSet(Spots(f, x)) /\ Occurrences(f, x) \in Nat
<1>1. Spots(f, x) \subseteq DOMAIN f
  BY Zenon DEF Spots
<1>2. IsFiniteSet(Spots(f, x))
  BY <1>1, FS_Subset, Zenon
<1>3. Cardinality(Spots(f, x)) \in Nat
  BY <1>2, FS_CardinalityType, Zenon
<1> QED
  BY <1>2, <1>3, Zenon DEF Spots, Occurrences

LEMMA SequencesAreFinite ==
  ASSUME NEW S, NEW s \in Seq(S)
  PROVE  IsFiniteSet(DOMAIN s)
<1>1. DOMAIN s = 1 .. Len(s) /\ Len(s) \in Int /\ 1 \in Int
  OBVIOUS
<1>2. IsFiniteSet(1 .. Len(s))
  BY <1>1, FS_Interval, Zenon
<1> QED
  BY <1>1, <1>2, Zenon

LEMMA OccurrencesInEmpty ==
  ASSUME NEW x
  PROVE  Occurrences(<<>>, x) = 0
<1>1. {i \in DOMAIN <<>> : <<>>[i] = x} = {}
  OBVIOUS
<1> QED
  BY <1>1, FS_EmptySet, Zenon DEF Occurrences

LEMMA OccurrencesInAppend ==
  ASSUME NEW S, NEW s \in Seq(S), NEW y \in S, NEW x
  PROVE  Occurrences(Append(s, y), x) = Occurrences(s, x) + One(x, y)
<1> DEFINE s2 == Append(s, y)
<1> SUFFICES Occurrences(s2, x) = Occurrences(s, x) + One(x, y)
  BY Zenon
<1>f. IsFiniteSet(Spots(s, x)) /\ Occurrences(s, x) \in Nat
  BY SequencesAreFinite, OccurrencesAreNumbers, Zenon
<1>d. /\ DOMAIN s = 1 .. Len(s) /\ Len(s) \in Nat
      /\ DOMAIN s2 = 1 .. (Len(s) + 1)
      /\ \A i \in 1 .. Len(s) : s2[i] = s[i]
      /\ s2[Len(s) + 1] = y
  OBVIOUS
<1> HIDE DEF s2
<1>5. /\ Occurrences(s, x) = Cardinality(Spots(s, x))
      /\ Occurrences(s2, x) = Cardinality(Spots(s2, x))
  BY Zenon DEF Occurrences, Spots
<1>1. CASE x = y
  <2>1. Spots(s2, x) = Spots(s, x) \cup {Len(s) + 1} /\ Len(s) + 1 \notin Spots(s, x)
    BY <1>1, <1>d DEF Spots
  <2>2. Cardinality(Spots(s, x) \cup {Len(s) + 1}) = Cardinality(Spots(s, x)) + 1
    BY <2>1, <1>f, FS_AddElement, Zenon
  <2>3. Cardinality(Spots(s2, x)) = Cardinality(Spots(s, x)) + 1
    BY <2>1, <2>2, Zenon
  <2> QED
    BY <2>3, <1>1, <1>5, Zenon DEF One
<1>2. CASE x # y
  <2>1. Spots(s2, x) = Spots(s, x)
    BY <1>2, <1>d DEF Spots
  <2> QED
    BY <2>1, <1>2, <1>5, <1>f DEF One
<1> QED
  BY <1>1, <1>2, Zenon

LEMMA OccurrencesInTail ==
  ASSUME NEW S, NEW s \in Seq(S), s # <<>>, NEW x
  PROVE  Occurrences(Tail(s), x) = Occurrences(s, x) - One(x, Head(s))
<1> DEFINE s2 == Tail(s)
           Later == Spots(s, x) \ {1}
           shift == [i \in Spots(s2, x) |-> i + 1]
<1> SUFFICES Occurrences(s2, x) = Occurrences(s, x) - One(x, Head(s))
  BY Zenon
<1>f. IsFiniteSet(Spots(s, x)) /\ Occurrences(s, x) \in Nat
  BY SequencesAreFinite, OccurrencesAreNumbers, Zenon
<1>d. /\ DOMAIN s = 1 .. Len(s) /\ Len(s) \in Nat \ {0}
      /\ DOMAIN s2 = 1 .. (Len(s) - 1)
      /\ \A i \in 1 .. (Len(s) - 1) : s2[i] = s[i + 1]
      /\ Head(s) = s[1]
  OBVIOUS
<1>g. IsFiniteSet(Spots(s2, x))
  <2>1. s2 \in Seq(S)
    OBVIOUS
  <2> QED
    BY <2>1, SequencesAreFinite, OccurrencesAreNumbers, Zenon
<1> HIDE DEF s2
<1>1. shift \in Bijection(Spots(s2, x), Later)
  <2>1. shift \in [Spots(s2, x) -> Later]
    BY <1>d DEF Spots
  <2>2. \A i, j \in Spots(s2, x) : shift[i] = shift[j] => i = j
    BY <1>d DEF Spots
  <2>3. \A k \in Later : \E i \in Spots(s2, x) : shift[i] = k
    <3> SUFFICES ASSUME NEW k \in Later PROVE \E i \in Spots(s2, x) : shift[i] = k
      BY Zenon
    <3>1. k - 1 \in Spots(s2, x) /\ (k - 1) + 1 = k
      BY <1>d DEF Spots
    <3> QED
      BY <3>1, Zenon
  <2> HIDE DEF shift, Later
  <2> QED
    BY <2>1, <2>2, <2>3, Fun_IsBij, Zenon
<1>2. Cardinality(Later) = Cardinality(Spots(s2, x))
  BY <1>1, <1>g, FS_Bijection, Zenon DEF ExistsBijection
<1>3. Cardinality(Later) =
        IF 1 \in Spots(s, x) THEN Cardinality(Spots(s, x)) - 1 ELSE Cardinality(Spots(s, x))
  BY <1>f, FS_RemoveElement, Zenon
<1>4. 1 \in Spots(s, x) <=> x = Head(s)
  BY <1>d DEF Spots
<1>5. /\ Occurrences(s, x) = Cardinality(Spots(s, x))
      /\ Occurrences(s2, x) = Cardinality(Spots(s2, x))
  BY Zenon DEF Occurrences, Spots
<1> QED
  BY <1>2, <1>3, <1>4, <1>5, <1>f DEF One

\* Of what the members of D hold, d's changes to b.
Replaces(D, V, f, g, d, b) == f \in [D -> V] /\ d \in D /\ b \in V /\ g = [f EXCEPT ![d] = b]

LEMMA OccurrencesInExcept ==
  ASSUME NEW D, IsFiniteSet(D), NEW V, NEW f, NEW g, NEW d, NEW b, Replaces(D, V, f, g, d, b), NEW x
  PROVE  Occurrences(g, x) = Occurrences(f, x) - One(x, f[d]) + One(x, b)
<1>d. d \in D /\ DOMAIN f = D /\ DOMAIN g = D /\ g[d] = b /\ \A e \in D \ {d} : g[e] = f[e]
  BY Zenon DEF Replaces
<1>f. IsFiniteSet(Spots(f, x)) /\ Occurrences(f, x) \in Nat
  BY <1>d, OccurrencesAreNumbers, Zenon
<1>5. /\ Occurrences(f, x) = Cardinality(Spots(f, x))
      /\ Occurrences(g, x) = Cardinality(Spots(g, x))
  BY Zenon DEF Occurrences, Spots
<1>1. CASE x = f[d] /\ x # b
  <2>1. Spots(g, x) = Spots(f, x) \ {d} /\ d \in Spots(f, x)
    BY <1>1, <1>d DEF Spots
  <2>2. Cardinality(Spots(f, x) \ {d}) = Cardinality(Spots(f, x)) - 1
    BY <2>1, <1>f, FS_RemoveElement, Zenon
  <2>3. Cardinality(Spots(g, x)) = Cardinality(Spots(f, x)) - 1
    BY <2>1, <2>2, Zenon
  <2>4. One(x, f[d]) = 1 /\ One(x, b) = 0
    BY <1>1, Zenon DEF One
  <2> QED
    BY <2>3, <2>4, <1>5, <1>f
<1>2. CASE x # f[d] /\ x = b
  <2>1. Spots(g, x) = Spots(f, x) \cup {d} /\ d \notin Spots(f, x)
    BY <1>2, <1>d, Zenon DEF Spots
  <2>2. Cardinality(Spots(f, x) \cup {d}) = Cardinality(Spots(f, x)) + 1
    BY <2>1, <1>f, FS_AddElement, Zenon
  <2>3. Cardinality(Spots(g, x)) = Cardinality(Spots(f, x)) + 1
    BY <2>1, <2>2, Zenon
  <2>4. One(x, f[d]) = 0 /\ One(x, b) = 1
    BY <1>2, Zenon DEF One
  <2> QED
    BY <2>3, <2>4, <1>5, <1>f
<1>3. CASE x = f[d] <=> x = b
  <2>1. Spots(g, x) = Spots(f, x)
    BY <1>3, <1>d, Zenon DEF Spots
  <2> QED
    BY <2>1, <1>3, <1>5, <1>f DEF One
<1> QED
  BY <1>1, <1>2, <1>3, Zenon
\* A task in a thread's hand is counted there.
LEMMA HeldTasksOccur ==
  ASSUME NEW f, IsFiniteSet(DOMAIN f), NEW d \in DOMAIN f
  PROVE  Occurrences(f, f[d]) > 0
<1>1. IsFiniteSet(Spots(f, f[d])) /\ Occurrences(f, f[d]) \in Nat
  BY OccurrencesAreNumbers, Zenon
<1>2. d \in Spots(f, f[d])
  BY Zenon DEF Spots
<1>3. Cardinality(Spots(f, f[d])) # 0
  BY <1>1, <1>2, FS_EmptySet, Zenon
<1>4. Occurrences(f, f[d]) = Cardinality(Spots(f, f[d]))
  BY Zenon DEF Occurrences, Spots
<1> QED
  BY <1>1, <1>3, <1>4

-----------------------------------------------------------------------------
\* The steps preserve the invariant

\* What the types say of the threads' positions.
LEMMA PositionType ==
  TQ!TypeOK => pc \in [Outsider \cup Worker \cup {Submitter, Terminator} ->
                       {"idle", "written", "acquired", "spinning"}]
  BY Zenon DEF TQ!TypeOK, TQ!Thread, TQ!PC

LEMMA CallsStayInOrder ==
  TypeOK /\ CallsInOrder /\ [Next]_vars => CallsInOrder'
<1> SUFFICES ASSUME TypeOK, CallsInOrder, [Next]_vars PROVE CallsInOrder'
  BY Zenon
<1> USE ThreadsDiffer, PositionType DEF TypeOK, CallsInOrder, poolVars, delayVars, queueVars
<1>1. ASSUME NEW w \in Worker, WorkerStep(w) PROVE CallsInOrder'
  <2>1. CASE ReleaseOther(w) \/ Acquire(w) \/ MissInternal(w)
    BY <2>1, Zenon DEF ReleaseOther, TQ!Release, Acquire, TQ!Acquire, Reading,
                MissInternal, TQ!GiveUpOnInternal
  <2>2. CASE TakeInternal(w) \/ TakeAdmitted(w)
    BY <2>2, SMTT(30) DEF TakeInternal, TQ!ReadInternal, TakeAdmitted, TQ!ReadAdmission
  <2>3. CASE Complete(w) \/ RepeatNow(w) \/ RepeatLater(w)
    BY <2>3, ZenonT(30) DEF Complete, Handling, RepeatNow, MayRepeat, TQ!WriteInternal, RepeatLater
  <2>4. ASSUME NEW task \in Task, Emit(w, task) PROVE CallsInOrder'
    BY <2>4, Zenon DEF Emit, Handling, TQ!WriteInternal
  <2>5. CASE LeaveLoop(w) \/ EnterOnce(w) \/ RequestJoin(w) \/ Join(w)
    BY <2>5, ZenonT(30) DEF LeaveLoop, Reading, EnterOnce, RequestJoin, Join
  <2>6. ASSUME NEW task \in Task, FailDelayed(w, task) PROVE CallsInOrder'
    BY <2>6, Zenon DEF FailDelayed
  <2>7. CASE ReturnFromOnce(w) \/ BeginDrain(w) \/ EndDrain(w)
    BY <2>7, ZenonT(30) DEF ReturnFromOnce, BeginDrain, EndDrain, Reading
  <2> HIDE DEF TypeOK, CallsInOrder
  <2> QED
    BY <1>1, <2>1, <2>2, <2>3, <2>4, <2>5, <2>6, <2>7, ZenonT(30) DEF WorkerStep
<1>2. ASSUME NEW o \in Outsider, OutsiderStep(o) PROVE CallsInOrder'
  BY <1>2, ZenonT(30) DEF OutsiderStep, Submit, TQ!WriteAdmission, ReleaseOther, TQ!Release
<1>3. CASE SubmitterStep
  BY <1>3, Zenon DEF SubmitterStep, TakeDue, SubmitDue, TQ!WriteInternal, ReleaseOther, TQ!Release
<1>4. CASE TerminatorStep
  BY <1>4, ZenonT(30) DEF TerminatorStep, BeginClear, EndClear, ClearEmit, RequestStop,
              TQ!WriteInternal, ReleaseOther, TQ!Release
<1>5. CASE UNCHANGED vars
  BY <1>5, ZenonT(30) DEF vars
<1> HIDE DEF TypeOK, CallsInOrder
<1> QED
  BY <1>1, <1>2, <1>3, <1>4, <1>5, Zenon DEF Next, Terminated
LEMMA OnceStaysExclusive ==
  TypeOK /\ OnceIsExclusive /\ [Next]_vars => OnceIsExclusive'
<1> SUFFICES ASSUME TypeOK, OnceIsExclusive, [Next]_vars PROVE OnceIsExclusive'
  BY Zenon
<1> USE ThreadsDiffer, PositionType DEF TypeOK, OnceIsExclusive, poolVars, delayVars, queueVars
<1>1. ASSUME NEW w \in Worker, WorkerStep(w) PROVE OnceIsExclusive'
  <2>1. CASE ReleaseOther(w) \/ Acquire(w) \/ MissInternal(w)
    BY <2>1 DEF ReleaseOther, TQ!Release, Acquire, TQ!Acquire, Reading,
                MissInternal, TQ!GiveUpOnInternal
  <2>2. CASE TakeInternal(w) \/ TakeAdmitted(w)
    BY <2>2 DEF TakeInternal, TQ!ReadInternal, TakeAdmitted, TQ!ReadAdmission
  <2>3. CASE Complete(w) \/ RepeatNow(w) \/ RepeatLater(w)
    BY <2>3 DEF Complete, Handling, RepeatNow, MayRepeat, TQ!WriteInternal, RepeatLater
  <2>4. ASSUME NEW task \in Task, Emit(w, task) PROVE OnceIsExclusive'
    BY <2>4, Zenon DEF Emit, Handling, TQ!WriteInternal
  <2>5. CASE LeaveLoop(w) \/ EnterOnce(w) \/ RequestJoin(w) \/ Join(w)
    BY <2>5 DEF LeaveLoop, Reading, EnterOnce, RequestJoin, Join
  <2>6. ASSUME NEW task \in Task, FailDelayed(w, task) PROVE OnceIsExclusive'
    BY <2>6, Zenon DEF FailDelayed
  <2>7. CASE ReturnFromOnce(w) \/ BeginDrain(w) \/ EndDrain(w)
    BY <2>7 DEF ReturnFromOnce, BeginDrain, EndDrain, Reading
  <2> HIDE DEF TypeOK, OnceIsExclusive
  <2> QED
    BY <1>1, <2>1, <2>2, <2>3, <2>4, <2>5, <2>6, <2>7, Zenon DEF WorkerStep
<1>2. ASSUME NEW o \in Outsider, OutsiderStep(o) PROVE OnceIsExclusive'
  BY <1>2 DEF OutsiderStep, Submit, TQ!WriteAdmission, ReleaseOther, TQ!Release
<1>3. CASE SubmitterStep
  BY <1>3 DEF SubmitterStep, TakeDue, SubmitDue, TQ!WriteInternal, ReleaseOther, TQ!Release
<1>4. CASE TerminatorStep
  BY <1>4 DEF TerminatorStep, BeginClear, EndClear, ClearEmit, RequestStop,
              TQ!WriteInternal, ReleaseOther, TQ!Release
<1>5. CASE UNCHANGED vars
  BY <1>5, ZenonT(30) DEF vars
<1> HIDE DEF TypeOK, OnceIsExclusive
<1> QED
  BY <1>1, <1>2, <1>3, <1>4, <1>5, Zenon DEF Next, Terminated

LEMMA StopStaysOrderly ==
  TypeOK /\ StopIsOrderly /\ [Next]_vars => StopIsOrderly'
<1> SUFFICES ASSUME TypeOK, StopIsOrderly, [Next]_vars PROVE StopIsOrderly'
  BY Zenon
<1> USE ThreadsDiffer, PositionType DEF TypeOK, StopIsOrderly, poolVars, delayVars, queueVars
<1>1. ASSUME NEW w \in Worker, WorkerStep(w) PROVE StopIsOrderly'
  <2>1. CASE ReleaseOther(w) \/ Acquire(w) \/ MissInternal(w)
    BY <2>1, ZenonT(30) DEF ReleaseOther, TQ!Release, Acquire, TQ!Acquire, Reading,
                MissInternal, TQ!GiveUpOnInternal
  <2>2. CASE TakeInternal(w) \/ TakeAdmitted(w)
    BY <2>2, Zenon DEF TakeInternal, TQ!ReadInternal, TakeAdmitted, TQ!ReadAdmission
  <2>3. CASE Complete(w) \/ RepeatNow(w) \/ RepeatLater(w)
    BY <2>3 DEF Complete, Handling, RepeatNow, MayRepeat, TQ!WriteInternal, RepeatLater
  <2>4. ASSUME NEW task \in Task, Emit(w, task) PROVE StopIsOrderly'
    BY <2>4, Zenon DEF Emit, Handling, TQ!WriteInternal
  <2>5. CASE LeaveLoop(w) \/ EnterOnce(w) \/ RequestJoin(w) \/ Join(w)
    BY <2>5, Zenon DEF LeaveLoop, Reading, EnterOnce, RequestJoin, Join
  <2>6. ASSUME NEW task \in Task, FailDelayed(w, task) PROVE StopIsOrderly'
    BY <2>6, Zenon DEF FailDelayed
  <2>7. CASE ReturnFromOnce(w) \/ BeginDrain(w) \/ EndDrain(w)
    BY <2>7, Zenon DEF ReturnFromOnce, BeginDrain, EndDrain, Reading
  <2> HIDE DEF TypeOK, StopIsOrderly
  <2> QED
    BY <1>1, <2>1, <2>2, <2>3, <2>4, <2>5, <2>6, <2>7, Zenon DEF WorkerStep
<1>2. ASSUME NEW o \in Outsider, OutsiderStep(o) PROVE StopIsOrderly'
  BY <1>2, Zenon DEF OutsiderStep, Submit, TQ!WriteAdmission, ReleaseOther, TQ!Release
<1>3. CASE SubmitterStep
  BY <1>3, SMTT(30)
    DEF SubmitterStep, TakeDue, SubmitDue, TQ!WriteInternal, ReleaseOther, TQ!Release
<1>4. CASE TerminatorStep
  BY <1>4, Zenon DEF TerminatorStep, BeginClear, EndClear, ClearEmit, RequestStop,
              TQ!WriteInternal, ReleaseOther, TQ!Release
<1>5. CASE UNCHANGED vars
  BY <1>5, Zenon DEF vars
<1> HIDE DEF TypeOK, StopIsOrderly
<1> QED
  BY <1>1, <1>2, <1>3, <1>4, <1>5, Zenon DEF Next, Terminated

LEMMA StaysDrained ==
  TypeOK /\ CallsInOrder /\ OnceIsExclusive /\ StopIsOrderly /\ Drained /\ [Next]_vars => Drained'
<1> SUFFICES ASSUME TypeOK, CallsInOrder, OnceIsExclusive, StopIsOrderly, Drained, [Next]_vars PROVE Drained'
  BY Zenon
<1> USE PoolIsFinite, ThreadsDiffer, PositionType
    DEF TypeOK, CallsInOrder, OnceIsExclusive, StopIsOrderly, Drained, poolVars, delayVars, queueVars
<1>1. ASSUME NEW w \in Worker, WorkerStep(w) PROVE Drained'
  <2>1. CASE ReleaseOther(w) \/ Acquire(w) \/ MissInternal(w)
    BY <2>1, Zenon DEF ReleaseOther, TQ!Release, Acquire, TQ!Acquire, Reading,
                MissInternal, TQ!GiveUpOnInternal
  <2>2. CASE TakeInternal(w) \/ TakeAdmitted(w)
    BY <2>2, Zenon DEF TakeInternal, TQ!ReadInternal, TakeAdmitted, TQ!ReadAdmission
  <2>3. CASE Complete(w) \/ RepeatNow(w) \/ RepeatLater(w)
    BY <2>3, Zenon DEF Complete, Handling, RepeatNow, MayRepeat, TQ!WriteInternal, RepeatLater
  <2>4. ASSUME NEW task \in Task, Emit(w, task) PROVE Drained'
    BY <2>4, Zenon DEF Emit, Handling, TQ!WriteInternal
  <2>5. CASE LeaveLoop(w) \/ EnterOnce(w) \/ RequestJoin(w) \/ Join(w)
    BY <2>5, SMTT(30) DEF LeaveLoop, Reading, EnterOnce, RequestJoin, Join
  <2>6. ASSUME NEW task \in Task, FailDelayed(w, task) PROVE Drained'
    BY <2>6, Zenon DEF FailDelayed
  <2>7. CASE ReturnFromOnce(w) \/ BeginDrain(w) \/ EndDrain(w)
    BY <2>7, Zenon DEF ReturnFromOnce, BeginDrain, EndDrain, Reading
  <2> HIDE DEF TypeOK, CallsInOrder, OnceIsExclusive, StopIsOrderly, Drained
  <2> QED
    BY <1>1, <2>1, <2>2, <2>3, <2>4, <2>5, <2>6, <2>7, ZenonT(30) DEF WorkerStep
<1>2. ASSUME NEW o \in Outsider, OutsiderStep(o) PROVE Drained'
  BY <1>2, Zenon DEF OutsiderStep, Submit, TQ!WriteAdmission, ReleaseOther, TQ!Release
<1>3. CASE SubmitterStep
  BY <1>3, ZenonT(30) DEF SubmitterStep, TakeDue, SubmitDue, TQ!WriteInternal, ReleaseOther, TQ!Release
<1>4. CASE TerminatorStep
  BY <1>4, Zenon DEF TerminatorStep, BeginClear, EndClear, ClearEmit, RequestStop,
              TQ!WriteInternal, ReleaseOther, TQ!Release
<1>5. CASE UNCHANGED vars
  BY <1>5, Zenon DEF vars
<1> HIDE DEF TypeOK, CallsInOrder, OnceIsExclusive, StopIsOrderly, Drained
<1> QED
  BY <1>1, <1>2, <1>3, <1>4, <1>5, Zenon DEF Next, Terminated
\* Every step moves a task from one place to another, or puts a new task
\* into one place.
LEMMA TasksKeepTheirPlaces ==
  TypeOK /\ CallsInOrder /\ OnceIsExclusive /\ EveryTaskHasItsPlace /\ [Next]_vars
    => EveryTaskHasItsPlace'
<1> SUFFICES ASSUME TypeOK, CallsInOrder, OnceIsExclusive, EveryTaskHasItsPlace, [Next]_vars,
                    NEW x \in Task
             PROVE  Places(x)' = IF x \in created' THEN 1 ELSE 0
  BY Zenon DEF EveryTaskHasItsPlace
<1> DEFINE I == Occurrences(internal, x)
           A == Occurrences(admission, x)
           H == Occurrences(hand, x)
           D == IF x \in delayed THEN 1 ELSE 0
           C == completed[x]
           Kept == Places(x)' = IF x \in created' THEN 1 ELSE 0
<1>s. internal \in Seq(Task) /\ admission \in Seq(Task)
  BY Zenon DEF TypeOK, TQ!TypeOK
<1>h. hand \in [Worker \cup {Submitter} -> Task \cup {NoTask}] /\ x # NoTask
  BY NoTaskIsNoTask, Zenon DEF TypeOK
<1>f. IsFiniteSet(Worker \cup {Submitter})
  BY PoolIsFinite, FS_AddElement, Zenon
<1>n. I \in Nat /\ A \in Nat /\ H \in Nat /\ D \in {0, 1} /\ C \in Nat
  <2>1. I \in Nat /\ A \in Nat
    BY <1>s, SequencesAreFinite, OccurrencesAreNumbers, Zenon
  <2>2. H \in Nat
    BY <1>h, <1>f, OccurrencesAreNumbers, Zenon
  <2> QED
    BY <2>1, <2>2, Zenon DEF TypeOK
<1>p. I + A + H + D + C = IF x \in created THEN 1 ELSE 0
  BY Zenon DEF EveryTaskHasItsPlace, Places
<1>q. Places(x)' = I' + A' + H' + D' + C'
  BY Zenon DEF Places
<1>1. ASSUME NEW y \in Task, internal' = Append(internal, y) PROVE I' = I + One(x, y)
  BY <1>1, <1>s, OccurrencesInAppend, ZenonT(30)
<1>2. ASSUME NEW y \in Task, admission' = Append(admission, y) PROVE A' = A + One(x, y)
  BY <1>2, <1>s, OccurrencesInAppend, Zenon
<1>3. ASSUME internal # <<>>, internal' = Tail(internal) PROVE I' = I - One(x, Head(internal))
  BY <1>3, <1>s, OccurrencesInTail, ZenonT(30)
<1>4. ASSUME admission # <<>>, admission' = Tail(admission) PROVE A' = A - One(x, Head(admission))
  BY <1>4, <1>s, OccurrencesInTail, Zenon
<1>5. ASSUME NEW t \in Worker \cup {Submitter}, NEW y \in Task \cup {NoTask},
             hand' = [hand EXCEPT ![t] = y]
      PROVE  H' = H - One(x, hand[t]) + One(x, y)
  <2>1. Replaces(Worker \cup {Submitter}, Task \cup {NoTask}, hand, hand', t, y)
    BY <1>5, <1>h, Zenon DEF Replaces
  <2> QED
    BY <2>1, <1>f, OccurrencesInExcept
<1>6. One(x, NoTask) = 0
  BY <1>h, Zenon DEF One
<1>7. /\ internal' = internal => I' = I
      /\ admission' = admission => A' = A
      /\ hand' = hand => H' = H
      /\ delayed' = delayed => D' = D
      /\ completed' = completed => C' = C
  BY Zenon
<1> HIDE DEF I, A, H, D, C
\* Nothing that holds tasks changes.
<1>8. ASSUME UNCHANGED <<internal, admission, hand, delayed, completed, created>> PROVE Kept
  BY <1>8, <1>7, <1>p, <1>q, Zenon
\* A new task enters one of the queues.
<1>9. ASSUME NEW y \in Task, y \notin created, created' = created \cup {y},
             UNCHANGED <<hand, delayed, completed>>,
             \/ internal' = Append(internal, y) /\ admission' = admission
             \/ admission' = Append(admission, y) /\ internal' = internal
      PROVE  Kept
  <2>1. I' + A' = I + A + One(x, y)
    <3>1. CASE internal' = Append(internal, y) /\ admission' = admission
      BY <3>1, <1>1, <1>7, <1>n, SMTT(30) DEF One
    <3>2. CASE admission' = Append(admission, y) /\ internal' = internal
      BY <3>2, <1>2, <1>7, <1>n, SMTT(30) DEF One
    <3> QED
      BY <1>9, <3>1, <3>2, ZenonT(30)
  <2>2. H' = H /\ D' = D /\ C' = C
    BY <1>9, <1>7, Zenon
  <2>3. I' + A' \in Int
    BY <2>1, <1>n DEF One
  <2>4. Places(x)' = (I' + A') + H + D + C
    BY <1>q, <2>2, Zenon
  <2>5. Places(x)' = I + A + H + D + C + One(x, y)
    BY <2>1, <2>4, <1>n, SMTT(30) DEF One
  <2> QED
    BY <2>5, <1>9, <1>p, <1>n, SMTT(30) DEF One
\* A thread takes a task out of the delayed queue into its empty hand.
<1>d. ASSUME NEW t \in Worker \cup {Submitter}, NEW y \in Task, y \in delayed, hand[t] = NoTask,
             delayed' = delayed \ {y}, hand' = [hand EXCEPT ![t] = y],
             UNCHANGED <<internal, admission, completed, created>>
      PROVE  Kept
  <2>a. H' = H - One(x, NoTask) + One(x, y)
    BY <1>d, <1>5, Zenon
  <2>1. H' = H + One(x, y)
    BY <2>a, <1>6, <1>n DEF One
  <2>2. D' = D - One(x, y)
    BY <1>d DEF D, One
  <2>3. I' = I /\ A' = A /\ C' = C
    BY <1>d, <1>7, Zenon
  <2> QED
    BY <2>1, <2>2, <2>3, <1>d, <1>n, <1>p, <1>q, SMTT(30) DEF One
<1>w. ASSUME NEW w \in Worker, WorkerStep(w) PROVE Kept
  <2>w. w \in Worker \cup {Submitter} /\ NoTask \in Task \cup {NoTask}
    BY Zenon
  <2>1. CASE ReleaseOther(w) \/ Acquire(w) \/ MissInternal(w)
    BY <2>1, <1>8, Zenon DEF ReleaseOther, TQ!Release, Acquire, TQ!Acquire, MissInternal,
                      TQ!GiveUpOnInternal, delayVars
  <2>2. CASE TakeInternal(w)
    <3>1. /\ hand[w] = NoTask /\ hand' = [hand EXCEPT ![w] = Head(internal)]
          /\ Head(internal) \in Task
      BY <2>2, <1>s, SMTT(30) DEF TakeInternal, TQ!ReadInternal, CallsInOrder
    <3>a. H' = H - One(x, NoTask) + One(x, Head(internal))
      BY <3>1, <2>w, <1>5, Zenon
    <3>2. H' = H + One(x, Head(internal))
      BY <3>a, <1>6, <1>n DEF One
    <3>3. I' = I - One(x, Head(internal)) /\ A' = A /\ D' = D /\ C' = C /\ created' = created
      BY <2>2, <1>3, <1>7, Zenon DEF TakeInternal, TQ!ReadInternal, delayVars
    <3> QED
      BY <3>2, <3>3, <1>n, <1>p, <1>q, SMTT(30) DEF One
  <2>3. CASE TakeAdmitted(w)
    <3>1. /\ hand[w] = NoTask /\ hand' = [hand EXCEPT ![w] = Head(admission)]
          /\ Head(admission) \in Task
      BY <2>3, <1>s, SMTT(30) DEF TakeAdmitted, TQ!ReadAdmission, CallsInOrder
    <3>a. H' = H - One(x, NoTask) + One(x, Head(admission))
      BY <3>1, <2>w, <1>5, Zenon
    <3>2. H' = H + One(x, Head(admission))
      BY <3>a, <1>6, <1>n DEF One
    <3>3. A' = A - One(x, Head(admission)) /\ I' = I /\ D' = D /\ C' = C /\ created' = created
      BY <2>3, <1>4, <1>7, Zenon DEF TakeAdmitted, TQ!ReadAdmission, delayVars
    <3> QED
      BY <3>2, <3>3, <1>n, <1>p, <1>q, SMTT(30) DEF One
  \* The three ends of a task in a worker's hand
  <2>4. CASE Complete(w) \/ RepeatNow(w) \/ RepeatLater(w)
    <3>1. hand[w] \in Task /\ hand' = [hand EXCEPT ![w] = NoTask] /\ created' = created
      BY <2>4, <1>h, Zenon DEF Complete, RepeatNow, RepeatLater, MayRepeat, Handling
    <3>a. H' = H - One(x, hand[w]) + One(x, NoTask)
      BY <3>1, <2>w, <1>5, Zenon
    <3>2. H' = H - One(x, hand[w])
      BY <3>a, <1>6, <1>n DEF One
    <3>3. ASSUME completed' = [completed EXCEPT ![hand[w]] = @ + 1] PROVE C' = C + One(x, hand[w])
      BY <3>3, <3>1, <1>n DEF C, One, TypeOK
    <3>4. CASE /\ completed' = [completed EXCEPT ![hand[w]] = @ + 1]
               /\ UNCHANGED <<internal, admission, delayed>>
      BY <3>4, <3>1, <3>2, <3>3, <1>7, <1>n, <1>p, <1>q, SMTT(30) DEF One
    <3>5. CASE RepeatNow(w)
      <4>1. I' = I + One(x, hand[w]) /\ A' = A /\ D' = D /\ C' = C
        BY <3>5, <3>1, <1>1, <1>7, ZenonT(30) DEF RepeatNow, TQ!WriteInternal, delayVars
      <4> QED
        BY <4>1, <3>1, <3>2, <1>n, <1>p, <1>q, SMTT(30) DEF One
    <3>6. CASE RepeatLater(w) /\ acceptingTasks
      <4>1. I' = I /\ A' = A /\ C' = C /\ delayed' = delayed \cup {hand[w]}
        BY <3>6, <1>7, Zenon DEF RepeatLater, queueVars
      <4>2. x = hand[w] => H > 0
        BY <1>h, <1>f, <2>w, HeldTasksOccur, Zenon DEF H
      <4>3. D' = D + One(x, hand[w])
        BY <4>1, <4>2, <1>n, <1>p, SMTT(30) DEF D, One
      <4> QED
        BY <4>1, <4>3, <3>1, <3>2, <1>n, <1>p, <1>q, SMTT(30) DEF One
    <3> QED
      BY <2>4, <3>4, <3>5, <3>6, ZenonT(30) DEF Complete, RepeatLater, queueVars, delayVars
  <2>5. ASSUME NEW task \in Task, Emit(w, task) PROVE Kept
    BY <2>5, <1>9, Zenon DEF Emit, TQ!WriteInternal, delayVars
  <2>6. CASE LeaveLoop(w) \/ EnterOnce(w) \/ RequestJoin(w) \/ Join(w) \/ ReturnFromOnce(w)
               \/ BeginDrain(w) \/ EndDrain(w)
    BY <2>6, <1>8, Zenon
      DEF LeaveLoop, EnterOnce, RequestJoin, Join, ReturnFromOnce, BeginDrain,
                      EndDrain, queueVars, delayVars
  <2>7. ASSUME NEW task \in Task, FailDelayed(w, task) PROVE Kept
    BY <2>7, <2>w, <1>d, Zenon DEF FailDelayed, queueVars
  <2> QED
    BY <1>w, <2>1, <2>2, <2>3, <2>4, <2>5, <2>6, <2>7, ZenonT(30) DEF WorkerStep
<1>o. ASSUME NEW o \in Outsider, OutsiderStep(o) PROVE Kept
  <2>1. ASSUME NEW task \in Task, Submit(o, task) PROVE Kept
    BY <2>1, <1>9, Zenon DEF Submit, TQ!WriteAdmission, delayVars
  <2>2. CASE ReleaseOther(o)
    BY <2>2, <1>8, Zenon DEF ReleaseOther, TQ!Release, delayVars
  <2> QED
    BY <1>o, <2>1, <2>2, ZenonT(30) DEF OutsiderStep
<1>u. CASE SubmitterStep
  <2>w. Submitter \in Worker \cup {Submitter} /\ NoTask \in Task \cup {NoTask}
    BY Zenon
  <2>1. ASSUME NEW task \in Task, TakeDue(task) PROVE Kept
    BY <2>1, <2>w, <1>d, ZenonT(30) DEF TakeDue, queueVars
  <2>2. CASE SubmitDue
    <3>1. hand[Submitter] \in Task /\ hand' = [hand EXCEPT ![Submitter] = NoTask]
      BY <2>2, <1>h, Zenon DEF SubmitDue
    <3>a. H' = H - One(x, hand[Submitter]) + One(x, NoTask)
      BY <3>1, <2>w, <1>5, Zenon
    <3>2. H' = H - One(x, hand[Submitter])
      BY <3>a, <1>6, <1>n, SMTT(30) DEF One
    <3>3. I' = I + One(x, hand[Submitter]) /\ A' = A /\ D' = D /\ C' = C /\ created' = created
      BY <2>2, <3>1, <1>1, <1>7, Zenon DEF SubmitDue, TQ!WriteInternal, delayVars
    <3> QED
      BY <3>2, <3>3, <1>n, <1>p, <1>q, SMTT(30) DEF One
  <2>3. CASE ReleaseOther(Submitter)
    BY <2>3, <1>8, Zenon DEF ReleaseOther, TQ!Release, delayVars
  <2> QED
    BY <1>u, <2>1, <2>2, <2>3, ZenonT(30) DEF SubmitterStep
<1>t. CASE TerminatorStep
  <2>1. ASSUME NEW task \in Task, ClearEmit(task) PROVE Kept
    BY <2>1, <1>9, Zenon DEF ClearEmit, TQ!WriteInternal, delayVars
  <2>2. CASE BeginClear \/ EndClear \/ ReleaseOther(Terminator) \/ \E w \in Worker : RequestStop(w)
    BY <2>2, <1>8, Zenon DEF BeginClear, EndClear, ReleaseOther, TQ!Release, RequestStop,
                      queueVars, delayVars
  <2> QED
    BY <1>t, <2>1, <2>2, Zenon DEF TerminatorStep
<1>v. CASE UNCHANGED vars
  BY <1>v, <1>8, Zenon DEF vars, queueVars, delayVars
<1> QED
  BY <1>w, <1>o, <1>u, <1>t, <1>v, ZenonT(30) DEF Next, Terminated
\* The types, given that the queue keeps its own.
LEMMA TypesStay ==
  TypeOK /\ CallsInOrder /\ TQ!TypeOK' /\ [Next]_vars => TypeOK'
<1> SUFFICES ASSUME TypeOK, CallsInOrder, TQ!TypeOK', [Next]_vars PROVE TypeOK'
  BY Zenon
<1> USE ThreadsDiffer, NoTaskIsNoTask, LimitsAreNumbers
    DEF TypeOK, OnceStep, poolVars, delayVars
<1>1. ASSUME NEW w \in Worker, WorkerStep(w) PROVE TypeOK'
  <2>1. CASE ReleaseOther(w) \/ Acquire(w) \/ MissInternal(w)
    BY <2>1, Zenon DEF ReleaseOther, Acquire, MissInternal
  <2>2. CASE TakeInternal(w)
    <3>1. Head(internal) \in Task /\ stage[w] \in {"loop", "drain"}
      BY <2>2, SMTT(30) DEF TakeInternal, TQ!ReadInternal, TQ!TypeOK, CallsInOrder
    <3> QED
      BY <2>2, <3>1, Zenon DEF TakeInternal
  <2>3. CASE TakeAdmitted(w)
    <3>1. Head(admission) \in Task /\ stage[w] \in {"loop", "drain"}
      BY <2>3, SMTT(30) DEF TakeAdmitted, TQ!ReadAdmission, TQ!TypeOK, CallsInOrder
    <3> QED
      BY <2>3, <3>1, Zenon DEF TakeAdmitted
  <2>4. CASE Complete(w) \/ RepeatNow(w) \/ RepeatLater(w)
    <3>1. hand[w] \in Task
      BY <2>4, Zenon DEF Complete, Handling, RepeatNow, MayRepeat, RepeatLater
    <3>2. hand' = [hand EXCEPT ![w] = NoTask]
      BY <2>4, Zenon DEF Complete, RepeatNow, RepeatLater
    <3>3. repeats' \in [Task -> 0..MaxRepeats]
      <4>1. CASE Complete(w)
        BY <4>1, Zenon DEF Complete
      <4>2. ASSUME repeats[hand[w]] < MaxRepeats, repeats' = [repeats EXCEPT ![hand[w]] = @ + 1]
            PROVE  repeats' \in [Task -> 0..MaxRepeats]
        BY <4>2, <3>1, SMTT(30)
      <4> QED
        BY <2>4, <4>1, <4>2, Zenon DEF RepeatNow, MayRepeat, RepeatLater
    <3>4. completed' \in [Task -> Nat] /\ delayed' \subseteq Task
      BY <2>4, <3>1, SMTT(30) DEF Complete, RepeatNow, RepeatLater
    <3>5. UNCHANGED <<stage, stopRequested, engine, acceptingTasks, once, created>>
      BY <2>4, Zenon DEF Complete, RepeatNow, RepeatLater
    <3> QED
      BY <3>2, <3>3, <3>4, <3>5, Zenon
  <2>5. ASSUME NEW task \in Task, Emit(w, task) PROVE TypeOK'
    BY <2>5, Zenon DEF Emit
  <2>6. CASE LeaveLoop(w) \/ EnterOnce(w) \/ RequestJoin(w) \/ Join(w)
    BY <2>6, ZenonT(30) DEF LeaveLoop, Reading, EnterOnce, RequestJoin, Join
  <2>7. ASSUME NEW task \in Task, FailDelayed(w, task) PROVE TypeOK'
    BY <2>7, Zenon DEF FailDelayed
  <2>8. CASE ReturnFromOnce(w) \/ BeginDrain(w) \/ EndDrain(w)
    BY <2>8, ZenonT(30) DEF ReturnFromOnce, BeginDrain, EndDrain, Reading
  <2> HIDE DEF TypeOK
  <2> QED
    BY <1>1, <2>1, <2>2, <2>3, <2>4, <2>5, <2>6, <2>7, <2>8, ZenonT(30) DEF WorkerStep
<1>2. ASSUME NEW o \in Outsider, OutsiderStep(o) PROVE TypeOK'
  BY <1>2, Zenon DEF OutsiderStep, Submit, ReleaseOther
<1>3. CASE SubmitterStep
  BY <1>3, ZenonT(30) DEF SubmitterStep, TakeDue, SubmitDue, ReleaseOther
<1>4. CASE TerminatorStep
  BY <1>4, ZenonT(30) DEF TerminatorStep, BeginClear, EndClear, ClearEmit, RequestStop, ReleaseOther
<1>5. CASE UNCHANGED vars
  BY <1>5, Zenon DEF vars
<1> HIDE DEF TypeOK
<1> QED
  BY <1>1, <1>2, <1>3, <1>4, <1>5, Zenon DEF Next, Terminated

-----------------------------------------------------------------------------

\* The pool has finitely many threads.
LEMMA ThreadsAreFinite == IsFiniteSet(TQ!Thread)
<1>1. IsFiniteSet({Submitter})
  BY FS_Singleton, ZenonT(30)
<1>2. IsFiniteSet({Submitter} \cup {Terminator})
  BY <1>1, FS_AddElement, ZenonT(30)
<1>3. IsFiniteSet({Submitter, Terminator})
  BY <1>2, ZenonT(30)
<1>4. IsFiniteSet(Outsider \cup Worker)
  BY PoolIsFinite, FS_Union, ZenonT(30)
<1> QED
  BY <1>3, <1>4, FS_Union, ZenonT(30) DEF TQ!Thread

\* Cardinality means the same in every module.
LEMMA SameSize == ASSUME NEW S PROVE TQ!Cardinality(S) = Cardinality(S)
  BY ZenonT(30) DEF TQ!Cardinality, Cardinality

\* The queue's invariant holds when the pool starts and survives its steps:
\* the pool's queue is the one whose other threads are the submitter and the
\* terminator.
LEMMA QueueInvariant ==
  /\ TQ!Init => TQ!IInv
  /\ TQ!IInv /\ [TQ!Next]_(TQ!vars) => TQ!IInv'
<1> SUFFICES ASSUME NEW D, D = {Submitter, Terminator}
             PROVE  /\ TQ!Init => TQ!IInv
                    /\ TQ!IInv /\ [TQ!Next]_(TQ!vars) => TQ!IInv'
  BY Zenon
<1>1. Q(D)!Thread = TQ!Thread
  BY Zenon DEF Q!Thread, TQ!Thread
<1>2. IsFiniteSet(Q(D)!Thread) /\ AdmissionCapacity \in Nat \ {0}
  BY <1>1, ThreadsAreFinite, LimitsAreNumbers, ZenonT(30)
<1>3. TQ!Init => Q(D)!Init
  BY <1>1, Zenon DEF TQ!Init, Q!Init
<1>4. [TQ!Next]_(TQ!vars) => [Q(D)!Next]_(Q(D)!vars)
  BY Zenon DEF TQ!Next, TQ!vars, TQ!Thread, TQ!Queued, TQ!WriteAdmission, TQ!WriteInternal,
         TQ!Release, TQ!Read, TQ!Acquire, TQ!ReadInternal, TQ!GiveUpOnInternal,
         TQ!ReadAdmission,
         Q!Next, Q!vars, Q!Thread, Q!Queued, Q!WriteAdmission, Q!WriteInternal,
         Q!Release, Q!Read, Q!Acquire, Q!ReadInternal, Q!GiveUpOnInternal,
         Q!ReadAdmission
<1>5. ASSUME NEW f, NEW label PROVE TQ!Count(f, label) = Q(D)!Count(f, label)
  <2>1. TQ!At(f, label) = Q(D)!At(f, label)
    BY <1>1, Zenon DEF TQ!At, Q!At
  <2> QED
    BY <2>1, SameSize, QueueCounts, ZenonT(30) DEF TQ!Count, Q!Count
<1>6. TQ!IInv <=> Q(D)!IInv
  <2>1. TQ!TypeOK <=> Q(D)!TypeOK
    BY <1>1, Zenon DEF TQ!TypeOK, Q!TypeOK, TQ!PC, Q!PC
  <2>2. TQ!TokensMatchElements <=> Q(D)!TokensMatchElements
    BY <1>5, ZenonT(30) DEF TQ!TokensMatchElements, Q!TokensMatchElements
  <2>3. TQ!SpinnersFindATask <=> Q(D)!SpinnersFindATask
    BY <1>5, ZenonT(30) DEF TQ!SpinnersFindATask, Q!SpinnersFindATask
  <2> QED
    BY <2>1, <2>2, <2>3, ZenonT(30) DEF TQ!IInv, Q!IInv
<1>7. TQ!IInv' <=> Q(D)!IInv'
  BY <1>6, PTL
<1>8. Q(D)!Init => Q(D)!IInv
  BY <1>2, QueueInit, ZenonT(30)
<1>9. Q(D)!IInv /\ [Q(D)!Next]_(Q(D)!vars) => Q(D)!IInv'
  BY <1>2, QueueStays, ZenonT(30)
<1> QED
  BY <1>3, <1>4, <1>6, <1>7, <1>8, <1>9, ZenonT(30)

-----------------------------------------------------------------------------
LEMMA InitIInv == Init => IInv
<1> SUFFICES ASSUME Init PROVE IInv
  BY Zenon
<1>1. TQ!IInv
  BY QueueInvariant, ZenonT(30) DEF Init
<1>2. TypeOK
  BY <1>1, LimitsAreNumbers, SMTT(30) DEF Init, TypeOK, OnceStep, TQ!IInv
<1>3. pc = [t \in TQ!Thread |-> "idle"] /\ tasksAvailable = 0
  BY Zenon DEF Init, TQ!Init
<1>4. CallsInOrder /\ OnceIsExclusive /\ StopIsOrderly /\ Drained
  BY <1>3, ZenonT(30) DEF Init, CallsInOrder, OnceIsExclusive, StopIsOrderly, Drained, TQ!Thread
<1>5. ASSUME NEW task \in Task PROVE Places(task) = IF task \in created THEN 1 ELSE 0
  <2>1. Occurrences(internal, task) = 0 /\ Occurrences(admission, task) = 0
    BY OccurrencesInEmpty, ZenonT(30) DEF Init, TQ!Init
  <2>2. {i \in DOMAIN hand : hand[i] = task} = {}
    BY NoTaskIsNoTask, ZenonT(30) DEF Init
  <2>3. Occurrences(hand, task) = 0
    BY <2>2, FS_EmptySet, ZenonT(30) DEF Occurrences
  <2> QED
    BY <2>1, <2>3, SMTT(30) DEF Places, Init
<1> QED
  BY <1>1, <1>2, <1>4, <1>5, ZenonT(30) DEF IInv, EveryTaskHasItsPlace

\* Every step of every thread of the pool preserves the invariant.
LEMMA NextIInv == IInv /\ [Next]_vars => IInv'
<1> SUFFICES ASSUME IInv, [Next]_vars PROVE IInv'
  BY Zenon
<1>1. TQ!IInv'
  BY QueueStep, QueueInvariant, ZenonT(30) DEF IInv
<1>2. TQ!TypeOK'
  BY <1>1, ZenonT(30) DEF TQ!IInv
<1> QED
  BY <1>1, <1>2, TypesStay, CallsStayInOrder, OnceStaysExclusive, StopStaysOrderly,
     StaysDrained, TasksKeepTheirPlaces, ZenonT(30)
  DEF IInv

\* With every worker done, no thread is inside a call on the queue, so that
\* no token is in transit; there is none in the semaphore either, and the
\* queues hold as many tasks as there are tokens.
LEMMA DoneMeansEmpty ==
  ASSUME IInv, \A w \in Worker : stage[w] = "done"
  PROVE  internal = <<>> /\ admission = <<>>
<1>1. once = "done" /\ engine = "stopping" /\ tasksAvailable = 0
  BY PoolIsFinite, ZenonT(30) DEF IInv, OnceIsExclusive, StopIsOrderly, Drained
<1>2. \A t \in TQ!Thread : pc[t] = "idle"
  BY <1>1, SMTT(30) DEF IInv, CallsInOrder, OnceIsExclusive, StopIsOrderly, TQ!Thread
<1>3. TQ!At(pc, "acquired") = {} /\ TQ!At(pc, "spinning") = {} /\ TQ!At(pc, "written") = {}
  BY <1>2, ZenonT(30) DEF TQ!At
<1>4. TQ!Cardinality({}) = 0
  BY SameSize, FS_EmptySet, ZenonT(30)
<1>5. TQ!Count(pc, "acquired") = 0 /\ TQ!Count(pc, "spinning") = 0 /\ TQ!Count(pc, "written") = 0
  BY <1>3, <1>4, ZenonT(30) DEF TQ!Count
<1>6. internal \in Seq(Task) /\ admission \in Seq(Task)
  BY ZenonT(30) DEF IInv, TypeOK, TQ!TypeOK
<1>7. Len(internal) + Len(admission) = 0
  BY <1>1, <1>5, SMTT(30) DEF IInv, TQ!IInv, TQ!TokensMatchElements
<1> QED
  BY <1>6, <1>7, SMTT(30)

-----------------------------------------------------------------------------

\* When ~ThreadPool has joined its last worker, both queues and the delayed
\* queue are empty and every task submitted has been completed exactly once;
\* before that no task is lost or duplicated, whatever is emitted, repeated,
\* delayed or failed while the pool shuts down.
THEOREM PoolLeavesNothingBehind == Spec => []NothingLeftBehind
<1>1. IInv => NothingLeftBehind
  <2> SUFFICES ASSUME IInv PROVE NothingLeftBehind
    BY Zenon
  <2>1. NoDelayedSubmissionAfterShutdown
    BY Zenon DEF IInv, OnceIsExclusive, NoDelayedSubmissionAfterShutdown
  <2>2. ASSUME \A w \in Worker : stage[w] = "done"
        PROVE  /\ internal = <<>> /\ admission = <<>> /\ delayed = {}
               /\ \A task \in created : completed[task] = 1
    <3>1. internal = <<>> /\ admission = <<>>
      BY <2>2, DoneMeansEmpty, ZenonT(30)
    <3>2. once = "done"
      BY <2>2, PoolIsFinite, ZenonT(30) DEF IInv, OnceIsExclusive
    <3>3. delayed = {} /\ \A t \in Worker \cup {Submitter} : hand[t] = NoTask
      BY <2>2, <3>2, ZenonT(30) DEF IInv, OnceIsExclusive, TypeOK
    <3>4. ASSUME NEW task \in created PROVE completed[task] = 1
      <4>1. task \in Task /\ completed[task] \in Nat /\ DOMAIN hand = Worker \cup {Submitter}
        BY Zenon DEF IInv, TypeOK
      <4>2. {i \in DOMAIN hand : hand[i] = task} = {}
        BY <4>1, <3>3, NoTaskIsNoTask, ZenonT(30)
      <4>3. Occurrences(hand, task) = 0
        BY <4>2, FS_EmptySet, ZenonT(30) DEF Occurrences
      <4>4. Occurrences(internal, task) = 0 /\ Occurrences(admission, task) = 0
        BY <3>1, OccurrencesInEmpty, ZenonT(30)
      <4>5. Places(task) = 1
        BY <4>1, Zenon DEF IInv, EveryTaskHasItsPlace
      <4> QED
        BY <4>1, <4>3, <4>4, <4>5, <3>3, SMTT(30) DEF Places
    <3> QED
      BY <3>1, <3>3, <3>4, ZenonT(30)
  <2> QED
    BY <2>1, <2>2, ZenonT(30) DEF NothingLeftBehind
<1> QED
  BY <1>1, InitIInv, NextIInv, PTL DEF Spec

=============================================================================
