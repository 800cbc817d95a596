------------------------------ MODULE Callback ------------------------------
(***************************************************************************)
(* The guarded callback of the query engine                                *)
(* (nes-query-engine/Callback.hpp, Callback.cpp).  CallbackRefs count in   *)
(* guards; the last one to go runs the callback; the CallbackOwner cancels *)
(* it and waits for an execution in flight.  The atomic counter, the       *)
(* critical sections under Callback::mutex and the body of the callback    *)
(* are separate steps.                                                     *)
(***************************************************************************)
EXTENDS Naturals, FiniteSets

CONSTANTS
  Thread,
  NoThread,
  Ref          \* CallbackRef objects; each is held by one thread at a time

ASSUME FiniteRefs == IsFiniteSet(Ref)
ASSUME NoThreadIsNoThread == NoThread \notin Thread

VARIABLES
  holder,     \* the thread that holds each CallbackRef, NoThread once destroyed
  born,       \* the CallbackRef objects constructed so far
  guards,     \* Callback::guards
  cancelled,
  callback,   \* a function is stored in Callback::callback
  executor,   \* executingThread; executing is executor # NoThread
  at,         \* where each thread is inside Callback's functions
  owner       \* life of the CallbackOwner

vars == <<holder, born, guards, cancelled, callback, executor, at, owner>>

\* "out"      not inside a function of Callback
\* "trigger"  brought guards to 0, about to lock in tryExecute
\* "body"     runs the moved callback without the lock
\* "waiting"  waits on executingCondition in cancelAndWait
At == {"out", "trigger", "body", "waiting"}

\* "lost": destroyed from within the callback, which still runs
OwnerState == {"alive", "destroying", "lost", "destroyed"}

Alive == {r \in Ref : holder[r] # NoThread}

\* Callback::create: an owner and a first reference.
Init ==
  /\ \E r \in Ref, t \in Thread :
       /\ holder = [x \in Ref |-> IF x = r THEN t ELSE NoThread]
       /\ born = {r}
  /\ guards = 1
  /\ cancelled = FALSE
  /\ callback = FALSE
  /\ executor = NoThread
  /\ at = [t \in Thread |-> "out"]
  /\ owner = "alive"

\* CallbackOwner::setCallback, by a thread that still holds a reference.
SetCallback(t) ==
  /\ at[t] = "out"
  /\ owner = "alive"
  /\ \E r \in Ref : holder[r] = t
  /\ callback' = TRUE
  /\ UNCHANGED <<holder, born, guards, cancelled, executor, at, owner>>

\* Copy constructor: t copies its reference s into r, which u will hold.
Copy(t, u, s, r) ==
  /\ at[t] = "out"
  /\ holder[s] = t
  /\ r \notin born
  /\ born' = born \cup {r}
  /\ holder' = [holder EXCEPT ![r] = u]
  /\ guards' = guards + 1
  /\ UNCHANGED <<cancelled, callback, executor, at, owner>>

\* ~CallbackRef and decrementAndMaybeTrigger: --guards == 0 is atomic.
Drop(t, r) ==
  /\ at[t] = "out"
  /\ holder[r] = t
  /\ holder' = [holder EXCEPT ![r] = NoThread]
  /\ guards' = guards - 1
  /\ at' = IF guards = 1 THEN [at EXCEPT ![t] = "trigger"] ELSE at
  /\ UNCHANGED <<born, cancelled, callback, executor, owner>>

\* As TryExecute, but a callback never starts.
TryExecuteNever(t) ==
  /\ at[t] = "trigger"
  /\ at' = [at EXCEPT ![t] = "out"]
  /\ UNCHANGED <<holder, born, guards, cancelled, callback, executor, owner>>

\* tryExecute, first critical section.
TryExecute(t) ==
  /\ at[t] = "trigger"
  /\ IF cancelled \/ ~callback
     THEN /\ at' = [at EXCEPT ![t] = "out"]
          /\ UNCHANGED <<callback, executor>>
     ELSE /\ executor' = t
          /\ callback' = FALSE
          /\ at' = [at EXCEPT ![t] = "body"]
  /\ UNCHANGED <<holder, born, guards, cancelled, owner>>

\* As EndExecute, but executing and executingThread stay as they are.
EndExecuteSilently(t) ==
  /\ at[t] = "body"
  /\ at' = [at EXCEPT ![t] = "out"]
  /\ owner' = IF owner = "lost" THEN "destroyed" ELSE owner
  /\ UNCHANGED <<holder, born, guards, cancelled, callback, executor>>

\* tryExecute, second critical section, after the body returned.
EndExecute(t) ==
  /\ at[t] = "body"
  /\ executor' = NoThread
  /\ at' = [at EXCEPT ![t] = "out"]
  /\ owner' = IF owner = "lost" THEN "destroyed" ELSE owner
  /\ UNCHANGED <<holder, born, guards, cancelled, callback>>

\* cancelAndWait, called by the owner's destructor or move assignment.  From
\* within the callback it returns at once.
Cancel(t) ==
  /\ at[t] \in {"out", "body"}
  /\ owner = "alive"
  /\ cancelled' = TRUE
  /\ callback' = FALSE
  /\ IF executor = t
     THEN owner' = "lost" /\ at' = at
     ELSE owner' = "destroying" /\ at' = [at EXCEPT ![t] = "waiting"]
  /\ UNCHANGED <<holder, born, guards, executor>>

\* As CancelReturn, but the execution in flight is not waited for.
CancelReturnAtOnce(t) ==
  /\ at[t] = "waiting"
  /\ owner' = "destroyed"
  /\ at' = [at EXCEPT ![t] = "out"]
  /\ UNCHANGED <<holder, born, guards, cancelled, callback, executor>>

CancelReturn(t) ==
  /\ at[t] = "waiting"
  /\ executor = NoThread
  /\ owner' = "destroyed"
  /\ at' = [at EXCEPT ![t] = "out"]
  /\ UNCHANGED <<holder, born, guards, cancelled, callback, executor>>

Next ==
  \E t \in Thread :
    \/ SetCallback(t)
    \/ \E u \in Thread, s, r \in Ref : Copy(t, u, s, r)
    \/ \E r \in Ref : Drop(t, r)
    \/ TryExecute(t)
    \/ EndExecute(t)
    \/ Cancel(t)
    \/ CancelReturn(t)

Spec == Init /\ [][Next]_vars

\* Threads inside a function of Callback are scheduled, a body returns, and
\* references do not live for ever (tasks are executed or dropped).
Fairness ==
  \A t \in Thread :
    /\ WF_vars(TryExecute(t))
    /\ WF_vars(EndExecute(t))
    /\ WF_vars(CancelReturn(t))
    /\ \A r \in Ref : WF_vars(Drop(t, r))

FairSpec == Spec /\ Fairness

-----------------------------------------------------------------------------

\* Types; guards counts the references that are alive.
TypeOK ==
  /\ holder \in [Ref -> Thread \cup {NoThread}]
  /\ guards \in Nat
  /\ guards = Cardinality(Alive)
  /\ Alive \subseteq born /\ born \subseteq Ref
  /\ cancelled \in BOOLEAN
  /\ callback \in BOOLEAN
  /\ executor \in Thread \cup {NoThread}
  /\ at \in [Thread -> At]
  /\ owner \in OwnerState

\* "As long as CallbackRefs are alive the callback will not be called"
\* (Callback.hpp:59).
NotCalledWhileReferenced == executor # NoThread => Alive = {}

\* "When CallbackOwner is destroyed, either the callback has fully completed
\* execution, or the callback will never run" (Callback.hpp:33): nothing is
\* executing once the owner is gone, and nothing can start again.
OwnerGuarantee ==
  owner = "destroyed" => executor = NoThread /\ cancelled /\ ~callback

\* The callback runs in one thread at a time, the one executingThread names.
OneExecution == \A t \in Thread : at[t] = "body" <=> executor = t

\* A cancelled callback does not start, whatever references are still to go.
NeverStartsAfterCancel ==
  [][cancelled => (executor' = executor \/ executor' = NoThread)]_vars

\* At most one thread is between the last decrement and the end of the body,
\* and then no reference is left.
AloneAfterLastDrop ==
  \A t \in Thread : at[t] \in {"trigger", "body"} =>
    /\ Alive = {}
    /\ \A u \in Thread : at[u] \in {"trigger", "body"} => u = t

\* An owner that is being destroyed has cancelled; whoever waits is its
\* destructor.
OwnerHasCancelled ==
  /\ owner # "alive" => cancelled /\ ~callback
  /\ \A t \in Thread : at[t] = "waiting" => owner # "alive"

\* What every step of the references, the owner and the thread that executes
\* preserves: the counter is exact, the last reference to go leaves one thread
\* alone with the callback, and a destroyed owner's callback does not run
\* (Callback.hpp:33, 59).
IInv ==
  /\ TypeOK
  /\ AloneAfterLastDrop
  /\ OneExecution
  /\ OwnerHasCancelled
  /\ OwnerGuarantee

\* The owner's destructor returns.
CancelReturns == (owner = "destroying") ~> (owner = "destroyed")

\* A callback that was set is executed or cancelled.
CallbackIsNotForgotten == callback ~> ~callback

=============================================================================
