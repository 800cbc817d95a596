--------------------------- MODULE CallbackProofs ---------------------------
(***************************************************************************)
(* The promises of the guarded callback, for any number of threads and     *)
(* references.  The invariant says what the code relies on without writing *)
(* it down: a thread that brought guards to zero is alone, because a       *)
(* reference can only be copied from one that is alive.                    *)
(***************************************************************************)
EXTENDS Callback, FiniteSetTheorems, TLAPS

-----------------------------------------------------------------------------

\* The references that are alive are finitely many.
LEMMA AliveFinite == IsFiniteSet(Alive)
  BY FiniteRefs, FS_Subset DEF Alive

\* Callback::create establishes the invariant.
LEMMA InitIInv == Init => IInv
<1> SUFFICES ASSUME Init PROVE IInv
  OBVIOUS
<1>1. PICK r \in Ref, t \in Thread :
        /\ holder = [x \in Ref |-> IF x = r THEN t ELSE NoThread]
        /\ born = {r}
  BY DEF Init
<1>2. Alive = {r}
  BY <1>1, NoThreadIsNoThread DEF Alive
<1>3. Cardinality(Alive) = 1
  BY <1>2, FS_Singleton, Zenon
<1>4. TypeOK
  BY <1>1, <1>2, <1>3, Zenon DEF Init, TypeOK, At, OwnerState
<1>5. OneExecution
  BY NoThreadIsNoThread DEF Init, OneExecution
<1> QED
  BY <1>4, <1>5 DEF Init, IInv, AloneAfterLastDrop, OwnerHasCancelled, OwnerGuarantee

-----------------------------------------------------------------------------

\* setCallback stores a function while the owner lives.
LEMMA SetCallbackIInv ==
  ASSUME IInv, NEW t \in Thread, SetCallback(t) PROVE IInv'
<1> USE DEF SetCallback
<1>1. Alive' = Alive
  BY DEF Alive
<1>2. TypeOK'
  BY <1>1 DEF IInv, TypeOK
<1> QED
  BY <1>1, <1>2 DEF IInv, AloneAfterLastDrop, OneExecution, OwnerHasCancelled, OwnerGuarantee

\* A copy is taken from a living reference, so nobody is past the last drop.
LEMMA CopyIInv ==
  ASSUME IInv, NEW t \in Thread, NEW u \in Thread, NEW s \in Ref, NEW r \in Ref,
         Copy(t, u, s, r)
  PROVE  IInv'
<1> USE DEF Copy
<1>1. Alive' = Alive \cup {r}
  BY NoThreadIsNoThread DEF IInv, TypeOK, Alive
<1>2. r \notin Alive /\ s \in Alive
  BY NoThreadIsNoThread DEF IInv, TypeOK, Alive
<1>3. Cardinality(Alive') = Cardinality(Alive) + 1
  BY <1>1, <1>2, AliveFinite, FS_AddElement, Zenon
<1>4. TypeOK'
  <2>1. holder' \in [Ref -> Thread \cup {NoThread}]
    BY DEF IInv, TypeOK
  <2>2. guards' \in Nat /\ guards' = Cardinality(Alive')
    BY <1>3 DEF IInv, TypeOK
  <2>3. Alive' \subseteq born' /\ born' \subseteq Ref
    BY <1>1 DEF IInv, TypeOK
  <2> QED
    BY <2>1, <2>2, <2>3 DEF IInv, TypeOK
<1>5. \A x \in Thread : at[x] \notin {"trigger", "body"}
  BY <1>2 DEF IInv, AloneAfterLastDrop
<1>6. AloneAfterLastDrop'
  BY <1>5 DEF AloneAfterLastDrop
<1> QED
  BY <1>4, <1>6 DEF IInv, OneExecution, OwnerHasCancelled, OwnerGuarantee

\* The decrement that reaches zero is the last reference's.
LEMMA DropIInv ==
  ASSUME IInv, NEW t \in Thread, NEW r \in Ref, Drop(t, r) PROVE IInv'
<1> USE DEF Drop
<1>1. Alive' = Alive \ {r}
  BY DEF IInv, TypeOK, Alive
<1>2. r \in Alive
  BY NoThreadIsNoThread DEF IInv, TypeOK, Alive
<1>3. Cardinality(Alive') = Cardinality(Alive) - 1
  BY <1>1, <1>2, AliveFinite, FS_RemoveElement, Zenon
<1>4. Cardinality(Alive) \in Nat /\ Cardinality(Alive) # 0
  <2>1. Cardinality(Alive) \in Nat
    BY AliveFinite, FS_CardinalityType
  <2>2. Cardinality(Alive) # 0
    BY <1>2, AliveFinite, FS_EmptySet
  <2> QED
    BY <2>1, <2>2
<1>5. TypeOK'
  <2>1. holder' \in [Ref -> Thread \cup {NoThread}]
    BY DEF IInv, TypeOK
  <2>2. guards' \in Nat /\ guards' = Cardinality(Alive')
    BY <1>3, <1>4 DEF IInv, TypeOK
  <2>3. Alive' \subseteq born' /\ born' \subseteq Ref
    BY <1>1 DEF IInv, TypeOK
  <2>4. at' \in [Thread -> At]
    BY DEF IInv, TypeOK, At
  <2> QED
    BY <2>1, <2>2, <2>3, <2>4 DEF IInv, TypeOK
<1>6. \A x \in Thread : at[x] \notin {"trigger", "body"}
  BY <1>2 DEF IInv, AloneAfterLastDrop
<1>7. AloneAfterLastDrop'
  <2>1. CASE guards = 1
    <3>1. Cardinality(Alive) = 1
      <4> HIDE DEF Drop
      <4> QED BY <2>1 DEF IInv, TypeOK
    <3>2. Cardinality(Alive') = 0
      <4> HIDE DEF Drop
      <4> QED BY <3>1, <1>3
    <3>3. IsFiniteSet(Alive')
      BY <1>1, AliveFinite, FS_Subset
    <3>4. Alive' = {}
      BY <3>2, <3>3, FS_EmptySet
    <3>5. \A x \in Thread : at'[x] \in {"trigger", "body"} => x = t
      BY <1>6 DEF IInv, TypeOK
    <3> QED
      BY <3>4, <3>5 DEF AloneAfterLastDrop
  <2>2. CASE guards # 1
    BY <2>2, <1>6 DEF AloneAfterLastDrop
  <2> QED
    BY <2>1, <2>2
<1>8. OneExecution'
  <2>1. \A x \in Thread : at'[x] = "body" <=> at[x] = "body"
    BY DEF IInv, TypeOK
  <2> QED
    BY <2>1 DEF IInv, OneExecution
<1>9. OwnerHasCancelled'
  <2>1. \A x \in Thread : at'[x] = "waiting" => at[x] = "waiting"
    BY DEF IInv, TypeOK
  <2> QED
    BY <2>1 DEF IInv, OwnerHasCancelled
<1> QED
  BY <1>5, <1>7, <1>8, <1>9 DEF IInv, OwnerGuarantee

-----------------------------------------------------------------------------

\* The first critical section of tryExecute starts the body or gives up.
LEMMA TryExecuteIInv ==
  ASSUME IInv, NEW t \in Thread, TryExecute(t) PROVE IInv'
<1> USE DEF TryExecute
<1>1. Alive' = Alive
  BY DEF Alive
<1>2. TypeOK'
  BY <1>1, Zenon DEF IInv, TypeOK, At
<1>3. AloneAfterLastDrop'
  <2>1. \A x \in Thread : at'[x] \in {"trigger", "body"} => at[x] \in {"trigger", "body"}
    BY DEF IInv, TypeOK
  <2> QED
    BY <1>1, <2>1 DEF IInv, AloneAfterLastDrop
<1>4. \A x \in Thread : at[x] # "body"
  BY DEF IInv, AloneAfterLastDrop
<1>5. OneExecution'
  <2>1. executor = NoThread
    BY <1>4 DEF IInv, TypeOK, OneExecution
  <2> QED
    BY <1>4, <2>1, NoThreadIsNoThread DEF IInv, TypeOK, OneExecution
<1>6. OwnerHasCancelled'
  <2>1. \A x \in Thread : at'[x] = "waiting" => at[x] = "waiting"
    BY DEF IInv, TypeOK
  <2> QED
    BY <2>1 DEF IInv, OwnerHasCancelled
<1>7. OwnerGuarantee'
  BY DEF IInv, OwnerGuarantee
<1> QED
  BY <1>2, <1>3, <1>5, <1>6, <1>7 DEF IInv

\* The second critical section ends the execution.
LEMMA EndExecuteIInv ==
  ASSUME IInv, NEW t \in Thread, EndExecute(t) PROVE IInv'
<1> USE DEF EndExecute
<1>1. Alive' = Alive
  BY DEF Alive
<1>2. TypeOK'
  BY <1>1 DEF IInv, TypeOK, At, OwnerState
<1>3. AloneAfterLastDrop'
  <2>1. \A x \in Thread : at'[x] \in {"trigger", "body"} => at[x] \in {"trigger", "body"}
    BY DEF IInv, TypeOK
  <2> QED
    BY <1>1, <2>1 DEF IInv, AloneAfterLastDrop
<1>4. OneExecution'
  <2>1. \A x \in Thread : at[x] = "body" => x = t
    BY DEF IInv, AloneAfterLastDrop
  <2> QED
    BY <2>1, NoThreadIsNoThread DEF IInv, TypeOK, OneExecution
<1>5. OwnerHasCancelled'
  <2>1. \A x \in Thread : at'[x] = "waiting" => at[x] = "waiting"
    BY DEF IInv, TypeOK
  <2> QED
    BY <2>1 DEF IInv, OwnerHasCancelled
<1>6. OwnerGuarantee'
  BY DEF IInv, OwnerGuarantee, OwnerHasCancelled
<1> QED
  BY <1>2, <1>3, <1>4, <1>5, <1>6 DEF IInv

\* cancelAndWait cancels before it waits.
LEMMA CancelIInv ==
  ASSUME IInv, NEW t \in Thread, Cancel(t) PROVE IInv'
<1> USE DEF Cancel
<1>1. Alive' = Alive
  BY DEF Alive
<1>2. TypeOK'
  BY <1>1, Zenon DEF IInv, TypeOK, At, OwnerState
<1>3. AloneAfterLastDrop'
  <2>1. \A x \in Thread : at'[x] \in {"trigger", "body"} => at[x] \in {"trigger", "body"}
    BY DEF IInv, TypeOK
  <2> QED
    BY <1>1, <2>1 DEF IInv, AloneAfterLastDrop
<1>4. OneExecution'
  <2>1. \A x \in Thread : at'[x] = "body" <=> at[x] = "body"
    BY DEF IInv, TypeOK, OneExecution
  <2> QED
    BY <2>1 DEF IInv, OneExecution
<1>5. owner' # "alive" /\ owner' # "destroyed"
  OBVIOUS
<1> QED
  BY <1>2, <1>3, <1>4, <1>5 DEF IInv, OwnerHasCancelled, OwnerGuarantee

\* cancelAndWait returns once nothing is executing.
LEMMA CancelReturnIInv ==
  ASSUME IInv, NEW t \in Thread, CancelReturn(t) PROVE IInv'
<1> USE DEF CancelReturn
<1>1. Alive' = Alive
  BY DEF Alive
<1>2. TypeOK'
  BY <1>1 DEF IInv, TypeOK, At, OwnerState
<1>3. \A x \in Thread : at'[x] \in {"trigger", "body"} => at'[x] = at[x]
  BY DEF IInv, TypeOK
<1>4. AloneAfterLastDrop'
  BY <1>1, <1>3 DEF IInv, AloneAfterLastDrop
<1>5. OneExecution'
  <2>1. \A x \in Thread : at'[x] = "body" <=> at[x] = "body"
    BY DEF IInv, TypeOK
  <2> QED
    BY <2>1 DEF IInv, OneExecution
<1>6. cancelled /\ ~callback
  BY DEF IInv, OwnerHasCancelled
<1> QED
  BY <1>2, <1>4, <1>5, <1>6 DEF IInv, OwnerHasCancelled, OwnerGuarantee

-----------------------------------------------------------------------------

\* Every step keeps the invariant.
LEMMA NextIInv == IInv /\ [Next]_vars => IInv'
<1> SUFFICES ASSUME IInv, [Next]_vars PROVE IInv'
  OBVIOUS
<1>1. CASE Next
  BY <1>1, SetCallbackIInv, CopyIInv, DropIInv, TryExecuteIInv, EndExecuteIInv,
     CancelIInv, CancelReturnIInv DEF Next
<1>2. CASE UNCHANGED vars
  BY <1>2 DEF vars, IInv, TypeOK, Alive, AloneAfterLastDrop, OneExecution,
     OwnerHasCancelled, OwnerGuarantee
<1> QED
  BY <1>1, <1>2

\* The invariant holds for ever.
THEOREM Invariance == Spec => []IInv
  BY InitIInv, NextIInv, PTL DEF Spec

\* guards always counts the CallbackRefs that are alive.
THEOREM TypeCorrect == Spec => []TypeOK
<1>1. IInv => TypeOK
  BY DEF IInv
<1> QED
  BY <1>1, Invariance, PTL

\* "As long as CallbackRefs are alive the callback will not be called"
\* (Callback.hpp:59), for any number of threads and references.
THEOREM NeverCalledWhileReferenced == Spec => []NotCalledWhileReferenced
<1>1. IInv => NotCalledWhileReferenced
  BY DEF IInv, TypeOK, AloneAfterLastDrop, OneExecution, NotCalledWhileReferenced
<1> QED
  BY <1>1, Invariance, PTL

\* What ~CallbackOwner promises (Callback.hpp:33-35).
THEOREM OwnerGuaranteeHolds == Spec => []OwnerGuarantee
<1>1. IInv => OwnerGuarantee
  BY DEF IInv
<1> QED
  BY <1>1, Invariance, PTL

\* One thread at a time runs the callback, the one executingThread names.
THEOREM OneExecutionHolds == Spec => []OneExecution
<1>1. IInv => OneExecution
  BY DEF IInv
<1> QED
  BY <1>1, Invariance, PTL

\* A callback that was cancelled does not start any more.
THEOREM NoStartAfterCancel == Spec => NeverStartsAfterCancel
<1>1. IInv /\ [Next]_vars =>
        [cancelled => (executor' = executor \/ executor' = NoThread)]_vars
  BY DEF Next, vars, SetCallback, Copy, Drop, TryExecute, EndExecute, Cancel, CancelReturn
<1> QED
  BY <1>1, Invariance, PTL DEF Spec, NeverStartsAfterCancel
=============================================================================
