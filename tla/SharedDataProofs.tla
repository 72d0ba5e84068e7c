-------------------------- MODULE SharedDataProofs --------------------------
(***************************************************************************)
(* Proofs about SharedData, for any threads, fields and calls.             *)
(***************************************************************************)
EXTENDS SharedData, TLAPS

(* What a call relies on: the fields it has written are its own, the       *)
(* others still agree with each other, and a free lock that is not         *)
(* poisoned guards fields that all agree.                                  *)
HolderSound == holder # Nobody => holder \in alive /\ ~poisoned

ConsistentWhenFree == (holder = Nobody /\ ~poisoned) => Whole

ProgressSound ==
  holder # Nobody =>
    /\ \A f \in Fields : f <= written => writer[f] = holder
    /\ \A f, g \in Fields : (f > written /\ g > written) => writer[f] = writer[g]

(* A call in progress has not been counted. *)
CallSound == holder # Nobody => call[holder] < NCalls

IInv == TypeOK /\ HolderSound /\ ConsistentWhenFree /\ ProgressSound /\ CallSound

USE NFieldsAssumption, NCallsAssumption, NobodyAssumption, FaultyAssumption

LEMMA InitIInv == Init => IInv
<1> SUFFICES ASSUME Init PROVE IInv
  OBVIOUS
<1>1. TypeOK
  <2>1. 0 \in 0 .. NFields /\ 0 \in 0 .. NCalls
    OBVIOUS
  <2> QED
    BY <2>1, Zenon DEF Init, TypeOK
<1>2. HolderSound /\ ProgressSound /\ CallSound
  BY DEF Init, HolderSound, ProgressSound, CallSound
<1>3. ConsistentWhenFree
  BY DEF Init, ConsistentWhenFree, Whole
<1> QED
  BY <1>1, <1>2, <1>3 DEF IInv

LEMMA NextIInv == IInv /\ [Next]_vars => IInv'
<1> SUFFICES ASSUME IInv, [Next]_vars PROVE IInv'
  OBVIOUS
<1> USE DEF IInv
<1>1. ASSUME NEW t \in Threads, Lock(t) PROVE IInv'
  <2> USE <1>1 DEF Lock, Calling
  <2>1. TypeOK'
    BY DEF TypeOK
  <2>2. HolderSound' /\ ConsistentWhenFree' /\ CallSound'
    BY DEF HolderSound, ConsistentWhenFree, CallSound, TypeOK
  <2>3. Whole
    BY DEF ConsistentWhenFree
  <2>4. ProgressSound'
    BY <2>3 DEF ProgressSound, Whole, Fields, TypeOK
  <2> QED
    BY <2>1, <2>2, <2>4
<1>2. ASSUME NEW t \in Threads, Skip(t) PROVE IInv'
  <2> USE <1>2 DEF Skip, Calling
  <2>1. TypeOK'
    BY DEF TypeOK
  <2>2. (HolderSound /\ ConsistentWhenFree /\ ProgressSound /\ CallSound)'
    BY DEF HolderSound, ConsistentWhenFree, ProgressSound, CallSound
  <2> QED
    BY <2>1, <2>2
<1>3. ASSUME NEW t \in Threads, Write(t) PROVE IInv'
  <2> USE <1>3 DEF Write
  <2>0. written + 1 \in Fields
    BY DEF TypeOK, Fields
  <2>1. TypeOK'
    BY <2>0 DEF TypeOK
  <2>2. HolderSound' /\ ConsistentWhenFree' /\ CallSound'
    BY DEF HolderSound, ConsistentWhenFree, CallSound
  <2>3. \A f \in Fields : writer'[f] = IF f = written + 1 THEN t ELSE writer[f]
    BY DEF TypeOK
  <2>4. ProgressSound'
    BY <2>0, <2>3 DEF ProgressSound, Fields, TypeOK
  <2> QED
    BY <2>1, <2>2, <2>4
<1>4. ASSUME NEW t \in Threads, Return(t) PROVE IInv'
  <2> USE <1>4 DEF Return
  <2>1. TypeOK'
    BY DEF TypeOK, CallSound
  <2>2. Whole
    BY DEF ProgressSound, Whole, Fields
  <2>3. (HolderSound /\ ConsistentWhenFree /\ ProgressSound /\ CallSound)'
    BY <2>2 DEF HolderSound, ConsistentWhenFree, ProgressSound, CallSound, Whole
  <2> QED
    BY <2>1, <2>3
<1>5. ASSUME NEW t \in Threads, Fail(t) PROVE IInv'
  <2> USE <1>5 DEF Fail
  <2>1. TypeOK'
    BY DEF TypeOK
  <2>2. HolderSound' /\ ProgressSound' /\ CallSound'
    BY DEF HolderSound, ProgressSound, CallSound
  <2>3. ConsistentWhenFree'
    BY DEF ConsistentWhenFree, Whole
  <2> QED
    BY <2>1, <2>2, <2>3
<1>6. ASSUME NEW t \in Threads, Redispatch(t) PROVE IInv'
  <2> USE <1>6 DEF Redispatch
  <2>1. TypeOK'
    BY DEF TypeOK
  <2>2. (HolderSound /\ ConsistentWhenFree /\ ProgressSound)'
    BY DEF HolderSound, ConsistentWhenFree, ProgressSound, Whole
  <2>3. CallSound'
    BY DEF CallSound, TypeOK
  <2> QED
    BY <2>1, <2>2, <2>3
<1>7. CASE UNCHANGED vars
  BY <1>7 DEF vars, TypeOK, HolderSound, ConsistentWhenFree, ProgressSound, CallSound, Whole
<1> QED
  BY <1>1, <1>2, <1>3, <1>4, <1>5, <1>6, <1>7 DEF Next, Advance

(* The inductive invariant holds of every behaviour. *)
THEOREM InvariantHolds == Spec => []IInv
<1> QED
  BY InitIInv, NextIInv, PTL DEF Spec

(* The variables keep their types, however many threads share the data. *)
THEOREM TypeCorrect == Spec => []TypeOK
<1>1. IInv => TypeOK
  BY DEF IInv
<1> QED
  BY <1>1, InvariantHolds, PTL

(* No call begins on fields that another call has left half written.       *)
THEOREM CallsStartWhole == Spec => []NeverTorn
<1>1. IInv => NeverTorn
  BY DEF IInv, NeverTorn, ProgressSound, Whole, Fields
<1> QED
  BY <1>1, InvariantHolds, PTL

(* After a panic under the lock the fields never change again. *)
THEOREM PoisonedDataFrozen == Spec => FrozenOnceFailed
<1>1. IInv /\ [Next]_vars => [poisoned => (UNCHANGED writer /\ poisoned')]_vars
  <2> SUFFICES ASSUME IInv, [Next]_vars, poisoned
               PROVE  UNCHANGED writer /\ poisoned'
    BY DEF vars
  <2>1. holder = Nobody
    BY DEF IInv, HolderSound
  <2> QED
    BY <2>1 DEF Next, Advance, Lock, Skip, Write, Return, Fail, Redispatch, vars
<1> QED
  BY <1>1, InvariantHolds, PTL DEF Spec, FrozenOnceFailed
=============================================================================
