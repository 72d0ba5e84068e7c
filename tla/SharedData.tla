----------------------------- MODULE SharedData -----------------------------
(***************************************************************************)
(* The threads of a process that share a data component.                   *)
(*                                                                         *)
(* The component is an Arc<Mutex<..>> whose clones the process gives to    *)
(* its threads.  A dispatch of a thread makes a sequence of calls; each    *)
(* call of a subprogram that uses the component takes the lock for itself, *)
(* runs the method, which hands all fields of the component to the         *)
(* subprogram as &mut, and releases the lock.  A call that finds the lock  *)
(* poisoned, because a subprogram panicked under it, is skipped.           *)
(*                                                                         *)
(* A field is represented by who wrote it last.                            *)
(***************************************************************************)
EXTENDS Naturals

CONSTANTS Threads,   \* threads with a clone of the component
          Faulty,    \* threads whose calls may panic
          NFields,   \* fields of the component
          NCalls,    \* calls of a dispatch that use the component
          Nobody     \* the holder of a free lock

ASSUME FaultyAssumption == Faulty \subseteq Threads
ASSUME NFieldsAssumption == NFields \in Nat \ {0}
ASSUME NCallsAssumption == NCalls \in Nat
ASSUME NobodyAssumption == Nobody \notin Threads

Fields == 1 .. NFields

VARIABLES holder,    \* who has the lock
          poisoned,  \* is_poisoned() of the mutex
          writer,    \* writer[f]: the last thread to write field f
          written,   \* fields the call in progress has written
          call,      \* call[t]: calls made in this dispatch
          alive      \* threads that have not panicked

vars == <<holder, poisoned, writer, written, call, alive>>

(* new() of the component; no thread has been started. *)
Init ==
  /\ holder = Nobody
  /\ poisoned = FALSE
  /\ writer = [f \in Fields |-> Nobody]
  /\ written = 0
  /\ call = [t \in Threads |-> 0]
  /\ alive = Threads

-----------------------------------------------------------------------------
(* The thread is about to make a call of its sequence. *)
Calling(t) == t \in alive /\ holder # t /\ call[t] < NCalls

(* Defect: the guard is taken out of the error of a poisoned lock. *)
LockAnyway(t) ==
  /\ Calling(t)
  /\ holder = Nobody
  /\ holder' = t
  /\ written' = 0
  /\ UNCHANGED <<poisoned, writer, call, alive>>

(* if let Ok(mut guard) = self.data.lock() *)
Lock(t) ==
  /\ Calling(t)
  /\ holder = Nobody
  /\ ~poisoned
  /\ holder' = t
  /\ written' = 0
  /\ UNCHANGED <<poisoned, writer, call, alive>>

(* Defect: self.data.lock().unwrap() *)
SkipUnwraps(t) ==
  /\ Calling(t)
  /\ holder = Nobody
  /\ poisoned
  /\ alive' = alive \ {t}
  /\ UNCHANGED <<holder, poisoned, writer, written, call>>

(* lock() is an error: there is no else. *)
Skip(t) ==
  /\ Calling(t)
  /\ holder = Nobody
  /\ poisoned
  /\ call' = [call EXCEPT ![t] = @ + 1]
  /\ UNCHANGED <<holder, poisoned, writer, written, alive>>

(* The subprogram writes its next field. *)
Write(t) ==
  /\ t \in alive
  /\ holder = t
  /\ written < NFields
  /\ written' = written + 1
  /\ writer' = [writer EXCEPT ![written + 1] = t]
  /\ UNCHANGED <<holder, poisoned, call, alive>>

(* The subprogram returns and the guard is dropped. *)
Return(t) ==
  /\ t \in alive
  /\ holder = t
  /\ written = NFields
  /\ call' = [call EXCEPT ![t] = @ + 1]
  /\ holder' = Nobody
  /\ UNCHANGED <<poisoned, writer, written, alive>>

(* The thread panics: in the subprogram, which drops the guard and poisons *)
(* the lock, or in the rest of its dispatch.                               *)
Fail(t) ==
  /\ t \in alive \cap Faulty
  /\ alive' = alive \ {t}
  /\ IF holder = t
     THEN holder' = Nobody /\ poisoned' = TRUE
     ELSE UNCHANGED <<holder, poisoned>>
  /\ UNCHANGED <<writer, written, call>>

(* The calls have been made; the next release or event starts again. *)
Redispatch(t) ==
  /\ t \in alive
  /\ holder # t
  /\ call[t] = NCalls
  /\ call' = [call EXCEPT ![t] = 0]
  /\ UNCHANGED <<holder, poisoned, writer, written, alive>>

Advance(t) == Lock(t) \/ Skip(t) \/ Write(t) \/ Return(t) \/ Redispatch(t)

Next == \E t \in Threads : Advance(t) \/ Fail(t)

(* Every thread goes on.  std::sync::Mutex does not queue its waiters, so  *)
(* that nothing more can be assumed of lock().                             *)
Fairness == \A t \in Threads : WF_vars(Advance(t))

Spec == Init /\ [][Next]_vars /\ Fairness

-----------------------------------------------------------------------------
TypeOK ==
  /\ holder \in Threads \cup {Nobody}
  /\ poisoned \in BOOLEAN
  /\ writer \in [Fields -> Threads \cup {Nobody}]
  /\ written \in 0 .. NFields
  /\ call \in [Threads -> 0 .. NCalls]
  /\ alive \subseteq Threads

Whole == \A f, g \in Fields : writer[f] = writer[g]

(* No subprogram begins on data that another one has left half written,    *)
(* whether it returned or panicked.                                        *)
NeverTorn == (holder # Nobody /\ written = 0) => Whole

(* Once a subprogram has panicked under the lock the data keeps the state  *)
(* the panic left it in, whatever the calls that follow.                   *)
FrozenOnceFailed == [][poisoned => (UNCHANGED writer /\ poisoned')]_vars

(* A panic under the lock takes no other thread with it: each comes to the *)
(* end of its calls in every later dispatch.                               *)
OthersLiveOn ==
  \A t \in Threads \ Faulty :
    [](poisoned => <>(t \in alive /\ call[t] = NCalls))
=============================================================================
