--------------------------- MODULE BroadcastProofs ---------------------------
(***************************************************************************)
(* Proofs about Broadcast, for any subscribers, any length of the ring and *)
(* any number of messages: messages that are not read are kept as far as   *)
(* the ring reaches, and every subscriber has the stream of LossyStream.   *)
(***************************************************************************)
EXTENDS Broadcast, Integers, TLAPS

TypeOK ==
  /\ ring \in [0 .. Slots - 1 -> Nat]
  /\ tail \in Nat
  /\ next \in [Subscribers -> Nat \ {0}]
  /\ latest \in [Subscribers -> Nat]

(* A slot holds nothing, or one of the last messages, in its place.        *)
(* Without it nothing is known of what a subscriber finds in its slot, nor *)
(* of where a lag takes it.                                                *)
RingSound ==
  \A i \in 0 .. Slots - 1 :
    ring[i] # 0 => SlotOf(ring[i]) = i /\ ring[i] <= tail /\ tail < ring[i] + Slots

(* The last messages are all there. *)
RingFull == \A k \in 1 .. tail : tail - k < Slots => ring[SlotOf(k)] = k

IInv ==
  /\ TypeOK
  /\ RingSound
  /\ RingFull
  /\ \A r \in Subscribers : next[r] <= tail + 1

USE SlotsAssumption

-----------------------------------------------------------------------------
LEMMA DivMod ==
  ASSUME NEW a \in Nat
  PROVE  /\ a % Slots \in 0 .. Slots - 1
         /\ a \div Slots \in Int
         /\ a = Slots * (a \div Slots) + (a % Slots)
  OBVIOUS

LEMMA MultiplesApart ==
  ASSUME NEW p \in Int, NEW q \in Int, Slots * p < Slots * q
  PROVE  Slots * p + Slots <= Slots * q
<1>1. p < q
  OBVIOUS
<1>2. Slots * (q - p) >= Slots
  BY <1>1
<1> QED
  BY <1>2

(* Two messages share a slot only if the ring lies between them. *)
LEMMA SlotShared ==
  ASSUME NEW j \in Nat, NEW k \in Nat, SlotOf(j) = SlotOf(k), j < k
  PROVE  j + Slots <= k
<1> DEFINE p == j \div Slots
           q == k \div Slots
<1>1. /\ p \in Int /\ j = Slots * p + (j % Slots) /\ j % Slots \in Int
      /\ q \in Int /\ k = Slots * q + (k % Slots)
  BY DivMod
<1> HIDE DEF p, q
<1>2. Slots * p \in Int /\ Slots * q \in Int
  BY <1>1
<1>3. Slots * p < Slots * q
  BY <1>1, <1>2 DEF SlotOf
<1>4. Slots * p + Slots <= Slots * q
  BY <1>1, <1>3, MultiplesApart
<1> QED
  BY <1>1, <1>2, <1>4 DEF SlotOf

(* The slots come around. *)
LEMMA SlotAgain ==
  ASSUME NEW k \in Nat
  PROVE  SlotOf(k + Slots) = SlotOf(k)
<1> DEFINE p == k \div Slots
           q == (k + Slots) \div Slots
           a == k % Slots
           b == (k + Slots) % Slots
<1>1. /\ p \in Int /\ k = Slots * p + a /\ a \in 0 .. Slots - 1
      /\ q \in Int /\ k + Slots = Slots * q + b /\ b \in 0 .. Slots - 1
  BY DivMod
<1> HIDE DEF p, q, a, b
<1>2. Slots * p \in Int /\ Slots * q \in Int /\ p + 1 \in Int
      /\ Slots * (p + 1) = Slots * p + Slots /\ Slots * (p + 1) \in Int
  BY <1>1
<1>3. ~(Slots * (p + 1) < Slots * q)
  <2>1. SUFFICES ASSUME Slots * (p + 1) < Slots * q
                 PROVE  FALSE
    OBVIOUS
  <2>2. Slots * (p + 1) + Slots <= Slots * q
    BY <1>1, <1>2, <2>1, MultiplesApart
  <2> QED
    BY <1>1, <1>2, <2>2
<1>4. ~(Slots * q < Slots * (p + 1))
  <2>1. SUFFICES ASSUME Slots * q < Slots * (p + 1)
                 PROVE  FALSE
    OBVIOUS
  <2>2. Slots * q + Slots <= Slots * (p + 1)
    BY <1>1, <1>2, <2>1, MultiplesApart
  <2> QED
    BY <1>1, <1>2, <2>2
<1>5. a = b
  BY <1>1, <1>2, <1>3, <1>4
<1> QED
  BY <1>5 DEF SlotOf, a, b

LEMMA SlotType == \A k \in Nat : SlotOf(k) \in 0 .. Slots - 1
  BY DivMod DEF SlotOf

(* What a poll finds: its message, or one that is further on by the length *)
(* of the ring.                                                            *)
LEMMA Found ==
  ASSUME IInv, NEW r \in Subscribers
  PROVE  /\ ring[SlotOf(next[r])] = next[r] => next[r] <= tail /\ tail - next[r] < Slots
         /\ ring[SlotOf(next[r])] > next[r] => next[r] + Slots <= tail
<1> DEFINE i == SlotOf(next[r])
<1>1. i \in 0 .. Slots - 1 /\ next[r] \in Nat \ {0} /\ ring[i] \in Nat
  BY SlotType DEF IInv, TypeOK
<1>2. ring[i] # 0 => SlotOf(ring[i]) = i /\ ring[i] <= tail /\ tail < ring[i] + Slots
  BY <1>1 DEF IInv, RingSound
<1>3. ring[i] > next[r] => next[r] + Slots <= ring[i]
  BY <1>1, <1>2, SlotShared
<1> QED
  BY <1>1, <1>2, <1>3 DEF IInv, TypeOK

-----------------------------------------------------------------------------
LEMMA InitIInv == Init => IInv
  BY DEF Init, IInv, TypeOK, RingSound, RingFull

(* A send puts the message in the slot of the one that is now too old. *)
LEMMA ProduceStep == IInv /\ Produce => IInv'
<1> SUFFICES ASSUME IInv, Produce
             PROVE  IInv'
  OBVIOUS
<1> USE DEF IInv, Produce
<1> DEFINE new == tail + 1
<1>0. new \in Nat
  BY DEF TypeOK
<1>1. new \in Nat /\ SlotOf(new) \in 0 .. Slots - 1
  BY <1>0, SlotType, Zenon
<1>2. \A i \in 0 .. Slots - 1 : ring'[i] = IF i = SlotOf(new) THEN new ELSE ring[i]
  BY DEF TypeOK
<1>3. TypeOK'
  BY <1>1 DEF TypeOK
<1>4. RingSound'
  <2> SUFFICES ASSUME NEW i \in 0 .. Slots - 1, ring'[i] # 0
               PROVE  SlotOf(ring'[i]) = i /\ ring'[i] <= new /\ new < ring'[i] + Slots
    BY DEF RingSound
  <2>1. CASE i = SlotOf(new)
    BY <2>1, <1>1, <1>2
  <2>2. CASE i # SlotOf(new)
    <3>1. ring'[i] = ring[i] /\ ring[i] \in Nat
      BY <2>2, <1>2 DEF TypeOK
    <3>2. SlotOf(ring[i]) = i /\ ring[i] <= tail /\ tail < ring[i] + Slots
      BY <3>1 DEF RingSound
    (* Otherwise message ring[i] would have been sent to the slot of new. *)
    <3>3. new # ring[i] + Slots
      BY <3>1, <3>2, <2>2, SlotAgain
    <3>4. tail \in Nat /\ new = tail + 1
      BY DEF TypeOK
    <3> HIDE DEF new, Produce
    <3> QED
      BY <3>1, <3>2, <3>3, <3>4
  <2> QED
    BY <2>1, <2>2
<1>5. RingFull'
  <2> SUFFICES ASSUME NEW k \in 1 .. new, new - k < Slots
               PROVE  ring'[SlotOf(k)] = k
    BY DEF RingFull
  <2>1. CASE k = new
    BY <2>1, <1>1, <1>2
  <2>2. CASE k # new
    <3>1. k \in 1 .. tail /\ k \in Nat /\ k < new /\ tail - k < Slots
      BY <2>2, <1>1 DEF TypeOK
    <3>2. SlotOf(k) # SlotOf(new)
      BY <3>1, <1>1, SlotShared
    <3>3. ring[SlotOf(k)] = k
      BY <3>1 DEF RingFull
    <3> QED
      BY <3>1, <3>2, <3>3, <1>2, SlotType
  <2> QED
    BY <2>1, <2>2
<1> QED
  BY <1>3, <1>4, <1>5 DEF TypeOK

LEMMA NextIInv == IInv /\ [Next]_vars => IInv'
<1> SUFFICES ASSUME IInv, [Next]_vars
             PROVE  IInv'
  OBVIOUS
<1>1. CASE Produce
  BY <1>1, ProduceStep
<1>2. ASSUME NEW r \in Subscribers, Receive(r)
      PROVE  IInv'
  <2>1. next[r] <= tail
    BY <1>2, Found DEF Receive
  <2> QED
    BY <1>2, <2>1 DEF Receive, IInv, TypeOK, RingSound, RingFull
<1>3. ASSUME NEW r \in Subscribers, Lag(r)
      PROVE  IInv'
  <2>1. next[r] + Slots <= tail
    BY <1>3, Found DEF Lag
  <2>2. AfterLag(r) \in Nat \ {0} /\ AfterLag(r) <= tail + 1
    BY <2>1 DEF AfterLag, IInv, TypeOK
  <2> QED
    BY <1>3, <2>2 DEF Lag, IInv, TypeOK, RingSound, RingFull
<1>4. CASE UNCHANGED <<ring, tail, next, latest>>
  BY <1>4 DEF IInv, TypeOK, RingSound, RingFull
<1> QED
  BY <1>1, <1>2, <1>3, <1>4
     DEF Next, Poll, vars, ProduceRejected, ProducerFails, SubscriberFails

(* Each slot of the ring holds the last message sent that belongs there,   *)
(* and no subscriber reads ahead of the producer: IInv.                    *)
THEOREM InvariantHolds == Spec => []IInv
<1> QED
  BY InitIInv, NextIInv, PTL DEF Spec

(* The messages a subscriber has not come to are there, as far as the ring *)
(* reaches, whatever the other subscribers do.                             *)
THEOREM UnreadMessagesKept == Spec => []UnreadKept
<1>1. IInv => UnreadKept
  <2> SUFFICES ASSUME IInv, NEW r \in Subscribers, NEW k \in next[r] .. tail, tail - k < Slots
               PROVE  ring[SlotOf(k)] = k
    BY DEF UnreadKept
  <2>1. k \in 1 .. tail
    BY DEF IInv, TypeOK
  <2> QED
    BY <2>1 DEF IInv, RingFull
<1> QED
  BY <1>1, InvariantHolds, PTL

-----------------------------------------------------------------------------
(* The refinement, for one subscriber: a send of the producer is Send, a   *)
(* poll of the subscriber Receive or Lose, all else a stuttering step.     *)
LEMMA StreamStep ==
  ASSUME IInv, Next, NEW r \in Subscribers
  PROVE  [Stream(r)!StreamNext]_(Stream(r)!streamVars)
<1> USE DEF Stream!StreamNext, Stream!streamVars
<1>1. CASE Produce
  BY <1>1 DEF Produce, Stream!Send
<1>2. CASE Receive(r)
  <2>1. next[r] <= tail /\ tail - next[r] < Slots
    BY <1>2, Found DEF Receive
  <2>2. next'[r] = next[r] + 1 /\ latest'[r] = next[r] /\ tail' = tail
    BY <1>2 DEF Receive, IInv, TypeOK
  <2>3. Stream(r)!Receive
    BY <2>1, <2>2 DEF Stream!Receive, IInv, TypeOK
  <2> QED
    BY <2>3
<1>3. CASE Lag(r)
  <2>1. next[r] + Slots <= tail
    BY <1>3, Found DEF Lag
  <2>2. next'[r] = (tail + 1) - Slots /\ UNCHANGED <<tail, latest>>
    BY <1>3 DEF Lag, AfterLag, IInv, TypeOK
  <2>3. Stream(r)!Lose
    BY <2>1, <2>2 DEF Stream!Lose, IInv, TypeOK
  <2> QED
    BY <2>3
<1>4. ASSUME NEW s \in Subscribers \ {r}, Poll(s)
      PROVE  UNCHANGED <<tail, latest[r], next[r] - 1>>
  BY <1>4 DEF Poll, Receive, Lag, IInv, TypeOK
<1>5. CASE UNCHANGED <<tail, latest, next>>
  BY <1>5
<1> QED
  BY <1>1, <1>2, <1>3, <1>4, <1>5
     DEF Next, Poll, ProduceRejected, ProducerFails, SubscriberFails

(* Every subscriber has a stream of its own: in order, each message at     *)
(* most once, and only messages lost that were older than the ring is long.*)
THEOREM BroadcastImplementsStreams == Spec => ImplementsStream
<1>1. Init => \A r \in Subscribers : Stream(r)!StreamInit
  <2> SUFFICES ASSUME Init, NEW r \in Subscribers
               PROVE  Stream(r)!StreamInit
    OBVIOUS
  <2>1. tail = 0 /\ latest[r] = 0 /\ next[r] = 1
    BY DEF Init
  <2> QED
    BY <2>1 DEF Stream!StreamInit
<1>2. IInv /\ [Next]_vars =>
        [\A r \in Subscribers : [Stream(r)!StreamNext]_(Stream(r)!streamVars)]_vars
  BY StreamStep
<1> QED
  BY <1>1, <1>2, InvariantHolds, PTL DEF Spec, ImplementsStream
=============================================================================
