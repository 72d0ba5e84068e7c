----------------------------- MODULE Broadcast -----------------------------
(***************************************************************************)
(* A connection with several destinations in the generated program.        *)
(*                                                                         *)
(* create_channel_connection makes one tokio broadcast channel for it,     *)
(* bounded to 100 messages, and new() subscribes all destinations before   *)
(* any thread is started.  Inside, the channel is a ring of slots that all *)
(* subscribers read, each from a position of its own.  A send never waits: *)
(* it overwrites the oldest message, whoever has not read it.  A           *)
(* subscriber that finds its message overwritten gets an error, Lagged,    *)
(* once, and is moved to the oldest message left.  Generated code takes    *)
(* every error of try_recv for an empty channel.                           *)
(*                                                                         *)
(* A message is represented by its number.  The ring belongs to tokio and  *)
(* is specified as far as generated code depends on it.                    *)
(***************************************************************************)
EXTENDS Naturals

CONSTANTS Subscribers,  \* destinations: threads, or forwarders of processes
          Slots,        \* length of the ring: 100 rounded up, 128
          MaxSent       \* bound: messages the producer sends

ASSUME SlotsAssumption == Slots \in Nat \ {0}
ASSUME MaxSentAssumption == MaxSent \in Nat

VARIABLES ring,      \* ring[i]: message in slot i, 0 when there never was one
          tail,      \* messages sent
          next,      \* next[r]: message that subscriber r reads next
          latest,    \* history: latest[r], the last message r received, 0 at first
          listening, \* subscribers whose thread has not panicked
          prod       \* the producing thread

vars == <<ring, tail, next, latest, listening, prod>>

SlotOf(k) == k % Slots

Init ==
  /\ ring = [i \in 0 .. Slots - 1 |-> 0]
  /\ tail = 0
  /\ next = [r \in Subscribers |-> 1]
  /\ latest = [r \in Subscribers |-> 0]
  /\ listening = Subscribers
  /\ prod = "up"

-----------------------------------------------------------------------------
(* sender.send(val).unwrap(), or let _ = tx.send(val) in a device.  There  *)
(* is no error while anybody listens.                                      *)
Produce ==
  /\ prod = "up"
  /\ tail < MaxSent
  /\ listening # {}
  /\ tail' = tail + 1
  /\ ring' = [ring EXCEPT ![SlotOf(tail + 1)] = tail + 1]
  /\ UNCHANGED <<next, latest, listening, prod>>

(* Nobody listens: the message is gone, and a thread that unwraps panics.  *)
ProduceRejected ==
  /\ prod = "up"
  /\ listening = {}
  /\ prod' = "panicked"
  /\ UNCHANGED <<ring, tail, next, latest, listening>>

(* Lagged: the oldest message left in the ring. *)
AfterLag(r) == (tail + 1) - Slots

(* Defect: a message taken leaves the ring, as it would leave a channel. *)
TakeAway(r) ==
  /\ r \in listening
  /\ ring[SlotOf(next[r])] = next[r]
  /\ latest' = [latest EXCEPT ![r] = next[r]]
  /\ next' = [next EXCEPT ![r] = @ + 1]
  /\ ring' = [ring EXCEPT ![SlotOf(next[r])] = 0]
  /\ UNCHANGED <<tail, listening, prod>>

(* match receiver.try_recv() { Ok(val) => .. } *)
Receive(r) ==
  /\ r \in listening
  /\ ring[SlotOf(next[r])] = next[r]
  /\ latest' = [latest EXCEPT ![r] = next[r]]
  /\ next' = [next EXCEPT ![r] = @ + 1]
  /\ UNCHANGED <<ring, tail, listening, prod>>

(* Defect: on an error the subscriber subscribes anew. *)
LagResubscribing(r) ==
  /\ r \in listening
  /\ ring[SlotOf(next[r])] > next[r]
  /\ next' = [next EXCEPT ![r] = tail + 1]
  /\ UNCHANGED <<ring, tail, latest, listening, prod>>

(* _ => {}, with the error Lagged.  The turn passes without a message. *)
Lag(r) ==
  /\ r \in listening
  /\ ring[SlotOf(next[r])] > next[r]
  /\ next' = [next EXCEPT ![r] = AfterLag(r)]
  /\ UNCHANGED <<ring, tail, latest, listening, prod>>

(* A panic of the subscribing thread drops its receiver. *)
SubscriberFails(r) ==
  /\ r \in listening
  /\ listening' = listening \ {r}
  /\ UNCHANGED <<ring, tail, next, latest, prod>>

ProducerFails ==
  /\ prod = "up"
  /\ prod' = "failed"
  /\ UNCHANGED <<ring, tail, next, latest, listening>>

Poll(r) == Receive(r) \/ Lag(r)

Next ==
  \/ Produce
  \/ ProduceRejected
  \/ ProducerFails
  \/ \E r \in Subscribers : Poll(r) \/ SubscriberFails(r)

(* Subscribers poll for ever, at whatever pace.  Nobody has to send. *)
Spec == Init /\ [][Next]_vars /\ \A r \in Subscribers : WF_vars(Poll(r))

-----------------------------------------------------------------------------
(* Whatever another subscriber reads, or fails to read, the messages that  *)
(* a subscriber has not come to are there, as far as the ring reaches.     *)
UnreadKept ==
  \A r \in Subscribers : \A k \in next[r] .. tail :
    tail - k < Slots => ring[SlotOf(k)] = k

Stream(r) == INSTANCE LossyStream
  WITH Window <- Slots, count <- tail, last <- latest[r], position <- next[r] - 1

(* Every subscriber has a stream of its own, however late the others are. *)
ImplementsStream ==
  /\ \A r \in Subscribers : Stream(r)!StreamInit
  /\ [][\A r \in Subscribers : [Stream(r)!StreamNext]_(Stream(r)!streamVars)]_vars

(* The error of a late subscriber costs it a turn, but never the newest    *)
(* message: it receives that one, or there is a newer one.                 *)
NewestArrives ==
  \A r \in Subscribers : \A k \in 1 .. MaxSent :
    (tail = k) ~> (r \notin listening \/ tail > k \/ latest[r] = k)
=============================================================================
