---------------------------- MODULE PortPipeline ----------------------------
(***************************************************************************)
(* One AADL port connection, end to end, in the generated program.         *)
(*                                                                         *)
(* The generator realises a connection as a chain of channels, each a      *)
(* crossbeam_channel::unbounded() of its own (create_channel_connection).  *)
(* Their number, hops, is fixed when the program is generated:             *)
(*   1  thread -> thread inside one process;                               *)
(*   2  device -> process port -> thread, or thread -> process port ->     *)
(*      device;                                                            *)
(*   3  thread -> process port -> process port -> thread.                  *)
(* Between channel h and channel h+1 a forwarding thread of the owning     *)
(* process (create_single_forwarding_thread) loops for ever: try_recv, then*)
(* send, then sleep 1 ms.  Its two calls are two steps here, because every *)
(* other thread may run between them.                                      *)
(*                                                                         *)
(* Channel 1 is filled by the producing thread, the last one is drained by *)
(* the consuming thread.  A send on a channel whose Receiver was dropped   *)
(* is an Err: a subprogram call unwraps it and panics; behaviour-annex     *)
(* code, devices and forwarders discard it with `let _ =`.                 *)
(***************************************************************************)
EXTENDS Naturals, Sequences

CONSTANTS Msg,        \* payloads
          Nothing,    \* what a forwarder holds while it holds no message
          MaxHops,    \* longest chain of channels
          MaxSent     \* bound: messages the producer sends

ASSUME NothingAssumption == Nothing \notin Msg
ASSUME MaxHopsAssumption == MaxHops \in Nat \ {0}
ASSUME MaxSentAssumption == MaxSent \in Nat

VARIABLES hops,      \* number of channels of this connection; never changes
          chan,      \* chan[h]: contents of channel h
          hand,      \* hand[f]: message forwarder f took and has not sent on
          prod,      \* the producing thread
          cons,      \* the consuming thread; its Receiver lives with it
          sent,      \* history: messages the producer has sent
          got,       \* history: messages the consumer has received
          entered,   \* history: how many messages entered channel h
          left       \* history: how many messages left channel h

vars == <<hops, chan, hand, prod, cons, sent, got, entered, left>>

(* The channels and the forwarders this connection has, of all it might    *)
(* have.                                                                   *)
Stages == 1 .. MaxHops
Channels == 1 .. hops
Forwarders == 1 .. (hops - 1)

Link == INSTANCE PortLink

(* The Receiver of channel h exists: forwarders never end, so only the     *)
(* last one can be dropped, when the consuming thread unwinds.             *)
ReceiverAlive(h) == h = hops => cons = "up"

Init ==
  /\ hops \in Stages
  /\ chan = [h \in Stages |-> <<>>]
  /\ hand = [f \in Stages |-> Nothing]
  /\ prod = "up"
  /\ cons = "up"
  /\ sent = <<>>
  /\ got = <<>>
  /\ entered = [h \in Stages |-> 0]
  /\ left = [h \in Stages |-> 0]

-----------------------------------------------------------------------------
(* sender.send(val): accepted when the Receiver of channel 1 exists. *)
Produce(m) ==
  /\ prod = "up"
  /\ Len(sent) < MaxSent
  /\ ReceiverAlive(1)
  /\ chan' = [chan EXCEPT ![1] = Append(@, m)]
  /\ sent' = Append(sent, m)
  /\ entered' = [entered EXCEPT ![1] = @ + 1]
  /\ UNCHANGED <<hops, hand, prod, cons, got, left>>

(* sender.send(val).unwrap() on a channel without Receiver panics the      *)
(* thread.  (`let _ = sender.send(val)` would lose the message and change  *)
(* nothing: a stuttering step.)                                            *)
ProduceRejected ==
  /\ prod = "up"
  /\ Len(sent) < MaxSent
  /\ ~ReceiverAlive(1)
  /\ prod' = "panicked"
  /\ UNCHANGED <<hops, chan, hand, cons, sent, got, entered, left>>

(* Defect: the forwarder reads again before it has sent what it holds. *)
TakeGreedily(f) ==
  /\ f \in Forwarders
  /\ chan[f] # <<>>
  /\ hand' = [hand EXCEPT ![f] = Head(chan[f])]
  /\ chan' = [chan EXCEPT ![f] = Tail(@)]
  /\ left' = [left EXCEPT ![f] = @ + 1]
  /\ UNCHANGED <<hops, prod, cons, sent, got, entered>>

(* Defect: the result of try_recv is not tested for Ok. *)
TakeUntested(f) ==
  /\ f \in Forwarders
  /\ hand[f] = Nothing
  /\ hand' = [hand EXCEPT ![f] = IF chan[f] = <<>> THEN chan[f] ELSE Head(chan[f])]
  /\ chan' = [chan EXCEPT ![f] = IF @ = <<>> THEN @ ELSE Tail(@)]
  /\ left' = [left EXCEPT ![f] = IF chan[f] = <<>> THEN @ ELSE @ + 1]
  /\ UNCHANGED <<hops, prod, cons, sent, got, entered>>

(* `if let Ok(msg) = rx.try_recv()` of forwarder f. *)
Take(f) ==
  /\ f \in Forwarders
  /\ hand[f] = Nothing
  /\ chan[f] # <<>>
  /\ hand' = [hand EXCEPT ![f] = Head(chan[f])]
  /\ chan' = [chan EXCEPT ![f] = Tail(@)]
  /\ left' = [left EXCEPT ![f] = @ + 1]
  /\ UNCHANGED <<hops, prod, cons, sent, got, entered>>

(* Defect: the message goes to the front of the next channel. *)
GiveInFront(f) ==
  /\ f \in Forwarders
  /\ hand[f] # Nothing
  /\ hand' = [hand EXCEPT ![f] = Nothing]
  /\ IF ReceiverAlive(f + 1)
     THEN /\ chan' = [chan EXCEPT ![f + 1] = <<hand[f]>> \o @]
          /\ entered' = [entered EXCEPT ![f + 1] = @ + 1]
     ELSE UNCHANGED <<chan, entered>>
  /\ UNCHANGED <<hops, prod, cons, sent, got, left>>

(* Defect: the message is kept until the next channel has a Receiver. *)
GiveWhenAlive(f) ==
  /\ f \in Forwarders
  /\ hand[f] # Nothing
  /\ ReceiverAlive(f + 1)
  /\ hand' = [hand EXCEPT ![f] = Nothing]
  /\ chan' = [chan EXCEPT ![f + 1] = Append(@, hand[f])]
  /\ entered' = [entered EXCEPT ![f + 1] = @ + 1]
  /\ UNCHANGED <<hops, prod, cons, sent, got, left>>

(* `if let Some(tx) = &dst { let _ = tx.send(msg); }` of forwarder f. *)
Give(f) ==
  /\ f \in Forwarders
  /\ hand[f] # Nothing
  /\ hand' = [hand EXCEPT ![f] = Nothing]
  /\ IF ReceiverAlive(f + 1)
     THEN /\ chan' = [chan EXCEPT ![f + 1] = Append(@, hand[f])]
          /\ entered' = [entered EXCEPT ![f + 1] = @ + 1]
     ELSE UNCHANGED <<chan, entered>>
  /\ UNCHANGED <<hops, prod, cons, sent, got, left>>

(* Defect: the message is read and stays in the channel. *)
ConsumePeeking ==
  /\ cons = "up"
  /\ chan[hops] # <<>>
  /\ Len(got) < MaxSent
  /\ got' = Append(got, Head(chan[hops]))
  /\ UNCHANGED <<hops, chan, left, hand, prod, cons, sent, entered>>

(* receiver.try_recv() of the consuming thread. *)
Consume ==
  /\ cons = "up"
  /\ chan[hops] # <<>>
  /\ got' = Append(got, Head(chan[hops]))
  /\ chan' = [chan EXCEPT ![hops] = Tail(@)]
  /\ left' = [left EXCEPT ![hops] = @ + 1]
  /\ UNCHANGED <<hops, hand, prod, cons, sent, entered>>

(* The producing thread unwinds for a reason of its own (a panic in a      *)
(* subprogram, in the send to another port): its Sender is dropped, what   *)
(* the channel holds stays.                                                *)
ProducerFails ==
  /\ prod = "up"
  /\ prod' = "failed"
  /\ UNCHANGED <<hops, chan, hand, cons, sent, got, entered, left>>

(* The consuming thread unwinds: its Receiver is dropped and crossbeam     *)
(* discards what is left in the channel.                                   *)
ConsumerFails ==
  /\ cons = "up"
  /\ cons' = "failed"
  /\ chan' = [chan EXCEPT ![hops] = <<>>]
  /\ UNCHANGED <<hops, hand, prod, sent, got, entered, left>>

Next ==
  \/ \E m \in Msg : Produce(m)
  \/ ProduceRejected
  \/ \E f \in Forwarders : Take(f) \/ Give(f)
  \/ Consume
  \/ ProducerFails
  \/ ConsumerFails

(* The forwarders and the consuming thread are OS threads that poll in an  *)
(* endless loop; each keeps taking steps.  Nothing obliges a producer to   *)
(* send, or anybody to fail.                                               *)
Fairness ==
  /\ \A f \in 1 .. (MaxHops - 1) : WF_vars(Take(f)) /\ WF_vars(Give(f))
  /\ WF_vars(Consume)

Spec == Init /\ [][Next]_vars

FairSpec == Spec /\ Fairness

-----------------------------------------------------------------------------
TypeOK ==
  /\ hops \in Stages
  /\ chan \in [Stages -> Seq(Msg)]
  /\ hand \in [Stages -> Msg \cup {Nothing}]
  /\ prod \in Link!Status
  /\ cons \in {"up", "failed"}
  /\ sent \in Seq(Msg)
  /\ got \in Seq(Msg)
  /\ entered \in [Stages -> Nat]
  /\ left \in [Stages -> Nat]

(* The k-th message a channel still holds is the message number left + k   *)
(* of those the producer sent.                                             *)
ChannelsInOrder ==
  \A h \in Channels : \A i \in 1 .. Len(chan[h]) :
    /\ left[h] + i <= Len(sent)
    /\ chan[h][i] = sent[left[h] + i]

(* The message a forwarder holds between its try_recv and its send is the  *)
(* last one that left the channel it reads.                                *)
HandsInOrder ==
  \A f \in Forwarders : hand[f] # Nothing =>
    /\ left[f] \in 1 .. Len(sent)
    /\ hand[f] = sent[left[f]]

Held(f) == IF hand[f] = Nothing THEN 0 ELSE 1

(* No hop reorders, duplicates or overtakes: every message under way is at *)
(* the position the producer gave it, also while a forwarder is between    *)
(* its two calls and after the consuming thread is gone.                   *)
InFlightInOrder == ChannelsInOrder /\ HandsInOrder

(* Every message is in exactly one place: what has entered a channel is    *)
(* still in it or has left it, and what has left a channel is in the       *)
(* forwarder's hand or has entered the next channel.  Only a channel whose *)
(* Receiver was dropped loses messages.                                    *)
Conservation ==
  /\ entered[1] = Len(sent)
  /\ left[hops] = Len(got)
  /\ \A h \in Channels :
       ReceiverAlive(h) => entered[h] = left[h] + Len(chan[h])
  /\ \A f \in Forwarders :
       ReceiverAlive(f + 1) => left[f] = entered[f + 1] + Held(f)

(* The consumer has received a prefix of what was sent, whatever threads   *)
(* failed meanwhile.                                                       *)
ReceivedIsPrefix ==
  /\ Len(got) <= Len(sent)
  /\ \A i \in 1 .. Len(got) : got[i] = sent[i]

(* The pipeline implements the abstract link: same histories, same fate of *)
(* both ends, forwarding steps are invisible.                              *)
ImplementsLink == Link!LinkSpec

(* When both ends are gone the chain drains: no message stays in the       *)
(* channels of the process for ever.                                       *)
DrainsAfterFailure ==
  (cons = "failed" /\ prod # "up") ~> \A h \in Channels : chan[h] = <<>>
=============================================================================
