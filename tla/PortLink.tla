------------------------------ MODULE PortLink ------------------------------
(***************************************************************************)
(* What an AADL port connection promises to the two components at its      *)
(* ends, whatever channels and forwarding threads realise it: an unbounded *)
(* FIFO link.  The receiving end sees exactly the messages that were sent, *)
(* in the order in which they were sent, until one of the ends fails.      *)
(* A producer that fails does not take back what it has sent.              *)
(*                                                                         *)
(* This is the abstract specification; PortPipeline implements it.         *)
(***************************************************************************)
EXTENDS Naturals, Sequences

CONSTANTS Msg,       \* the values that may be carried (payloads)
          MaxSent    \* bound: number of messages the producer may send

VARIABLES sent,      \* every message sent so far, in order
          got,       \* every message received so far, in order
          prod,      \* status of the producing component
          cons       \* status of the consuming component

linkVars == <<sent, got, prod, cons>>

(* A component is "up", has "failed" by itself, or died in a send whose    *)
(* result it unwraps ("panicked").                                         *)
Status == {"up", "failed", "panicked"}

LinkInit ==
  /\ sent = <<>>
  /\ got = <<>>
  /\ prod = "up"
  /\ cons = "up"

Send(m) ==
  /\ prod = "up"
  /\ Len(sent) < MaxSent
  /\ sent' = Append(sent, m)
  /\ UNCHANGED <<got, prod, cons>>

Receive ==
  /\ cons = "up"
  /\ Len(got) < Len(sent)
  /\ got' = Append(got, sent[Len(got) + 1])
  /\ UNCHANGED <<sent, prod, cons>>

(* The producer may fail at any time; only once the consumer is gone may   *)
(* it learn so by panicking in a send.                                     *)
ProducerStops ==
  /\ prod = "up"
  /\ prod' \in {"failed", "panicked"}
  /\ prod' = "panicked" => cons = "failed"
  /\ UNCHANGED <<sent, got, cons>>

ConsumerStops ==
  /\ cons = "up"
  /\ cons' = "failed"
  /\ UNCHANGED <<sent, got, prod>>

LinkNext ==
  \/ \E m \in Msg : Send(m)
  \/ Receive
  \/ ProducerStops
  \/ ConsumerStops

(* Delivery is prompt in the sense of weak fairness: a message that can be *)
(* received is received eventually, unless the consumer stops.             *)
LinkSpec == LinkInit /\ [][LinkNext]_linkVars /\ WF_linkVars(Receive)

(* The safety part alone, which the proofs establish. *)
LinkSafety == LinkInit /\ [][LinkNext]_linkVars
=============================================================================
