---------------------------- MODULE LossyStream ----------------------------
(***************************************************************************)
(* What a broadcast connection promises to one of its subscribers: the     *)
(* messages in the order they were sent, each at most once, and only those *)
(* missing that were more than Window messages old when the subscriber     *)
(* turned to them.                                                         *)
(*                                                                         *)
(* Messages are represented by their numbers.  This is the abstract        *)
(* specification; Broadcast implements it for every subscriber.            *)
(***************************************************************************)
EXTENDS Naturals

CONSTANTS Window,    \* messages that are kept for a late subscriber
          MaxSent    \* bound: messages the producer sends

VARIABLES count,     \* messages sent
          last,      \* the last message received, 0 at first
          position   \* messages received or lost

streamVars == <<count, last, position>>

StreamInit == count = 0 /\ last = 0 /\ position = 0

Send ==
  /\ count < MaxSent
  /\ count' = count + 1
  /\ UNCHANGED <<last, position>>

Receive ==
  /\ position < count
  /\ count - position <= Window
  /\ position' = position + 1
  /\ last' = position + 1
  /\ UNCHANGED count

(* The subscriber is told that it came too late, and goes on with the      *)
(* oldest message that is left.                                            *)
Lose ==
  /\ count - position > Window
  /\ position' = count - Window
  /\ UNCHANGED <<count, last>>

StreamNext == Send \/ Receive \/ Lose

StreamSpec == StreamInit /\ [][StreamNext]_streamVars
=============================================================================
