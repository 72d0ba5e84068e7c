------------------------- MODULE PortPipelineProofs -------------------------
(***************************************************************************)
(* Proofs about PortPipeline, for chains of any length and any number of   *)
(* messages: type correctness, order and conservation of the messages in   *)
(* the channels, and the implementation of the abstract link of PortLink.  *)
(***************************************************************************)
EXTENDS PortPipeline, SequenceTheorems, TLAPS

(* The inductive invariant.  Order alone is not inductive: that the        *)
(* message a forwarder appends lands at its place needs the counts that    *)
(* Conservation relates, and those need the types.                         *)
IInv ==
  /\ TypeOK
  /\ InFlightInOrder
  /\ Conservation
  /\ ReceivedIsPrefix

USE NothingAssumption, MaxHopsAssumption, MaxSentAssumption

-----------------------------------------------------------------------------
(* Updating a function at one argument, stated once. *)
LEMMA UpdateOne ==
  ASSUME NEW S, NEW T, NEW g \in [S -> T], NEW a \in S, NEW v \in T
  PROVE  /\ [g EXCEPT ![a] = v] \in [S -> T]
         /\ [g EXCEPT ![a] = v][a] = v
         /\ \A x \in S : x # a => [g EXCEPT ![a] = v][x] = g[x]
  OBVIOUS

(* Moving one unit from one summand to the other. *)
LEMMA Shift ==
  ASSUME NEW a \in Nat, NEW b \in Nat
  PROVE  a + b = (a + 1) + (b - 1)
  OBVIOUS

(* A chain has a first and a last channel, and every forwarder reads one   *)
(* channel of the chain and fills the next.                                *)
LEMMA StageFacts ==
  ASSUME TypeOK
  PROVE  /\ 1 \in Stages /\ hops \in Stages
         /\ Channels \subseteq Stages /\ 1 \in Channels /\ hops \in Channels
         /\ \A f \in Forwarders :
              f \in Stages /\ f + 1 \in Stages /\ f \in Channels
              /\ f + 1 \in Channels /\ f # hops /\ f # f + 1
  BY DEF TypeOK, Stages, Channels, Forwarders

(* PortPipeline never leaves its types, for any Msg, MaxHops and MaxSent.  *)
LEMMA TypeInit == Init => TypeOK
  BY DEF Init, TypeOK, Link!Status

LEMMA TypeStep == TypeOK /\ [Next]_vars => TypeOK'
<1> SUFFICES ASSUME TypeOK, [Next]_vars
             PROVE  TypeOK'
  OBVIOUS
<1>0. 1 \in Stages /\ hops \in Stages
  BY StageFacts
<1>1. ASSUME NEW m \in Msg, Produce(m)
      PROVE  TypeOK'
  <2>1. Append(chan[1], m) \in Seq(Msg) /\ Append(sent, m) \in Seq(Msg)
    BY <1>0, AppendProperties DEF TypeOK
  <2>2. entered[1] + 1 \in Nat
    BY <1>0 DEF TypeOK
  <2>3. chan' \in [Stages -> Seq(Msg)] /\ entered' \in [Stages -> Nat]
    BY <1>0, <1>1, <2>1, <2>2, UpdateOne DEF Produce, TypeOK
  <2>4. QED
    BY <1>1, <2>1, <2>3 DEF Produce, TypeOK
<1>2. CASE ProduceRejected
  BY <1>2 DEF ProduceRejected, TypeOK, Link!Status
<1>3. ASSUME NEW f \in Forwarders, Take(f)
      PROVE  TypeOK'
  <2>1. f \in Stages /\ chan[f] \in Seq(Msg) /\ chan[f] # <<>>
    BY <1>3, StageFacts DEF Take, TypeOK
  <2>2. Tail(chan[f]) \in Seq(Msg) /\ Head(chan[f]) \in Msg
    BY <2>1, HeadTailProperties
  <2>3. left[f] + 1 \in Nat
    BY <2>1 DEF TypeOK
  <2>4. chan' \in [Stages -> Seq(Msg)] /\ left' \in [Stages -> Nat]
    BY <1>3, <2>1, <2>2, <2>3, UpdateOne DEF Take, TypeOK
  <2>5. hand' \in [Stages -> Msg \cup {Nothing}]
    BY <1>3, <2>1, <2>2, UpdateOne DEF Take, TypeOK
  <2>6. QED
    BY <1>3, <2>4, <2>5 DEF Take, TypeOK
<1>4. ASSUME NEW f \in Forwarders, Give(f)
      PROVE  TypeOK'
  <2>1. f \in Stages /\ f + 1 \in Stages
    BY StageFacts
  <2>2. chan[f + 1] \in Seq(Msg) /\ hand[f] \in Msg
    BY <1>4, <2>1 DEF Give, TypeOK
  <2>3. Append(chan[f + 1], hand[f]) \in Seq(Msg) /\ entered[f + 1] + 1 \in Nat
    BY <2>1, <2>2, AppendProperties DEF TypeOK
  <2>4. chan' \in [Stages -> Seq(Msg)] /\ entered' \in [Stages -> Nat]
    <3>1. CASE ReceiverAlive(f + 1)
      <4>1. /\ chan' = [chan EXCEPT ![f + 1] = Append(chan[f + 1], hand[f])]
            /\ entered' = [entered EXCEPT ![f + 1] = entered[f + 1] + 1]
        BY <1>4, <3>1 DEF Give
      <4>2. QED
        BY <2>1, <2>3, <4>1, UpdateOne DEF TypeOK
    <3>2. CASE ~ReceiverAlive(f + 1)
      BY <1>4, <3>2 DEF Give, TypeOK
    <3>3. QED
      BY <3>1, <3>2
  <2>5. hand' \in [Stages -> Msg \cup {Nothing}]
    BY <1>4, <2>1, UpdateOne DEF Give, TypeOK
  <2>6. QED
    BY <1>4, <2>4, <2>5 DEF Give, TypeOK
<1>5. CASE Consume
  <2>1. chan[hops] \in Seq(Msg) /\ chan[hops] # <<>>
    BY <1>5, <1>0 DEF Consume, TypeOK
  <2>2. Tail(chan[hops]) \in Seq(Msg) /\ Head(chan[hops]) \in Msg
    BY <2>1, HeadTailProperties
  <2>3. left[hops] + 1 \in Nat
    BY <1>0 DEF TypeOK
  <2>4. chan' \in [Stages -> Seq(Msg)] /\ left' \in [Stages -> Nat]
    BY <1>5, <1>0, <2>2, <2>3, UpdateOne DEF Consume, TypeOK
  <2>5. got' \in Seq(Msg)
    BY <1>5, <2>2, AppendProperties DEF Consume, TypeOK
  <2>6. QED
    BY <1>5, <2>4, <2>5 DEF Consume, TypeOK
<1>6. CASE ProducerFails
  BY <1>6 DEF ProducerFails, TypeOK, Link!Status
<1>7. CASE ConsumerFails
  <2>1. <<>> \in Seq(Msg)
    OBVIOUS
  <2>2. chan' \in [Stages -> Seq(Msg)]
    BY <1>7, <1>0, <2>1, UpdateOne DEF ConsumerFails, TypeOK
  <2>3. QED
    BY <1>7, <2>2 DEF ConsumerFails, TypeOK
<1>8. CASE UNCHANGED vars
  BY <1>8 DEF vars, TypeOK
<1>9. QED
  BY <1>1, <1>2, <1>3, <1>4, <1>5, <1>6, <1>7, <1>8 DEF Next

THEOREM TypeCorrect == Spec => []TypeOK
  BY TypeInit, TypeStep, PTL DEF Spec
-----------------------------------------------------------------------------
(* Order and conservation.  One lemma for each action that moves a         *)
(* message.                                                                *)
LEMMA OrderInit == Init => IInv
<1> SUFFICES ASSUME Init
             PROVE  IInv
  OBVIOUS
<1>1. TypeOK
  BY TypeInit
<1>2. \A h \in Stages : chan[h] = <<>> /\ entered[h] = 0 /\ left[h] = 0
                        /\ hand[h] = Nothing
  BY DEF Init
<1>3. InFlightInOrder
  BY <1>1, <1>2, StageFacts
  DEF InFlightInOrder, ChannelsInOrder, HandsInOrder
<1>4. Conservation /\ ReceivedIsPrefix
  BY <1>1, <1>2, StageFacts
  DEF Init, Conservation, ReceivedIsPrefix, Held
<1>5. QED
  BY <1>1, <1>3, <1>4 DEF IInv

(* A message sent goes to the end of channel 1 and of the history: both    *)
(* places have the same number because all that was sent has entered       *)
(* channel 1.                                                              *)
LEMMA ProduceStep ==
  ASSUME IInv, TypeOK', NEW m \in Msg, Produce(m)
  PROVE  IInv'
<1>1. /\ 1 \in Stages /\ 1 \in Channels /\ hops \in Channels
      /\ Channels \subseteq Stages
      /\ chan \in [Stages -> Seq(Msg)] /\ sent \in Seq(Msg)
      /\ entered \in [Stages -> Nat] /\ left \in [Stages -> Nat]
  BY StageFacts DEF IInv, TypeOK
<1>2. /\ chan'[1] = Append(chan[1], m)
      /\ \A h \in Stages : h # 1 => chan'[h] = chan[h]
      /\ entered'[1] = entered[1] + 1
      /\ \A h \in Stages : h # 1 => entered'[h] = entered[h]
  BY <1>1 DEF Produce
<1>3. /\ Len(chan'[1]) = Len(chan[1]) + 1
      /\ \A i \in 1 .. Len(chan[1]) : chan'[1][i] = chan[1][i]
      /\ chan'[1][Len(chan[1]) + 1] = m
  BY <1>1, <1>2, AppendProperties
<1>4. /\ Len(sent') = Len(sent) + 1
      /\ \A i \in 1 .. Len(sent) : sent'[i] = sent[i]
      /\ sent'[Len(sent) + 1] = m
  BY <1>1, AppendProperties DEF Produce
<1>5. /\ UNCHANGED <<hops, hand, prod, cons, got, left>>
      /\ Channels' = Channels /\ Forwarders' = Forwarders
      /\ prod = "up"
  BY DEF Produce, Channels, Forwarders
<1>6. entered[1] = left[1] + Len(chan[1]) /\ entered[1] = Len(sent)
  BY <1>1 DEF Produce, IInv, Conservation
<1>7. ChannelsInOrder'
  <2> SUFFICES ASSUME NEW h \in Channels, NEW i \in 1 .. Len(chan'[h])
               PROVE  left[h] + i <= Len(sent') /\ chan'[h][i] = sent'[left[h] + i]
    BY <1>5 DEF ChannelsInOrder
  <2>1. h \in Stages /\ left[h] \in Nat /\ Len(sent) \in Nat /\ Len(chan[h]) \in Nat
    BY <1>1
  <2>2. CASE i \in 1 .. Len(chan[h])
    <3>1. left[h] + i \in 1 .. Len(sent) /\ chan[h][i] = sent[left[h] + i]
      BY <2>1, <2>2 DEF IInv, InFlightInOrder, ChannelsInOrder
    <3>2. chan'[h][i] = chan[h][i]
      BY <1>2, <1>3, <2>1, <2>2
    <3>3. QED
      BY <1>4, <2>1, <3>1, <3>2
  <2>3. CASE i \notin 1 .. Len(chan[h])
    <3>1. h = 1 /\ i = Len(chan[1]) + 1
      BY <1>2, <1>3, <2>1, <2>3
    <3>2. QED
      BY <1>3, <1>4, <1>6, <2>1, <3>1
  <2>4. QED
    BY <2>2, <2>3
<1>8. HandsInOrder'
  <2> SUFFICES ASSUME NEW f \in Forwarders, hand[f] # Nothing
               PROVE  left[f] \in 1 .. Len(sent') /\ hand[f] = sent'[left[f]]
    BY <1>5 DEF HandsInOrder
  <2>1. left[f] \in 1 .. Len(sent) /\ hand[f] = sent[left[f]]
    BY DEF IInv, InFlightInOrder, HandsInOrder
  <2>2. QED
    BY <1>1, <1>4, <2>1
<1>9. Conservation'
  <2>1. \A h \in Channels : ReceiverAlive(h)' <=> ReceiverAlive(h)
    BY <1>5 DEF ReceiverAlive
  <2>2. \A f \in Forwarders : /\ Held(f)' = Held(f) /\ f + 1 \in Stages /\ f + 1 # 1
                              /\ f + 1 \in Channels
    BY <1>5, StageFacts DEF Held, IInv, Forwarders
  <2>3. entered'[1] = Len(sent') /\ left'[hops'] = Len(got')
    BY <1>2, <1>4, <1>5, <1>6 DEF IInv, Conservation
  <2>4. \A h \in Channels :
          ReceiverAlive(h) => entered'[h] = left[h] + Len(chan'[h])
    <3> SUFFICES ASSUME NEW h \in Channels, ReceiverAlive(h)
                 PROVE  entered'[h] = left[h] + Len(chan'[h])
      OBVIOUS
    <3>1. entered[h] = left[h] + Len(chan[h]) /\ h \in Stages
          /\ left[h] \in Nat /\ Len(chan[h]) \in Nat
      BY <1>1 DEF IInv, Conservation
    <3>2. CASE h = 1
      <4>1. entered'[1] = left[1] + (Len(chan[1]) + 1)
        BY <1>1, <1>2, <1>6
      <4>2. QED
        BY <1>3, <3>2, <4>1
    <3>3. CASE h # 1
      BY <1>2, <3>1, <3>3
    <3>4. QED
      BY <3>2, <3>3
  <2>5. \A f \in Forwarders :
          ReceiverAlive(f + 1) => left[f] = entered'[f + 1] + Held(f)
    BY <1>2, <2>2 DEF IInv, Conservation
  <2>6. QED
    BY <1>5, <2>1, <2>2, <2>3, <2>4, <2>5 DEF Conservation
<1>10. ReceivedIsPrefix'
  <2>1. Len(got) \in Nat /\ Len(sent) \in Nat
    BY DEF IInv, TypeOK
  <2>2. QED
    BY <1>4, <1>5, <2>1 DEF IInv, ReceivedIsPrefix
<1>11. QED
  BY <1>7, <1>8, <1>9, <1>10 DEF IInv, InFlightInOrder
(* What try_recv takes is the message number left + 1, and stays that      *)
(* message in the hand of the forwarder.                                   *)
LEMMA TakeStep ==
  ASSUME IInv, TypeOK', NEW f \in Forwarders, Take(f)
  PROVE  IInv'
<1>1. /\ f \in Stages /\ f \in Channels /\ f # hops /\ hops \in Stages
      /\ Channels \subseteq Stages
      /\ \A g \in Forwarders : g \in Stages /\ g + 1 \in Channels
      /\ chan \in [Stages -> Seq(Msg)] /\ sent \in Seq(Msg)
      /\ hand \in [Stages -> Msg \cup {Nothing}]
      /\ entered \in [Stages -> Nat] /\ left \in [Stages -> Nat]
  BY StageFacts DEF IInv, TypeOK
<1>2. /\ chan'[f] = Tail(chan[f]) /\ hand'[f] = Head(chan[f])
      /\ left'[f] = left[f] + 1
      /\ \A h \in Stages : h # f => /\ chan'[h] = chan[h] /\ hand'[h] = hand[h]
                                   /\ left'[h] = left[h]
  BY <1>1 DEF Take
<1>3. chan[f] \in Seq(Msg) /\ chan[f] # <<>> /\ hand[f] = Nothing
  BY <1>1 DEF Take
<1>4. /\ Len(chan'[f]) = Len(chan[f]) - 1 /\ Len(chan[f]) \in Nat \ {0}
      /\ \A i \in 1 .. Len(chan'[f]) : chan'[f][i] = chan[f][i + 1]
      /\ Head(chan[f]) = chan[f][1] /\ Head(chan[f]) \in Msg
  BY <1>2, <1>3, HeadTailProperties, EmptySeq
<1>5. /\ UNCHANGED <<hops, prod, cons, sent, got, entered>>
      /\ Channels' = Channels /\ Forwarders' = Forwarders
  BY DEF Take, Channels, Forwarders
<1>6. \A i \in 1 .. Len(chan[f]) :
        left[f] + i <= Len(sent) /\ chan[f][i] = sent[left[f] + i]
  BY <1>1 DEF IInv, InFlightInOrder, ChannelsInOrder
<1>7. ChannelsInOrder'
  <2> SUFFICES ASSUME NEW h \in Channels, NEW i \in 1 .. Len(chan'[h])
               PROVE  left'[h] + i <= Len(sent) /\ chan'[h][i] = sent[left'[h] + i]
    BY <1>5 DEF ChannelsInOrder
  <2>1. CASE h = f
    <3>1. i + 1 \in 1 .. Len(chan[f]) /\ left[f] \in Nat /\ i \in Nat
      BY <1>1, <1>4, <2>1
    <3>2. chan'[f][i] = chan[f][i + 1]
      BY <1>4, <2>1
    <3>3. left'[f] = left[f] + 1
      BY <1>2
    <3>4. left'[f] + i = left[f] + (i + 1)
      BY <3>1, <3>3
    <3>5. QED
      BY <1>6, <2>1, <3>1, <3>2, <3>4
  <2>2. CASE h # f
    BY <1>1, <1>2, <2>2 DEF IInv, InFlightInOrder, ChannelsInOrder
  <2>3. QED
    BY <2>1, <2>2
<1>8. HandsInOrder'
  <2> SUFFICES ASSUME NEW g \in Forwarders, hand'[g] # Nothing
               PROVE  left'[g] \in 1 .. Len(sent) /\ hand'[g] = sent[left'[g]]
    BY <1>5 DEF HandsInOrder
  <2>1. CASE g = f
    <3>1. left[f] + 1 <= Len(sent) /\ chan[f][1] = sent[left[f] + 1]
      BY <1>4, <1>6
    <3>2. QED
      BY <1>1, <1>2, <1>4, <2>1, <3>1
  <2>2. CASE g # f
    BY <1>1, <1>2, <2>2 DEF IInv, InFlightInOrder, HandsInOrder
  <2>3. QED
    BY <2>1, <2>2
<1>9. Conservation'
  <2>1. \A h \in Channels : ReceiverAlive(h)' <=> ReceiverAlive(h)
    BY <1>5 DEF ReceiverAlive
  <2>2. Held(f)' = 1 /\ Held(f) = 0
    BY <1>2, <1>3, <1>4 DEF Held
  <2>3. \A g \in Forwarders : g # f => Held(g)' = Held(g)
    BY <1>1, <1>2 DEF Held
  <2>4. \A h \in Channels :
          ReceiverAlive(h) => entered[h] = left'[h] + Len(chan'[h])
    <3> SUFFICES ASSUME NEW h \in Channels, ReceiverAlive(h)
                 PROVE  entered[h] = left'[h] + Len(chan'[h])
      OBVIOUS
    <3>1. entered[h] = left[h] + Len(chan[h]) /\ h \in Stages /\ left[h] \in Nat
      BY <1>1 DEF IInv, Conservation
    <3>2. CASE h = f
      <4>0. entered[f] = left[f] + Len(chan[f]) /\ left[f] \in Nat
        BY <3>1, <3>2
      <4>1. entered[f] = (left[f] + 1) + (Len(chan[f]) - 1)
        BY <1>4, <4>0, Shift
      <4>2. QED
        BY <1>2, <1>4, <3>2, <4>1
    <3>3. CASE h # f
      BY <1>2, <3>1, <3>3
    <3>4. QED
      BY <3>2, <3>3
  <2>5. \A g \in Forwarders :
          ReceiverAlive(g + 1) => left'[g] = entered[g + 1] + Held(g)'
    <3> SUFFICES ASSUME NEW g \in Forwarders, ReceiverAlive(g + 1)
                 PROVE  left'[g] = entered[g + 1] + Held(g)'
      OBVIOUS
    <3>1. left[g] = entered[g + 1] + Held(g) /\ g \in Stages /\ g + 1 \in Stages
      BY <1>1 DEF IInv, Conservation
    <3>2. CASE g = f
      BY <1>1, <1>2, <2>2, <3>1, <3>2
    <3>3. CASE g # f
      BY <1>2, <2>3, <3>1, <3>3
    <3>4. QED
      BY <3>2, <3>3
  <2>6. entered'[1] = Len(sent') /\ left'[hops'] = Len(got')
    BY <1>1, <1>2, <1>5 DEF IInv, Conservation
  <2>7. QED
    BY <1>1, <1>5, <2>1, <2>4, <2>5, <2>6 DEF Conservation
<1>10. ReceivedIsPrefix'
  BY <1>5 DEF IInv, ReceivedIsPrefix
<1>11. QED
  BY <1>7, <1>8, <1>9, <1>10 DEF IInv, InFlightInOrder

(* What a forwarder sends on goes to the end of the next channel: all that *)
(* left its own channel before has entered the next one, so the place is   *)
(* the right one.  Without a Receiver there the message is dropped.        *)
LEMMA GiveStep ==
  ASSUME IInv, TypeOK', NEW f \in Forwarders, Give(f)
  PROVE  IInv'
<1>1. /\ f \in Stages /\ f + 1 \in Stages /\ f + 1 \in Channels /\ f # f + 1
      /\ f + 1 # 1 /\ 1 \in Stages /\ Channels \subseteq Stages
      /\ \A g \in Forwarders : /\ g \in Stages /\ g + 1 \in Channels
                               /\ (g + 1 = f + 1 => g = f)
      /\ chan \in [Stages -> Seq(Msg)] /\ sent \in Seq(Msg)
      /\ hand \in [Stages -> Msg \cup {Nothing}]
      /\ entered \in [Stages -> Nat] /\ left \in [Stages -> Nat]
  <2>1. f + 1 # 1 /\ \A g \in Forwarders : g + 1 = f + 1 => g = f
    BY DEF Forwarders
  <2>2. QED
    BY <2>1, StageFacts DEF IInv, TypeOK
<1>2. /\ hand[f] # Nothing /\ hand[f] \in Msg /\ hand'[f] = Nothing
      /\ \A g \in Stages : g # f => hand'[g] = hand[g]
  BY <1>1 DEF Give
<1>3. /\ UNCHANGED <<hops, prod, cons, sent, got, left>>
      /\ Channels' = Channels /\ Forwarders' = Forwarders
      /\ \A h \in Channels : ReceiverAlive(h)' <=> ReceiverAlive(h)
  BY DEF Give, Channels, Forwarders, ReceiverAlive
<1>4. left[f] \in 1 .. Len(sent) /\ hand[f] = sent[left[f]]
  BY <1>2 DEF IInv, InFlightInOrder, HandsInOrder
<1>5. HandsInOrder'
  BY <1>1, <1>2, <1>3 DEF IInv, InFlightInOrder, HandsInOrder
<1>6. ReceivedIsPrefix'
  BY <1>3 DEF IInv, ReceivedIsPrefix
<1>7. Held(f)' = 0 /\ Held(f) = 1 /\ \A g \in Forwarders : g # f => Held(g)' = Held(g)
  BY <1>1, <1>2 DEF Held
<1>8. CASE ReceiverAlive(f + 1)
  <2>1. /\ chan'[f + 1] = Append(chan[f + 1], hand[f])
        /\ entered'[f + 1] = entered[f + 1] + 1
        /\ \A h \in Stages : h # f + 1 => chan'[h] = chan[h] /\ entered'[h] = entered[h]
    BY <1>1, <1>8 DEF Give
  <2>2. /\ Len(chan'[f + 1]) = Len(chan[f + 1]) + 1
        /\ \A i \in 1 .. Len(chan[f + 1]) : chan'[f + 1][i] = chan[f + 1][i]
        /\ chan'[f + 1][Len(chan[f + 1]) + 1] = hand[f]
        /\ Len(chan[f + 1]) \in Nat
    BY <1>1, <1>2, <2>1, AppendProperties
  <2>3. left[f] = entered[f + 1] + 1
        /\ entered[f + 1] = left[f + 1] + Len(chan[f + 1])
    BY <1>1, <1>7, <1>8 DEF IInv, Conservation
  <2>4. ChannelsInOrder'
    <3> SUFFICES ASSUME NEW h \in Channels, NEW i \in 1 .. Len(chan'[h])
                 PROVE  left[h] + i <= Len(sent) /\ chan'[h][i] = sent[left[h] + i]
      BY <1>3 DEF ChannelsInOrder
    <3>1. CASE h = f + 1 /\ i = Len(chan[f + 1]) + 1
      <4>1. left[f] = left[f + 1] + (Len(chan[f + 1]) + 1)
        BY <1>1, <2>2, <2>3
      <4>2. QED
        BY <1>4, <2>2, <3>1, <4>1
    <3>2. CASE ~(h = f + 1 /\ i = Len(chan[f + 1]) + 1)
      <4>1. i \in 1 .. Len(chan[h]) /\ chan'[h][i] = chan[h][i]
        <5>1. CASE h = f + 1
          BY <2>2, <3>2, <5>1
        <5>2. CASE h # f + 1
          BY <1>1, <2>1, <5>2
        <5>3. QED
          BY <5>1, <5>2
      <4>2. QED
        BY <4>1 DEF IInv, InFlightInOrder, ChannelsInOrder
    <3>3. QED
      BY <3>1, <3>2
  <2>5. Conservation'
    <3>1. entered'[1] = Len(sent') /\ left'[hops'] = Len(got')
      BY <1>1, <1>3, <2>1 DEF IInv, Conservation
    <3>2. \A h \in Channels :
            ReceiverAlive(h) => entered'[h] = left[h] + Len(chan'[h])
      <4> SUFFICES ASSUME NEW h \in Channels, ReceiverAlive(h)
                   PROVE  entered'[h] = left[h] + Len(chan'[h])
        OBVIOUS
      <4>1. CASE h = f + 1
        <5>1. entered'[f + 1] = left[f + 1] + (Len(chan[f + 1]) + 1)
          BY <1>1, <2>1, <2>2, <2>3
        <5>2. QED
          BY <2>2, <4>1, <5>1
      <4>2. CASE h # f + 1
        BY <1>1, <2>1, <4>2 DEF IInv, Conservation
      <4>3. QED
        BY <4>1, <4>2
    <3>3. \A g \in Forwarders :
            ReceiverAlive(g + 1) => left[g] = entered'[g + 1] + Held(g)'
      <4> SUFFICES ASSUME NEW g \in Forwarders, ReceiverAlive(g + 1)
                   PROVE  left[g] = entered'[g + 1] + Held(g)'
        OBVIOUS
      <4>1. CASE g = f
        BY <1>1, <1>7, <2>1, <2>3, <4>1
      <4>2. CASE g # f
        BY <1>1, <1>7, <2>1, <4>2 DEF IInv, Conservation
      <4>3. QED
        BY <4>1, <4>2
    <3>4. QED
      BY <1>1, <1>3, <3>1, <3>2, <3>3 DEF Conservation
  <2>6. QED
    BY <1>5, <1>6, <2>4, <2>5 DEF IInv, InFlightInOrder
<1>9. CASE ~ReceiverAlive(f + 1)
  <2>1. UNCHANGED <<chan, entered>>
    BY <1>9 DEF Give
  <2>2. ChannelsInOrder'
    BY <1>3, <2>1 DEF IInv, InFlightInOrder, ChannelsInOrder
  <2>3. Conservation'
    BY <1>1, <1>3, <1>7, <1>9, <2>1 DEF IInv, Conservation
  <2>4. QED
    BY <1>5, <1>6, <2>2, <2>3 DEF IInv, InFlightInOrder
<1>10. QED
  BY <1>8, <1>9
(* The consumer receives the message number left + 1 of the last channel,  *)
(* and it has received left messages before.                               *)
LEMMA ConsumeStep ==
  ASSUME IInv, TypeOK', Consume
  PROVE  IInv'
<1>1. /\ hops \in Stages /\ hops \in Channels /\ Channels \subseteq Stages
      /\ \A g \in Forwarders : g \in Stages /\ g # hops /\ g + 1 \in Channels
      /\ chan \in [Stages -> Seq(Msg)] /\ sent \in Seq(Msg) /\ got \in Seq(Msg)
      /\ entered \in [Stages -> Nat] /\ left \in [Stages -> Nat]
  BY StageFacts DEF IInv, TypeOK
<1>2. /\ chan'[hops] = Tail(chan[hops]) /\ left'[hops] = left[hops] + 1
      /\ \A h \in Stages : h # hops => chan'[h] = chan[h] /\ left'[h] = left[h]
  BY <1>1 DEF Consume
<1>3. chan[hops] \in Seq(Msg) /\ chan[hops] # <<>>
  BY <1>1 DEF Consume
<1>4. /\ Len(chan'[hops]) = Len(chan[hops]) - 1 /\ Len(chan[hops]) \in Nat \ {0}
      /\ \A i \in 1 .. Len(chan'[hops]) : chan'[hops][i] = chan[hops][i + 1]
      /\ Head(chan[hops]) = chan[hops][1] /\ Head(chan[hops]) \in Msg
  BY <1>2, <1>3, HeadTailProperties, EmptySeq
<1>5. /\ UNCHANGED <<hops, hand, prod, cons, sent, entered>>
      /\ Channels' = Channels /\ Forwarders' = Forwarders
      /\ \A h \in Channels : ReceiverAlive(h)' <=> ReceiverAlive(h)
      /\ ReceiverAlive(hops)
  BY DEF Consume, Channels, Forwarders, ReceiverAlive
<1>6. /\ Len(got') = Len(got) + 1
      /\ \A i \in 1 .. Len(got) : got'[i] = got[i]
      /\ got'[Len(got) + 1] = chan[hops][1]
      /\ Len(got) \in Nat /\ Len(sent) \in Nat
  BY <1>1, <1>4, AppendProperties DEF Consume
<1>7. \A i \in 1 .. Len(chan[hops]) :
        left[hops] + i <= Len(sent) /\ chan[hops][i] = sent[left[hops] + i]
  BY <1>1 DEF IInv, InFlightInOrder, ChannelsInOrder
<1>8. left[hops] = Len(got) /\ entered[hops] = left[hops] + Len(chan[hops])
  BY <1>1, <1>5 DEF IInv, Conservation
<1>9. ChannelsInOrder'
  <2> SUFFICES ASSUME NEW h \in Channels, NEW i \in 1 .. Len(chan'[h])
               PROVE  left'[h] + i <= Len(sent) /\ chan'[h][i] = sent[left'[h] + i]
    BY <1>5 DEF ChannelsInOrder
  <2>1. CASE h = hops
    <3>1. i + 1 \in 1 .. Len(chan[hops]) /\ left[hops] \in Nat /\ i \in Nat
      BY <1>1, <1>4, <2>1
    <3>2. chan'[hops][i] = chan[hops][i + 1]
      BY <1>4, <2>1
    <3>3. left'[hops] + i = left[hops] + (i + 1)
      BY <1>2, <3>1
    <3>4. QED
      BY <1>7, <2>1, <3>1, <3>2, <3>3
  <2>2. CASE h # hops
    BY <1>1, <1>2, <2>2 DEF IInv, InFlightInOrder, ChannelsInOrder
  <2>3. QED
    BY <2>1, <2>2
<1>10. HandsInOrder'
  BY <1>1, <1>2, <1>5 DEF IInv, InFlightInOrder, HandsInOrder
<1>11. Conservation'
  <2>1. \A g \in Forwarders : Held(g)' = Held(g) /\ left'[g] = left[g]
    BY <1>1, <1>2, <1>5 DEF Held
  <2>2. \A h \in Channels :
          ReceiverAlive(h) => entered[h] = left'[h] + Len(chan'[h])
    <3> SUFFICES ASSUME NEW h \in Channels, ReceiverAlive(h)
                 PROVE  entered[h] = left'[h] + Len(chan'[h])
      OBVIOUS
    <3>1. CASE h = hops
      <4>1. entered[hops] = (left[hops] + 1) + (Len(chan[hops]) - 1)
        BY <1>4, <1>6, <1>8, Shift
      <4>2. QED
        BY <1>2, <1>4, <3>1, <4>1
    <3>2. CASE h # hops
      BY <1>1, <1>2, <3>2 DEF IInv, Conservation
    <3>3. QED
      BY <3>1, <3>2
  <2>3. left'[hops'] = Len(got')
    BY <1>2, <1>5, <1>6, <1>8
  <2>4. QED
    BY <1>1, <1>5, <2>1, <2>2, <2>3 DEF IInv, Conservation
<1>12. ReceivedIsPrefix'
  <2>1. chan[hops][1] = sent[Len(got) + 1] /\ Len(got) + 1 <= Len(sent)
    BY <1>4, <1>7, <1>8
  <2>2. \A i \in 1 .. Len(got') : got'[i] = sent[i]
    BY <1>6, <2>1 DEF IInv, ReceivedIsPrefix
  <2>3. QED
    BY <1>5, <1>6, <2>1, <2>2 DEF ReceivedIsPrefix
<1>13. QED
  BY <1>9, <1>10, <1>11, <1>12 DEF IInv, InFlightInOrder

(* Failures move no message; the channel that a failing consumer empties   *)
(* is the one Conservation makes no claim about from then on.  A producer  *)
(* can only panic on a channel without Receiver, and that is a channel     *)
(* which is both the first and the last one.                               *)
LEMMA FailureStep ==
  ASSUME IInv, TypeOK', ProduceRejected \/ ProducerFails \/ ConsumerFails
  PROVE  IInv'
<1>1. CASE ProduceRejected
  <2>1. hops = 1 /\ cons = "failed"
    BY <1>1 DEF ProduceRejected, ReceiverAlive, IInv, TypeOK
  <2>2. QED
    BY <1>1, <2>1
    DEF ProduceRejected, IInv, InFlightInOrder, ChannelsInOrder, HandsInOrder,
        Conservation, ReceivedIsPrefix, Channels, Forwarders,
        ReceiverAlive, Held
<1>2. CASE ProducerFails
  BY <1>2
  DEF ProducerFails, IInv, InFlightInOrder, ChannelsInOrder, HandsInOrder,
      Conservation, ReceivedIsPrefix, Channels, Forwarders,
      ReceiverAlive, Held
<1>3. CASE ConsumerFails
  <2>1. /\ hops \in Stages /\ Channels \subseteq Stages
        /\ chan \in [Stages -> Seq(Msg)]
        /\ \A g \in Forwarders : g + 1 \in Channels
    BY StageFacts DEF IInv, TypeOK
  <2>2. /\ chan'[hops] = <<>> /\ cons = "up" /\ cons' = "failed"
        /\ \A h \in Stages : h # hops => chan'[h] = chan[h]
        /\ UNCHANGED <<hops, hand, prod, sent, got, entered, left>>
        /\ Channels' = Channels /\ Forwarders' = Forwarders
    BY <1>3, <2>1 DEF ConsumerFails, Channels, Forwarders
  <2>3. \A h \in Channels : ReceiverAlive(h) /\ (ReceiverAlive(h)' => h # hops)
    BY <2>2 DEF ReceiverAlive
  <2>4. ChannelsInOrder'
    <3> SUFFICES ASSUME NEW h \in Channels, NEW i \in 1 .. Len(chan'[h])
                 PROVE  left[h] + i <= Len(sent) /\ chan'[h][i] = sent[left[h] + i]
      BY <2>2 DEF ChannelsInOrder
    <3>1. h # hops
      BY <2>2
    <3>2. QED
      BY <2>1, <2>2, <3>1 DEF IInv, InFlightInOrder, ChannelsInOrder
  <2>5. HandsInOrder'
    BY <2>2 DEF IInv, InFlightInOrder, HandsInOrder
  <2>6. Conservation'
    <3>1. \A g \in Forwarders : Held(g)' = Held(g)
      BY <2>2 DEF Held
    <3>2. QED
      BY <2>1, <2>2, <2>3, <3>1 DEF IInv, Conservation
  <2>7. ReceivedIsPrefix'
    BY <2>2 DEF IInv, ReceivedIsPrefix
  <2>8. QED
    BY <2>4, <2>5, <2>6, <2>7 DEF IInv, InFlightInOrder
<1>4. QED
  BY <1>1, <1>2, <1>3

LEMMA OrderStep == IInv /\ [Next]_vars => IInv'
<1> SUFFICES ASSUME IInv, [Next]_vars
             PROVE  IInv'
  OBVIOUS
<1>0. TypeOK'
  BY TypeStep DEF IInv
<1>1. ASSUME NEW m \in Msg, Produce(m)
      PROVE  IInv'
  BY <1>0, <1>1, ProduceStep
<1>2. ASSUME NEW f \in Forwarders, Take(f)
      PROVE  IInv'
  BY <1>0, <1>2, TakeStep
<1>3. ASSUME NEW f \in Forwarders, Give(f)
      PROVE  IInv'
  BY <1>0, <1>3, GiveStep
<1>4. CASE Consume
  BY <1>0, <1>4, ConsumeStep
<1>5. CASE ProduceRejected \/ ProducerFails \/ ConsumerFails
  BY <1>0, <1>5, FailureStep
<1>6. CASE UNCHANGED vars
  BY <1>6
  DEF vars, IInv, TypeOK, InFlightInOrder, ChannelsInOrder, HandsInOrder,
      Conservation, ReceivedIsPrefix, Channels, Forwarders,
      ReceiverAlive, Held
<1>7. QED
  BY <1>1, <1>2, <1>3, <1>4, <1>5, <1>6 DEF Next

(* Order, conservation and prefix hold in every reachable state of a chain *)
(* of any length.                                                          *)
THEOREM InvariantHolds == Spec => []IInv
  BY OrderInit, OrderStep, PTL DEF Spec

(* No hop reorders, duplicates or overtakes a message.                     *)
THEOREM OrderKept == Spec => []InFlightInOrder
<1>1. IInv => InFlightInOrder
  BY DEF IInv
<1>2. QED
  BY <1>1, InvariantHolds, PTL

(* Only a channel whose Receiver was dropped loses messages.               *)
THEOREM NothingLost == Spec => []Conservation
<1>1. IInv => Conservation
  BY DEF IInv
<1>2. QED
  BY <1>1, InvariantHolds, PTL

(* What the consumer has received is a prefix of what was sent.            *)
THEOREM PrefixReceived == Spec => []ReceivedIsPrefix
<1>1. IInv => ReceivedIsPrefix
  BY DEF IInv
<1>2. QED
  BY <1>1, InvariantHolds, PTL

-----------------------------------------------------------------------------
(* A step of the pipeline is a step of the abstract link or invisible to   *)
(* it: only Produce, Consume and the failures show.                        *)
LEMMA LinkStep == IInv /\ [Next]_vars => [Link!LinkNext]_Link!linkVars
<1> SUFFICES ASSUME IInv, [Next]_vars
             PROVE  [Link!LinkNext]_Link!linkVars
  OBVIOUS
<1>1. ASSUME NEW m \in Msg, Produce(m)
      PROVE  Link!LinkNext
  BY <1>1 DEF Produce, Link!LinkNext, Link!Send
<1>2. ASSUME NEW f \in Forwarders, Take(f) \/ Give(f)
      PROVE  UNCHANGED Link!linkVars
  BY <1>2 DEF Take, Give, Link!linkVars
<1>3. CASE Consume
  <2>1. hops \in Channels /\ chan[hops] \in Seq(Msg) /\ chan[hops] # <<>>
    BY <1>3, StageFacts DEF Consume, IInv, TypeOK
  <2>2. Head(chan[hops]) = chan[hops][1] /\ Len(chan[hops]) \in Nat \ {0}
    BY <2>1, EmptySeq
  <2>3. /\ left[hops] + 1 <= Len(sent) /\ chan[hops][1] = sent[left[hops] + 1]
        /\ left[hops] = Len(got)
    BY <2>1, <2>2 DEF IInv, InFlightInOrder, ChannelsInOrder, Conservation
  <2>4. Len(got) \in Nat /\ Len(sent) \in Nat
    BY DEF IInv, TypeOK
  <2>5. Link!Receive
    BY <1>3, <2>2, <2>3, <2>4 DEF Consume, Link!Receive
  <2>6. QED
    BY <2>5 DEF Link!LinkNext
<1>4. CASE ProduceRejected
  <2>1. cons = "failed"
    BY <1>4 DEF ProduceRejected, ReceiverAlive, IInv, TypeOK
  <2>2. QED
    BY <1>4, <2>1 DEF ProduceRejected, Link!LinkNext, Link!ProducerStops
<1>5. CASE ProducerFails
  BY <1>5 DEF ProducerFails, Link!LinkNext, Link!ProducerStops
<1>6. CASE ConsumerFails
  BY <1>6 DEF ConsumerFails, Link!LinkNext, Link!ConsumerStops
<1>7. CASE UNCHANGED vars
  BY <1>7 DEF vars, Link!linkVars
<1>8. QED
  BY <1>1, <1>2, <1>3, <1>4, <1>5, <1>6, <1>7 DEF Next

(* The pipeline implements the safety part of the abstract link; that it   *)
(* also delivers is checked by TLC (ImplementsLink).                       *)
THEOREM PipelineRefinesLink == Spec => Link!LinkSafety
<1>1. Init => Link!LinkInit
  BY DEF Init, Link!LinkInit
<1>2. QED
  BY <1>1, LinkStep, InvariantHolds, PTL DEF Spec, Link!LinkSafety
=============================================================================
