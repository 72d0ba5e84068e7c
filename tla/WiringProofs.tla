----------------------------- MODULE WiringProofs -----------------------------
(***************************************************************************)
(* Proofs about Wiring, for any ports, any list of connections and         *)
(* whatever is remembered of other components: no sink hears a source it   *)
(* is neither connected to here nor remembered for, every connection the   *)
(* generator can express is realised, and a component whose own in ports   *)
(* are linked does not panic when it starts its forwarding threads.        *)
(***************************************************************************)
EXTENDS Wiring, SequenceTheorems, TLAPS

TypeOK ==
  /\ kind \in {"process", "system"}
  /\ conns \in Seq(PortConnection)
  /\ next \in 1 .. Len(conns) + 1
  /\ tx \in [Sources -> Nat]
  /\ rx \in [Sinks -> Nat]
  /\ processed \subseteq Sources

(* The models the generator is given: these facts never change. *)
ModelOK ==
  /\ Distinct(conns)
  /\ kind = "system" => \A c \in ConnSet : c.src \in SubOut /\ c.dst \in SubIn
  /\ Compiles

(* Connections new() has dealt with. *)
Done == {conns[i] : i \in 1 .. next - 1}

(* A channel is numbered by a connection of its source, and its sinks are  *)
(* connected to that source, here or where a broadcast is remembered from. *)
Heard(s, d) ==
  [src |-> s, dst |-> d] \in ConnSet \/ (Broadcast(s) /\ [src |-> s, dst |-> d] \in heard)

ChannelsSound ==
  /\ \A s \in Sources : tx[s] # 0 => tx[s] \in 1 .. next - 1 /\ conns[tx[s]].src = s
  /\ \A d \in Sinks : rx[d] # 0 =>
       rx[d] \in 1 .. next - 1 /\ Heard(conns[rx[d]].src, d)

(* A sink that nobody but s is connected to, here or elsewhere. *)
Only(s, d) == \A e \in ConnSet \cup heard : e.dst = d => e.src = s

(* A broadcast that is set up once is, at its first connection, for all    *)
(* subscribers: those that hear nobody else are still on its channel.      *)
BroadcastsWired ==
  /\ \A c \in Done : SetUpOnce(c.src) => c.src \in processed
  /\ \A s \in processed :
       /\ SetUpOnce(s)
       /\ (\A e \in From(s) : Supported(e)) =>
            /\ tx[s] # 0
            /\ \A d \in Subscribers(s) : Only(s, d) => rx[d] = tx[s]

DoneRealised == \A c \in Done : Expressible(c) => Realised(c)

(* An own out port that a subcomponent is connected to has a receiver. *)
OutPortsFed == \A c \in Done : c.src \in SubOut /\ c.dst \in OwnOut => rx[c.dst] # 0

IInv ==
  /\ TypeOK
  /\ ModelOK
  /\ ChannelsSound
  /\ BroadcastsWired
  /\ DoneRealised
  /\ OutPortsFed
  /\ pc # "wire" => next = Len(conns) + 1
  /\ (Tasks \cap OwnIn \subseteq linked) => pc # "dead"

-----------------------------------------------------------------------------
LEMMA SeqFacts ==
  ASSUME TypeOK
  PROVE  /\ Len(conns) \in Nat
         /\ \A i \in 1 .. Len(conns) : conns[i] \in PortConnection
         /\ ConnSet \subseteq PortConnection
<1>1. Len(conns) \in Nat /\ \A i \in 1 .. Len(conns) : conns[i] \in PortConnection
  BY LenProperties, ElementOfSeq DEF TypeOK
<1> QED
  BY <1>1 DEF ConnSet

(* What is done while wiring are connections of the list, not the next one. *)
LEMMA DoneFacts ==
  ASSUME TypeOK, ModelOK, next <= Len(conns)
  PROVE  /\ Done \subseteq ConnSet
         /\ conns[next] \in ConnSet /\ conns[next] \in PortConnection
         /\ conns[next] \notin Done
         /\ {conns[i] : i \in 1 .. (next + 1) - 1} = Done \cup {conns[next]}
<1>1. /\ Len(conns) \in Nat /\ next \in 1 .. Len(conns)
      /\ 1 .. (next + 1) - 1 = (1 .. next - 1) \cup {next}
      /\ \A i \in 1 .. next - 1 : i \in 1 .. Len(conns) /\ i # next
  BY SeqFacts DEF TypeOK
<1>2. \A i \in 1 .. next - 1 : conns[i] # conns[next]
  BY <1>1 DEF ModelOK, Distinct
<1> QED
  BY <1>1, <1>2, SeqFacts, Zenon DEF Done, ConnSet

(* A broadcast source in a subcomponent is connected to subcomponents only. *)
LEMMA OutPortKinds ==
  ASSUME TypeOK, ModelOK, NEW c \in ConnSet, c.src \in SubOut, c.dst \in OwnOut
  PROVE  Supported(c) /\ ~Broadcast(c.src) /\ ~SetUpOnce(c.src)
<1> QED
  BY PortsAssumption DEF ModelOK, Compiles, Supported, SetUpOnce

-----------------------------------------------------------------------------
LEMMA InitIInv == Init => IInv
<1> SUFFICES ASSUME Init
             PROVE  IInv
  OBVIOUS
<1>1. PICK n \in 0 .. MaxConns : conns \in [1 .. n -> PortConnection]
  BY DEF Init
<1>2. conns \in Seq(PortConnection)
  BY <1>1, SeqDef, MaxConnsAssumption
<1>3. Len(conns) \in Nat
  BY <1>2, LenProperties
<1>4. TypeOK
  BY <1>2, <1>3 DEF Init, TypeOK
<1>5. Done = {}
  BY DEF Init, Done
<1>6. ChannelsSound /\ BroadcastsWired /\ DoneRealised /\ OutPortsFed
  BY <1>5 DEF Init, ChannelsSound, BroadcastsWired, DoneRealised, OutPortsFed
<1> QED
  BY <1>4, <1>6 DEF Init, IInv, ModelOK, Tasks

(* What one connection adds when its source is not processed yet: its      *)
(* channel is new to all fields it touches.                                *)
LEMMA WireParts ==
  ASSUME IInv, Wire, conns[next].src \notin processed
  PROVE  LET c == conns[next]
         IN /\ \A s \in Sources : tx'[s] = IF s = c.src /\ Supported(c) THEN next ELSE tx[s]
            /\ \A d \in Sinks :
                 /\ rx'[d] # rx[d] => rx'[d] = next /\ Heard(c.src, d)
                 /\ d = c.dst /\ Supported(c) /\ ~Broadcast(c.src) => rx'[d] = next
                 /\ d \in Subscribers(c.src) /\ Broadcast(c.src) => rx'[d] = next
            /\ processed' = processed \cup {s \in {c.src} : SetUpOnce(s)}
<1> DEFINE c == conns[next]
           receivers == IF Broadcast(c.src) THEN Subscribers(c.src) ELSE {c.dst}
<1>1. /\ tx' = (IF Supported(c) THEN [tx EXCEPT ![c.src] = next] ELSE tx)
      /\ rx' = (IF Supported(c) \/ Broadcast(c.src)
                THEN [d \in Sinks |-> IF d \in receivers THEN next ELSE rx[d]] ELSE rx)
      /\ processed' = processed \cup {s \in {c.src} : SetUpOnce(s)}
  BY DEF Wire
<1>2. c \in ConnSet /\ c = [src |-> c.src, dst |-> c.dst] /\ c.src \in Sources
  BY DoneFacts, SeqFacts DEF IInv, Wire, PortConnection
<1>3. \A d \in receivers : Heard(c.src, d)
  BY <1>2 DEF Subscribers, Heard
<1>4. tx \in [Sources -> Nat] /\ rx \in [Sinks -> Nat]
  BY DEF IInv, TypeOK
<1> HIDE DEF c
<1>5. \A s \in Sources : tx'[s] = IF s = c.src /\ Supported(c) THEN next ELSE tx[s]
  BY <1>1, <1>4
<1>6. ASSUME NEW d \in Sinks
      PROVE  /\ rx'[d] # rx[d] => rx'[d] = next /\ Heard(c.src, d)
             /\ d = c.dst /\ Supported(c) /\ ~Broadcast(c.src) => rx'[d] = next
             /\ d \in Subscribers(c.src) /\ Broadcast(c.src) => rx'[d] = next
  <2>1. CASE Supported(c) \/ Broadcast(c.src)
    <3>1. rx'[d] = IF d \in receivers THEN next ELSE rx[d]
      BY <1>1, <2>1
    <3> QED
      BY <1>3, <3>1
  <2>2. CASE ~(Supported(c) \/ Broadcast(c.src))
    BY <1>1, <2>2
  <2> QED
    BY <2>1, <2>2
<1> QED
  BY <1>1, <1>5, <1>6 DEF c

LEMMA ModelKept ==
  ASSUME UNCHANGED model
  PROVE  /\ ConnSet' = ConnSet
         /\ \A s : From(s)' = From(s) /\ Subscribers(s)' = Subscribers(s)
         /\ \A s : (Broadcast(s)' <=> Broadcast(s)) /\ (SetUpOnce(s)' <=> SetUpOnce(s))
         /\ \A s, d : (Heard(s, d)' <=> Heard(s, d)) /\ (Only(s, d)' <=> Only(s, d))
         /\ \A c : Expressible(c)' <=> Expressible(c)
         /\ Tasks' = Tasks
         /\ ModelOK' <=> ModelOK
<1>1. conns' = conns /\ kind' = kind /\ elsewhere' = elsewhere /\ heard' = heard
  BY DEF model
<1>2. ConnSet' = ConnSet
  BY <1>1 DEF ConnSet
<1>3. \A s : From(s)' = From(s) /\ (Counted(s)' <=> Counted(s))
  BY <1>1, <1>2 DEF From, Counted
<1>4. \A s : Subscribers(s)' = Subscribers(s)
  BY <1>1, <1>2, <1>3 DEF Subscribers
<1>5. \A s : (Broadcast(s)' <=> Broadcast(s)) /\ (SetUpOnce(s)' <=> SetUpOnce(s))
  BY <1>1, <1>3, <1>4 DEF Broadcast, SetUpOnce
<1>6. \A s, d : (Heard(s, d)' <=> Heard(s, d)) /\ (Only(s, d)' <=> Only(s, d))
  BY <1>1, <1>2, <1>5 DEF Heard, Only
<1>7. \A c : Expressible(c)' <=> Expressible(c)
  BY <1>1, <1>2, <1>3, <1>4, <1>5 DEF Expressible
<1>8. Tasks' = Tasks
  BY <1>2, <1>3 DEF Tasks, To
<1>9. ModelOK' <=> ModelOK
  BY <1>1, <1>2, <1>5 DEF ModelOK, Compiles
<1> QED
  BY <1>2, <1>3, <1>4, <1>5, <1>6, <1>7, <1>8, <1>9

(* What one connection leaves alone: every field but the Sender of its     *)
(* source and the Receivers of sinks that may hear its source, and all of  *)
(* them when its source is a broadcast already set up.                     *)
LEMMA WireKeeps ==
  ASSUME IInv, Wire
  PROVE  LET c == conns[next]
         IN /\ \A s \in Sources : tx'[s] # tx[s] => s = c.src /\ tx'[s] = next
            /\ \A d \in Sinks :
                 rx'[d] # rx[d] => rx'[d] = next /\ Heard(c.src, d)
            /\ processed' = processed \cup {s \in {c.src} : SetUpOnce(s)}
            /\ c.src \in processed => UNCHANGED <<tx, rx>>
<1>1. CASE conns[next].src \in processed
  <2>1. UNCHANGED <<tx, rx, processed>>
    BY <1>1 DEF Wire
  <2> QED
    BY <1>1, <2>1
<1>2. CASE conns[next].src \notin processed
  BY <1>2, WireParts
<1> QED
  BY <1>1, <1>2

LEMMA WireStep ==
  ASSUME IInv, Wire
  PROVE  IInv'
<1> DEFINE c == conns[next]
<1>1. /\ UNCHANGED model /\ UNCHANGED conns /\ UNCHANGED pc /\ UNCHANGED linked
      /\ next' = next + 1 /\ next <= Len(conns) /\ pc = "wire"
  BY DEF Wire, model
<1>2. /\ Done' = Done \cup {c} /\ Done \subseteq ConnSet /\ c \notin Done
      /\ c \in ConnSet /\ c.src \in Sources /\ c.dst \in Sinks
      /\ c = [src |-> c.src, dst |-> c.dst] /\ Len(conns) \in Nat
  BY <1>1, DoneFacts, SeqFacts DEF IInv, PortConnection, Done
<1>3. \A e \in Done : e.src \in Sources /\ e.dst \in Sinks /\ e = [src |-> e.src, dst |-> e.dst]
  BY <1>2, SeqFacts DEF IInv, PortConnection
<1>4. /\ \A s \in Sources : tx'[s] # tx[s] => s = c.src /\ tx'[s] = next
      /\ \A d \in Sinks :
           rx'[d] # rx[d] => rx'[d] = next /\ Heard(c.src, d)
      /\ processed' = processed \cup {s \in {c.src} : SetUpOnce(s)}
      /\ c.src \in processed => UNCHANGED <<tx, rx>>
  BY WireKeeps
<1>5. next \in Nat \ {0} /\ next' \in Nat
  BY <1>1 DEF IInv, TypeOK
<1>6. TypeOK'
  <2>1. tx' \in [Sources -> Nat] /\ rx' \in [Sinks -> Nat]
    BY <1>5 DEF Wire, IInv, TypeOK
  <2> QED
    BY <1>1, <1>2, <1>4, <1>5, <2>1 DEF IInv, TypeOK, model
<1>7. ModelOK'
  BY <1>1, ModelKept DEF IInv
<1>8. ChannelsSound'
  <2>1. ASSUME NEW s \in Sources, tx'[s] # 0
        PROVE  tx'[s] \in 1 .. next' - 1 /\ conns[tx'[s]].src = s
    <3>1. CASE tx'[s] # tx[s]
      BY <1>1, <1>4, <1>5, <3>1
    <3>2. CASE tx'[s] = tx[s]
      BY <1>1, <1>5, <2>1, <3>2 DEF IInv, ChannelsSound
    <3> QED
      BY <3>1, <3>2
  <2>2. ASSUME NEW d \in Sinks, rx'[d] # 0
        PROVE  rx'[d] \in 1 .. next' - 1 /\ Heard(conns[rx'[d]].src, d)
    <3>1. CASE rx'[d] # rx[d]
      <4>1. rx'[d] = next /\ Heard(c.src, d)
        BY <1>4, <3>1
      <4>2. next \in 1 .. next' - 1
        BY <1>1, <1>5
      <4> QED
        BY <4>1, <4>2, Zenon
    <3>2. CASE rx'[d] = rx[d]
      BY <1>1, <1>5, <2>2, <3>2 DEF IInv, ChannelsSound
    <3> QED
      BY <3>1, <3>2
  <2> QED
    BY <1>1, <2>1, <2>2, ModelKept DEF ChannelsSound
<1>9. BroadcastsWired'
  <2>1. \A e \in Done' : SetUpOnce(e.src) => e.src \in processed'
    BY <1>2, <1>4 DEF IInv, BroadcastsWired
  <2>2. ASSUME NEW s \in processed'
        PROVE  /\ SetUpOnce(s)
               /\ (\A e \in From(s) : Supported(e)) =>
                    /\ tx'[s] # 0
                    /\ \A d \in Subscribers(s) : Only(s, d) => rx'[d] = tx'[s]
    (* Set up earlier: nothing that connects to s alone has been touched. *)
    <3>1. CASE s \in processed
      <4>1. tx'[s] = tx[s]
        BY <1>4, <3>1 DEF IInv, TypeOK
      <4>2. ASSUME NEW d \in Subscribers(s), Only(s, d)
            PROVE  rx'[d] = rx[d]
        <5>1. d \in Sinks
          BY DEF Subscribers, Sinks
        <5>2. Heard(c.src, d) => c.src = s
          BY <4>2 DEF Only, Heard
        <5> QED
          BY <1>4, <3>1, <5>1, <5>2
      <4> QED
        BY <3>1, <4>1, <4>2 DEF IInv, BroadcastsWired
    (* Set up now. *)
    <3>2. CASE s \notin processed
      <4>1. s = c.src /\ SetUpOnce(s) /\ Broadcast(s)
        BY <1>4, <3>2 DEF SetUpOnce
      <4>2. c \in From(s)
        BY <1>2, <4>1 DEF From
      <4>3. \A d \in Subscribers(s) : d \in Sinks
        BY DEF Subscribers, Sinks
      <4>4. (Supported(c) => tx'[s] = next) /\ \A d \in Subscribers(s) : rx'[d] = next
        BY <1>2, <3>2, <4>1, <4>3, WireParts
      <4> QED
        BY <1>5, <4>1, <4>2, <4>4
    <3> QED
      BY <3>1, <3>2
  <2> QED
    BY <1>1, <2>1, <2>2, ModelKept DEF BroadcastsWired
<1>10. DoneRealised'
  <2> SUFFICES ASSUME NEW e \in Done', Expressible(e)
               PROVE  tx'[e.src] # 0 /\ rx'[e.dst] = tx'[e.src]
    BY <1>1, ModelKept DEF DoneRealised, Realised
  <2>1. CASE e = c
    <3>1. /\ c \in From(c.src) /\ Only(c.src, c.dst)
          /\ \A f \in From(c.src) : Supported(f)
          /\ Broadcast(c.src) => c.dst \in Subscribers(c.src)
      BY <1>2, <2>1 DEF From, Only, Expressible
    <3>2. CASE c.src \in processed
      <4>1. c.dst \in Subscribers(c.src)
        BY <3>1, <3>2 DEF IInv, BroadcastsWired, SetUpOnce
      <4>2. tx[c.src] # 0 /\ rx[c.dst] = tx[c.src]
        BY <1>2, <3>1, <3>2, <4>1 DEF IInv, BroadcastsWired
      <4> QED
        BY <1>4, <2>1, <3>2, <4>2
    <3>3. CASE c.src \notin processed
      <4>1. tx'[c.src] = next /\ rx'[c.dst] = next
        BY <1>2, <3>1, <3>3, WireParts
      <4> QED
        BY <1>5, <2>1, <4>1
    <3> QED
      BY <3>2, <3>3
  <2>2. CASE e \in Done
    (* A connection of another source leaves the two ends of e alone. *)
    <3>1. CASE c.src \in processed \/ c.src # e.src
      <4>1. tx'[e.src] = tx[e.src]
        BY <1>3, <1>4, <2>2, <3>1
      <4>2. rx'[e.dst] = rx[e.dst]
        <5>1. Heard(c.src, e.dst) => c.src = e.src
          BY DEF Expressible, Heard
        <5> QED
          BY <1>3, <1>4, <2>2, <3>1, <5>1
      <4> QED
        BY <2>2, <4>1, <4>2 DEF IInv, DoneRealised, Realised
    (* Another of a broadcast source not set up once: a new channel, to    *)
    (* which e's sink is subscribed again.                                 *)
    <3>2. CASE c.src \notin processed /\ c.src = e.src
      <4>1. c \in From(e.src) /\ c # e
        BY <1>2, <2>2, <3>2 DEF From
      <4>2. Supported(c) /\ Broadcast(c.src) /\ e.dst \in Subscribers(c.src)
        BY <3>2, <4>1 DEF Expressible
      <4>3. tx'[c.src] = next /\ rx'[e.dst] = next
        BY <1>2, <1>3, <2>2, <3>2, <4>2, WireParts
      <4> QED
        BY <1>5, <3>2, <4>3
    <3> QED
      BY <3>1, <3>2
  <2> QED
    BY <1>2, <2>1, <2>2
<1>11. OutPortsFed'
  <2> SUFFICES ASSUME NEW e \in Done', e.src \in SubOut, e.dst \in OwnOut
               PROVE  rx'[e.dst] # 0
    BY DEF OutPortsFed
  <2>1. CASE e = c
    <3>1. Supported(c) /\ ~Broadcast(c.src) /\ ~SetUpOnce(c.src)
      BY <1>2, <2>1, OutPortKinds DEF IInv
    <3>2. c.src \notin processed
      BY <3>1 DEF IInv, BroadcastsWired
    <3>3. rx'[c.dst] = next
      BY <1>2, <3>1, <3>2, WireParts, Zenon
    <3> QED
      BY <1>5, <2>1, <3>3
  <2>2. CASE e \in Done
    BY <1>3, <1>4, <1>5, <2>2 DEF IInv, OutPortsFed
  <2> QED
    BY <1>2, <2>1, <2>2
<1>12. /\ pc' # "wire" => next' = Len(conns') + 1
       /\ (Tasks' \cap OwnIn \subseteq linked') => pc' # "dead"
  BY <1>1
<1> QED
  BY <1>6, <1>7, <1>8, <1>9, <1>10, <1>11, <1>12 DEF IInv

(* Only a port whose receiver is missing ends run(), and only an own in    *)
(* port can miss it.                                                       *)
LEMMA StartForwarderStep ==
  ASSUME IInv, NEW p \in OwnIn \cup OwnOut, StartForwarder(p)
  PROVE  (Tasks \cap OwnIn \subseteq linked) => pc' # "dead"
<1>1. p \in Tasks /\ pc = "start"
  BY DEF StartForwarder
<1>2. CASE p \in OwnIn
  BY <1>1, <1>2 DEF StartForwarder, Unwraps
<1>3. CASE p \in OwnOut \ OwnIn
  <2>1. PICK e \in To(p) : e.src \in SubOut
    BY <1>1, <1>3, Zenon DEF Tasks
  <2>2. e \in ConnSet /\ e.dst = p
    BY DEF To
  <2>3. Done = ConnSet
    <3>1. next = Len(conns) + 1 /\ Len(conns) \in Nat
      BY <1>1, SeqFacts DEF IInv
    <3>2. next - 1 = Len(conns)
      BY <3>1
    <3> QED
      BY <3>2 DEF Done, ConnSet
  <2>4. rx[p] # 0
    BY <1>3, <2>1, <2>2, <2>3 DEF IInv, OutPortsFed
  <2> QED
    BY <1>1, <1>3, <2>4 DEF StartForwarder, Unwraps
<1> QED
  BY <1>2, <1>3

LEMMA NextIInv == IInv /\ [Next]_vars => IInv'
<1> SUFFICES ASSUME IInv, [Next]_vars
             PROVE  IInv'
  OBVIOUS
<1>1. CASE Wire
  BY <1>1, WireStep
<1>2. ASSUME UNCHANGED <<model, next, tx, rx, processed>>,
             pc' # "wire" => next = Len(conns) + 1,
             (Tasks \cap OwnIn \subseteq linked) => pc' # "dead"
      PROVE  IInv'
  <2>1. Done' = Done /\ UNCHANGED <<conns, kind, linked>>
    BY <1>2 DEF Done, model
  <2>2. TypeOK' /\ ModelOK'
    BY <1>2, <2>1, ModelKept DEF IInv, TypeOK
  <2>3. ChannelsSound'
    BY <1>2, <2>1, ModelKept DEF IInv, ChannelsSound
  <2>4. BroadcastsWired'
    BY <1>2, <2>1, ModelKept DEF IInv, BroadcastsWired
  <2>5. DoneRealised'
    BY <1>2, <2>1, ModelKept DEF IInv, DoneRealised, Realised
  <2>6. OutPortsFed'
    BY <1>2, <2>1 DEF IInv, OutPortsFed
  <2> QED
    BY <1>2, <2>1, <2>2, <2>3, <2>4, <2>5, <2>6, ModelKept DEF IInv
<1>3. CASE Constructed
  <2>1. next = Len(conns) + 1
    BY <1>3, SeqFacts DEF Constructed, IInv, TypeOK
  <2> QED
    BY <1>2, <1>3, <2>1 DEF Constructed
<1>4. CASE \E p \in OwnIn \cup OwnOut : StartForwarder(p)
  <2>1. PICK p \in OwnIn \cup OwnOut : StartForwarder(p)
    BY <1>4
  <2>2. next = Len(conns) + 1 /\ UNCHANGED <<model, next, tx, rx, processed>>
    BY <2>1 DEF StartForwarder, IInv
  <2> QED
    BY <1>2, <2>1, <2>2, StartForwarderStep
<1>5. CASE Started
  BY <1>2, <1>5 DEF Started, IInv
<1>6. CASE UNCHANGED vars
  BY <1>2, <1>6 DEF vars, IInv
<1> QED
  BY <1>1, <1>3, <1>4, <1>5, <1>6 DEF Next

(* In every turn of the loop in new(), and while run() starts forwarders,  *)
(* channels belong to connections of their source, a broadcast is          *)
(* subscribed for all its connections, with those remembered from other    *)
(* components under its name, and what has been connected stays so unless  *)
(* something known of the same source or sink undoes it.                   *)
THEOREM InvariantHolds == Spec => []IInv
<1> QED
  BY InitIInv, NextIInv, PTL DEF Spec

-----------------------------------------------------------------------------
(* No sink hears a source it is not connected to, also where assignments   *)
(* to one field overwrite each other, unless it is remembered as one of    *)
(* a broadcast's.                                                          *)
THEOREM NoStray == Spec => []NoStrayConnection
<1>1. IInv => NoStrayConnection
  BY DEF IInv, ChannelsSound, Heard, NoStrayConnection
<1> QED
  BY <1>1, InvariantHolds, PTL

(* When new() returns, every connection the generator can express joins    *)
(* its source to its sink.                                                 *)
THEOREM ExpressibleRealised == Spec => []ConnectionsRealised
<1>1. IInv => ConnectionsRealised
  <2> SUFFICES ASSUME IInv, pc # "wire"
               PROVE  \A c \in ConnSet : Expressible(c) => Realised(c)
    BY DEF ConnectionsRealised
  <2>1. next = Len(conns) + 1 /\ Len(conns) \in Nat
    BY SeqFacts DEF IInv
  <2>2. next - 1 = Len(conns)
    BY <2>1
  <2>3. Done = ConnSet
    BY <2>2 DEF Done, ConnSet
  <2> QED
    BY <2>3 DEF IInv, DoneRealised
<1> QED
  BY <1>1, InvariantHolds, PTL

(* run() does not panic when the enclosing system has connected every own  *)
(* in port that is forwarded: the safety half of LinkedComesUp.            *)
THEOREM LinkedSurvives == Spec => []((Tasks \cap OwnIn \subseteq linked) => pc # "dead")
<1>1. IInv => ((Tasks \cap OwnIn \subseteq linked) => pc # "dead")
  BY DEF IInv
<1> QED
  BY <1>1, InvariantHolds, PTL
=============================================================================
