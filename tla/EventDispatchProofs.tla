------------------------ MODULE EventDispatchProofs ------------------------
(***************************************************************************)
(* Proofs about EventDispatch, for any number of ports, urgencies, period  *)
(* and number of messages: type correctness, every event executed once and *)
(* in order, the separation of Sporadic executions, and the bounds on how  *)
(* often one port overtakes another.                                       *)
(***************************************************************************)
EXTENDS EventDispatch, SequenceTheorems, TLAPS

USE NPortsAssumption, MaxUrgencyAssumption, PeriodAssumption, MaxArrivalsAssumption

(* Where the loop may be: outside of an execution no event is in hand, a   *)
(* pass has collected nothing beyond its cursor, and only polled ports     *)
(* ever have an event in the vector.                                       *)
Control ==
  /\ cursor \in 1 .. (polled + 1)
  /\ pc \in {"poll", "select"} => cur = NoEvent
  /\ pc \in {"hold", "run"} => cur \in [port : Ports, num : Numbers]
  /\ \A p \in Ports \ Polled : batch[p] = 0
  /\ pc = "poll" => \A p \in Ports : p >= cursor => batch[p] = 0

-----------------------------------------------------------------------------
LEMMA UpdateOne ==
  ASSUME NEW S, NEW T, NEW g \in [S -> T], NEW a \in S, NEW v \in T
  PROVE  /\ [g EXCEPT ![a] = v] \in [S -> T]
         /\ [g EXCEPT ![a] = v][a] = v
         /\ \A x \in S : x # a => [g EXCEPT ![a] = v][x] = g[x]
  OBVIOUS

LEMMA PortFacts ==
  ASSUME TypeOK
  PROVE  /\ polled \in 0 .. NPorts
         /\ Polled \subseteq Ports
         /\ Ports \subseteq Nat \ {0}
         /\ \A p \in Ports : p \in Polled <=> p <= polled
  BY DEF TypeOK, PollOrder, Polled, Ports

LEMMA NextTurnType ==
  ASSUME TypeOK, NEW b, NextTurn(b)
  PROVE  pc' \in {"poll", "select"} /\ cursor' \in 1 .. (NPorts + 1)
  BY DEF NextTurn

(* TypeOK leaves the configuration to PollOrder, which no action touches.  *)
LEMMA TypeInit == Init => TypeOK
<1> SUFFICES ASSUME Init PROVE TypeOK
  OBVIOUS
<1>1. queue \in [Ports -> Seq(Numbers)] /\ done \in [Ports -> Seq(Numbers)]
  BY DEF Init
<1>2. batch \in [Ports -> Numbers \cup {0}] /\ stamp \in [Ports -> 0 .. NPorts]
      /\ arrived \in [Ports -> 0 .. MaxArrivals]
  BY DEF Init, NoneOf
<1>3. passed \in [Ports -> [Ports -> Nat]]
  BY DEF Init, NoneOf
<1> QED
  BY <1>1, <1>2, <1>3 DEF Init, TypeOK, Clock, PollOrder

LEMMA TypeStep == TypeOK /\ Control /\ [Next]_vars => TypeOK'
<1> SUFFICES ASSUME TypeOK, Control, [Next]_vars
             PROVE  TypeOK'
  OBVIOUS
<1> USE DEF config, history
<1>0. Polled \subseteq Ports /\ polled \in 0 .. NPorts
  BY PortFacts
<1>1. ASSUME NEW p \in Ports, Arrive(p) PROVE TypeOK'
  <2>1. arrived[p] \in 0 .. MaxArrivals /\ arrived[p] + 1 \in Numbers
        /\ arrived[p] + 1 \in 0 .. MaxArrivals
    BY <1>1 DEF Arrive, TypeOK, Numbers
  <2>2. Append(queue[p], arrived[p] + 1) \in Seq(Numbers)
    BY <2>1 DEF TypeOK
  <2>3. queue' \in [Ports -> Seq(Numbers)] /\ arrived' \in [Ports -> 0 .. MaxArrivals]
    BY <1>1, <2>1, <2>2 DEF Arrive, TypeOK
  <2> QED
    BY <1>1, <2>3 DEF Arrive, TypeOK, PollOrder, Polled
<1>2. CASE Tick
  <2>1. elapsed' \in Clock /\ gap' \in Clock
    BY <1>2 DEF Tick, TypeOK, Clock
  <2> QED
    BY <1>2, <2>1 DEF Tick, TypeOK, PollOrder, Polled
<1>3. CASE Poll
  <2>1. cursor \in Ports /\ cursor + 1 \in 1 .. (NPorts + 1)
    BY <1>3, <1>0 DEF Poll, TypeOK, Ports
  <2>2. CASE queue[cursor] = <<>> \/ batch[cursor] # 0
    BY <1>3, <2>1, <2>2 DEF Poll, TypeOK, PollOrder, Polled
  <2>3. CASE ~(queue[cursor] = <<>> \/ batch[cursor] # 0)
    <3>1. queue[cursor] \in Seq(Numbers)
      BY <2>1 DEF TypeOK
    <3>2. Head(queue[cursor]) \in Numbers /\ Tail(queue[cursor]) \in Seq(Numbers)
      BY <3>1, <2>3, HeadTailProperties
    <3>3. PICK t \in Stamps : stamp' = [stamp EXCEPT ![cursor] = t]
      BY <1>3, <2>3 DEF Poll
    <3>4. t \in 0 .. NPorts
      BY <2>1, <3>3 DEF Stamps, Ports
    <3>5. queue' \in [Ports -> Seq(Numbers)] /\ batch' \in [Ports -> Numbers \cup {0}]
          /\ stamp' \in [Ports -> 0 .. NPorts]
      BY <1>3, <2>1, <2>3, <3>2, <3>3, <3>4 DEF Poll, TypeOK
    <3> QED
      BY <1>3, <2>1, <3>5 DEF Poll, TypeOK, PollOrder, Polled
  <2> QED
    BY <2>2, <2>3
<1>4. CASE EndOfPass
  BY <1>4 DEF EndOfPass, TypeOK, PollOrder, Polled
<1>5. ASSUME NEW p \in Polled, Select(p) PROVE TypeOK'
  <2>1. p \in Ports /\ batch[p] \in Numbers
    BY <1>0, <1>5 DEF Select, Best, TypeOK
  <2>2. cur' \in [port : Ports, num : Numbers] \cup {NoEvent}
    BY <1>5, <2>1 DEF Select
  <2>3. batch' \in [Ports -> Numbers \cup {0}] /\ stamp' \in [Ports -> 0 .. NPorts]
    BY <1>5, <2>1 DEF Select, TypeOK
  <2>4. passed' \in [Ports -> [Ports -> Nat]]
    BY <1>5, <2>1 DEF Select, CountPassed, TypeOK, NoneOf
  <2>5. pc' \in {"poll", "select", "hold", "run"} /\ gap' \in Clock
    BY <1>5 DEF Select, BeginOrHold, TypeOK, Clock
  <2> QED
    BY <1>5, <2>2, <2>3, <2>4, <2>5 DEF Select, TypeOK, PollOrder, Polled
<1>6. CASE Wake
  BY <1>6 DEF Wake, TypeOK, PollOrder, Polled, Clock
<1>7. CASE Finish
  <2>1. cur \in [port : Ports, num : Numbers]
    BY <1>7 DEF Finish, Control
  <2>2. done' \in [Ports -> Seq(Numbers)]
    BY <1>7, <2>1 DEF Finish, TypeOK
  <2>3. pc' \in {"poll", "select"} /\ cursor' \in 1 .. (NPorts + 1)
    BY <1>7, NextTurnType DEF Finish
  <2>4. elapsed' \in Clock
    BY <1>7 DEF Finish, TypeOK, Clock
  <2> QED
    BY <1>7, <2>2, <2>3, <2>4 DEF Finish, TypeOK, PollOrder, Polled
<1>8. CASE Idle
  <2>1. pc' \in {"poll", "select"} /\ cursor' \in 1 .. (NPorts + 1)
    BY <1>8, NextTurnType DEF Idle
  <2>2. elapsed' \in Clock
    BY <1>8 DEF Idle, TypeOK, Clock
  <2> QED
    BY <1>8, <2>1, <2>2 DEF Idle, TypeOK, PollOrder, Polled
<1>9. CASE UNCHANGED vars
  BY <1>9 DEF vars, TypeOK, PollOrder, Polled
<1> QED
  BY <1>1, <1>2, <1>3, <1>4, <1>5, <1>6, <1>7, <1>8, <1>9 DEF Next, ThreadStep

LEMMA ControlInit == Init => Control
  BY DEF Init, Control, PollOrder, NoneOf, Polled, Ports, Numbers, NoEvent

LEMMA ControlStep == TypeOK /\ Control /\ [Next]_vars => Control'
<1> SUFFICES ASSUME TypeOK, Control, [Next]_vars
             PROVE  Control'
  OBVIOUS
<1> USE DEF config, history
<1>0. Polled \subseteq Ports /\ polled \in 0 .. NPorts /\ Ports \subseteq Nat \ {0}
      /\ \A p \in Ports : p \in Polled <=> p <= polled
  BY PortFacts
<1>1. ASSUME NEW p \in Ports, Arrive(p) PROVE Control'
  BY <1>1 DEF Arrive, Control, Polled
<1>2. CASE Tick
  BY <1>2 DEF Tick, Control, Polled
<1>3. CASE Poll
  <2>1. cursor \in Ports /\ cursor \in Polled /\ cursor' = cursor + 1
        /\ cursor' \in 1 .. (polled + 1)
    BY <1>3, <1>0 DEF Poll, Control, Ports, Polled
  <2>2. \A p \in Ports : p # cursor => batch'[p] = batch[p]
    BY <1>3, <2>1, UpdateOne DEF Poll, TypeOK
  <2>3. pc = "poll" /\ pc' = pc /\ cur' = cur /\ polled' = polled
    BY <1>3 DEF Poll
  <2>4. \A p \in Ports : p >= cursor' => batch'[p] = 0
    BY <2>1, <2>2, <2>3, <1>0 DEF Control
  <2>5. \A p \in Ports \ Polled : batch'[p] = 0
    BY <2>1, <2>2 DEF Control
  <2> QED
    BY <2>1, <2>3, <2>4, <2>5 DEF Control, Polled
<1>4. CASE EndOfPass
  BY <1>4 DEF EndOfPass, Control, Polled
<1>5. ASSUME NEW p \in Polled, Select(p) PROVE Control'
  <2>1. p \in Ports /\ batch[p] \in Numbers
    BY <1>0, <1>5 DEF Select, Best, TypeOK
  <2>2. cur' \in [port : Ports, num : Numbers] /\ pc' \in {"hold", "run"}
    BY <1>5, <2>1 DEF Select, BeginOrHold
  <2>3. \A q \in Ports \ Polled : batch'[q] = 0
    BY <1>5, <2>1, UpdateOne DEF Select, TypeOK, Control
  <2> QED
    BY <1>5, <2>2, <2>3 DEF Select, Control, Polled
<1>6. CASE Wake
  BY <1>6 DEF Wake, Control, Polled
<1>7. CASE Finish
  BY <1>0, <1>7 DEF Finish, NextTurn, Control, Polled
<1>8. CASE Idle
  BY <1>0, <1>8 DEF Idle, NextTurn, Control, Polled
<1>9. CASE UNCHANGED vars
  BY <1>9 DEF vars, Control, Polled
<1> QED
  BY <1>1, <1>2, <1>3, <1>4, <1>5, <1>6, <1>7, <1>8, <1>9 DEF Next, ThreadStep

(* EventDispatch never leaves its types.                                   *)
THEOREM TypeCorrect == Spec => []TypeOK
<1>1. Init => TypeOK /\ Control
  BY TypeInit, ControlInit
<1>2. TypeOK /\ Control /\ [Next]_vars => (TypeOK /\ Control)'
  BY TypeStep, ControlStep
<1> QED
  BY <1>1, <1>2, PTL DEF Spec

-----------------------------------------------------------------------------
(* The execution clock lags behind the time since the last execution.      *)
ClocksAgree == proto = "Sporadic" /\ pc # "run" => elapsed <= gap

LEMMA ClocksStep == TypeOK /\ ClocksAgree /\ [Next]_vars => ClocksAgree'
<1> SUFFICES ASSUME TypeOK, ClocksAgree, [Next]_vars
             PROVE  ClocksAgree'
  OBVIOUS
<1> USE DEF config, history
<1>0. elapsed \in Clock /\ gap \in Clock
  BY DEF TypeOK
<1>1. ASSUME NEW p \in Ports, Arrive(p) PROVE ClocksAgree'
  BY <1>1 DEF Arrive, ClocksAgree
<1>2. CASE Tick
  BY <1>2, <1>0 DEF Tick, ClocksAgree, Clock
<1>3. CASE Poll \/ EndOfPass
  BY <1>3 DEF Poll, EndOfPass, ClocksAgree
<1>4. ASSUME NEW p \in Polled, Select(p) PROVE ClocksAgree'
  BY <1>4 DEF Select, BeginOrHold, ClocksAgree
<1>5. CASE Wake
  BY <1>5 DEF Wake, ClocksAgree
<1>6. CASE Finish
  BY <1>6, <1>0 DEF Finish, ClocksAgree, Clock
<1>7. CASE Idle
  BY <1>7 DEF Idle, ClocksAgree
<1>8. CASE UNCHANGED vars
  BY <1>8 DEF vars, ClocksAgree
<1> QED
  BY <1>1, <1>2, <1>3, <1>4, <1>5, <1>6, <1>7, <1>8 DEF Next, ThreadStep

LEMMA SeparationStep ==
  TypeOK /\ ClocksAgree /\ [Next]_vars =>
    [proto = "Sporadic" /\ pc # "run" /\ pc' = "run" => gap >= Period]_vars
<1> SUFFICES ASSUME TypeOK, ClocksAgree, Next,
                    proto = "Sporadic", pc # "run", pc' = "run"
             PROVE  gap >= Period
  OBVIOUS
<1> USE DEF config, history
<1>0. elapsed \in Nat /\ gap \in Nat /\ elapsed <= gap
  BY DEF TypeOK, Clock, ClocksAgree
<1>1. ASSUME NEW p \in Polled, Select(p) PROVE elapsed >= Period
  BY <1>0, <1>1 DEF Select, BeginOrHold, MustHold
<1>2. CASE Wake
  BY <1>0, <1>2 DEF Wake
<1>3. (\E p \in Polled : Select(p)) \/ Wake
  BY DEF Next, ThreadStep, Arrive, Tick, Poll, EndOfPass, Finish, Idle, NextTurn
<1> QED
  BY <1>0, <1>1, <1>2, <1>3

(* A Sporadic thread never begins two executions within its minimum        *)
(* inter-arrival time, for any period and any stream of events.            *)
THEOREM SporadicSeparated == Spec => SporadicSeparation
<1>1. Init => ClocksAgree
  BY DEF Init, ClocksAgree
<1> QED
  BY <1>1, TypeCorrect, ClocksStep, SeparationStep, PTL DEF Spec, SporadicSeparation

-----------------------------------------------------------------------------
(* What EachOnceInOrder says of one port.                                  *)
PortOrder(p) ==
  /\ arrived[p] = Read(p) + Len(queue[p])
  /\ \A i \in 1 .. Executed(p) : done[p][i] = i
  /\ cur.port = p => cur.num = Taken(p)
  /\ batch[p] # 0 => batch[p] = Read(p)
  /\ \A i \in 1 .. Len(queue[p]) : queue[p][i] = Read(p) + i

LEMMA CountFacts ==
  ASSUME TypeOK, NEW p \in Ports
  PROVE  /\ queue[p] \in Seq(Numbers) /\ Len(queue[p]) \in Nat
         /\ done[p] \in Seq(Numbers) /\ Len(done[p]) \in Nat
         /\ Executed(p) \in Nat /\ Taken(p) \in Nat /\ Read(p) \in Nat
         /\ arrived[p] \in Nat /\ batch[p] \in Nat
<1>1. queue[p] \in Seq(Numbers) /\ done[p] \in Seq(Numbers)
  BY DEF TypeOK
<1>2. Len(queue[p]) \in Nat /\ Len(done[p]) \in Nat
  BY <1>1, LenProperties
<1>3. arrived[p] \in Nat /\ batch[p] \in Nat
  BY DEF TypeOK, Numbers
<1>4. One(cur.port = p) \in Nat /\ One(batch[p] # 0) \in Nat
  BY DEF One
<1>5. Executed(p) \in Nat
  BY <1>2 DEF Executed
<1>6. Taken(p) \in Nat
  BY <1>4, <1>5 DEF Taken
<1>7. Read(p) \in Nat
  BY <1>4, <1>6 DEF Read
<1> QED
  BY <1>1, <1>2, <1>3, <1>5, <1>6, <1>7

(* A port whose four places a step leaves alone keeps its order.           *)
LEMMA PortUntouched ==
  ASSUME NEW p, PortOrder(p),
         arrived'[p] = arrived[p], queue'[p] = queue[p], batch'[p] = batch[p],
         done'[p] = done[p],
         cur' = cur \/ (cur.port # p /\ cur'.port # p)
  PROVE  PortOrder(p)'
  BY DEF PortOrder, Executed, Taken, Read, One

LEMMA ArriveOrder ==
  ASSUME TypeOK, EachOnceInOrder, NEW p \in Ports, Arrive(p)
  PROVE  EachOnceInOrder'
<1> USE DEF history
<1>1. PortOrder(p)
  BY DEF EachOnceInOrder, PortOrder
<1>2. arrived'[p] = arrived[p] + 1 /\ queue'[p] = Append(queue[p], arrived[p] + 1)
      /\ \A q \in Ports : q # p => arrived'[q] = arrived[q] /\ queue'[q] = queue[q]
  BY DEF Arrive, TypeOK
<1>3. Executed(p)' = Executed(p) /\ Taken(p)' = Taken(p) /\ Read(p)' = Read(p)
  BY DEF Arrive, Executed, Taken, Read
<1>4. Len(queue'[p]) = Len(queue[p]) + 1
      /\ \A i \in 1 .. Len(queue[p]) : queue'[p][i] = queue[p][i]
      /\ queue'[p][Len(queue[p]) + 1] = arrived[p] + 1
  <2>1. queue[p] \in Seq(Nat) /\ arrived[p] + 1 \in Nat
    BY CountFacts DEF Numbers, TypeOK
  <2> QED
    BY <1>2, <2>1, AppendProperties
<1>5. arrived'[p] = Read(p)' + Len(queue'[p])
  BY <1>1, <1>2, <1>3, <1>4, CountFacts DEF PortOrder
<1>6. \A i \in 1 .. Len(queue'[p]) : queue'[p][i] = Read(p)' + i
  BY <1>1, <1>2, <1>3, <1>4, CountFacts DEF PortOrder
<1>7. PortOrder(p)'
  BY <1>1, <1>3, <1>5, <1>6 DEF Arrive, PortOrder
<1>8. \A q \in Ports : q # p => PortOrder(q)'
  BY <1>2, PortUntouched DEF Arrive, EachOnceInOrder, PortOrder
<1> QED
  BY <1>7, <1>8 DEF EachOnceInOrder, PortOrder

LEMMA PollOrderKept ==
  ASSUME TypeOK, Control, EachOnceInOrder, Poll
  PROVE  EachOnceInOrder'
<1> USE DEF history
<1>0. PICK c \in Ports : c = cursor
  BY PortFacts DEF Poll, Control, Polled
<1>1. c \in Ports /\ batch[c] = 0 /\ cur.port # c /\ cur' = cur
  BY <1>0, PortFacts DEF Poll, Control, Ports, Polled, NoEvent
<1>2. CASE queue[c] = <<>>
  BY <1>0, <1>2, PortUntouched DEF Poll, EachOnceInOrder, PortOrder
<1>3. CASE queue[c] # <<>>
  <2>1. queue'[c] = Tail(queue[c]) /\ batch'[c] = Head(queue[c])
        /\ \A q \in Ports : q # c => queue'[q] = queue[q] /\ batch'[q] = batch[q]
    BY <1>0, <1>1, <1>3 DEF Poll, TypeOK
  <2>2. PortOrder(c)
    BY <1>1 DEF EachOnceInOrder, PortOrder
  <2>3. queue[c] \in Seq(Numbers) /\ Len(queue[c]) \in Nat /\ Read(c) \in Nat
    BY <1>1, CountFacts
  <2>4. /\ Len(queue[c]) >= 1 /\ Len(queue'[c]) = Len(queue[c]) - 1
        /\ batch'[c] = queue[c][1] /\ batch'[c] \in Numbers
        /\ \A i \in 1 .. Len(queue'[c]) : queue'[c][i] = queue[c][i + 1]
    BY <1>3, <2>1, <2>3, HeadTailProperties, LenProperties
  <2>5. batch'[c] = Read(c) + 1
    BY <2>2, <2>3, <2>4 DEF PortOrder
  <2>6. Executed(c)' = Executed(c) /\ Taken(c)' = Taken(c)
    BY <1>1 DEF Poll, Executed, Taken
  <2>7. Read(c)' = Read(c) + 1
    BY <1>1, <2>4, <2>6, CountFacts DEF Read, One, Numbers
  <2>8. arrived'[c] = Read(c)' + Len(queue'[c])
    BY <2>2, <2>3, <2>4, <2>7 DEF PortOrder, Poll
  <2>9. \A i \in 1 .. Len(queue'[c]) : queue'[c][i] = Read(c)' + i
    <3> SUFFICES ASSUME NEW i \in 1 .. Len(queue'[c])
                 PROVE  queue'[c][i] = Read(c)' + i
      OBVIOUS
    <3>1. i \in Nat /\ i + 1 \in 1 .. Len(queue[c]) /\ queue'[c][i] = queue[c][i + 1]
      BY <2>3, <2>4
    <3>2. queue[c][i + 1] = Read(c) + (i + 1)
      BY <2>2, <3>1 DEF PortOrder
    <3> QED
      BY <2>3, <2>7, <3>1, <3>2
  <2>10. PortOrder(c)'
    BY <1>1, <2>2, <2>5, <2>6, <2>7, <2>8, <2>9 DEF PortOrder, Poll
  <2>11. \A q \in Ports : q # c => PortOrder(q)'
    BY <2>1, PortUntouched DEF Poll, EachOnceInOrder, PortOrder
  <2> QED
    BY <2>10, <2>11 DEF EachOnceInOrder, PortOrder
<1> QED
  BY <1>2, <1>3

LEMMA SelectOrder ==
  ASSUME TypeOK, Control, EachOnceInOrder, NEW p \in Polled, Select(p)
  PROVE  EachOnceInOrder'
<1>1. p \in Ports /\ p \in Nat \ {0} /\ cur = NoEvent /\ batch[p] # 0
  BY PortFacts DEF Select, Best, Control
<1>2. cur' = [port |-> p, num |-> batch[p]] /\ batch'[p] = 0
      /\ \A q \in Ports : q # p => batch'[q] = batch[q]
  BY <1>1, UpdateOne DEF Select, TypeOK
<1>3. arrived' = arrived /\ queue' = queue /\ done' = done
  BY DEF Select
<1>4. PortOrder(p)
  BY <1>1 DEF EachOnceInOrder, PortOrder
<1>5. cur.port = 0 /\ cur'.port = p /\ cur'.num = batch[p]
  BY <1>1, <1>2 DEF NoEvent
<1>6. Executed(p)' = Executed(p) /\ Taken(p) = Executed(p) /\ Taken(p)' = Executed(p) + 1
      /\ Read(p) = Executed(p) + 1 /\ Read(p)' = Executed(p) + 1
  <2>1. Executed(p) \in Nat /\ Executed(p)' = Executed(p)
    BY <1>1, <1>3, CountFacts DEF Executed
  <2>2. One(cur.port = p) = 0 /\ One(batch[p] # 0) = 1
    BY <1>1, <1>5 DEF One
  <2>3. One(cur'.port = p) = 1 /\ One(batch'[p] # 0) = 0
    BY <1>2, <1>5 DEF One
  <2>4. Taken(p) = Executed(p) /\ Taken(p)' = Executed(p) + 1
    BY <2>1, <2>2, <2>3 DEF Taken
  <2> QED
    BY <2>1, <2>2, <2>3, <2>4 DEF Read
<1>7. PortOrder(p)'
  BY <1>1, <1>2, <1>3, <1>4, <1>5, <1>6 DEF PortOrder
<1>8. \A q \in Ports : q # p => PortOrder(q)'
  BY <1>2, <1>3, <1>5, PortUntouched, PortFacts DEF EachOnceInOrder, PortOrder
<1> QED
  BY <1>7, <1>8 DEF EachOnceInOrder, PortOrder

LEMMA FinishOrder ==
  ASSUME TypeOK, Control, EachOnceInOrder, Finish
  PROVE  EachOnceInOrder'
<1>0. PICK p \in Ports : p = cur.port
  BY DEF Finish, Control
<1>1. p \in Ports /\ p \in Nat \ {0} /\ cur.num \in Numbers
  BY <1>0, PortFacts DEF Finish, Control
<1>2. done'[p] = Append(done[p], cur.num) /\ cur'.port = 0
      /\ \A q \in Ports : q # p => done'[q] = done[q]
  <2>1. done' = [done EXCEPT ![p] = Append(@, cur.num)]
    BY <1>0 DEF Finish
  <2>2. done \in [Ports -> Seq(Numbers)]
    BY DEF TypeOK
  <2>3. cur'.port = 0
    BY DEF Finish, NoEvent
  <2> QED
    BY <1>1, <2>1, <2>2, <2>3, UpdateOne
<1>3. arrived' = arrived /\ queue' = queue /\ batch' = batch
  BY DEF Finish
<1>4. PortOrder(p)
  BY <1>1 DEF EachOnceInOrder, PortOrder
<1>5. done[p] \in Seq(Numbers) /\ Executed(p) \in Nat /\ Taken(p) = Executed(p) + 1
  BY <1>0, <1>1, CountFacts DEF Taken, One
<1>6. Executed(p)' = Executed(p) + 1
      /\ (\A i \in 1 .. Executed(p) : done'[p][i] = done[p][i])
      /\ done'[p][Executed(p) + 1] = cur.num
  BY <1>0, <1>1, <1>2, <1>5, AppendProperties DEF Executed
<1>7. \A i \in 1 .. Executed(p)' : done'[p][i] = i
  <2> SUFFICES ASSUME NEW i \in 1 .. (Executed(p) + 1)
               PROVE  done'[p][i] = i
    BY <1>6
  <2>1. CASE i = Executed(p) + 1
    BY <1>0, <1>4, <1>5, <1>6, <2>1 DEF PortOrder
  <2>2. CASE i # Executed(p) + 1
    <3>1. i \in 1 .. Executed(p)
      BY <1>5, <2>2
    <3> QED
      BY <1>4, <1>6, <3>1 DEF PortOrder
  <2> QED
    BY <2>1, <2>2
<1>8. (Taken(p))' = Taken(p) /\ (Read(p))' = Read(p)
  <2>1. cur'.port # p
    BY <1>0, <1>1, <1>2
  <2> QED
    BY <1>3, <1>5, <1>6, <2>1 DEF Taken, Read, One
<1>9. PortOrder(p)'
  BY <1>0, <1>1, <1>2, <1>3, <1>4, <1>7, <1>8 DEF PortOrder
<1>10. \A q \in Ports : q # p => PortOrder(q)'
  BY <1>0, <1>1, <1>2, <1>3, PortUntouched, PortFacts DEF EachOnceInOrder, PortOrder
<1> QED
  BY <1>9, <1>10 DEF EachOnceInOrder, PortOrder

LEMMA OrderInit == Init => EachOnceInOrder
<1> SUFFICES ASSUME Init, NEW p \in Ports
             PROVE  PortOrder(p)
  BY DEF EachOnceInOrder, PortOrder
<1>1. arrived[p] = 0 /\ queue[p] = <<>> /\ done[p] = <<>> /\ batch[p] = 0 /\ cur.port = 0
  BY DEF Init, NoneOf, NoEvent
<1>2. p # 0
  BY DEF Ports
<1>3. Len(<<>>) = 0
  BY EmptySeq
<1> QED
  BY <1>1, <1>2, <1>3 DEF PortOrder, Executed, Taken, Read, One

LEMMA OrderStep ==
  TypeOK /\ Control /\ EachOnceInOrder /\ [Next]_vars => EachOnceInOrder'
<1> SUFFICES ASSUME TypeOK, Control, EachOnceInOrder, [Next]_vars
             PROVE  EachOnceInOrder'
  OBVIOUS
<1>1. CASE \E p \in Ports : Arrive(p)
  BY <1>1, ArriveOrder
<1>2. CASE Poll
  BY <1>2, PollOrderKept
<1>3. CASE \E p \in Polled : Select(p)
  BY <1>3, SelectOrder
<1>4. CASE Finish
  BY <1>4, FinishOrder
<1>5. CASE Tick \/ EndOfPass \/ Wake \/ Idle \/ UNCHANGED vars
  <2>1. UNCHANGED <<arrived, queue, batch, cur, done>>
    BY <1>5 DEF Tick, EndOfPass, Wake, Idle, vars, history
  <2> QED
    BY <2>1, PortUntouched DEF EachOnceInOrder, PortOrder
<1> QED
  BY <1>1, <1>2, <1>3, <1>4, <1>5 DEF Next, ThreadStep

(* On every port each message is in exactly one place and the order of     *)
(* arrival is the order of execution, for any number of ports and messages.*)
THEOREM OnceInOrder == Spec => []EachOnceInOrder
<1>1. Init => TypeOK /\ Control /\ EachOnceInOrder
  BY TypeInit, ControlInit, OrderInit
<1>2. TypeOK /\ Control /\ EachOnceInOrder /\ [Next]_vars
        => (TypeOK /\ Control /\ EachOnceInOrder)'
  BY TypeStep, ControlStep, OrderStep
<1> QED
  BY <1>1, <1>2, PTL DEF Spec

-----------------------------------------------------------------------------
(* How far p may have overtaken q, by where the loop is.  In a pass: at    *)
(* most once, and not at all if the pass has found the channel of q empty. *)
(* Between passes: what p has still in the vector counts as well; one more *)
(* is allowed when q is in the vector too, unless q is more urgent.        *)
Overtaking(q, p) ==
  /\ ~Waiting(q) => passed[q][p] = 0
  /\ pc = "poll" => passed[q][p] <= 1
  /\ pc = "poll" /\ q < cursor /\ batch[q] = 0 => passed[q][p] = 0
  /\ pc # "poll" /\ batch[q] = 0 => passed[q][p] + One(batch[p] # 0) <= 1
  /\ pc # "poll" /\ batch[q] # 0 => passed[q][p] + One(batch[p] # 0) <= 2
  /\ urg[p] < urg[q] /\ batch[q] # 0 => passed[q][p] <= 1

OvertakingInv == \A q \in Polled : \A p \in Ports : Overtaking(q, p)

LEMMA OvertakingFacts ==
  ASSUME TypeOK, NEW q \in Polled, NEW p \in Ports
  PROVE  /\ q \in Ports /\ passed[q][p] \in Nat
         /\ q \in Nat \ {0} /\ p \in Nat \ {0}
         /\ urg[p] \in Nat /\ urg[q] \in Nat
         /\ One(batch[p] # 0) \in {0, 1}
<1>1. q \in Ports /\ q \in Nat \ {0} /\ p \in Nat \ {0}
  BY PortFacts
<1>2. passed[q][p] \in Nat /\ urg[p] \in Nat /\ urg[q] \in Nat
  BY <1>1 DEF TypeOK, PollOrder
<1> QED
  BY <1>1, <1>2 DEF One

LEMMA OvertakingInit == Init => OvertakingInv
<1> SUFFICES ASSUME Init, NEW q \in Polled, NEW p \in Ports
             PROVE  Overtaking(q, p)
  BY DEF OvertakingInv
<1>1. q \in Ports
  BY DEF Init, PollOrder, Polled, Ports
<1>2. passed[q][p] = 0 /\ batch[q] = 0 /\ batch[p] = 0 /\ pc = "poll"
  BY <1>1 DEF Init, NoneOf
<1> QED
  BY <1>2 DEF Overtaking

(* A channel is not empty after a message was put into it.                 *)
LEMMA AppendNotEmpty ==
  ASSUME NEW S, NEW s \in Seq(S), NEW n \in S
  PROVE  Append(s, n) # <<>>
<1>1. Append(s, n) \in Seq(S) /\ Len(Append(s, n)) = Len(s) + 1
  BY AppendProperties
<1>2. Len(s) \in Nat
  BY LenProperties
<1>3. Len(Append(s, n)) # 0
  BY <1>1, <1>2
<1> QED
  BY <1>1, <1>3, EmptySeq

(* A message arrives: whoever waits now waits from zero.                   *)
LEMMA ArriveOvertaking ==
  ASSUME TypeOK, OvertakingInv, NEW r \in Ports, Arrive(r)
  PROVE  OvertakingInv'
<1> SUFFICES ASSUME NEW q \in Polled, NEW p \in Ports
             PROVE  Overtaking(q, p)'
  BY DEF OvertakingInv, Arrive, config, Polled
<1>1. Overtaking(q, p)
  BY DEF OvertakingInv
<1>2. Waiting(q) => Waiting(q)'
  <2>1. q \in Ports
    BY OvertakingFacts
  <2>2. queue[q] # <<>> => queue'[q] # <<>>
    <3>1. CASE r = q
      <4>0. queue[q] \in Seq(Numbers)
        BY <2>1, CountFacts
      <4>2. arrived[r] \in 0 .. MaxArrivals /\ arrived[r] < MaxArrivals
        BY DEF Arrive, TypeOK
      <4>3. arrived[r] + 1 \in Numbers
        BY <4>2, MaxArrivalsAssumption DEF Numbers
      <4>1. queue'[q] = Append(queue[q], arrived[r] + 1)
        BY <2>1, <3>1 DEF Arrive, TypeOK
      <4>4. Append(queue[q], arrived[r] + 1) # <<>>
        BY <4>0, <4>3, AppendNotEmpty
      <4> QED
        BY <4>1, <4>4
    <3>2. CASE r # q
      BY <2>1, <3>2 DEF Arrive, TypeOK
    <3> QED
      BY <3>1, <3>2
  <2> QED
    BY <2>2 DEF Waiting, Arrive
<1> QED
  BY <1>1, <1>2 DEF Overtaking, Arrive, config, history

(* A pass polls port c: a message found there goes to the vector with at   *)
(* most one overtaking, a channel found empty has never been overtaken.    *)
LEMMA PollOvertaking ==
  ASSUME TypeOK, Control, OvertakingInv, Poll
  PROVE  OvertakingInv'
<1> SUFFICES ASSUME NEW q \in Polled, NEW p \in Ports
             PROVE  Overtaking(q, p)'
  BY DEF OvertakingInv, Poll, config, Polled
<1>0. PICK c \in Ports : c = cursor
  BY PortFacts DEF Poll, Control, Polled
<1>1. Overtaking(q, p) /\ passed' = passed /\ urg' = urg /\ pc = "poll" /\ pc' = "poll"
      /\ cursor' = c + 1 /\ passed[q][p] <= 1
  BY <1>0 DEF OvertakingInv, Overtaking, Poll, config, history
<1>2. q \in Ports /\ q \in Nat /\ c \in Nat /\ passed[q][p] \in Nat
  BY OvertakingFacts, PortFacts
<1>3. batch[c] = 0
  BY <1>0, PortFacts DEF Poll, Control
<1>4. CASE q # c
  <2>1. batch'[q] = batch[q] /\ queue'[q] = queue[q]
    BY <1>0, <1>2, <1>4 DEF Poll, TypeOK
  <2> QED
    BY <1>0, <1>1, <1>2, <1>4, <2>1 DEF Overtaking, Waiting
<1>5. CASE q = c /\ queue[c] = <<>>
  <2>1. batch'[q] = batch[q] /\ queue'[q] = queue[q]
    BY <1>0, <1>5 DEF Poll
  <2>2. passed[q][p] = 0
    BY <1>1, <1>3, <1>5 DEF Overtaking, Waiting
  <2> QED
    BY <1>1, <1>3, <1>5, <2>1, <2>2 DEF Overtaking, Waiting
<1>6. CASE q = c /\ queue[c] # <<>>
  <2>1. batch'[c] \in Numbers
    <3>1. batch'[c] = Head(queue[c])
      BY <1>0, <1>3, <1>6 DEF Poll, TypeOK
    <3>2. queue[c] \in Seq(Numbers)
      BY DEF TypeOK
    <3> QED
      BY <1>6, <3>1, <3>2, HeadTailProperties
  <2>2. batch'[q] # 0
    BY <1>6, <2>1 DEF Numbers
  <2> QED
    BY <1>1, <1>2, <2>2 DEF Overtaking, Waiting
<1> QED
  BY <1>4, <1>5, <1>6

LEMMA EndOfPassOvertaking ==
  ASSUME TypeOK, Control, OvertakingInv, EndOfPass
  PROVE  OvertakingInv'
<1> SUFFICES ASSUME NEW q \in Polled, NEW p \in Ports
             PROVE  Overtaking(q, p)'
  BY DEF OvertakingInv, EndOfPass, config, Polled
<1>1. Overtaking(q, p) /\ UNCHANGED <<passed, urg, batch, queue>> /\ pc = "poll"
      /\ pc' = "select"
  BY DEF OvertakingInv, EndOfPass, config, history
<1>2. q < cursor
  BY PortFacts DEF EndOfPass, Control, Polled
<1>3. passed[q][p] \in Nat /\ One(batch[p] # 0) \in {0, 1}
  BY OvertakingFacts
<1>4. One(batch'[p] # 0) = One(batch[p] # 0)
  BY <1>1
<1> QED
  BY <1>1, <1>2, <1>3, <1>4 DEF Overtaking, Waiting

(* Port r is dispatched: it starts from zero, and whoever waits has been   *)
(* overtaken by it once more, for which r has left the vector.             *)
LEMMA SelectOvertaking ==
  ASSUME TypeOK, Control, OvertakingInv, NEW r \in Polled, Select(r)
  PROVE  OvertakingInv'
<1> SUFFICES ASSUME NEW q \in Polled, NEW p \in Ports
             PROVE  Overtaking(q, p)'
  BY DEF OvertakingInv, Select, config, Polled
<1>1. Overtaking(q, p) /\ urg' = urg /\ queue' = queue /\ pc = "select" /\ pc' # "poll"
  BY DEF OvertakingInv, Select, BeginOrHold, config
<1>2. r \in Ports /\ q \in Ports /\ passed[q][p] \in Nat /\ One(batch[p] # 0) \in {0, 1}
      /\ urg[p] \in Nat /\ urg[q] \in Nat
  BY OvertakingFacts, PortFacts
<1>3. batch[r] # 0 /\ batch'[r] = 0 /\ (\A x \in Ports : x # r => batch'[x] = batch[x])
  BY <1>2, UpdateOne DEF Select, Best, TypeOK
<1>4. One(batch'[p] # 0) = IF p = r THEN 0 ELSE One(batch[p] # 0)
  BY <1>3 DEF One
<1>5. p = r => One(batch[p] # 0) = 1
  BY <1>3 DEF One
<1>6. passed'[q] = IF q = r THEN NoneOf(Ports)
                   ELSE IF Waiting(q) THEN [passed[q] EXCEPT ![r] = @ + 1]
                   ELSE passed[q]
  BY <1>2 DEF Select, CountPassed
<1>7. CASE q = r
  <2>1. passed'[q][p] = 0
    BY <1>6, <1>7 DEF NoneOf
  <2> QED
    BY <1>1, <1>2, <1>3, <1>4, <1>7, <2>1 DEF Overtaking
<1>8. CASE q # r /\ ~Waiting(q)
  <2>1. passed'[q][p] = 0 /\ batch[q] = 0 /\ batch'[q] = 0 /\ queue'[q] = <<>>
    BY <1>1, <1>2, <1>3, <1>6, <1>8 DEF Overtaking, Waiting
  <2> QED
    BY <1>1, <1>2, <1>4, <2>1 DEF Overtaking
<1>9. CASE q # r /\ Waiting(q)
  <2>1. passed[q] \in [Ports -> Nat]
    BY <1>2 DEF TypeOK
  <2>2. passed'[q][p] = IF p = r THEN passed[q][p] + 1 ELSE passed[q][p]
    BY <1>2, <1>6, <1>9, <2>1
  <2>3. batch'[q] = batch[q]
    BY <1>2, <1>3, <1>9
  <2>4. Waiting(q)'
    BY <1>1, <1>9, <2>3 DEF Waiting
  <2>5. passed'[q][p] + One(batch'[p] # 0) = passed[q][p] + One(batch[p] # 0)
    BY <1>2, <1>4, <1>5, <2>2
  <2>6. urg[p] < urg[q] /\ batch[q] # 0 => p # r
    BY <1>2, <1>9 DEF Select, Best, Better
  <2> QED
    BY <1>1, <2>2, <2>3, <2>4, <2>5, <2>6 DEF Overtaking
<1> QED
  BY <1>7, <1>8, <1>9

(* The next turn polls only when the vector is empty.                      *)
LEMMA TurnOvertaking ==
  ASSUME TypeOK, Control, OvertakingInv, Finish \/ Idle
  PROVE  OvertakingInv'
<1> SUFFICES ASSUME NEW q \in Polled, NEW p \in Ports
             PROVE  Overtaking(q, p)'
  BY DEF OvertakingInv, Finish, Idle, config, Polled
<1>1. Overtaking(q, p) /\ UNCHANGED <<passed, urg, batch, queue>> /\ pc # "poll"
  BY DEF OvertakingInv, Finish, Idle, config, history
<1>2. passed[q][p] \in Nat /\ One(batch[p] # 0) \in {0, 1} /\ q \in Nat \ {0}
  BY OvertakingFacts
<1>3. One(batch'[p] # 0) = One(batch[p] # 0)
  BY <1>1
<1>4. CASE pc' = "poll"
  <2>1. batch[q] = 0 /\ cursor' = 1
    BY <1>4 DEF Finish, Idle, NextTurn
  <2> QED
    BY <1>1, <1>2, <1>4, <2>1 DEF Overtaking, Waiting
<1>5. CASE pc' # "poll"
  BY <1>1, <1>2, <1>3, <1>5 DEF Overtaking, Waiting
<1> QED
  BY <1>4, <1>5

LEMMA OvertakingStep ==
  TypeOK /\ Control /\ OvertakingInv /\ [Next]_vars => OvertakingInv'
<1> SUFFICES ASSUME TypeOK, Control, OvertakingInv, [Next]_vars
             PROVE  OvertakingInv'
  OBVIOUS
<1>1. CASE \E p \in Ports : Arrive(p)
  BY <1>1, ArriveOvertaking
<1>2. CASE Poll
  BY <1>2, PollOvertaking
<1>3. CASE EndOfPass
  BY <1>3, EndOfPassOvertaking
<1>4. CASE \E p \in Polled : Select(p)
  BY <1>4, SelectOvertaking
<1>5. CASE Finish \/ Idle
  BY <1>5, TurnOvertaking
<1>6. CASE Tick \/ Wake \/ UNCHANGED vars
  <2>1. UNCHANGED <<passed, urg, batch, queue, cursor, polled>>
        /\ (pc' = "poll" <=> pc = "poll")
    BY <1>6 DEF Tick, Wake, vars, config, history
  <2>2. \A q, p : Overtaking(q, p) => Overtaking(q, p)'
    BY <2>1 DEF Overtaking, Waiting, One
  <2> QED
    BY <2>1, <2>2 DEF OvertakingInv, Polled
<1> QED
  BY <1>1, <1>2, <1>3, <1>4, <1>5, <1>6 DEF Next, ThreadStep

LEMMA OvertakingBounds ==
  ASSUME TypeOK, OvertakingInv
  PROVE  BoundedOvertaking /\ BoundedInversion
<1> SUFFICES ASSUME NEW q \in Polled, NEW p \in Ports
             PROVE  passed[q][p] <= 2 /\ (urg[p] < urg[q] => passed[q][p] <= 1)
  BY PortFacts DEF BoundedOvertaking, BoundedInversion
<1>1. Overtaking(q, p) /\ passed[q][p] \in Nat /\ One(batch[p] # 0) \in {0, 1}
  BY OvertakingFacts DEF OvertakingInv
<1> QED
  BY <1>1 DEF Overtaking

LEMMA OvertakingHolds == Spec => [](TypeOK /\ OvertakingInv)
<1>1. Init => TypeOK /\ Control /\ OvertakingInv
  BY TypeInit, ControlInit, OvertakingInit
<1>2. TypeOK /\ Control /\ OvertakingInv /\ [Next]_vars
        => (TypeOK /\ Control /\ OvertakingInv)'
  BY TypeStep, ControlStep, OvertakingStep
<1> QED
  BY <1>1, <1>2, PTL DEF Spec

(* No stream of events can starve a polled port: while its oldest message  *)
(* waits, no other port is dispatched more than twice.                     *)
THEOREM OvertakingBounded == Spec => []BoundedOvertaking
  BY OvertakingHolds, OvertakingBounds, PTL

(* Of each less urgent port at most one event goes first.                  *)
THEOREM InversionBounded == Spec => []BoundedInversion
  BY OvertakingHolds, OvertakingBounds, PTL
=============================================================================
