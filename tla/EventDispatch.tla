---------------------------- MODULE EventDispatch ----------------------------
(***************************************************************************)
(* The run() loop generated for an event-driven AADL thread: dispatch      *)
(* protocol Aperiodic, Sporadic or Timed.                                  *)
(*                                                                         *)
(* A turn of the loop is: if the vector `events` is empty, poll the ports  *)
(* once each in the order of descending urgency and collect at most one    *)
(* message of each; take the most urgent collected event out of the        *)
(* vector; (Sporadic) sleep until the minimum inter-arrival time is over;  *)
(* execute the calls.  Without an event: sleep 1 ms, or (Timed) look at    *)
(* the timeout.                                                            *)
(*                                                                         *)
(* The ports are numbered by their place in the poll order, so that the    *)
(* vector, filled in that order and only ever shrunk by remove(), is a     *)
(* function from ports to events.  Messages keep arriving on all ports     *)
(* between any two steps of the loop.  Each port's messages are numbered   *)
(* in the order of their arrival; 0 stands for no message.                 *)
(***************************************************************************)
EXTENDS Naturals, Sequences

CONSTANTS NPorts,        \* in event ports of the thread
          MaxUrgency,    \* largest urgency
          Period,        \* minimum inter-arrival time, or timeout, in ticks
          MaxArrivals    \* bound: messages that arrive on one port

ASSUME NPortsAssumption == NPorts \in Nat \ {0}
ASSUME MaxUrgencyAssumption == MaxUrgency \in Nat
ASSUME PeriodAssumption == Period \in Nat
ASSUME MaxArrivalsAssumption == MaxArrivals \in Nat

VARIABLES proto,      \* dispatch protocol of the thread; never changes
          polled,     \* ports 1 .. polled are polled; never changes
          urg,        \* urg[p]: urgency of port p; never changes
          queue,      \* queue[p]: channel of port p
          batch,      \* batch[p]: event of port p in `events`
          stamp,      \* stamp[p]: its Instant, as a rank within the batch
          pc,         \* where the loop is
          cursor,     \* the port to poll next
          cur,        \* the event taken out of `events`
          elapsed,    \* now - last_dispatch (Sporadic), now - start_time (Timed)
          arrived,    \* history: messages that have arrived on port p
          done,       \* history: events of port p executed, in order
          passed,     \* history: passed[q][p] dispatches of p while q waits
          gap         \* history: time since the last execution began

config == <<proto, polled, urg>>
history == <<done, passed, gap>>
vars == <<config, queue, batch, stamp, pc, cursor, cur, elapsed, arrived, history>>

Ports == 1 .. NPorts
Polled == 1 .. polled
Protocols == {"Aperiodic", "Sporadic", "Timed"}
NoEvent == [port |-> 0, num |-> 0]
NoneOf(S) == [p \in S |-> 0]

(* extract_event_port_urgency sorts by descending urgency.  Ports without  *)
(* an urgency are not polled when some port has one; when none has, only   *)
(* the first event port is polled, with urgency 0.                         *)
PollOrder ==
  /\ polled \in 1 .. NPorts
  /\ urg \in [Ports -> 0 .. MaxUrgency]
  /\ \A p, q \in Ports : p < q => urg[p] >= urg[q]
  /\ \A p \in Ports \ Polled : urg[p] = 0

Init ==
  /\ proto \in Protocols
  /\ PollOrder
  /\ queue = [p \in Ports |-> <<>>]
  /\ batch = NoneOf(Ports)
  /\ stamp = NoneOf(Ports)
  /\ pc = "poll"
  /\ cursor = 1
  /\ cur = NoEvent
  /\ elapsed = 0
  /\ arrived = NoneOf(Ports)
  /\ done = [p \in Ports |-> <<>>]
  /\ passed = [q \in Ports |-> NoneOf(Ports)]
  /\ gap = 0

-----------------------------------------------------------------------------
(* Another thread sends to port p. *)
Arrive(p) ==
  /\ arrived[p] < MaxArrivals
  /\ arrived' = [arrived EXCEPT ![p] = @ + 1]
  /\ queue' = [queue EXCEPT ![p] = Append(@, arrived[p] + 1)]
  /\ UNCHANGED <<config, batch, stamp, pc, cursor, cur, elapsed, history>>

(* Time passes.  Beyond Period + 1 the clocks need not be told apart. *)
Tick ==
  /\ proto # "Aperiodic"
  /\ elapsed' = IF elapsed <= Period THEN elapsed + 1 ELSE elapsed
  /\ gap' = IF gap <= Period THEN gap + 1 ELSE gap
  /\ UNCHANGED <<config, queue, batch, stamp, pc, cursor, cur, arrived, done, passed>>

(* Defect: the loop polls in every turn, also while events are pending. *)
PollEveryTurn(b) == pc' = "poll" /\ cursor' = 1

(* `if events.is_empty()` at the top of the loop, for the batch b. *)
NextTurn(b) ==
  /\ cursor' = 1
  /\ pc' = IF \E p \in Polled : b[p] # 0 THEN "select" ELSE "poll"

(* The Instants pushed in a pass do not decrease; equal ones may occur. *)
Stamps == {t \in 0 .. (cursor - 1) : \A p \in Polled : batch[p] # 0 => stamp[p] <= t}

(* Defect: the pass does not stop at the last port. *)
PollRunsOn ==
  /\ pc = "poll"
  /\ cursor' = cursor + 1
  /\ UNCHANGED <<config, queue, batch, stamp, pc, cur, elapsed, arrived, history>>

(* One port of a pass: `if let Ok(val) = rx.try_recv() { events.push(..) }`. *)
Poll ==
  /\ pc = "poll"
  /\ cursor <= polled
  /\ cursor' = cursor + 1
  /\ IF queue[cursor] = <<>> \/ batch[cursor] # 0
     THEN UNCHANGED <<queue, batch, stamp>>
     ELSE /\ queue' = [queue EXCEPT ![cursor] = Tail(@)]
          /\ batch' = [batch EXCEPT ![cursor] = Head(queue[cursor])]
          /\ \E t \in Stamps : stamp' = [stamp EXCEPT ![cursor] = t]
  /\ UNCHANGED <<config, pc, cur, elapsed, arrived, history>>

EndOfPass ==
  /\ pc = "poll"
  /\ cursor > polled
  /\ pc' = "select"
  /\ UNCHANGED <<config, queue, batch, stamp, cursor, cur, elapsed, arrived, history>>

(* Defect: the oldest event is taken, whatever its urgency. *)
BetterByAge(p, q) == stamp[p] < stamp[q] \/ (stamp[p] = stamp[q] /\ p > q)

(* The comparison of max_by: higher urgency, then earlier Instant; of      *)
(* fully equal events max_by returns the last one.                         *)
Better(p, q) ==
  \/ urg[p] > urg[q]
  \/ urg[p] = urg[q] /\ stamp[p] < stamp[q]
  \/ urg[p] = urg[q] /\ stamp[p] = stamp[q] /\ p > q

Best(p) == batch[p] # 0 /\ \A q \in Polled \ {p} : batch[q] # 0 => Better(p, q)

(* A message that the loop has still to see, or has collected. *)
Waiting(q) == batch[q] # 0 \/ queue[q] # <<>>

(* Dispatches of other ports while the oldest message of a port waits. *)
CountPassed(p) ==
  passed' = [q \in Ports |->
               IF q = p THEN NoneOf(Ports)
               ELSE IF Waiting(q) THEN [passed[q] EXCEPT ![p] = @ + 1]
               ELSE passed[q]]

(* Whether the thread first sleeps for min_interarrival - elapsed. *)
MustHold == proto = "Sporadic" /\ elapsed < Period

BeginOrHold ==
  IF MustHold THEN pc' = "hold" /\ UNCHANGED gap ELSE pc' = "run" /\ gap' = 0

(* Defect: the event is handled but not removed from the vector. *)
SelectKeeping(p) ==
  /\ pc = "select"
  /\ Best(p)
  /\ cur' = [port |-> p, num |-> batch[p]]
  /\ CountPassed(p)
  /\ BeginOrHold
  /\ UNCHANGED <<config, queue, batch, stamp, cursor, elapsed, arrived, done>>

(* Defect: the vector is cleared when its best event is taken. *)
SelectClearing(p) ==
  /\ pc = "select"
  /\ Best(p)
  /\ cur' = [port |-> p, num |-> batch[p]]
  /\ batch' = NoneOf(Ports)
  /\ stamp' = NoneOf(Ports)
  /\ CountPassed(p)
  /\ BeginOrHold
  /\ UNCHANGED <<config, queue, cursor, elapsed, arrived, done>>

(* `let (val, _, _) = events.remove(idx)`, then the Sporadic delay.  *)
Select(p) ==
  /\ pc = "select"
  /\ Best(p)
  /\ cur' = [port |-> p, num |-> batch[p]]
  /\ batch' = [batch EXCEPT ![p] = 0]
  /\ stamp' = [stamp EXCEPT ![p] = 0]
  /\ CountPassed(p)
  /\ BeginOrHold
  /\ UNCHANGED <<config, queue, cursor, elapsed, arrived, done>>

(* The sleep of a Sporadic thread is over. *)
Wake ==
  /\ pc = "hold"
  /\ elapsed >= Period
  /\ pc' = "run"
  /\ gap' = 0
  /\ UNCHANGED <<config, queue, batch, stamp, cursor, cur, elapsed, arrived, done, passed>>

(* Defect: last_dispatch keeps the value it had at the start. *)
FinishUnstamped ==
  /\ pc = "run"
  /\ done' = [done EXCEPT ![cur.port] = Append(@, cur.num)]
  /\ cur' = NoEvent
  /\ NextTurn(batch)
  /\ UNCHANGED <<config, queue, batch, stamp, elapsed, arrived, passed, gap>>

(* The calls have been executed; a Sporadic thread sets last_dispatch only *)
(* now, a Timed thread leaves start_time as it is.                         *)
Finish ==
  /\ pc = "run"
  /\ done' = [done EXCEPT ![cur.port] = Append(@, cur.num)]
  /\ cur' = NoEvent
  /\ elapsed' = IF proto = "Sporadic" THEN 0 ELSE elapsed
  /\ NextTurn(batch)
  /\ UNCHANGED <<config, queue, batch, stamp, arrived, passed, gap>>

(* Defect: the else branch of a Timed thread does nothing. *)
IdleSilently ==
  /\ pc = "select"
  /\ \A p \in Polled : batch[p] = 0
  /\ NextTurn(batch)
  /\ UNCHANGED <<config, queue, batch, stamp, cur, elapsed, arrived, history>>

(* No event was collected: sleep 1 ms and poll again.  A Timed thread does *)
(* not sleep; past the timeout it reports and restarts its clock.          *)
Idle ==
  /\ pc = "select"
  /\ \A p \in Polled : batch[p] = 0
  /\ elapsed' = IF proto = "Timed" /\ elapsed > Period THEN 0 ELSE elapsed
  /\ NextTurn(batch)
  /\ UNCHANGED <<config, queue, batch, stamp, cur, arrived, history>>

ThreadStep == Poll \/ EndOfPass \/ (\E p \in Polled : Select(p)) \/ Wake \/ Finish \/ Idle

Next == (\E p \in Ports : Arrive(p)) \/ Tick \/ ThreadStep

(* The thread never blocks but in a sleep of bounded length, and time goes *)
(* on.  Nothing obliges a message to arrive.                               *)
Spec == Init /\ [][Next]_vars

FairSpec == Spec /\ WF_vars(ThreadStep) /\ WF_vars(Tick)

-----------------------------------------------------------------------------
Numbers == 1 .. MaxArrivals
Clock == 0 .. (Period + 1)

TypeOK ==
  /\ proto \in Protocols
  /\ PollOrder
  /\ queue \in [Ports -> Seq(Numbers)]
  /\ batch \in [Ports -> Numbers \cup {0}]
  /\ stamp \in [Ports -> 0 .. NPorts]
  /\ pc \in {"poll", "select", "hold", "run"}
  /\ cursor \in 1 .. (NPorts + 1)
  /\ cur \in [port : Ports, num : Numbers] \cup {NoEvent}
  /\ elapsed \in Clock
  /\ arrived \in [Ports -> 0 .. MaxArrivals]
  /\ done \in [Ports -> Seq(Numbers)]
  /\ passed \in [Ports -> [Ports -> Nat]]
  /\ gap \in Clock

One(b) == IF b THEN 1 ELSE 0

Executed(p) == Len(done[p])
Taken(p) == Executed(p) + One(cur.port = p)
Read(p) == Taken(p) + One(batch[p] # 0)

(* Every event of a port is in one place, and those places hold the port's *)
(* messages in the order of their arrival: executed, in the hand of the    *)
(* loop, in the vector, in the channel.                                    *)
EachOnceInOrder ==
  \A p \in Ports :
    /\ arrived[p] = Read(p) + Len(queue[p])
    /\ \A i \in 1 .. Executed(p) : done[p][i] = i
    /\ cur.port = p => cur.num = Taken(p)
    /\ batch[p] # 0 => batch[p] = Read(p)
    /\ \A i \in 1 .. Len(queue[p]) : queue[p][i] = Read(p) + i

(* While a message waits at the head of a polled port, no other port is    *)
(* dispatched more than twice: a stream of urgent events cannot starve a   *)
(* less urgent port, because the ports are not polled again before all     *)
(* collected events are handled.                                           *)
BoundedOvertaking == \A q \in Polled : \A p \in Ports : passed[q][p] <= 2

(* The price of it: an event may be dispatched before a more urgent one    *)
(* that waits in its channel, but only one of each less urgent port.       *)
BoundedInversion ==
  \A q \in Polled : \A p \in Polled : urg[p] < urg[q] => passed[q][p] <= 1

(* Two executions of a Sporadic thread never begin within the minimum      *)
(* inter-arrival time, however fast the events arrive, and the first one   *)
(* does not begin within that time of the start.                           *)
SporadicSeparation ==
  [][proto = "Sporadic" /\ pc # "run" /\ pc' = "run" => gap >= Period]_vars

(* Every message that arrives on a polled port is executed. *)
EveryEventExecuted ==
  \A p \in Ports : \A k \in Numbers :
    (p <= polled /\ arrived[p] >= k) ~> (Len(done[p]) >= k)

(* A Timed thread past its timeout reports it or executes an event. *)
TimedReacts == (proto = "Timed" /\ elapsed > Period) ~> (elapsed = 0 \/ pc = "run")
=============================================================================
