------------------------------- MODULE Wiring -------------------------------
(***************************************************************************)
(* How the new() and run() of a generated process or system turn its list  *)
(* of AADL port connections into channels: create_channel_connection for   *)
(* each connection in the order of the list, then the threads and the      *)
(* forwarding threads.                                                     *)
(*                                                                         *)
(* Every connection makes a channel of its own, and its two halves are     *)
(* assigned to fields: a later assignment to the same field drops what an  *)
(* earlier one put there.  Only a source the collector has seen at least   *)
(* twice gets one broadcast channel for all its destinations.              *)
(*                                                                         *)
(* The collectors know subcomponents, ports and process types by their     *)
(* bare names, and remember them from package to package: what they have   *)
(* met under the same names outside this component is counted with its     *)
(* connections and gets subscribed with them.                              *)
(*                                                                         *)
(* A source is an out port of a subcomponent, or (process only) an in port *)
(* of the process itself, whose field is <port>Send.  A sink is an in port *)
(* of a subcomponent, or an out port of the process, field <port>Rece.     *)
(* Channels are numbered by the connection that made them; 0 is None.      *)
(***************************************************************************)
EXTENDS Naturals, Sequences, FiniteSets

CONSTANTS SubOut, SubIn,   \* out and in ports of the subcomponents
          OwnIn, OwnOut,   \* in and out ports of the component itself
          MaxConns,        \* bound: connections of the component
          MaxElsewhere,    \* bound: times a name occurs outside the component
          MaxHeard         \* bound: destinations remembered from outside

ASSUME PortsAssumption ==
  /\ SubOut \cap OwnIn = {}
  /\ SubIn \cap OwnOut = {}
ASSUME MaxConnsAssumption == MaxConns \in Nat /\ MaxElsewhere \in Nat /\ MaxHeard \in Nat

VARIABLES kind,        \* "process" or "system"; never changes
          conns,       \* the connections, in order; never changes
          elsewhere,   \* how often the collector met a source's name elsewhere
          heard,       \* connections remembered from elsewhere, by name
          linked,      \* own in ports the enclosing system has connected
          pc,          \* new() wiring, run() starting, up, or dead by a panic
          next,        \* connection new() deals with next
          tx,          \* tx[s]: channel whose Sender is in the field of s
          rx,          \* rx[d]: channel whose Receiver is in the field of d
          processed,   \* processed_broadcast_connections
          forwarders   \* own ports whose forwarding thread was started

model == <<kind, conns, elsewhere, heard, linked>>
vars == <<model, pc, next, tx, rx, processed, forwarders>>

Sources == SubOut \cup OwnIn
Sinks == SubIn \cup OwnOut
PortConnection == [src : Sources, dst : Sinks]

ConnSet == {conns[i] : i \in 1 .. Len(conns)}
From(s) == {c \in ConnSet : c.src = s}
To(d) == {c \in ConnSet : c.dst = d}

(* Defect: a broadcast source subscribes every connected sink.      *)
SubscribersOfAll(s) == {d \in SubIn : To(d) # {}}

(* The sources among this component's that their collector counts at least *)
(* twice: in systems (subcomponent, port) over the system implementations  *)
(* of the package, and once more if an earlier package left it in          *)
(* process_broadcast_send; in processes the names of their in ports, over  *)
(* all processes of the package.                                           *)
Counted(s) ==
  /\ s \in IF kind = "system" THEN SubOut ELSE OwnIn
  /\ Cardinality(From(s)) + elsewhere[s] >= 2

(* process_broadcast_receive, thread_broadcast_receive: the destinations   *)
(* of s inside subcomponents.  Those of other implementations are there    *)
(* under the same names: of a process type the other implementations, and  *)
(* the types of the same name in earlier packages.                         *)
Subscribers(s) ==
  {d \in SubIn : \/ Counted(s) /\ [src |-> s, dst |-> d] \in ConnSet
                 \/ [src |-> s, dst |-> d] \in heard}

(* Subcomponents are looked up in process_broadcast_send, a list of        *)
(* systems, also by a process, for its threads.                            *)
Broadcast(s) ==
  CASE s \in OwnIn      -> Subscribers(s) # {}
    [] kind = "system"  -> Counted(s)
    [] OTHER            -> elsewhere[s] >= 2

(* A connection from an in port straight to an out port of the component   *)
(* is the case left as a TODO: a channel is made, no field assigned.       *)
Supported(c) == ~(c.src \in OwnIn /\ c.dst \in OwnOut)

Distinct(s) == \A i, j \in 1 .. Len(s) : i # j => s[i] # s[j]

(* rustc knows every channel: that of a broadcast has not the name of the  *)
(* connection, by which a connection to an own out port calls it.          *)
Compiles ==
  \A c \in ConnSet : c.src \in SubOut /\ c.dst \in OwnOut => ~Broadcast(c.src)

(* The models the generator can be given: no connection twice; a system    *)
(* connects its subcomponents only.  What is known of names that this      *)
(* component does not connect is not looked at; destinations it does not   *)
(* have would not compile.                                                 *)
Init ==
  /\ kind \in {"process", "system"}
  /\ \E n \in 0 .. MaxConns : conns \in [1 .. n -> PortConnection]
  /\ Distinct(conns)
  /\ kind = "system" => \A c \in ConnSet : c.src \in SubOut /\ c.dst \in SubIn
  /\ elsewhere \in [Sources -> 0 .. MaxElsewhere]
  /\ \A s \in Sources : From(s) = {} => elsewhere[s] = 0
  /\ heard \in SUBSET [src : {c.src : c \in ConnSet}, dst : SubIn]
  /\ Cardinality(heard) <= MaxHeard
  /\ Compiles
  /\ linked \in SUBSET {s \in OwnIn : From(s) # {}}
  /\ pc = "wire"
  /\ next = 1
  /\ tx = [s \in Sources |-> 0]
  /\ rx = [d \in Sinks |-> 0]
  /\ processed = {}
  /\ forwarders = {}

-----------------------------------------------------------------------------
(* Defect: no connection is treated as a broadcast. *)
WireEach ==
  /\ pc = "wire"
  /\ next <= Len(conns)
  /\ LET c == conns[next]
     IN IF Supported(c)
        THEN tx' = [tx EXCEPT ![c.src] = next] /\ rx' = [rx EXCEPT ![c.dst] = next]
        ELSE UNCHANGED <<tx, rx>>
  /\ next' = next + 1
  /\ UNCHANGED <<model, pc, processed, forwarders>>

(* Each of a system's and of an own port's broadcasts is set up once.      *)
SetUpOnce(s) == Broadcast(s) /\ (kind = "system" \/ s \in OwnIn)

(* One connection of new(): skipped when its source is a broadcast already *)
(* set up; otherwise a channel, its Sender to the source, its Receiver to  *)
(* the sink or, of a broadcast, one to every subscriber.                   *)
Wire ==
  /\ pc = "wire"
  /\ next <= Len(conns)
  /\ LET c == conns[next]
         receivers == IF Broadcast(c.src) THEN Subscribers(c.src) ELSE {c.dst}
     IN IF c.src \in processed
        THEN UNCHANGED <<tx, rx, processed>>
        ELSE /\ tx' = IF Supported(c) THEN [tx EXCEPT ![c.src] = next] ELSE tx
             /\ rx' = IF Supported(c) \/ Broadcast(c.src)
                      THEN [d \in Sinks |-> IF d \in receivers THEN next ELSE rx[d]]
                      ELSE rx
             /\ processed' = processed \cup {s \in {c.src} : SetUpOnce(s)}
  /\ next' = next + 1
  /\ UNCHANGED <<model, pc, forwarders>>

(* new() returns; run() spawns the threads, which take their fields along. *)
Constructed ==
  /\ pc = "wire"
  /\ next > Len(conns)
  /\ pc' = "start"
  /\ UNCHANGED <<model, next, tx, rx, processed, forwarders>>

(* create_data_forwarding_tasks, sorted and without duplicates: one task   *)
(* for each own port that is connected to a subcomponent.                  *)
Tasks ==
  {p \in OwnIn : \E c \in From(p) : c.dst \in SubIn}
    \cup {p \in OwnOut : \E c \in To(p) : c.src \in SubOut}

(* Defect: the Receiver unwrapped is always that of the port itself. *)
UnwrapsOuter(p) == p \in linked

(* `let <field>_rx = <field>.unwrap()`: the field is the port itself, which *)
(* the enclosing system may have assigned, or <port>Rece.                  *)
Unwraps(p) == IF p \in OwnIn THEN p \in linked ELSE rx[p] # 0

(* The order of the tasks is that of the port names: any order.  A panic   *)
(* here unwinds main and ends the program.                                 *)
StartForwarder(p) ==
  /\ pc = "start"
  /\ p \in Tasks \ forwarders
  /\ IF Unwraps(p)
     THEN forwarders' = forwarders \cup {p} /\ UNCHANGED pc
     ELSE pc' = "dead" /\ UNCHANGED forwarders
  /\ UNCHANGED <<model, next, tx, rx, processed>>

Started ==
  /\ pc = "start"
  /\ Tasks \subseteq forwarders
  /\ pc' = "up"
  /\ UNCHANGED <<model, next, tx, rx, processed, forwarders>>

Next == Wire \/ Constructed \/ (\E p \in OwnIn \cup OwnOut : StartForwarder(p)) \/ Started

Spec == Init /\ [][Next]_vars

(* new() and run() are straight-line code of the main thread. *)
FairSpec == Spec /\ WF_vars(Next)

-----------------------------------------------------------------------------
Realised(c) == tx[c.src] # 0 /\ rx[c.dst] = tx[c.src]

(* What the generator can express: a sink that no other source connects to *)
(* here, or is remembered for; and a source with one connection, or one    *)
(* that broadcasts to subcomponents and has this one among its             *)
(* subscribers.                                                            *)
Expressible(c) ==
  /\ \A e \in ConnSet \cup heard : e.dst = c.dst => e.src = c.src
  /\ \A e \in From(c.src) : Supported(e)
  /\ IF Broadcast(c.src) THEN c.dst \in Subscribers(c.src) ELSE From(c.src) = {c}

(* When new() returns, every connection the generator can express joins    *)
(* its source to its sink, whatever the other connections are and in       *)
(* whatever order they come, and whatever has been met under the names of  *)
(* other sinks; all sinks of a broadcast are on its channel.               *)
ConnectionsRealised ==
  pc # "wire" => \A c \in ConnSet : Expressible(c) => Realised(c)

(* No sink ever hears a source that the model does not connect to it, also *)
(* where assignments to the same field overwrite each other; unless the    *)
(* source is a broadcast and ports of these names are connected elsewhere. *)
NoStrayConnection ==
  \A s \in Sources, d \in Sinks :
    (tx[s] # 0 /\ rx[d] = tx[s]) =>
      \/ [src |-> s, dst |-> d] \in ConnSet
      \/ Broadcast(s) /\ [src |-> s, dst |-> d] \in heard

(* A component all of whose own in ports are connected by the enclosing    *)
(* system starts every forwarding thread and comes up.                     *)
LinkedComesUp == (Tasks \cap OwnIn \subseteq linked) ~> (pc = "up" /\ forwarders = Tasks)

(* What docs/aadl_rust_ast_conversion.md says of an ordinary port          *)
(* connection: its source has its sender, its destination its receiver.    *)
DocumentedWiring ==
  pc = "up" => \A i \in 1 .. Len(conns) :
    (Supported(conns[i]) /\ ~Broadcast(conns[i].src))
      => tx[conns[i].src] = i /\ rx[conns[i].dst] = i
=============================================================================
