----------------------------- MODULE Generation -----------------------------
(***************************************************************************)
(* What the converter remembers of broadcasts from package to package.     *)
(*                                                                         *)
(* A source with several destinations becomes a tokio broadcast channel.   *)
(* Two pieces of the converter have to agree on that: convert_port_type,   *)
(* which gives the port fields of a component type their channel type when *)
(* the package of the type is converted, and create_channel_connection,    *)
(* which assigns the halves of a channel when the package of the enclosing *)
(* implementation is.  What both go by is collected when a package begins, *)
(* in maps that live as long as the converter.                             *)
(*                                                                         *)
(* The maps know components by bare names: a subcomponent by its           *)
(* identifier, a type, of a subcomponent or of a process implementation,   *)
(* by its type identifier, without its package.                            *)
(*                                                                         *)
(* The packages are numbered in the order they are converted in, that of   *)
(* their file names.  Implementations are systems with processes and       *)
(* devices inside, or processes with threads inside; connections to their  *)
(* own out ports, where nothing is a broadcast, are left out.              *)
(***************************************************************************)
EXTENDS Naturals, FiniteSets

CONSTANTS Types,       \* component types of the subcomponents
          TypeNames,   \* the names of these types
          Ports,       \* port names
          Out,         \* Out[t]: out ports of type t; its other ports are in
          NameSets,    \* the names subcomponents of an implementation can have
          Owners,      \* the names of the types of the process implementations
          OwnIn,       \* in ports of the processes
          Self,        \* the component of a process's own port
          NoType,      \* no name of a type
          NPackages,   \* packages of the model
          NImpls,      \* implementations of the model
          MaxConns     \* bound: connections of one implementation

ASSUME OutAssumption == Out \in [Types -> SUBSET Ports]
ASSUME SelfAssumption == \A D \in NameSets : Self \notin D
ASSUME NoTypeAssumption == NoType \notin TypeNames \cup Owners
ASSUME NImplsAssumption == NImpls \in Nat /\ NPackages \in Nat \ {0}

VARIABLES name,      \* name[t]: the identifier of type t; never changes
          decl,      \* decl[t]: package that declares t; never changes
          owner,     \* owner[m]: name of m's type, of a process; never changes
          home,      \* home[m]: package that holds implementation m; never changes
          subs,      \* subs[m]: type of each subcomponent; never changes
          conns,     \* conns[m]: port connections; never changes
          pkg,       \* the package that is converted
          pc,        \* "collect", "convert", "done", "panicked"
          send,      \* process_broadcast_send
          recv,      \* process_ and thread_broadcast_receive, as pairs
          idType,    \* ..._subcomponent_identify_to_type, of both kinds
          field,     \* field[t][p]: channel type of the field
          wired      \* assignments in the new() of the implementations

model == <<name, decl, owner, home, subs, conns>>
vars == <<model, pkg, pc, send, recv, idType, field, wired>>

Packages == 1 .. NPackages
Impls == 1 .. NImpls
Names == UNION NameSets
Kinds == {"system", "process"}

Kind(m) == IF owner[m] = NoType THEN "system" ELSE "process"

Port(n, p) == [comp |-> n, port |-> p]

(* The connections an implementation with these subcomponents can have. *)
Connectable(k, s) ==
  LET ports == {Port(n, p) : n \in DOMAIN s, p \in Ports}
      own == IF k = "process" THEN {Port(Self, p) : p \in OwnIn} ELSE {}
      joined(a, b) == /\ a.comp # b.comp
                      /\ a.comp # Self => a.port \in Out[s[a.comp]]
                      /\ b.port \notin Out[s[b.comp]]
  IN {c \in [src : ports \cup own, dst : ports] : joined(c.src, c.dst)}

Few(S) == {C \in SUBSET S : Cardinality(C) <= MaxConns}

SubTypes(m) == {subs[m][n] : n \in DOMAIN subs[m]}

(* A package declares one type of a name; threads are not in systems. *)
Init ==
  /\ name \in [Types -> TypeNames]
  /\ decl \in [Types -> Packages]
  /\ \A t, u \in Types : t # u /\ name[t] = name[u] => decl[t] # decl[u]
  /\ owner \in [Impls -> Owners \cup {NoType}]
  /\ home \in {h \in [Impls -> Packages] : \A m, n \in Impls : m < n => h[m] <= h[n]}
  /\ subs \in [Impls -> UNION {[D -> Types] : D \in NameSets}]
  /\ \A l, m \in Impls : Kind(l) # Kind(m) => SubTypes(l) \cap SubTypes(m) = {}
  /\ conns \in [Impls -> UNION {Few(Connectable(Kind(m), subs[m])) : m \in Impls}]
  /\ \A m \in Impls : conns[m] \in Few(Connectable(Kind(m), subs[m]))
  /\ pkg = 1
  /\ pc = "collect"
  /\ send = {}
  /\ recv = {}
  /\ idType = [k \in Kinds |-> [n \in Names |-> NoType]]
  /\ field = [t \in Types |-> [p \in Ports |-> "none"]]
  /\ wired = {}

-----------------------------------------------------------------------------
(* Defect: the process is left out of the key of thread_broadcast_receive. *)
KeyByPort(m, c) ==
  IF c.src.comp = Self
  THEN [kind |-> "process", owner |-> Self, port |-> c.src.port]
  ELSE [kind |-> "system", owner |-> c.src.comp, port |-> c.src.port]

(* (port, type of the process) for an own port, (subcomponent, port) for   *)
(* that of a subcomponent, also where a process looks it up.               *)
Key(m, c) ==
  IF c.src.comp = Self
  THEN [kind |-> "process", owner |-> owner[m], port |-> c.src.port]
  ELSE [kind |-> "system", owner |-> c.src.comp, port |-> c.src.port]

Here == {m \in Impls : home[m] = pkg}
Connections == UNION {{m} \X conns[m] : m \in Here}

(* What the collectors look at: all connections of systems, those of own   *)
(* ports in processes.                                                     *)
Collected == {mc \in Connections : Key(mc[1], mc[2]).kind = Kind(mc[1])}

One(b) == IF b THEN 1 ELSE 0

(* The connections counted for a key: of all implementations of the        *)
(* package, in processes by the name of the port alone.                    *)
Counted(key) ==
  {mc \in Collected :
     LET k == Key(mc[1], mc[2])
     IN k.kind = key.kind /\ k.port = key.port /\ (k.kind = "system" => k.owner = key.owner)}

(* dedup_with_min_two_unique; the list of sources of systems still holds   *)
(* what earlier packages left in it.                                       *)
Repeated(key) == Cardinality(Counted(key)) + One(key \in send) >= 2

(* Defect: the type of the sending subcomponent is not recorded. *)
InvolvedReceivers(k, n, pairs) == \E r \in pairs : r[1].kind = k /\ r[2].comp = n

(* The subcomponents whose type is looked up: all that a broadcast names,  *)
(* in processes those that receive.                                        *)
Involved(k, n, pairs) ==
  \E r \in pairs : r[1].kind = k /\ (r[2].comp = n \/ (k = "system" /\ r[1].owner = n))

(* collect_process_connections, collect_thread_connections.  Of several    *)
(* subcomponents with one name the last declared stays in the map.         *)
Collect ==
  /\ pc = "collect"
  /\ LET sources == {key \in {Key(mc[1], mc[2]) : mc \in Collected} : Repeated(key)}
         having(k, n) == {m \in Here : Kind(m) = k /\ n \in DOMAIN subs[m]}
         last(S) == CHOOSE m \in S : \A o \in S : o <= m
     IN /\ send' = {key \in sources : key.kind = "system"}
        /\ recv' = recv \cup {<<Key(mc[1], mc[2]), mc[2].dst>> :
                                mc \in {mc \in Collected : Key(mc[1], mc[2]) \in sources}}
        /\ idType' = [k \in Kinds |-> [n \in Names |->
             IF having(k, n) # {} /\ Involved(k, n, recv')
             THEN name[subs[last(having(k, n))][n]] ELSE idType[k][n]]]
  /\ pc' = "convert"
  /\ UNCHANGED <<model, pkg, field, wired>>

(* Defect: a broadcast source is recognised by the name of its port. *)
IsSenderByName(t, p, r) == r[1].kind = "system" /\ r[1].port = p

(* The port is that of the key, and the subcomponent recorded there has a  *)
(* type of this name.                                                      *)
IsSender(t, p, r) ==
  r[1].kind = "system" /\ r[1].port = p /\ idType["system"][r[1].owner] = name[t]

(* Where the key is met, the values under it are not looked at. *)
IsReceiver(t, p, r) ==
  ~IsSender(t, p, r) /\ r[2].port = p /\ idType[r[1].kind][r[2].comp] = name[t]

Sends(t, p) == \E r \in recv : IsSender(t, p, r)
Receives(t, p) == \E r \in recv : IsReceiver(t, p, r)

(* convert_port_type *)
ChannelType(t, p) == IF Sends(t, p) \/ Receives(t, p) THEN "broadcast" ELSE "ordinary"

(* panic!("error, In port is not allowed in broadcast send ports"), or the *)
(* other way round.                                                        *)
Contradicted(t) ==
  \E p \in Ports : (Sends(t, p) /\ p \notin Out[t]) \/ (Receives(t, p) /\ p \in Out[t])

(* Whether create_channel_connection makes a broadcast channel for c. *)
Broadcast(m, c) ==
  \/ Key(m, c) \in send
  \/ c.src.comp = Self /\ \E r \in recv : r[1] = Key(m, c)

(* The fields of subcomponents new() of m assigns for the connection c. *)
Assigned(m, c) ==
  LET half(e, k) == [impl |-> m, comp |-> e.comp, port |-> e.port, kind |-> k]
      receivers == {r[2] : r \in {r \in recv : r[1] = Key(m, c)}}
      ends == IF Broadcast(m, c) THEN {c.src} \cup receivers ELSE {c.src, c.dst}
  IN {half(e, IF Broadcast(m, c) THEN "broadcast" ELSE "ordinary") :
        e \in {e \in ends : e.comp # Self}}

DeclaredHere == {t \in Types : decl[t] = pkg}

(* The declarations of the package: types and implementations. *)
Convert ==
  /\ pc = "convert"
  /\ \A t \in DeclaredHere : ~Contradicted(t)
  /\ field' = [t \in Types |-> IF t \in DeclaredHere
                               THEN [p \in Ports |-> ChannelType(t, p)] ELSE field[t]]
  /\ wired' = wired \cup UNION {Assigned(mc[1], mc[2]) : mc \in Connections}
  /\ IF pkg < NPackages
     THEN pc' = "collect" /\ pkg' = pkg + 1
     ELSE pc' = "done" /\ UNCHANGED pkg
  /\ UNCHANGED <<model, send, recv, idType>>

(* The generator ends with a panic. *)
Panic ==
  /\ pc = "convert"
  /\ \E t \in DeclaredHere : Contradicted(t)
  /\ pc' = "panicked"
  /\ UNCHANGED <<model, pkg, send, recv, idType, field, wired>>

Next == Collect \/ Convert \/ Panic

Spec == Init /\ [][Next]_vars

-----------------------------------------------------------------------------
(* Subcomponents of different implementations have different names. *)
NamesApart == \A m, n \in Impls : m # n => DOMAIN subs[m] \cap DOMAIN subs[n] = {}

(* No two process implementations have types of the same name. *)
OwnersApart ==
  \A m, n \in Impls : m # n /\ Kind(m) = "process" /\ Kind(n) = "process" => owner[m] # owner[n]

(* Types of the same name are the same, or have the same out ports. *)
TypesApart == \A t, u \in Types : t # u => name[t] # name[u]
DirectionsAgree == \A t, u \in Types : name[t] = name[u] => Out[t] = Out[u]

(* No type is declared in a package before that of an implementation with  *)
(* a subcomponent of that type.                                            *)
UsersFirst == \A m \in Impls : \A n \in DOMAIN subs[m] : decl[subs[m][n]] >= home[m]

(* All subcomponents of a type use each of its ports in the same way. *)
Uniform ==
  \A v, w \in wired :
    (subs[v.impl][v.comp] = subs[w.impl][w.comp] /\ v.port = w.port) => v.kind = w.kind

(* Where names are apart, types come after their users and are used        *)
(* uniformly, every half of a channel is assigned to a field of its type:  *)
(* the generated new() functions type-check.                               *)
FieldsAgree ==
  (pc = "done" /\ NamesApart /\ OwnersApart /\ TypesApart /\ UsersFirst /\ Uniform) =>
    \A w \in wired : field[subs[w.impl][w.comp]][w.port] = w.kind

(* The assertions of convert_port_type hold where the names of             *)
(* subcomponents are apart and types of one name agree on directions: what *)
(* earlier packages left in the maps may be taken for that of another type *)
(* of the name, but never against the direction of a port.                 *)
GeneratorSurvives == (NamesApart /\ DirectionsAgree) => pc # "panicked"

(* An implementation assigns nothing but ends of its own connections where *)
(* the names of subcomponents and of processes are apart, whatever other   *)
(* systems and processes have left under the names of the ports.           *)
OwnEndsOnly ==
  (NamesApart /\ OwnersApart) =>
    \A w \in wired : \E c \in conns[w.impl] : Port(w.comp, w.port) \in {c.src, c.dst}

(* docs/aadl_rust_ast_conversion.md: a port that sends or receives a       *)
(* broadcast is an Option<BcSender<T>> or an Option<BcReceiver<T>>.        *)
DocumentedPortTypes ==
  (pc = "done" /\ NamesApart /\ OwnersApart /\ TypesApart /\ Uniform) =>
    \A w \in wired : w.kind = "broadcast" => field[subs[w.impl][w.comp]][w.port] = "broadcast"
=============================================================================
