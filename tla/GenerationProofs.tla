--------------------------- MODULE GenerationProofs ---------------------------
(***************************************************************************)
(* Proofs about Generation, for any types, ports, packages and             *)
(* implementations: generated code assigns only ends of the connections it *)
(* is generated for, the assertions of convert_port_type hold, and every   *)
(* channel fits the field it is assigned to, under the conditions the      *)
(* properties of Generation name.                                          *)
(***************************************************************************)
EXTENDS Generation, TLAPS

ModelOK ==
  /\ name \in [Types -> TypeNames]
  /\ decl \in [Types -> Packages]
  /\ home \in [Impls -> Packages]
  /\ \A m \in Impls : /\ subs[m] \in UNION {[D -> Types] : D \in NameSets}
                      /\ conns[m] \subseteq Connectable(Kind(m), subs[m])

TypeOK ==
  /\ ModelOK
  /\ pkg \in Packages
  /\ pc \in {"collect", "convert", "done", "panicked"}

(* Packages that have been converted. *)
Converted(k) == k < pkg \/ pc = "done"

Half(m, e, k) == [impl |-> m, comp |-> e.comp, port |-> e.port, kind |-> k]

(* The type recorded for a subcomponent n of m is its own. *)
Recorded(m, n) == idType[Kind(m)][n] = name[subs[m][n]]

(* What is remembered of the receivers of broadcasts: each pair was put    *)
(* there for a connection c of an implementation m.  The types of its ends *)
(* are remembered, the same package makes it a broadcast, and the channel  *)
(* has been assigned at both ends once m is converted.                     *)
Remembered(r, m, c) ==
  /\ r = <<Key(m, c), c.dst>>
  /\ Key(m, c).kind = Kind(m)
  /\ home[m] < pkg \/ (home[m] = pkg /\ pc # "collect")
  /\ NamesApart => Recorded(m, c.dst.comp) /\ (c.src.comp # Self => Recorded(m, c.src.comp))
  /\ (c.src.comp # Self /\ home[m] = pkg) => Key(m, c) \in send
  /\ Converted(home[m]) =>
       /\ Half(m, c.dst, "broadcast") \in wired
       /\ c.src.comp # Self => Half(m, c.src, "broadcast") \in wired

RecvSound == \A r \in recv : \E m \in Impls : \E c \in conns[m] : Remembered(r, m, c)

(* A source of a broadcast is remembered with its receivers. *)
SendSound == \A key \in send : \E r \in recv : r[1] = key

(* A port at which a remembered broadcast is sent or received. *)
Named(r, n, p) ==
  \/ r[2] = Port(n, p)
  \/ r[1] = [kind |-> "system", owner |-> n, port |-> p]

WiredSound ==
  \A w \in wired :
    /\ w.impl \in Impls
    /\ w.kind \in {"broadcast", "ordinary"}
    /\ (NamesApart /\ OwnersApart) =>
         \E c \in conns[w.impl] : Port(w.comp, w.port) \in {c.src, c.dst}
    /\ w.comp # Self
    /\ w.kind = "broadcast" => \E r \in recv : Named(r, w.comp, w.port)

(* A field that was made for a broadcast is named by what is remembered,   *)
(* and one that had to be made for a broadcast was.                        *)
FieldSound ==
  (NamesApart /\ OwnersApart) =>
    \A t \in Types, p \in Ports : Converted(decl[t]) =>
      /\ field[t][p] \in {"broadcast", "ordinary"}
      /\ field[t][p] = "broadcast" => Sends(t, p) \/ Receives(t, p)
      /\ \A w \in wired :
           (/\ w.kind = "broadcast" /\ w.port = p
            /\ subs[w.impl][w.comp] = t /\ home[w.impl] <= decl[t]) => field[t][p] = "broadcast"

IInv ==
  /\ TypeOK
  /\ RecvSound
  /\ SendSound
  /\ WiredSound
  /\ FieldSound
  /\ GeneratorSurvives

-----------------------------------------------------------------------------
LEMMA SubFacts ==
  ASSUME ModelOK, NEW m \in Impls
  PROVE  /\ DOMAIN subs[m] \subseteq Names
         /\ \A n \in DOMAIN subs[m] : subs[m][n] \in Types
         /\ Self \notin DOMAIN subs[m]
<1>1. PICK D \in NameSets : subs[m] \in [D -> Types]
  BY DEF ModelOK
<1> QED
  BY <1>1, SelfAssumption DEF Names

(* The ends of a connection. *)
LEMMA ConnFacts ==
  ASSUME ModelOK, NEW m \in Impls, NEW c \in conns[m]
  PROVE  /\ c.dst = Port(c.dst.comp, c.dst.port)
         /\ c.dst.comp \in DOMAIN subs[m] /\ c.dst.comp # Self /\ c.dst.port \in Ports
         /\ c.dst.port \notin Out[subs[m][c.dst.comp]]
         /\ c.src = Port(c.src.comp, c.src.port)
         /\ c.src.comp = Self => Kind(m) = "process"
         /\ c.src.comp # Self =>
              /\ c.src.comp \in DOMAIN subs[m] /\ c.src.port \in Ports
              /\ c.src.port \in Out[subs[m][c.src.comp]]
<1> DEFINE s == subs[m]
           ports == {Port(n, p) : n \in DOMAIN s, p \in Ports}
           own == IF Kind(m) = "process" THEN {Port(Self, p) : p \in OwnIn} ELSE {}
<1>1. /\ c \in [src : ports \cup own, dst : ports]
      /\ c.src.comp # Self => c.src.port \in Out[s[c.src.comp]]
      /\ c.dst.port \notin Out[s[c.dst.comp]]
  BY DEF ModelOK, Connectable
<1>2. PICK n \in DOMAIN s, p \in Ports : c.dst = Port(n, p)
  BY <1>1
<1>3. c.dst.comp = n /\ c.dst.port = p
  BY <1>2 DEF Port
<1>4. Self \notin DOMAIN s
  BY SubFacts
<1>5. c.src \in ports \cup own
  BY <1>1
<1>6. CASE c.src \in ports
  <2>1. PICK o \in DOMAIN s, q \in Ports : c.src = Port(o, q)
    BY <1>6
  <2>2. c.src.comp = o /\ c.src.port = q
    BY <2>1 DEF Port
  <2> QED
    BY <1>1, <1>2, <1>3, <1>4, <2>1, <2>2
<1>7. CASE c.src \in own
  <2>1. PICK q \in OwnIn : c.src = Port(Self, q)
    BY <1>7
  <2>2. c.src.comp = Self /\ c.src.port = q /\ Kind(m) = "process"
    BY <1>7, <2>1 DEF Port
  <2> QED
    BY <1>1, <1>2, <1>3, <1>4, <2>1, <2>2
<1> QED
  BY <1>5, <1>6, <1>7

(* What its key says of a connection. *)
LEMMA KeyFacts ==
  ASSUME NEW m, NEW c
  PROVE  /\ Key(m, c).port = c.src.port
         /\ Key(m, c).kind = IF c.src.comp = Self THEN "process" ELSE "system"
         /\ Key(m, c).owner = IF c.src.comp = Self THEN owner[m] ELSE c.src.comp
  BY DEF Key

(* Names tell implementations apart, as far as they are apart. *)
LEMMA OneOwner ==
  ASSUME NamesApart, NEW m \in Impls, NEW o \in Impls,
         NEW n \in DOMAIN subs[m], n \in DOMAIN subs[o]
  PROVE  m = o
  BY DEF NamesApart

(* The key of a connection determines its implementation. *)
LEMMA KeyOwner ==
  ASSUME ModelOK, NamesApart, OwnersApart,
         NEW m \in Impls, NEW c \in conns[m], NEW o \in Impls, NEW d \in conns[o],
         Key(m, c) = Key(o, d)
  PROVE  m = o
<1>1. (c.src.comp = Self) <=> (d.src.comp = Self)
  BY KeyFacts
<1>2. CASE c.src.comp = Self
  <2>1. owner[m] = owner[o] /\ Kind(m) = "process" /\ Kind(o) = "process"
    BY <1>1, <1>2, KeyFacts, ConnFacts
  <2> QED
    BY <2>1 DEF OwnersApart
<1>3. CASE c.src.comp # Self
  <2>1. c.src.comp = d.src.comp
    BY <1>1, <1>3, KeyFacts
  <2> QED
    BY <1>1, <1>3, <2>1, ConnFacts, OneOwner
<1> QED
  BY <1>2, <1>3

-----------------------------------------------------------------------------
LEMMA InitIInv == Init => IInv
<1> SUFFICES ASSUME Init
             PROVE  IInv
  OBVIOUS
<1>1. ASSUME NEW m \in Impls
      PROVE  /\ subs[m] \in UNION {[D -> Types] : D \in NameSets}
             /\ conns[m] \subseteq Connectable(Kind(m), subs[m])
  BY DEF Init, Few
<1>2. ModelOK
  BY <1>1 DEF Init, ModelOK
<1>3. 1 \in Packages
  BY NImplsAssumption DEF Packages
<1>4. TypeOK
  BY <1>2, <1>3 DEF Init, TypeOK
<1>5. RecvSound /\ SendSound /\ WiredSound /\ GeneratorSurvives
  BY DEF Init, RecvSound, SendSound, WiredSound, GeneratorSurvives
<1>6. ASSUME NEW t \in Types
      PROVE  ~Converted(decl[t])
  BY <1>2 DEF Init, Converted, ModelOK, Packages
<1>7. FieldSound
  BY <1>6 DEF FieldSound
<1> QED
  BY <1>4, <1>5, <1>7 DEF IInv

-----------------------------------------------------------------------------
(* Collecting leaves what is known of the types of subcomponents as it is, *)
(* and adds those of the implementations of the package.                   *)
LEMMA CollectTypes ==
  ASSUME TypeOK, Collect, NamesApart, NEW m \in Impls, NEW n \in DOMAIN subs[m],
         Recorded(m, n) \/ (home[m] = pkg /\ Involved(Kind(m), n, recv'))
  PROVE  idType'[Kind(m)][n] = name[subs[m][n]]
<1> DEFINE k == Kind(m)
           having == {o \in Here : Kind(o) = k /\ n \in DOMAIN subs[o]}
           last == CHOOSE o \in having : \A q \in having : q <= o
<1>1. n \in Names /\ k \in Kinds
  BY SubFacts DEF TypeOK, Kind, Kinds
<1>2. idType'[k][n] = IF having # {} /\ Involved(k, n, recv')
                      THEN name[subs[last][n]] ELSE idType[k][n]
  BY <1>1 DEF Collect
<1>3. having \subseteq {m} /\ (home[m] = pkg => having = {m})
  BY OneOwner DEF Here
<1>4. m <= m
  BY DEF Impls
<1>5. having # {} => last = m
  BY <1>3, <1>4
<1> HIDE DEF having, last
<1> QED
  BY <1>2, <1>3, <1>5 DEF Recorded

LEMMA ModelKept ==
  ASSUME UNCHANGED model
  PROVE  /\ ModelOK' <=> ModelOK
         /\ NamesApart' <=> NamesApart
         /\ OwnersApart' <=> OwnersApart
         /\ DirectionsAgree' <=> DirectionsAgree
         /\ \A m : Kind(m)' = Kind(m)
         /\ \A m, c : Key(m, c)' = Key(m, c)
         /\ \A r, n, p : Named(r, n, p)' <=> Named(r, n, p)
<1>1. UNCHANGED <<name, decl, owner, home, subs, conns>>
  BY DEF model
<1>2. \A m : Kind(m)' = Kind(m)
  BY <1>1 DEF Kind
<1>3. \A k, s : Connectable(k, s)' = Connectable(k, s)
  BY <1>1 DEF Connectable
<1>4. ModelOK' <=> ModelOK
  BY <1>1, <1>2, <1>3 DEF ModelOK
<1> QED
  BY <1>1, <1>2, <1>4 DEF NamesApart, OwnersApart, DirectionsAgree, Key, Named

(* A broadcast names a field if it names it at either end. *)
NamesType(r, nm, p) ==
  \/ r[1].kind = "system" /\ r[1].port = p /\ idType["system"][r[1].owner] = nm
  \/ r[2].port = p /\ idType[r[1].kind][r[2].comp] = nm

LEMMA Met ==
  ASSUME NEW t, NEW p
  PROVE  Sends(t, p) \/ Receives(t, p) <=> \E r \in recv : NamesType(r, name[t], p)
  BY DEF Sends, Receives, IsSender, IsReceiver, NamesType

LEMMA CollectStep ==
  ASSUME IInv, Collect
  PROVE  IInv'
<1> DEFINE sources == {key \in {Key(mc[1], mc[2]) : mc \in Collected} : Repeated(key)}
           new == {<<Key(mc[1], mc[2]), mc[2].dst>> :
                     mc \in {mc \in Collected : Key(mc[1], mc[2]) \in sources}}
<1>1. /\ pc = "collect" /\ pc' = "convert"
      /\ UNCHANGED model
      /\ UNCHANGED <<name, decl, owner, home, subs, conns, pkg, field, wired>>
      /\ recv' = recv \cup new
      /\ send' = {key \in sources : key.kind = "system"}
  BY DEF Collect, model
<1>2. TypeOK /\ TypeOK' /\ ModelOK /\ ModelOK' /\ pkg \in Packages /\ Packages \subseteq Nat
  BY <1>1, ModelKept DEF IInv, TypeOK, Packages
<1>3. ASSUME NEW k \in Packages
      PROVE  Converted(k)' <=> k < pkg
  BY <1>1 DEF Converted
<1>4. ASSUME NEW r \in new
      PROVE  \E m \in Here : \E c \in conns[m] :
               /\ r = <<Key(m, c), c.dst>> /\ Key(m, c).kind = Kind(m)
               /\ c.src.comp # Self => Key(m, c) \in send'
  <2>1. PICK mc \in Collected : r = <<Key(mc[1], mc[2]), mc[2].dst>> /\ Key(mc[1], mc[2]) \in sources
    OBVIOUS
  <2>2. mc[1] \in Here /\ mc[2] \in conns[mc[1]] /\ Key(mc[1], mc[2]).kind = Kind(mc[1])
    BY DEF Collected, Connections
  <2> HIDE DEF sources
  <2> QED
    BY <1>1, <2>1, <2>2, KeyFacts
<1>9. SendSound'
  <2> SUFFICES ASSUME NEW key \in send'
               PROVE  \E r \in recv' : r[1] = key
    BY DEF SendSound
  <2>1. key \in sources
    BY <1>1
  <2>2. PICK mc \in Collected : key = Key(mc[1], mc[2])
    BY <2>1
  <2>3. <<Key(mc[1], mc[2]), mc[2].dst>> \in new
    BY <2>1, <2>2
  <2> HIDE DEF new, sources
  <2> DEFINE r == <<Key(mc[1], mc[2]), mc[2].dst>>
  <2>4. r[1] = key
    BY <2>2
  <2>5. r \in recv'
    BY <1>1, <2>3
  <2> HIDE DEF r
  <2> QED
    BY <2>4, <2>5
<1> HIDE DEF new, sources
<1>5. RecvSound'
  <2> SUFFICES ASSUME NEW r \in recv'
               PROVE  \E m \in Impls : \E c \in conns[m] : Remembered(r, m, c)'
    BY <1>1 DEF RecvSound
  <2>1. CASE r \in recv
    <3>1. PICK m \in Impls : \E c \in conns[m] : Remembered(r, m, c)
      BY <2>1 DEF IInv, RecvSound
    <3>2. PICK c \in conns[m] : Remembered(r, m, c)
      BY <3>1
    <3>3. home[m] < pkg /\ home[m] \in Packages /\ pkg \in Nat /\ home[m] \in Nat
      BY <1>1, <1>2, <3>2 DEF Remembered, ModelOK
    <3>4. ASSUME NamesApart
          PROVE  /\ idType'[Kind(m)][c.dst.comp] = name[subs[m][c.dst.comp]]
                 /\ c.src.comp # Self => idType'[Kind(m)][c.src.comp] = name[subs[m][c.src.comp]]
      BY <1>2, <3>2, <3>4, ConnFacts, CollectTypes DEF Remembered
    <3>5. Remembered(r, m, c)'
      BY <1>1, <1>3, <3>2, <3>3, <3>4, ModelKept DEF Remembered, Recorded, Converted, Half
    <3> QED
      BY <3>5
  <2>2. CASE r \in new
    <3>1. PICK m \in Here : \E c \in conns[m] :
            /\ r = <<Key(m, c), c.dst>> /\ Key(m, c).kind = Kind(m)
            /\ c.src.comp # Self => Key(m, c) \in send'
      BY <1>4, <2>2
    <3>2. PICK c \in conns[m] :
            /\ r = <<Key(m, c), c.dst>> /\ Key(m, c).kind = Kind(m)
            /\ c.src.comp # Self => Key(m, c) \in send'
      BY <3>1
    <3>3. m \in Impls /\ home[m] = pkg /\ home[m] \in Packages /\ pkg \in Nat
      BY <1>2 DEF Here
    <3>4. /\ Involved(Kind(m), c.dst.comp, recv')
          /\ c.src.comp # Self => Involved(Kind(m), c.src.comp, recv')
      BY <3>2, KeyFacts DEF Involved
    <3>5. ASSUME NamesApart
          PROVE  /\ idType'[Kind(m)][c.dst.comp] = name[subs[m][c.dst.comp]]
                 /\ c.src.comp # Self => idType'[Kind(m)][c.src.comp] = name[subs[m][c.src.comp]]
      BY <1>2, <3>3, <3>4, <3>5, ConnFacts, CollectTypes
    <3>6. ~Converted(home[m])'
      BY <1>3, <3>3, <1>1
    <3>7. Remembered(r, m, c)'
      BY <1>1, <3>2, <3>3, <3>5, <3>6, ModelKept DEF Remembered, Recorded, Converted
    <3> QED
      BY <3>3, <3>7
  <2> QED
    BY <1>1, <2>1, <2>2
<1>6. WiredSound'
  BY <1>1, ModelKept DEF IInv, WiredSound
<1>7. FieldSound'
  <2> SUFFICES ASSUME NamesApart, OwnersApart, NEW t \in Types, NEW p \in Ports, Converted(decl[t])'
               PROVE  /\ field[t][p] \in {"broadcast", "ordinary"}
                      /\ field[t][p] = "broadcast" => (Sends(t, p) \/ Receives(t, p))'
                      /\ \A w \in wired :
                           (/\ w.kind = "broadcast" /\ w.port = p
                            /\ subs[w.impl][w.comp] = t /\ home[w.impl] <= decl[t])
                             => field[t][p] = "broadcast"
    BY <1>1, ModelKept DEF FieldSound
  <2>1. Converted(decl[t])
    BY <1>1, <1>2, <1>3 DEF Converted, ModelOK
  <2>2. ASSUME NEW r \in recv
        PROVE  \A nm, q : NamesType(r, nm, q) => NamesType(r, nm, q)'
    <3>1. PICK m \in Impls : \E c \in conns[m] : Remembered(r, m, c)
      BY DEF IInv, RecvSound
    <3>2. PICK c \in conns[m] : Remembered(r, m, c)
      BY <3>1
    <3>3. /\ r[2] = c.dst /\ r[1].kind = Kind(m)
          /\ r[1].kind = "system" => c.src.comp # Self /\ r[1].owner = c.src.comp
      BY <3>2, KeyFacts DEF Remembered
    <3>4. /\ idType'[Kind(m)][c.dst.comp] = idType[Kind(m)][c.dst.comp]
          /\ c.src.comp # Self => idType'[Kind(m)][c.src.comp] = idType[Kind(m)][c.src.comp]
      BY <1>2, <3>2, ConnFacts, CollectTypes DEF Remembered, Recorded
    <3> QED
      BY <3>3, <3>4 DEF NamesType
  <2>3. Sends(t, p) \/ Receives(t, p) => (Sends(t, p) \/ Receives(t, p))'
    <3>1. SUFFICES ASSUME Sends(t, p) \/ Receives(t, p)
                   PROVE  (Sends(t, p) \/ Receives(t, p))'
      OBVIOUS
    <3>2. PICK r \in recv : NamesType(r, name[t], p)
      BY <3>1, Met
    <3>3. NamesType(r, name[t], p)' /\ r \in recv'
      BY <1>1, <2>2, <3>2
    <3> QED
      BY <1>1, <3>3 DEF Sends, Receives, IsSender, IsReceiver, NamesType
  <2> QED
    BY <2>1, <2>3 DEF IInv, FieldSound
<1>8. GeneratorSurvives'
  BY <1>1 DEF GeneratorSurvives
<1> QED
  BY <1>2, <1>5, <1>6, <1>7, <1>8, <1>9 DEF IInv

-----------------------------------------------------------------------------
(* A remembered broadcast that names the port of a subcomponent is found   *)
(* by the type of the subcomponent.                                        *)
LEMMA TypeMet ==
  ASSUME IInv, NamesApart, NEW m \in Impls, NEW n \in DOMAIN subs[m], NEW p,
         NEW r \in recv, Named(r, n, p)
  PROVE  Sends(subs[m][n], p) \/ Receives(subs[m][n], p)
<1>1. PICK o \in Impls : \E c \in conns[o] : Remembered(r, o, c)
  BY DEF IInv, RecvSound
<1>2. PICK c \in conns[o] : Remembered(r, o, c)
  BY <1>1
<1>3. CASE r[2] = Port(n, p)
  <2>1. c.dst.comp = n /\ r[2] = c.dst /\ r[2].port = p
    BY <1>2, <1>3 DEF Remembered, Port
  <2>2. n \in DOMAIN subs[o]
    BY <2>1, ConnFacts DEF IInv, TypeOK
  <2>3. m = o
    BY <2>2, OneOwner
  <2>4. idType[r[1].kind][r[2].comp] = name[subs[m][n]]
    BY <1>2, <2>1, <2>3 DEF Remembered, Recorded
  <2> QED
    BY <2>1, <2>4, Met DEF NamesType
<1>4. CASE r[1] = [kind |-> "system", owner |-> n, port |-> p]
  <2>1. r[1].kind = "system" /\ r[1].owner = n /\ r[1].port = p
    BY <1>4
  <2>2. c.src.comp = n /\ c.src.comp # Self /\ Kind(o) = "system"
    BY <1>2, <2>1, KeyFacts DEF Remembered
  <2>3. n \in DOMAIN subs[o]
    BY <2>2, ConnFacts DEF IInv, TypeOK
  <2>4. m = o
    BY <2>3, OneOwner
  <2>5. idType["system"][r[1].owner] = name[subs[m][n]]
    BY <1>2, <2>1, <2>2, <2>4 DEF Remembered, Recorded
  <2> QED
    BY <2>1, <2>5, Met DEF NamesType
<1> QED
  BY <1>3, <1>4 DEF Named

(* The other way round: a broadcast that names a port of a type belongs to *)
(* a subcomponent with a type of this name.                                *)
LEMMA MetPorts ==
  ASSUME IInv, NamesApart, DirectionsAgree, NEW t \in Types, NEW p
  PROVE  (Sends(t, p) => p \in Out[t]) /\ (Receives(t, p) => p \notin Out[t])
<1>1. ASSUME Sends(t, p)
      PROVE  p \in Out[t]
  <2>1. PICK r \in recv : IsSender(t, p, r)
    BY <1>1 DEF Sends
  <2>2. PICK m \in Impls : \E c \in conns[m] : Remembered(r, m, c)
    BY DEF IInv, RecvSound
  <2>3. PICK c \in conns[m] : Remembered(r, m, c)
    BY <2>2
  <2>4. c.src.comp = r[1].owner /\ c.src.port = p /\ c.src.comp # Self /\ Kind(m) = "system"
    BY <2>1, <2>3, KeyFacts DEF Remembered, IsSender
  <2>5. name[subs[m][c.src.comp]] = name[t]
    BY <2>1, <2>3, <2>4 DEF Remembered, Recorded, IsSender
  <2>6. /\ c.src.comp \in DOMAIN subs[m] /\ p \in Out[subs[m][c.src.comp]]
        /\ subs[m][c.src.comp] \in Types
    BY <2>4, ConnFacts, SubFacts DEF IInv, TypeOK
  <2> QED
    BY <2>5, <2>6 DEF DirectionsAgree
<1>2. ASSUME Receives(t, p)
      PROVE  p \notin Out[t]
  <2>1. PICK r \in recv : IsReceiver(t, p, r)
    BY <1>2 DEF Receives
  <2>2. PICK m \in Impls : \E c \in conns[m] : Remembered(r, m, c)
    BY DEF IInv, RecvSound
  <2>3. PICK c \in conns[m] : Remembered(r, m, c)
    BY <2>2
  <2>4. c.dst = r[2] /\ c.dst.port = p /\ r[1].kind = Kind(m)
    BY <2>1, <2>3 DEF Remembered, IsReceiver
  <2>5. name[subs[m][c.dst.comp]] = name[t]
    BY <2>1, <2>3, <2>4 DEF Remembered, Recorded, IsReceiver
  <2>6. /\ c.dst.comp \in DOMAIN subs[m] /\ p \notin Out[subs[m][c.dst.comp]]
        /\ subs[m][c.dst.comp] \in Types
    BY <2>4, ConnFacts, SubFacts DEF IInv, TypeOK
  <2> QED
    BY <2>5, <2>6 DEF DirectionsAgree
<1> QED
  BY <1>1, <1>2

LEMMA PanicStep ==
  ASSUME IInv, Panic
  PROVE  IInv'
<1>1. /\ pc = "convert" /\ pc' = "panicked"
      /\ UNCHANGED model
      /\ UNCHANGED <<name, decl, owner, home, subs, conns, pkg, send, recv, idType, field, wired>>
  BY DEF Panic, model
<1>2. ~(NamesApart /\ DirectionsAgree)
  <2>1. PICK t \in DeclaredHere : Contradicted(t)
    BY DEF Panic
  <2> QED
    BY <2>1, MetPorts DEF Contradicted, DeclaredHere
<1>3. TypeOK'
  BY <1>1, ModelKept DEF IInv, TypeOK
<1>4. \A r, m, c : Remembered(r, m, c) => Remembered(r, m, c)'
  BY <1>1, ModelKept DEF Remembered, Recorded, Converted, Half
<1>5. RecvSound' /\ SendSound' /\ WiredSound'
  BY <1>1, <1>4, ModelKept DEF IInv, RecvSound, SendSound, WiredSound
<1>6. \A t, p : (Sends(t, p) \/ Receives(t, p))' <=> (Sends(t, p) \/ Receives(t, p))
  BY <1>1 DEF Sends, Receives, IsSender, IsReceiver
<1>7. FieldSound' /\ GeneratorSurvives'
  BY <1>1, <1>2, <1>6, ModelKept DEF IInv, FieldSound, Converted, GeneratorSurvives
<1> QED
  BY <1>3, <1>5, <1>7 DEF IInv

-----------------------------------------------------------------------------
(* What new() of m assigns for its connection c: both ends of it, or all   *)
(* receivers of the broadcast, which are ends of other connections of m.   *)
LEMMA AssignedFacts ==
  ASSUME IInv, NEW m \in Impls, NEW c \in conns[m], NEW w \in Assigned(m, c)
  PROVE  /\ w.impl = m /\ w.comp # Self
         /\ w.kind = IF Broadcast(m, c) THEN "broadcast" ELSE "ordinary"
         /\ (NamesApart /\ OwnersApart) =>
              \E d \in conns[m] : Port(w.comp, w.port) \in {d.src, d.dst}
         /\ Broadcast(m, c) => \E r \in recv : Named(r, w.comp, w.port)
<1> DEFINE receivers == {r[2] : r \in {r \in recv : r[1] = Key(m, c)}}
           ends == IF Broadcast(m, c) THEN {c.src} \cup receivers ELSE {c.src, c.dst}
<1>1. PICK e \in ends : /\ e.comp # Self
                        /\ w = [impl |-> m, comp |-> e.comp, port |-> e.port,
                                kind |-> IF Broadcast(m, c) THEN "broadcast" ELSE "ordinary"]
  BY DEF Assigned
<1>2. /\ w.impl = m /\ w.comp = e.comp /\ w.port = e.port
      /\ w.kind = IF Broadcast(m, c) THEN "broadcast" ELSE "ordinary"
  BY <1>1
<1>3. ModelOK
  BY DEF IInv, TypeOK
<1>4. ASSUME e \in {c.src, c.dst}
      PROVE  Port(w.comp, w.port) \in {c.src, c.dst}
  BY <1>2, <1>3, <1>4, ConnFacts
<1>5. ASSUME Broadcast(m, c), e = c.src
      PROVE  \E r \in recv : Named(r, w.comp, w.port)
  <2>1. PICK r \in recv : r[1] = Key(m, c)
    BY <1>5 DEF Broadcast, IInv, SendSound
  <2>2. r[1] = [kind |-> "system", owner |-> w.comp, port |-> w.port]
    BY <1>1, <1>2, <1>5, <2>1 DEF Key
  <2> QED
    BY <2>2 DEF Named
<1>6. ASSUME Broadcast(m, c), e \in receivers
      PROVE  /\ \E r \in recv : Named(r, w.comp, w.port)
             /\ (NamesApart /\ OwnersApart) =>
                  \E d \in conns[m] : Port(w.comp, w.port) \in {d.src, d.dst}
  <2>1. PICK r \in recv : r[1] = Key(m, c) /\ r[2] = e
    BY <1>6
  <2>2. PICK o \in Impls : \E d \in conns[o] : Remembered(r, o, d)
    BY DEF IInv, RecvSound
  <2>3. PICK d \in conns[o] : Remembered(r, o, d)
    BY <2>2
  <2>4. Key(o, d) = Key(m, c) /\ d.dst = e
    BY <2>1, <2>3 DEF Remembered
  <2>5. Port(w.comp, w.port) = d.dst
    BY <1>2, <1>3, <2>4, ConnFacts
  <2>6. Named(r, w.comp, w.port)
    BY <2>1, <2>4, <2>5 DEF Named
  <2>7. (NamesApart /\ OwnersApart) => o = m
    BY <1>3, <2>4, KeyOwner
  <2> QED
    BY <2>5, <2>6, <2>7
<1> HIDE DEF receivers
<1> QED
  BY <1>1, <1>2, <1>4, <1>5, <1>6

(* A half that has been assigned belongs to a subcomponent. *)
LEMMA EndOwner ==
  ASSUME ModelOK, NEW m \in Impls, NEW c \in conns[m], NEW n, n # Self, NEW p,
         Port(n, p) \in {c.src, c.dst}
  PROVE  n \in DOMAIN subs[m]
<1>1. n \in {c.src.comp, c.dst.comp}
  BY DEF Port
<1> QED
  BY <1>1, ConnFacts

LEMMA ConvertStep ==
  ASSUME IInv, Convert
  PROVE  IInv'
<1> DEFINE new == UNION {Assigned(mc[1], mc[2]) : mc \in Connections}
<1>1. /\ pc = "convert"
      /\ UNCHANGED model
      /\ UNCHANGED <<name, decl, owner, home, subs, conns, send, recv, idType>>
      /\ \A t \in DeclaredHere : ~Contradicted(t)
      /\ field' = [t \in Types |-> IF t \in DeclaredHere
                                   THEN [p \in Ports |-> ChannelType(t, p)] ELSE field[t]]
      /\ wired' = wired \cup new
      /\ \/ pkg < NPackages /\ pc' = "collect" /\ pkg' = pkg + 1
         \/ ~(pkg < NPackages) /\ pc' = "done" /\ pkg' = pkg
  BY DEF Convert, model
<1>2. /\ ModelOK /\ ModelOK' /\ pkg \in Packages /\ pkg \in Nat /\ pkg' \in Nat
      /\ Packages \subseteq Nat
      /\ \A m \in Impls : home[m] \in Packages
      /\ \A t \in Types : decl[t] \in Packages
  BY <1>1, ModelKept DEF IInv, TypeOK, ModelOK, Packages
<1>3. TypeOK'
  BY <1>1, <1>2, NImplsAssumption DEF TypeOK, Packages
<1>4. \A k \in Packages : Converted(k)' <=> k <= pkg
  BY <1>1, <1>2, NImplsAssumption DEF Converted, Packages
<1>5. ASSUME NEW w \in new
      PROVE  \E m \in Here : \E c \in conns[m] : w \in Assigned(m, c)
  <2>1. PICK mc \in Connections : w \in Assigned(mc[1], mc[2])
    OBVIOUS
  <2>2. mc[1] \in Here /\ mc[2] \in conns[mc[1]]
    BY DEF Connections
  <2> QED
    BY <2>1, <2>2
<1>6. ASSUME NEW m \in Here, NEW c \in conns[m], NEW w \in Assigned(m, c)
      PROVE  w \in new
  <2>1. <<m, c>> \in Connections
    BY DEF Connections
  <2> QED
    BY <2>1
<1> HIDE DEF new
<1>7. RecvSound'
  <2> SUFFICES ASSUME NEW r \in recv
               PROVE  \E m \in Impls : \E c \in conns[m] : Remembered(r, m, c)'
    BY <1>1 DEF RecvSound
  <2>1. PICK m \in Impls : \E c \in conns[m] : Remembered(r, m, c)
    BY DEF IInv, RecvSound
  <2>2. PICK c \in conns[m] : Remembered(r, m, c)
    BY <2>1
  <2>3. home[m] \in Packages /\ home[m] \in Nat /\ home[m] <= pkg
    <3>1. home[m] < pkg \/ home[m] = pkg
      BY <2>2 DEF Remembered
    <3>2. home[m] \in Packages /\ home[m] \in Nat /\ pkg \in Nat
      BY <1>2, Zenon
    <3> QED
      BY <3>1, <3>2
  <2>4. CASE home[m] = pkg
    <3>1. Broadcast(m, c)
      BY <2>2, <2>4 DEF Broadcast, Remembered
    <3>2. m \in Here
      BY <2>4 DEF Here
    <3>3. r[1] = Key(m, c) /\ r[2] = c.dst
      BY <2>2 DEF Remembered
    <3>4. Half(m, c.dst, "broadcast") \in Assigned(m, c)
      BY <1>2, <3>1, <3>3, ConnFacts DEF Half, Assigned
    <3>5. c.src.comp # Self => Half(m, c.src, "broadcast") \in Assigned(m, c)
      BY <1>2, <3>1, ConnFacts DEF Half, Assigned
    <3>6. /\ Half(m, c.dst, "broadcast") \in wired'
          /\ c.src.comp # Self => Half(m, c.src, "broadcast") \in wired'
      BY <1>1, <1>6, <3>2, <3>4, <3>5
    <3>7. home[m] < pkg' \/ (home[m] = pkg' /\ pc' # "collect")
      BY <1>1, <1>2, <2>4
    <3>8. Remembered(r, m, c)'
      BY <1>1, <1>4, <2>2, <2>3, <2>4, <3>6, <3>7, ModelKept DEF Remembered, Recorded, Half
    <3> QED
      BY <3>8
  <2>5. CASE home[m] < pkg
    <3>1. Converted(home[m])
      BY <2>5 DEF Converted
    <3>2. home[m] < pkg' /\ home[m] # pkg'
      BY <1>1, <1>2, <2>3, <2>5
    <3>3. Remembered(r, m, c)'
      BY <1>1, <2>2, <3>1, <3>2, ModelKept DEF Remembered, Recorded, Half
    <3> QED
      BY <3>3
  <2> QED
    BY <1>2, <2>3, <2>4, <2>5
<1>8. SendSound'
  BY <1>1 DEF IInv, SendSound
<1>9. WiredSound'
  <2>1. ASSUME NEW w \in new
        PROVE  /\ w.impl \in Impls
               /\ w.kind \in {"broadcast", "ordinary"}
               /\ (NamesApart /\ OwnersApart) =>
                    \E c \in conns[w.impl] : Port(w.comp, w.port) \in {c.src, c.dst}
               /\ w.comp # Self
               /\ w.kind = "broadcast" => \E r \in recv : Named(r, w.comp, w.port)
    <3>1. PICK m \in Here : \E c \in conns[m] : w \in Assigned(m, c)
      BY <1>5
    <3>2. PICK c \in conns[m] : w \in Assigned(m, c)
      BY <3>1
    <3>3. m \in Impls
      BY DEF Here
    <3> QED
      BY <3>2, <3>3, AssignedFacts
  <2> QED
    BY <1>1, <2>1, ModelKept DEF IInv, WiredSound
<1>10. ASSUME NEW w \in new
       PROVE  home[w.impl] = pkg
  BY <1>2, <1>5, AssignedFacts DEF Here
<1>11. FieldSound'
  <2> SUFFICES ASSUME NamesApart, OwnersApart, NEW t \in Types, NEW p \in Ports, Converted(decl[t])'
               PROVE  /\ field'[t][p] \in {"broadcast", "ordinary"}
                      /\ field'[t][p] = "broadcast" => Sends(t, p) \/ Receives(t, p)
                      /\ \A w \in wired' :
                           (/\ w.kind = "broadcast" /\ w.port = p
                            /\ subs[w.impl][w.comp] = t /\ home[w.impl] <= decl[t])
                             => field'[t][p] = "broadcast"
    <3>1. \A t, p : (Sends(t, p) \/ Receives(t, p))' <=> (Sends(t, p) \/ Receives(t, p))
      BY <1>1 DEF Sends, Receives, IsSender, IsReceiver
    <3> QED
      BY <1>1, <3>1, ModelKept DEF FieldSound
  <2>1. decl[t] \in Nat /\ decl[t] <= pkg
    <3>1. decl[t] \in Packages /\ Converted(decl[t])'
      BY <1>2
    <3>2. decl'[t] = decl[t]
      BY <1>1
    <3> QED
      BY <1>2, <1>4, <3>1, <3>2
  (* Declared in this package: the field is made for what is remembered. *)
  <2>2. CASE decl[t] = pkg
    <3>1. field'[t][p] = ChannelType(t, p)
      BY <1>1, <2>2 DEF DeclaredHere
    <3>2. ASSUME NEW w \in wired', w.kind = "broadcast", w.port = p, subs[w.impl][w.comp] = t
          PROVE  Sends(t, p) \/ Receives(t, p)
      <4>1. w.impl \in Impls /\ \E r \in recv : Named(r, w.comp, p)
        BY <1>1, <1>9, <3>2, ModelKept DEF WiredSound
      <4>2. PICK r \in recv : Named(r, w.comp, p)
        BY <4>1
      <4>3. w.comp \in DOMAIN subs[w.impl]
        <5>1. PICK c \in conns[w.impl] : Port(w.comp, w.port) \in {c.src, c.dst}
          BY <1>1, <1>9, ModelKept DEF WiredSound
        <5> QED
          BY <1>2, <1>9, <4>1, <5>1, EndOwner DEF WiredSound
      <4> QED
        BY <3>2, <4>1, <4>2, <4>3, TypeMet
    <3> QED
      BY <3>1, <3>2 DEF ChannelType
  (* Declared earlier: what is assigned now comes too late to matter. *)
  <2>3. CASE decl[t] < pkg
    <3>1. field'[t] = field[t] /\ Converted(decl[t])
      BY <1>1, <1>2, <2>1, <2>3 DEF DeclaredHere, Converted
    <3>2. ASSUME NEW w \in wired', home[w.impl] <= decl[t]
          PROVE  w \in wired
      BY <1>1, <1>2, <1>10, <2>1, <2>3, <3>2
    <3> QED
      BY <3>1, <3>2 DEF IInv, FieldSound
  <2> QED
    BY <1>2, <2>1, <2>2, <2>3
<1>12. GeneratorSurvives'
  BY <1>1 DEF GeneratorSurvives
<1> QED
  BY <1>3, <1>7, <1>8, <1>9, <1>11, <1>12 DEF IInv

LEMMA NextIInv == IInv /\ [Next]_vars => IInv'
<1> SUFFICES ASSUME IInv, UNCHANGED vars
             PROVE  IInv'
  BY CollectStep, ConvertStep, PanicStep DEF Next
<1>1. UNCHANGED model /\ UNCHANGED <<name, decl, owner, home, subs, conns, pkg, pc, send, recv, idType, field, wired>>
  BY DEF vars, model
<1>2. TypeOK' /\ SendSound' /\ WiredSound' /\ GeneratorSurvives'
  BY <1>1, ModelKept DEF IInv, TypeOK, SendSound, WiredSound, GeneratorSurvives
<1>3. \A r, m, c : Remembered(r, m, c)' <=> Remembered(r, m, c)
  BY <1>1, ModelKept DEF Remembered, Recorded, Converted, Half
<1>4. RecvSound'
  BY <1>1, <1>3 DEF IInv, RecvSound
<1>5. \A t, p : (Sends(t, p) \/ Receives(t, p))' <=> (Sends(t, p) \/ Receives(t, p))
  BY <1>1 DEF Sends, Receives, IsSender, IsReceiver
<1>6. FieldSound'
  BY <1>1, <1>5, ModelKept DEF IInv, FieldSound, Converted
<1> QED
  BY <1>2, <1>4, <1>6 DEF IInv

(* Through all packages, the collectors remember only broadcasts of the    *)
(* packages so far, fields have the type decided by what was remembered at *)
(* the time, and new() assigns ends of its own connections: IInv.          *)
THEOREM InvariantHolds == Spec => []IInv
<1> QED
  BY InitIInv, NextIInv, PTL DEF Spec

-----------------------------------------------------------------------------
(* The assertions of convert_port_type hold where the names of             *)
(* subcomponents are apart and equally named types agree on directions,    *)
(* whatever has been remembered under their names.                         *)
THEOREM AssertionsHold == Spec => []GeneratorSurvives
<1>1. IInv => GeneratorSurvives
  BY DEF IInv
<1> QED
  BY <1>1, InvariantHolds, PTL

(* An implementation assigns nothing but ends of its own connections where *)
(* the names of subcomponents and processes are apart, whatever the ports  *)
(* of other systems and processes are called.                              *)
THEOREM OnlyOwnEnds == Spec => []OwnEndsOnly
<1>1. IInv => OwnEndsOnly
  BY DEF IInv, WiredSound, OwnEndsOnly
<1> QED
  BY <1>1, InvariantHolds, PTL

(* The generated new() functions type-check: every half of a channel is    *)
(* assigned to a field that was made for it.                               *)
THEOREM FieldsFit == Spec => []FieldsAgree
<1>1. ASSUME IInv, pc = "done", NamesApart, OwnersApart, TypesApart, UsersFirst, Uniform,
             NEW w \in wired
      PROVE  field[subs[w.impl][w.comp]][w.port] = w.kind
  <2> DEFINE t == subs[w.impl][w.comp]
             p == w.port
  <2>1. PICK c \in conns[w.impl] : Port(w.comp, p) \in {c.src, c.dst}
    BY <1>1 DEF IInv, WiredSound
  <2>2. ModelOK /\ w.impl \in Impls /\ w.comp # Self
    BY <1>1 DEF IInv, TypeOK, WiredSound
  <2>3. w.comp \in DOMAIN subs[w.impl] /\ t \in Types
    BY <2>1, <2>2, EndOwner, SubFacts
  <2>4. p \in Ports
    <3>1. Port(w.comp, p).comp = w.comp /\ Port(w.comp, p).port = p
      BY DEF Port
    <3> QED
      BY <2>1, <2>2, <3>1, ConnFacts
  <2>5. Converted(decl[t])
    BY <1>1 DEF Converted
  <2>6. /\ field[t][p] \in {"broadcast", "ordinary"}
        /\ field[t][p] = "broadcast" => Sends(t, p) \/ Receives(t, p)
        /\ w.kind = "broadcast" /\ home[w.impl] <= decl[t] => field[t][p] = "broadcast"
    BY <1>1, <2>3, <2>4, <2>5 DEF IInv, FieldSound
  <2>7. CASE w.kind = "broadcast"
    <3>1. decl[t] >= home[w.impl] /\ decl[t] \in Nat /\ home[w.impl] \in Nat
      BY <1>1, <2>2, <2>3 DEF UsersFirst, ModelOK, Packages
    <3>2. home[w.impl] <= decl[t]
      BY <3>1
    <3> QED
      BY <2>6, <2>7, <3>2
  (* A field that is named by some broadcast is a broadcast for all. *)
  <2>8. CASE w.kind = "ordinary"
    <3>1. SUFFICES ASSUME Sends(t, p) \/ Receives(t, p)
                   PROVE  FALSE
      BY <2>6, <2>8
    <3>2. PICK r \in recv : NamesType(r, name[t], p)
      BY <3>1, Met
    <3>3. PICK m \in Impls : \E d \in conns[m] : Remembered(r, m, d)
      BY <1>1 DEF IInv, RecvSound
    <3>4. PICK d \in conns[m] : Remembered(r, m, d)
      BY <3>3
    <3>5. /\ Half(m, d.dst, "broadcast") \in wired
          /\ d.src.comp # Self => Half(m, d.src, "broadcast") \in wired
          /\ Recorded(m, d.dst.comp) /\ (d.src.comp # Self => Recorded(m, d.src.comp))
          /\ r[1] = Key(m, d) /\ r[1].kind = Kind(m) /\ r[2] = d.dst
      BY <1>1, <3>4 DEF Remembered, Converted
    <3>6. PICK e \in {d.src, d.dst} : /\ Half(m, e, "broadcast") \in wired
                                      /\ e.comp \in DOMAIN subs[m] /\ e.port = p
                                      /\ name[subs[m][e.comp]] = name[t]
      <4>1. CASE r[1].kind = "system" /\ r[1].port = p /\ idType["system"][r[1].owner] = name[t]
        <5>1. d.src.comp # Self /\ d.src.comp = r[1].owner /\ d.src.port = p
          BY <3>5, <4>1, KeyFacts
        <5>2. d.src.comp \in DOMAIN subs[m]
          BY <2>2, <5>1, ConnFacts
        <5> QED
          BY <3>5, <4>1, <5>1, <5>2 DEF Recorded
      <4>2. CASE r[2].port = p /\ idType[r[1].kind][r[2].comp] = name[t]
        <5>1. d.dst.comp \in DOMAIN subs[m]
          BY <2>2, ConnFacts
        <5> QED
          BY <3>5, <4>2, <5>1 DEF Recorded
      <4> QED
        BY <3>2, <4>1, <4>2 DEF NamesType
    <3>7. subs[m][e.comp] = t
      BY <1>1, <2>2, <2>3, <3>6, SubFacts DEF TypesApart
    <3> DEFINE v == Half(m, e, "broadcast")
    <3>8. v.impl = m /\ v.comp = e.comp /\ v.port = e.port /\ v.kind = "broadcast" /\ v \in wired
      BY <3>6 DEF Half
    <3> HIDE DEF v
    <3> QED
      BY <1>1, <2>8, <3>6, <3>7, <3>8 DEF Uniform
  <2> QED
    BY <1>1, <2>7, <2>8 DEF IInv, WiredSound
<1>2. IInv => FieldsAgree
  BY <1>1 DEF FieldsAgree
<1> QED
  BY <1>2, InvariantHolds, PTL
=============================================================================
