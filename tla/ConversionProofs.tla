--------------------------- MODULE ConversionProofs ---------------------------
(***************************************************************************)
(* Proofs about the conversion of ThreadScheduling and DataTypes, for any  *)
(* models: cores are told apart by the processors of the model, priorities *)
(* follow the rates, threads run as declared, data types keep their        *)
(* meaning, and complete models are accepted.                              *)
(***************************************************************************)
EXTENDS DataTypes, FiniteSetTheorems, SequenceTheorems, WellFoundedInduction, TLAPS

(* Declarations that have been dealt with. *)
Dealt(k, x) ==
  /\ k \in Packages /\ x \in DOMAIN model[k].decls
  /\ k < pkg \/ (k = pkg /\ x <= pos)

DeclAt(k, x) == model[k].decls[x]

TypeOK ==
  /\ WellFormed(model)
  /\ pkg \in 1 .. Len(model) + 1
  /\ pos \in Nat
  /\ IF pkg \in Packages THEN pos <= Len(model[pkg].decls) ELSE pos = 0
  /\ bound \in Nat
  /\ bound # 0 => Current("system") /\ bound <= Len(Decl.binds)
  /\ DOMAIN threads = Packages
  /\ DOMAIN pinned = Packages
  /\ DOMAIN tables = Packages

(* Numbers of processors are apart, and the next one is new. *)
IdsSound ==
  /\ IsFiniteSet(DOMAIN ids)
  /\ \A c \in DOMAIN ids : ids[c] \in Nat /\ ids[c] < Cardinality(DOMAIN ids)
  /\ \A c, d \in DOMAIN ids : ids[c] = ids[d] => c = d

(* The processors of bindings have numbers, and processes theirs. *)
HasNumbers(k, d) ==
  /\ DOMAIN pinned[k] = DOMAIN d.procs
  /\ \A p \in DOMAIN d.procs :
       IF BindingOf(d, p) = 0 THEN pinned[k][p] = -1
       ELSE /\ d.binds[BindingOf(d, p)].cpu \in DOMAIN ids
            /\ pinned[k][p] = ids[d.binds[BindingOf(d, p)].cpu]
  /\ d.binds # <<>> => DOMAIN ids # {}

PinnedSound ==
  /\ Current("system") => \A i \in 1 .. bound : Decl.binds[i].cpu \in DOMAIN ids
  /\ \A k \in Packages : \A x \in DOMAIN model[k].decls :
       Dealt(k, x) /\ DeclAt(k, x).k = "system" => HasNumbers(k, DeclAt(k, x))

Stored(protocol) == IF protocol = "none" THEN "FIFO" ELSE protocol

(* What is remembered of a processor type is one of its protocols. *)
ProtocolsSound ==
  /\ \A n \in DOMAIN protocols : \E e \in Cpus(n) : protocols[n] = Stored(e[2])
  /\ \A k \in Packages : \A x \in DOMAIN model[k].decls :
       Dealt(k, x) /\ DeclAt(k, x).k = "cpu" => DeclAt(k, x).n \in DOMAIN protocols

(* What is known of a thread is what some type or implementation says. *)
ValuesSound ==
  \A n \in DOMAIN values : \E k \in Packages : \E x \in DOMAIN model[k].decls :
    Dealt(k, x) /\ DeclAt(k, x).k \in {"type", "impl"} /\ DeclAt(k, x).n = n

(* A thread for each implementation, which has its properties. *)
ThreadsSound ==
  \A k \in Packages :
    /\ \A t \in threads[k] :
         /\ Dealt(k, t.at)
         /\ LET d == DeclAt(k, t.at)
            IN  /\ d.k = "impl" /\ t.n = d.n /\ t.own = Raw(d.props)
                /\ \A q \in DOMAIN t.own : q \in DOMAIN t.fields /\ t.fields[q] = t.own[q]
    /\ \A t, u \in threads[k] : t.at = u.at => t = u
    /\ \A x \in DOMAIN model[k].decls :
         Dealt(k, x) /\ DeclAt(k, x).k = "impl" => \E t \in threads[k] : t.at = x

(* The last table has everything. *)
TablesSound ==
  (pkg \notin Packages /\ Len(model) # 0) => tables[Len(model)].policies = Policies

(* The generated program is one of a model that compiles. *)
RunningSound ==
  IF status = "accepted"
  THEN /\ pkg \notin Packages /\ SchedulingCompiles
       /\ \E k \in Packages : \E d \in Systems(k) : running = Started(k, d)
  ELSE running = {}

RateMonotonic(k) ==
  \E d \in Decls(k) : d.k = "cpu" /\ \A c \in Cpus(d.n) : c[2] \in {"RM", "DM"}

Bound(k) == \E d \in Decls(k) : d.k = "system" /\ d.binds # <<>>

(* Complete models: every package has what its threads need, and new() of  *)
(* a thread sets the fields of its type and implementation.                *)
TablesFit ==
  \A k \in Packages : k < pkg =>
    /\ TableCompiles(k)
    /\ (\E j \in 1 .. k : Bound(j)) => DOMAIN tables[k].policies # {}
    /\ (\E j \in 1 .. k : RateMonotonic(j)) => tables[k].rates

FieldsSet == \A k \in Packages : \A t \in threads[k] : DOMAIN t.fields = StructFields(k, t.n)

FieldsKnown ==
  \A k \in Packages : \A x \in DOMAIN model[k].decls :
    /\ Dealt(k, x) /\ DeclAt(k, x).k = "type"
    /\ \A y \in DOMAIN model[k].decls :
         Dealt(k, y) /\ DeclAt(k, y).k = "impl" => DeclAt(k, y).n # DeclAt(k, x).n
    => DOMAIN Known(DeclAt(k, x).n) = DeclAt(k, x).ports \cup DOMAIN DeclAt(k, x).props

CompleteSound == Complete => TablesFit /\ FieldsSet /\ FieldsKnown

IInv ==
  /\ TypeOK
  /\ IdsSound
  /\ PinnedSound
  /\ ProtocolsSound
  /\ ValuesSound
  /\ ThreadsSound
  /\ TablesSound
  /\ RunningSound
  /\ CompleteSound

-----------------------------------------------------------------------------
(* The steps of ConverterSpec, as far as scheduling is concerned: those of *)
(* data types only move on, or end the conversion.                         *)
Other ==
  /\ Passed
  /\ \E kind \in {"data", "dataimpl", "subprogram", "port", "process", "other"} : Current(kind)

Stopped ==
  /\ Current("data") /\ status' = "panicked"
  /\ UNCHANGED <<model, pkg, pos, bound, protocols, ids, values, threads, pinned, tables, running>>

Built == \E c \in BOOLEAN : (c => SchedulingCompiles) /\ BuildIf(c)

Step ==
  \/ ConvertCpu \/ ConvertType \/ ConvertImpl \/ AssignId \/ ConvertSystem \/ EndPackage
  \/ Other \/ Stopped \/ Built \/ UNCHANGED vars

LEMMA StepKinds == [ConverterNext]_<<vars, dvars>> => Step
<1> SUFFICES ASSUME [ConverterNext]_<<vars, dvars>>
             PROVE  Step
  OBVIOUS
<1>1. CASE PanicOnBase
  BY <1>1 DEF PanicOnBase, Step, Stopped
<1>2. CASE ConvertComposite \/ ConvertAlias \/ ConvertDataImpl \/ ConvertSubprogram
             \/ ConvertPort \/ ConvertProcess
  <2>1. Other
    BY <1>2 DEF ConvertComposite, ConvertAlias, ConvertDataImpl, ConvertSubprogram, ConvertPort,
                ConvertProcess, Other
  <2> QED
    BY <2>1 DEF Step
<1>3. CASE BuildAll
  <2> DEFINE c == SchedulingCompiles /\ DataCompile
  <2>1. c \in BOOLEAN /\ (c => SchedulingCompiles)
    OBVIOUS
  <2>2. BuildIf(c)
    BY <1>3 DEF BuildAll
  <2> HIDE DEF c
  <2>3. Built
    BY <2>1, <2>2 DEF Built
  <2> QED
    BY <2>3 DEF Step
<1>4. CASE (ConvertCpu \/ ConvertType \/ ConvertImpl \/ AssignId \/ ConvertSystem \/ EndPackage
              \/ Done) /\ UNCHANGED dvars
  BY <1>4 DEF Step, Done
<1>5. CASE UNCHANGED <<vars, dvars>>
  BY <1>5 DEF Step
<1> QED
  BY <1>1, <1>2, <1>3, <1>4, <1>5 DEF ConverterNext

(* Every set of natural numbers has a least one. *)
LEMMA Least ==
  ASSUME NEW S \in SUBSET Nat, S # {}
  PROVE  \E m \in S : \A k \in S : m <= k
<1> DEFINE R == OpToRel(<, Nat)
<1>1. IsWellFoundedOn(R, Nat)
  BY NatLessThanWellFounded, Zenon
<1>2. R = {ss \in Nat \X Nat : ss[1] < ss[2]}
  BY DEF OpToRel
<1> HIDE DEF R
<1>3. PICK m \in S : \A k \in S : <<k, m>> \notin R
  BY <1>1, WFMin
<1>4. \A k \in S : ~(k < m)
  BY <1>2, <1>3
<1> QED
  BY <1>4

LEMMA NotEmpty ==
  ASSUME NEW s, IsSequence(s), s # <<>>
  PROVE  DOMAIN s # {}
<1> DEFINE S == {s[i] : i \in 1 .. Len(s)}
<1>1. s \in Seq(S) /\ Len(s) \in Nat
  BY SeqDef DEF IsSequence
<1>2. Len(s) \in Nat \ {0}
  BY <1>1, EmptySeq
<1> QED
  BY <1>2 DEF IsSequence

(* The binding that counts is one of the process. *)
LEMMA BindingFacts ==
  ASSUME NEW d, IsSequence(d.binds), NEW p, BindingOf(d, p) # 0
  PROVE  BindingOf(d, p) \in DOMAIN d.binds /\ d.binds[BindingOf(d, p)].to = p
<1> DEFINE B == {i \in DOMAIN d.binds : d.binds[i].to = p}
<1>1. B # {} /\ BindingOf(d, p) = CHOOSE i \in B : \A j \in B : i <= j
  BY DEF BindingOf
<1>2. B \in SUBSET Nat
  BY DEF IsSequence
<1>3. \E i \in B : \A j \in B : i <= j
  BY <1>1, <1>2, Least
<1>4. BindingOf(d, p) \in B
  BY <1>1, <1>3
<1> QED
  BY <1>4

-----------------------------------------------------------------------------
(* The declaration under way. *)
LEMMA CurrentFacts ==
  ASSUME TypeOK, NEW kind, Current(kind)
  PROVE  /\ pkg \in Packages /\ pkg \in Nat /\ pos \in Nat /\ pos + 1 \in DOMAIN model[pkg].decls
         /\ Decl = DeclAt(pkg, pos + 1) /\ Decl.k = kind
         /\ ~Dealt(pkg, pos + 1)
         /\ Decl \in Decls(pkg)
         /\ pos + 1 <= Len(model[pkg].decls)
<1>1. /\ pkg \in Packages /\ pos < Len(model[pkg].decls) /\ Decl.k = kind
      /\ pkg \in DOMAIN model /\ Len(model) \in Nat /\ pos \in Nat
  BY DEF Current, Decl, TypeOK, WellFormed, IsSequence, Packages
<1>2. IsSequence(model[pkg].decls)
  BY <1>1 DEF TypeOK, WellFormed
<1>3. pkg \in Nat /\ pos + 1 \in DOMAIN model[pkg].decls /\ ~(pos + 1 <= pos) /\ ~(pkg < pkg)
      /\ pos + 1 <= Len(model[pkg].decls)
  BY <1>1, <1>2 DEF IsSequence, Packages
<1> QED
  BY <1>1, <1>3 DEF Decl, DeclAt, Dealt, Decls

(* A declaration that has been dealt with is one of a package so far. *)
LEMMA DealtFacts ==
  ASSUME TypeOK, NEW k \in Packages, NEW x \in DOMAIN model[k].decls
  PROVE  /\ k \in Nat /\ x \in Nat \ {0} /\ k \in DOMAIN model
         /\ DeclAt(k, x) \in Decls(k) /\ IsSequence(model[k].decls)
         /\ DeclAt(k, x).k = "system" => IsSequence(DeclAt(k, x).binds)
<1>1. k \in Nat /\ k \in DOMAIN model
  BY DEF Packages, TypeOK, WellFormed, IsSequence
<1>2. IsSequence(model[k].decls)
  BY <1>1 DEF TypeOK, WellFormed
<1>3. x \in Nat \ {0}
  BY <1>2 DEF IsSequence
<1>4. DeclAt(k, x).k = "system" => IsSequence(DeclAt(k, x).binds)
  BY <1>1 DEF TypeOK, WellFormed, DeclAt
<1> QED
  BY <1>1, <1>2, <1>3, <1>4 DEF DeclAt, Decls

(* One more declaration is dealt with. *)
LEMMA Advance ==
  ASSUME TypeOK, NEW kind, Current(kind), pos' = pos + 1, UNCHANGED <<model, pkg>>
  PROVE  \A k, x : Dealt(k, x)' <=> Dealt(k, x) \/ (k = pkg /\ x = pos + 1)
<1>1. /\ pkg \in Packages /\ pos \in Nat /\ pos + 1 \in DOMAIN model[pkg].decls
  BY CurrentFacts
<1>2. Packages' = Packages
  BY DEF Packages
<1>3. ASSUME NEW k, NEW x
      PROVE  Dealt(k, x)' <=> Dealt(k, x) \/ (k = pkg /\ x = pos + 1)
  <2>1. CASE k = pkg /\ x \in DOMAIN model[k].decls
    <3>1. x \in Nat
      BY <1>1, <2>1, DealtFacts
    <3> QED
      BY <1>1, <1>2, <2>1, <3>1 DEF Dealt
  <2>2. CASE ~(k = pkg /\ x \in DOMAIN model[k].decls)
    BY <1>1, <1>2, <2>2 DEF Dealt
  <2> QED
    BY <2>1, <2>2
<1> QED
  BY <1>3

(* At the end of a package all its declarations have been dealt with. *)
LEMMA EndFacts ==
  ASSUME TypeOK, EndPackage
  PROVE  /\ pkg \in Packages /\ pkg \in Nat /\ pkg' = pkg + 1
         /\ \A k, x : Dealt(k, x)' <=> Dealt(k, x)
         /\ \A k \in Packages : \A x \in DOMAIN model[k].decls : k <= pkg => Dealt(k, x)
         /\ \A kind : ~Current(kind)
<1>1. /\ pkg \in Packages /\ pos = Len(model[pkg].decls) /\ pkg' = pkg + 1 /\ pos' = 0
      /\ model' = model /\ Packages' = Packages /\ pkg \in Nat
  BY DEF EndPackage, Packages, TypeOK
<1>2. ASSUME NEW k \in Packages, NEW x \in DOMAIN model[k].decls
      PROVE  /\ k <= pkg => Dealt(k, x)
             /\ Dealt(k, x)' => Dealt(k, x)
             /\ Dealt(k, x) => Dealt(k, x)'
  <2>1. k \in Nat /\ x \in Nat \ {0} /\ IsSequence(model[k].decls)
    BY DealtFacts
  <2>2. k = pkg => x <= pos
    BY <1>1, <2>1 DEF IsSequence
  <2> QED
    BY <1>1, <2>1, <2>2 DEF Dealt
<1>3. \A kind : ~Current(kind)
  <2>1. IsSequence(model[pkg].decls)
    BY <1>1 DEF TypeOK, WellFormed, IsSequence, Packages
  <2> QED
    BY <1>1, <2>1 DEF Current, IsSequence
<1> QED
  BY <1>1, <1>2, <1>3 DEF Dealt

-----------------------------------------------------------------------------
LEMMA InitIInv == ConverterInit => IInv
<1> SUFFICES ASSUME ConverterInit
             PROVE  IInv
  OBVIOUS
<1> USE DEF ConverterInit, Init
<1>1. WellFormed(model)
  BY ModelsAssumption
<1>2. Len(model) \in Nat /\ DOMAIN model = Packages
  BY <1>1 DEF WellFormed, IsSequence, Packages
<1>3. pkg \in Packages => Len(model[pkg].decls) \in Nat
  BY <1>1, <1>2 DEF WellFormed, IsSequence
<1>4. TypeOK
  BY <1>1, <1>2, <1>3 DEF TypeOK, Packages
<1>5. \A k, x : ~Dealt(k, x)
  <2>1. ASSUME NEW k, NEW x, Dealt(k, x)
        PROVE  FALSE
    <3>1. k \in Packages /\ x \in DOMAIN model[k].decls /\ k <= 1
      BY <2>1 DEF Dealt, Packages
    <3>2. x \in Nat \ {0} /\ k \in Nat \ {0}
      BY <1>4, <3>1, DealtFacts DEF Packages
    <3> QED
      BY <2>1, <3>1, <3>2 DEF Dealt
  <2> QED
    BY <2>1
<1>6. DOMAIN protocols = {} /\ DOMAIN ids = {} /\ DOMAIN values = {} /\ bound = 0
  OBVIOUS
<1>7. IdsSound
  BY <1>6, FS_EmptySet DEF IdsSound
<1>8. PinnedSound /\ ProtocolsSound /\ ValuesSound
  BY <1>5, <1>6 DEF PinnedSound, ProtocolsSound, ValuesSound
<1>9. ThreadsSound
  BY <1>5 DEF ThreadsSound
<1>10. TablesSound
  BY <1>2 DEF TablesSound, Packages
<1>11. RunningSound
  BY DEF RunningSound
<1>12. CompleteSound
  BY <1>2, <1>5 DEF CompleteSound, TablesFit, FieldsSet, FieldsKnown, Packages
<1> QED
  BY <1>4, <1>7, <1>8, <1>9, <1>10, <1>11, <1>12 DEF IInv

LEMMA TypeStep ==
  ASSUME TypeOK, Step
  PROVE  TypeOK' /\ UNCHANGED model /\ UNCHANGED Packages
<1>1. UNCHANGED model
  BY DEF Step, ConvertCpu, ConvertType, ConvertImpl, Generate, AssignId, ConvertSystem, EndPackage,
         Other, Passed, Stopped, Built, BuildIf, vars
<1>2. UNCHANGED Packages
  BY <1>1 DEF Packages
<1>3. Len(model) \in Nat /\ \A k \in Packages : Len(model[k].decls) \in Nat
  BY DEF TypeOK, WellFormed, IsSequence, Packages
<1>4. DOMAIN threads' = Packages /\ DOMAIN pinned' = Packages /\ DOMAIN tables' = Packages
  BY DEF TypeOK, Step, ConvertCpu, ConvertType, ConvertImpl, Generate, AssignId, ConvertSystem,
         EndPackage, Other, Passed, Stopped, Built, BuildIf, vars
<1>5. CASE \E kind : Current(kind) /\ pos' = pos + 1 /\ UNCHANGED pkg /\ bound' = 0
  <2>1. pkg \in Packages /\ pos + 1 <= Len(model[pkg].decls) /\ pos + 1 \in Nat
    BY <1>5, CurrentFacts
  <2> QED
    BY <1>1, <1>2, <1>4, <1>5, <2>1 DEF TypeOK
<1>6. ASSUME NEW kind, Current(kind), kind # "system"
      PROVE  bound = 0
  BY <1>6 DEF Current, TypeOK
<1>7. CASE ConvertCpu \/ ConvertType \/ ConvertImpl
  BY <1>5, <1>6, <1>7 DEF ConvertCpu, ConvertType, ConvertImpl, Generate
<1>8. CASE Other
  BY <1>5, <1>6, <1>8 DEF Other, Passed
<1>9. CASE ConvertSystem
  BY <1>5, <1>9 DEF ConvertSystem
<1>10. CASE AssignId
  <2>1. /\ Current("system") /\ bound < Len(Decl.binds) /\ bound' = bound + 1
        /\ UNCHANGED <<status, pkg, pos>>
    BY <1>10 DEF AssignId
  <2>2. IsSequence(Decl.binds)
    BY <2>1, CurrentFacts, DealtFacts
  <2>3. bound' <= Len(Decl.binds) /\ bound' \in Nat
    BY <2>1, <2>2 DEF TypeOK, IsSequence
  <2>4. Current("system")' /\ Decl' = Decl
    BY <1>1, <1>2, <2>1 DEF Current, Decl
  <2> QED
    BY <1>1, <1>2, <1>4, <2>1, <2>3, <2>4 DEF TypeOK
<1>11. CASE EndPackage
  <2>1. pkg \in Packages /\ pkg' = pkg + 1 /\ pos' = 0 /\ bound' = bound
    BY <1>11 DEF EndPackage
  <2>2. bound = 0
    BY <1>11, EndFacts DEF TypeOK
  <2>3. pkg' \in 1 .. Len(model) + 1
    BY <1>3, <2>1 DEF Packages
  <2> QED
    BY <1>1, <1>2, <1>3, <1>4, <2>1, <2>2, <2>3 DEF TypeOK
<1>12. CASE Stopped
  <2>1. bound = 0 /\ UNCHANGED <<pkg, pos, bound>>
    BY <1>6, <1>12 DEF Stopped
  <2> QED
    BY <1>1, <1>2, <1>4, <2>1 DEF TypeOK
<1>13. CASE Built
  <2>1. bound = 0 /\ UNCHANGED <<pkg, pos, bound>>
    BY <1>13 DEF Built, BuildIf, TypeOK, Current
  <2> QED
    BY <1>1, <1>2, <1>4, <2>1 DEF TypeOK
<1>14. CASE UNCHANGED vars
  BY <1>14 DEF vars, TypeOK, Packages, Current, Decl
<1> QED
  BY <1>1, <1>2, <1>7, <1>8, <1>9, <1>10, <1>11, <1>12, <1>13, <1>14 DEF Step

-----------------------------------------------------------------------------
(* Numbers never change, and the next one is new. *)
LEMMA IdsStep ==
  ASSUME IInv, Step
  PROVE  /\ IdsSound'
         /\ DOMAIN ids \subseteq DOMAIN ids'
         /\ \A c \in DOMAIN ids : ids'[c] = ids[c]
<1>1. CASE UNCHANGED ids
  BY <1>1 DEF IInv, IdsSound
<1>2. CASE AssignId /\ ~UNCHANGED ids
  <2> DEFINE c == Decl.binds[bound + 1].cpu
             n == Cardinality(DOMAIN ids)
  <2>1. c \notin DOMAIN ids /\ ids' = Put(ids, c, n)
    BY <1>2 DEF AssignId, NextId
  <2> HIDE DEF c
  <2>2. /\ DOMAIN ids' = DOMAIN ids \cup {c}
        /\ ids'[c] = n
        /\ \A d \in DOMAIN ids : ids'[d] = ids[d]
    BY <2>1 DEF Put
  <2>3. n \in Nat /\ IsFiniteSet(DOMAIN ids') /\ Cardinality(DOMAIN ids') = n + 1
    BY <2>1, <2>2, FS_AddElement, FS_CardinalityType DEF IInv, IdsSound
  <2>4. \A d \in DOMAIN ids : ids[d] \in Nat /\ ids[d] < n
    BY DEF IInv, IdsSound
  <2> HIDE DEF n
  <2>5. \A d \in DOMAIN ids' : ids'[d] \in Nat /\ ids'[d] < Cardinality(DOMAIN ids')
    BY <2>2, <2>3, <2>4
  <2>6. \A d, e \in DOMAIN ids' : ids'[d] = ids'[e] => d = e
    BY <2>2, <2>3, <2>4 DEF IInv, IdsSound
  <2> QED
    BY <2>2, <2>3, <2>5, <2>6 DEF IdsSound
<1> QED
  BY <1>1, <1>2
     DEF Step, ConvertCpu, ConvertType, ConvertImpl, Generate, AssignId, ConvertSystem, EndPackage,
         Other, Passed, Stopped, Built, BuildIf, vars

(* A declaration is dealt with by the step for its kind. *)
LEMMA DealtStep ==
  ASSUME TypeOK, Step, NEW k, NEW x
  PROVE  /\ Dealt(k, x) => Dealt(k, x)'
         /\ Dealt(k, x)' /\ ~Dealt(k, x) =>
              /\ k = pkg /\ x = pos + 1
              /\ DeclAt(k, x) = Decl
              /\ Decl.k = "cpu" => ConvertCpu
              /\ Decl.k = "type" => ConvertType
              /\ Decl.k = "impl" => ConvertImpl
              /\ Decl.k = "system" => ConvertSystem
<1>1. UNCHANGED model
  BY TypeStep
<1>2. ASSUME NEW kind, Current(kind), pos' = pos + 1, UNCHANGED pkg
      PROVE  /\ Dealt(k, x)' <=> Dealt(k, x) \/ (k = pkg /\ x = pos + 1)
             /\ DeclAt(pkg, pos + 1) = Decl /\ Decl.k = kind
  BY <1>1, <1>2, Advance, CurrentFacts
<1>3. CASE ConvertCpu
  BY <1>2, <1>3 DEF ConvertCpu
<1>4. CASE ConvertType
  BY <1>2, <1>4 DEF ConvertType
<1>5. CASE ConvertImpl
  BY <1>2, <1>5 DEF ConvertImpl, Generate
<1>6. CASE ConvertSystem
  BY <1>2, <1>6 DEF ConvertSystem
<1>7. CASE Other
  BY <1>2, <1>7 DEF Other, Passed
<1>8. CASE EndPackage
  BY <1>8, EndFacts
<1>9. CASE UNCHANGED <<pkg, pos>>
  BY <1>1, <1>9 DEF Dealt, Packages
<1> QED
  BY <1>3, <1>4, <1>5, <1>6, <1>7, <1>8, <1>9 DEF Step, AssignId, Stopped, Built, BuildIf, vars

(* The bindings of a system that is dealt with have numbers. *)
LEMMA PinnedStep ==
  ASSUME IInv, Step
  PROVE  PinnedSound'
<1>1. /\ UNCHANGED model /\ UNCHANGED Packages /\ TypeOK
      /\ DOMAIN ids \subseteq DOMAIN ids' /\ \A c \in DOMAIN ids : ids'[c] = ids[c]
  BY TypeStep, IdsStep DEF IInv
<1>2. ASSUME Current("system")'
      PROVE  \A i \in 1 .. bound' : (Decl.binds[i].cpu)' \in DOMAIN ids'
  <2>1. CASE AssignId
    <3>1. UNCHANGED <<pkg, pos>> /\ Decl' = Decl /\ bound' = bound + 1 /\ bound \in Nat
          /\ Current("system")
      BY <1>1, <2>1 DEF AssignId, Decl, TypeOK
    <3>2. Decl.binds[bound + 1].cpu \in DOMAIN ids'
      BY <2>1 DEF AssignId, Put
    <3>3. ASSUME NEW i \in 1 .. bound'
          PROVE  Decl.binds[i].cpu \in DOMAIN ids'
      <4>1. CASE i = bound + 1
        BY <3>2, <4>1
      <4>2. CASE i \in 1 .. bound
        BY <1>1, <3>1, <4>2 DEF IInv, PinnedSound
      <4> QED
        BY <3>1, <4>1, <4>2
    <3> QED
      BY <1>1, <3>1, <3>3 DEF Decl
  <2>2. CASE ~AssignId
    <3>1. bound' = 0 \/ UNCHANGED vars
      <4>1. \A kind : Current(kind) /\ kind # "system" => bound = 0
        BY <1>1 DEF Current, TypeOK
      <4>2. EndPackage \/ Built => bound = 0
        BY <1>1, EndFacts DEF TypeOK, Built, BuildIf, Current
      <4> QED
        BY <2>2, <4>1, <4>2
           DEF Step, ConvertCpu, ConvertType, ConvertImpl, Generate, ConvertSystem, EndPackage,
               Other, Passed, Stopped, Built, BuildIf
    <3>2. CASE bound' = 0
      BY <3>2
    <3>3. CASE UNCHANGED vars
      BY <1>2, <3>3 DEF vars, IInv, PinnedSound, Current, Decl, Packages
    <3> QED
      BY <3>1, <3>2, <3>3
  <2> QED
    BY <2>1, <2>2
<1>3. ASSUME NEW k \in Packages, NEW x \in DOMAIN model[k].decls,
             Dealt(k, x)', DeclAt(k, x).k = "system"
      PROVE  HasNumbers(k, DeclAt(k, x))'
  <2> DEFINE d == DeclAt(k, x)
  <2>0. \A p : BindingOf(d, p)' = BindingOf(d, p) /\ d' = d
    BY <1>1 DEF BindingOf, DeclAt
  <2> SUFFICES /\ DOMAIN pinned'[k] = DOMAIN d.procs
               /\ \A p \in DOMAIN d.procs :
                    IF BindingOf(d, p) = 0 THEN pinned'[k][p] = -1
                    ELSE /\ d.binds[BindingOf(d, p)].cpu \in DOMAIN ids'
                         /\ pinned'[k][p] = ids'[d.binds[BindingOf(d, p)].cpu]
               /\ d.binds # <<>> => DOMAIN ids' # {}
    BY <2>0 DEF HasNumbers
  <2>1. CASE Dealt(k, x)
    (* A package has one system: its processes have their numbers. *)
    <3>1. pinned'[k] = pinned[k]
      <4>1. CASE ConvertSystem
        <5>1. Decl.k = "system" /\ Decl = DeclAt(pkg, pos + 1) /\ ~Dealt(pkg, pos + 1)
              /\ pos + 1 \in DOMAIN model[pkg].decls /\ pkg \in Packages
          BY <1>1, <4>1, CurrentFacts DEF ConvertSystem
        <5>2. k # pkg
          BY <1>1, <1>3, <2>1, <5>1, DealtFacts DEF TypeOK, WellFormed, DeclAt
        <5> QED
          BY <1>1, <4>1, <5>2 DEF ConvertSystem, TypeOK
      <4>2. CASE ~ConvertSystem
        <5>1. pinned' = pinned
          BY <4>2 DEF Step, ConvertCpu, ConvertType, ConvertImpl, Generate, AssignId, EndPackage,
                      Other, Passed, Stopped, Built, BuildIf, vars
        <5> QED
          BY <5>1
      <4> QED
        BY <4>1, <4>2
    <3>2. HasNumbers(k, d)
      BY <1>3, <2>1 DEF IInv, PinnedSound
    <3> HIDE DEF d
    <3> QED
      BY <1>1, <3>1, <3>2 DEF HasNumbers
  <2>2. CASE ~Dealt(k, x)
    <3>1. ConvertSystem /\ k = pkg /\ d = Decl
      BY <1>1, <1>3, <2>2, DealtStep
    <3>2. /\ bound = Len(d.binds) /\ ids' = ids
          /\ pinned'[k] = [p \in DOMAIN d.procs |->
                             IF BindingOf(d, p) = 0 THEN -1 ELSE ids[d.binds[BindingOf(d, p)].cpu]]
      BY <1>1, <3>1 DEF ConvertSystem, TypeOK
    <3>3. IsSequence(d.binds)
      BY <1>1, <1>3, DealtFacts
    <3>4. \A i \in DOMAIN d.binds : d.binds[i].cpu \in DOMAIN ids
      BY <3>1, <3>2, <3>3 DEF IInv, PinnedSound, ConvertSystem, IsSequence
    <3>5. \A p : BindingOf(d, p) # 0 => d.binds[BindingOf(d, p)].cpu \in DOMAIN ids
      BY <3>3, <3>4, BindingFacts
    <3>6. d.binds # <<>> => DOMAIN ids # {}
      <4>1. d.binds # <<>> => DOMAIN d.binds # {}
        BY <3>3, NotEmpty
      <4> QED
        BY <3>4, <4>1
    <3> HIDE DEF d
    <3> QED
      BY <3>2, <3>5, <3>6
  <2> QED
    BY <2>1, <2>2
<1> QED
  BY <1>1, <1>2, <1>3 DEF PinnedSound, DeclAt

(* The protocol remembered is that of the last processor of the name. *)
LEMMA ProtocolsStep ==
  ASSUME IInv, Step
  PROVE  ProtocolsSound'
<1>1. UNCHANGED model /\ UNCHANGED Packages /\ TypeOK
  BY TypeStep DEF IInv
<1>2. \A n : Cpus(n)' = Cpus(n)
  BY <1>1 DEF Cpus, Decls
<1>3. ConvertCpu => /\ DOMAIN protocols' = DOMAIN protocols \cup {Decl.n}
                    /\ protocols'[Decl.n] = Stored(Decl.protocol)
                    /\ \A n \in DOMAIN protocols : n # Decl.n => protocols'[n] = protocols[n]
  BY DEF ConvertCpu, Put, Stored
<1>4. ~ConvertCpu => UNCHANGED protocols
  BY DEF Step, ConvertType, ConvertImpl, Generate, AssignId, ConvertSystem, EndPackage,
         Other, Passed, Stopped, Built, BuildIf, vars
<1>5. ASSUME NEW n \in DOMAIN protocols'
      PROVE  \E e \in Cpus(n) : protocols'[n] = Stored(e[2])
  <2>1. CASE ConvertCpu /\ n = Decl.n
    <3>1. pkg \in Packages /\ Decl \in Decls(pkg) /\ Decl.k = "cpu"
      BY <1>1, <2>1, CurrentFacts DEF ConvertCpu
    <3>2. <<pkg, Decl.protocol>> \in Cpus(Decl.n)
      BY <3>1 DEF Cpus
    <3> QED
      BY <1>3, <2>1, <3>2
  <2>2. CASE ~(ConvertCpu /\ n = Decl.n)
    <3>1. n \in DOMAIN protocols /\ protocols'[n] = protocols[n]
      BY <1>3, <1>4, <1>5, <2>2
    <3> QED
      BY <3>1 DEF IInv, ProtocolsSound
  <2> QED
    BY <2>1, <2>2
<1>6. ASSUME NEW k \in Packages, NEW x \in DOMAIN model[k].decls,
             Dealt(k, x)', DeclAt(k, x).k = "cpu"
      PROVE  DeclAt(k, x).n \in DOMAIN protocols'
  <2>1. CASE Dealt(k, x)
    BY <1>3, <1>4, <1>6, <2>1 DEF IInv, ProtocolsSound
  <2>2. CASE ~Dealt(k, x)
    BY <1>1, <1>3, <1>6, <2>2, DealtStep
  <2> QED
    BY <2>1, <2>2
<1> QED
  BY <1>1, <1>2, <1>5, <1>6 DEF ProtocolsSound, DeclAt

(* An implementation becomes one thread. *)
LEMMA ThreadsStep ==
  ASSUME IInv, Step
  PROVE  ThreadsSound'
<1>1. UNCHANGED model /\ UNCHANGED Packages /\ TypeOK
  BY TypeStep DEF IInv
<1> DEFINE new == [n |-> Decl.n, at |-> pos + 1, own |-> Raw(Decl.props),
                   fields |-> Over(Known(Decl.n), Raw(Decl.props))]
<1>2. ASSUME ConvertImpl
      PROVE  /\ pkg \in Packages /\ Decl = DeclAt(pkg, pos + 1) /\ Decl.k = "impl"
             /\ ~Dealt(pkg, pos + 1)
             /\ \A k, x : k = pkg /\ x = pos + 1 => Dealt(k, x)'
             /\ threads'[pkg] = threads[pkg] \cup {new}
             /\ \A k \in Packages : k # pkg => threads'[k] = threads[k]
  <2>1. Current("impl") /\ pos' = pos + 1 /\ UNCHANGED pkg
        /\ threads' = [threads EXCEPT ![pkg] = @ \cup {new}]
    BY <1>2 DEF ConvertImpl, Generate
  <2>2. /\ pkg \in Packages /\ Decl = DeclAt(pkg, pos + 1) /\ Decl.k = "impl"
        /\ ~Dealt(pkg, pos + 1)
    BY <1>1, <2>1, CurrentFacts
  <2>3. \A k, x : k = pkg /\ x = pos + 1 => Dealt(k, x)'
    BY <1>1, <2>1, Advance
  <2> QED
    BY <1>1, <2>1, <2>2, <2>3 DEF TypeOK
<1>3. ~ConvertImpl => UNCHANGED threads
  BY DEF Step, ConvertCpu, ConvertType, AssignId, ConvertSystem, EndPackage,
         Other, Passed, Stopped, Built, BuildIf, vars
<1>4. \A q \in DOMAIN new.own : q \in DOMAIN new.fields /\ new.fields[q] = new.own[q]
  BY DEF Over, Raw
<1>5. new.at = pos + 1 /\ new.n = Decl.n /\ new.own = Raw(Decl.props)
  OBVIOUS
<1> HIDE DEF new
<1>6. ASSUME NEW k \in Packages
      PROVE  /\ threads[k] \subseteq threads'[k]
             /\ \A t \in threads'[k] : t \in threads[k] \/ (ConvertImpl /\ k = pkg /\ t = new)
  BY <1>2, <1>3
<1>7. ASSUME NEW k \in Packages, NEW t \in threads'[k]
      PROVE  /\ Dealt(k, t.at)'
             /\ DeclAt(k, t.at).k = "impl" /\ t.n = DeclAt(k, t.at).n
             /\ t.own = Raw(DeclAt(k, t.at).props)
             /\ \A q \in DOMAIN t.own : q \in DOMAIN t.fields /\ t.fields[q] = t.own[q]
  <2>1. CASE t \in threads[k]
    BY <1>1, <2>1, DealtStep DEF IInv, ThreadsSound
  <2>2. CASE ConvertImpl /\ k = pkg /\ t = new
    BY <1>2, <1>4, <1>5, <2>2
  <2> QED
    BY <1>6, <1>7, <2>1, <2>2
<1>8. ASSUME NEW k \in Packages, NEW t \in threads'[k], NEW u \in threads'[k], t.at = u.at
      PROVE  t = u
  <2>1. ASSUME NEW v \in threads[k], ConvertImpl, k = pkg
        PROVE  v.at # new.at
    BY <1>2, <1>5, <2>1 DEF IInv, ThreadsSound
  <2> QED
    BY <1>6, <1>8, <2>1 DEF IInv, ThreadsSound
<1>9. ASSUME NEW k \in Packages, NEW x \in DOMAIN model[k].decls,
             Dealt(k, x)', DeclAt(k, x).k = "impl"
      PROVE  \E t \in threads'[k] : t.at = x
  <2>1. CASE Dealt(k, x)
    BY <1>6, <1>9, <2>1 DEF IInv, ThreadsSound
  <2>2. CASE ~Dealt(k, x)
    BY <1>1, <1>2, <1>5, <1>9, <2>2, DealtStep
  <2> QED
    BY <2>1, <2>2
<1> QED
  BY <1>1, <1>7, <1>8, <1>9 DEF ThreadsSound, DeclAt

(* Once all packages are converted, nothing is any more. *)
LEMMA AtEnd ==
  ASSUME TypeOK, Step, pkg \notin Packages
  PROVE  Built \/ UNCHANGED vars
BY DEF Step, ConvertCpu, ConvertType, ConvertImpl, Generate, AssignId, ConvertSystem, EndPackage,
       Other, Stopped, Current

LEMMA TablesStep ==
  ASSUME IInv, Step
  PROVE  TablesSound'
<1>1. UNCHANGED model /\ UNCHANGED Packages /\ TypeOK
  BY TypeStep DEF IInv
<1>2. CASE pkg \notin Packages
  <2>1. UNCHANGED <<pkg, protocols, ids, tables>>
    BY <1>1, <1>2, AtEnd DEF Built, BuildIf, vars
  <2>2. Policies' = Policies
    BY <2>1 DEF Policies
  <2> QED
    BY <1>1, <2>1, <2>2, <1>2 DEF IInv, TablesSound
<1>3. CASE pkg \in Packages /\ EndPackage
  <2>1. tables'[pkg].policies = Policies /\ UNCHANGED <<ids, protocols>> /\ pkg' = pkg + 1
    BY <1>1, <1>3 DEF EndPackage, TypeOK
  <2>2. Policies' = Policies
    BY <2>1 DEF Policies
  <2>3. pkg + 1 \notin Packages => pkg = Len(model)
    BY <1>1, <1>3 DEF Packages, TypeOK, WellFormed, IsSequence
  <2> QED
    BY <1>1, <2>1, <2>2, <2>3 DEF TablesSound
<1>4. CASE pkg \in Packages /\ ~EndPackage
  <2>1. pkg' = pkg
    BY <1>4 DEF Step, ConvertCpu, ConvertType, ConvertImpl, Generate, AssignId, ConvertSystem,
                Other, Passed, Stopped, Built, BuildIf, vars
  <2> QED
    BY <1>1, <1>4, <2>1 DEF TablesSound
<1> QED
  BY <1>2, <1>3, <1>4

(* Fields are kept for declarations that are dealt with. *)
LEMMA ValuesStep ==
  ASSUME IInv, Step
  PROVE  ValuesSound'
<1>1. UNCHANGED model /\ UNCHANGED Packages /\ TypeOK
  BY TypeStep DEF IInv
<1>2. CASE ConvertType \/ ConvertImpl
  <2>1. PICK kind \in {"type", "impl"} : Current(kind) /\ pos' = pos + 1 /\ UNCHANGED pkg
    BY <1>2 DEF ConvertType, ConvertImpl, Generate
  <2>2. /\ pkg \in Packages /\ pos + 1 \in DOMAIN model[pkg].decls
        /\ Decl = DeclAt(pkg, pos + 1) /\ Decl.k = kind
    BY <1>1, <2>1, CurrentFacts
  <2>3. \A k, x : k = pkg /\ x = pos + 1 => Dealt(k, x)'
    BY <1>1, <2>1, Advance
  <2>4. \A n \in DOMAIN values' : n \in DOMAIN values \/ n = Decl.n
    BY <1>2 DEF ConvertType, ConvertImpl, Generate, Put
  <2>5. ASSUME NEW n \in DOMAIN values'
        PROVE  \E k \in Packages : \E x \in DOMAIN model[k].decls :
                 Dealt(k, x)' /\ DeclAt(k, x).k \in {"type", "impl"} /\ DeclAt(k, x).n = n
    <3>1. CASE n \in DOMAIN values
      <4>1. PICK k \in Packages : \E x \in DOMAIN model[k].decls :
              Dealt(k, x) /\ DeclAt(k, x).k \in {"type", "impl"} /\ DeclAt(k, x).n = n
        BY <3>1 DEF IInv, ValuesSound
      <4>2. PICK x \in DOMAIN model[k].decls :
              Dealt(k, x) /\ DeclAt(k, x).k \in {"type", "impl"} /\ DeclAt(k, x).n = n
        BY <4>1
      <4> QED
        BY <1>1, <4>2, DealtStep
    <3>2. CASE n = Decl.n
      BY <2>1, <2>2, <2>3, <3>2
    <3> QED
      BY <2>4, <2>5, <3>1, <3>2
  <2> QED
    BY <1>1, <2>5 DEF ValuesSound, DeclAt
<1>3. CASE ~(ConvertType \/ ConvertImpl)
  <2>1. UNCHANGED values
    BY <1>3 DEF Step, ConvertCpu, AssignId, ConvertSystem, EndPackage, Other, Passed, Stopped,
                Built, BuildIf, vars
  <2>2. ASSUME NEW n \in DOMAIN values
        PROVE  \E k \in Packages : \E x \in DOMAIN model[k].decls :
                 Dealt(k, x)' /\ DeclAt(k, x).k \in {"type", "impl"} /\ DeclAt(k, x).n = n
    <3>1. PICK k \in Packages : \E x \in DOMAIN model[k].decls :
            Dealt(k, x) /\ DeclAt(k, x).k \in {"type", "impl"} /\ DeclAt(k, x).n = n
      BY <2>2 DEF IInv, ValuesSound
    <3>2. PICK x \in DOMAIN model[k].decls :
            Dealt(k, x) /\ DeclAt(k, x).k \in {"type", "impl"} /\ DeclAt(k, x).n = n
      BY <3>1
    <3> QED
      BY <1>1, <3>2, DealtStep
  <2> QED
    BY <1>1, <2>1, <2>2 DEF ValuesSound, DeclAt
<1> QED
  BY <1>2, <1>3

(* What the generated program depends on. *)
LEMMA SameProgram ==
  ASSUME UNCHANGED <<model, threads, pinned, tables>>
  PROVE  /\ SchedulingCompiles' <=> SchedulingCompiles
         /\ \A k, d : Started(k, d)' = Started(k, d)
         /\ \A k : Systems(k)' = Systems(k)
<1>1. Packages' = Packages /\ \A k : Decls(k)' = Decls(k)
  BY DEF Packages, Decls
<1>2. HasPolicies' = HasPolicies /\ HasRates' = HasRates
  BY <1>1 DEF HasPolicies, HasRates
<1>3. \A k, S : InScope(k, S)' = InScope(k, S)
  BY DEF InScope
<1>4. \A k, n : StructFields(k, n)' = StructFields(k, n)
  BY <1>1 DEF StructFields
<1>5. \A k : TableCompiles(k)' <=> TableCompiles(k)
  BY DEF TableCompiles
<1>6. \A k : InScope(k, HasPolicies)' = InScope(k, HasPolicies)
             /\ InScope(k, HasRates)' = InScope(k, HasRates)
  BY <1>2 DEF InScope
<1>7. \A k, t : Compiles(k, t)' <=> Compiles(k, t)
  BY <1>1, <1>4, <1>6 DEF Compiles
<1>8. \A sys, p, k, t : Run(sys, p, k, t)' = Run(sys, p, k, t)
  <2>1. ASSUME NEW sys, NEW p, NEW k, NEW t
        PROVE  Run(sys, p, k, t)' = Run(sys, p, k, t)
    <3> DEFINE named(S, T, q) == {j \in S : q[sys][p] \in DOMAIN T[j].policies}
               run(S, T, q) ==
                 [sys |-> sys, proc |-> p, pkg |-> k, n |-> t.n, core |-> q[sys][p],
                  priority |-> IF Asked(t) \in 1 .. 99 THEN Asked(t) ELSE 0,
                  policy |-> IF Asked(t) \notin 1 .. 99 THEN "SCHED_OTHER"
                             ELSE IF named(S, T, q) = {} THEN "SCHED_FIFO"
                             ELSE T[CHOOSE j \in named(S, T, q) : TRUE].policies[q[sys][p]],
                  period |-> IF "period" \in DOMAIN t.own THEN t.own["period"] ELSE 1000]
    <3>1. Run(sys, p, k, t) = run(InScope(k, HasPolicies), tables, pinned)
      BY DEF Run
    <3>2. Run(sys, p, k, t)' = run(InScope(k, HasPolicies)', tables', pinned')
      BY DEF Run
    <3> HIDE DEF run
    <3> QED
      BY <1>6, <3>1, <3>2
  <2> QED
    BY <2>1
<1>9. \A k, d : Started(k, d)' = Started(k, d)
  BY <1>8 DEF Started
<1>10. \A k : Systems(k)' = Systems(k)
  BY <1>1 DEF Systems
<1> QED
  BY <1>1, <1>5, <1>7, <1>9, <1>10 DEF SchedulingCompiles

(* The program is built from what rustc accepts, and stays. *)
LEMMA RunningStep ==
  ASSUME IInv, Step
  PROVE  RunningSound'
<1>1. UNCHANGED model /\ UNCHANGED Packages /\ TypeOK
  BY TypeStep DEF IInv
<1>2. CASE Built
  <2>1. /\ status = "converting" /\ pkg \notin Packages
        /\ UNCHANGED <<pkg, threads, pinned, tables>>
    BY <1>2 DEF Built, BuildIf
  <2>2. /\ SchedulingCompiles' <=> SchedulingCompiles
        /\ \A k, d : Started(k, d)' = Started(k, d)
        /\ \A k : Systems(k)' = Systems(k)
    BY <1>1, <2>1, SameProgram
  <2>3. \/ /\ status' = "accepted" /\ SchedulingCompiles
           /\ \E k \in Packages : \E d \in Systems(k) : running' = Started(k, d)
        \/ status' = "refused" /\ running' = running
    BY <1>2 DEF Built, BuildIf
  <2>4. running = {}
    BY <2>1 DEF IInv, RunningSound
  <2> QED
    BY <1>1, <2>1, <2>2, <2>3, <2>4 DEF RunningSound
<1>3. CASE UNCHANGED vars
  <2>1. UNCHANGED <<status, pkg, threads, pinned, tables, running>>
    BY <1>3 DEF vars
  <2>2. /\ SchedulingCompiles' <=> SchedulingCompiles
        /\ \A k, d : Started(k, d)' = Started(k, d)
        /\ \A k : Systems(k)' = Systems(k)
    BY <1>1, <2>1, SameProgram
  <2> QED
    BY <1>1, <2>1, <2>2 DEF IInv, RunningSound
<1>4. CASE ~Built /\ ~UNCHANGED vars
  <2>1. pkg \in Packages
    BY <1>1, <1>4, AtEnd
  <2>2. /\ running' = running /\ status # "accepted"
        /\ status' # "accepted"
    BY <1>4, <2>1
       DEF Step, ConvertCpu, ConvertType, ConvertImpl, Generate, AssignId, ConvertSystem, EndPackage,
           Other, Passed, Stopped, Current
  <2> QED
    BY <2>2 DEF IInv, RunningSound
<1> QED
  BY <1>2, <1>3, <1>4

-----------------------------------------------------------------------------
(* Complete models, which are the same from step to step. *)
LEMMA CompleteFacts ==
  ASSUME TypeOK, Complete
  PROVE  /\ \A k \in Packages : \A d \in Decls(k) : d.k = "cpu" => d.protocol \notin {"RR", "EDF"}
         /\ \A j, k \in Packages : \A x \in DOMAIN model[j].decls, y \in DOMAIN model[k].decls :
              /\ DeclAt(j, x).k \in {"type", "impl"} /\ DeclAt(j, x).k = DeclAt(k, y).k
              /\ DeclAt(j, x).n = DeclAt(k, y).n
              => j = k /\ x = y
         /\ \A k \in Packages : \A y \in DOMAIN model[k].decls : DeclAt(k, y).k = "impl" =>
              /\ \E x \in DOMAIN model[k].decls :
                   x < y /\ DeclAt(k, x).k = "type" /\ DeclAt(k, x).n = DeclAt(k, y).n
              /\ DOMAIN DeclAt(k, y).props # {} => \E j \in 1 .. k : Bound(j)
              /\ DOMAIN DeclAt(k, y).props = {"period"} => \E j \in 1 .. k : RateMonotonic(j)
<1>1. \A k \in Packages : \A d \in Decls(k) : d.k = "cpu" => d.protocol \notin {"RR", "EDF"}
  BY DEF Complete
<1>2. ASSUME NEW j \in Packages, NEW k \in Packages,
             NEW x \in DOMAIN model[j].decls, NEW y \in DOMAIN model[k].decls,
             DeclAt(j, x).k \in {"type", "impl"}, DeclAt(j, x).k = DeclAt(k, y).k,
             DeclAt(j, x).n = DeclAt(k, y).n
      PROVE  j = k /\ x = y
  BY <1>2 DEF Complete, DeclAt
<1>3. ASSUME NEW k \in Packages, NEW y \in DOMAIN model[k].decls, DeclAt(k, y).k = "impl"
      PROVE  /\ \E x \in 1 .. y : DeclAt(k, x).k = "type" /\ DeclAt(k, x).n = DeclAt(k, y).n
             /\ DOMAIN DeclAt(k, y).props # {} => \E j \in 1 .. k : Bound(j)
             /\ DOMAIN DeclAt(k, y).props = {"period"} => \E j \in 1 .. k : RateMonotonic(j)
  BY <1>3 DEF Complete, DeclAt, Bound, RateMonotonic
<1>4. ASSUME NEW k \in Packages, NEW y \in DOMAIN model[k].decls, DeclAt(k, y).k = "impl"
      PROVE  \E x \in DOMAIN model[k].decls :
               x < y /\ DeclAt(k, x).k = "type" /\ DeclAt(k, x).n = DeclAt(k, y).n
  <2>1. PICK x \in 1 .. y : DeclAt(k, x).k = "type" /\ DeclAt(k, x).n = DeclAt(k, y).n
    BY <1>3, <1>4
  <2>2. IsSequence(model[k].decls) /\ y \in Nat
    BY <1>4, DealtFacts
  <2>3. x \in DOMAIN model[k].decls /\ x # y
    BY <1>4, <2>1, <2>2 DEF IsSequence
  <2> QED
    BY <2>1, <2>2, <2>3
<1> QED
  BY <1>1, <1>2, <1>3, <1>4

LEMMA SameModel ==
  ASSUME UNCHANGED model
  PROVE  /\ Complete' <=> Complete
         /\ \A k : (Bound(k)' <=> Bound(k)) /\ (RateMonotonic(k)' <=> RateMonotonic(k))
         /\ \A k, n : StructFields(k, n)' = StructFields(k, n)
<1>1. Packages' = Packages /\ \A k : Decls(k)' = Decls(k)
  BY DEF Packages, Decls
<1>2. \A n : Cpus(n)' = Cpus(n)
  BY <1>1 DEF Cpus
<1>3. Complete' <=> Complete
  BY <1>1, <1>2 DEF Complete
<1>4. \A k : (Bound(k)' <=> Bound(k)) /\ (RateMonotonic(k)' <=> RateMonotonic(k))
  BY <1>1, <1>2 DEF Bound, RateMonotonic
<1>5. \A k, n : StructFields(k, n)' = StructFields(k, n)
  BY <1>1 DEF StructFields
<1> QED
  BY <1>3, <1>4, <1>5

(* The tables of a package have what the packages up to it have.           *)
LEMMA TablesFitStep ==
  ASSUME IInv, Step, Complete
  PROVE  TablesFit'
<1>1. /\ UNCHANGED model /\ UNCHANGED Packages /\ TypeOK
      /\ \A k : (Bound(k)' <=> Bound(k)) /\ (RateMonotonic(k)' <=> RateMonotonic(k))
  BY TypeStep, SameModel DEF IInv
<1>2. TablesFit
  BY DEF IInv, CompleteSound
<1>3. CASE EndPackage
  <2>1. /\ pkg \in Packages /\ pkg \in Nat /\ pkg' = pkg + 1
        /\ \A k \in Packages : \A x \in DOMAIN model[k].decls : k <= pkg => Dealt(k, x)
    BY <1>1, <1>3, EndFacts
  <2>2. /\ tables'[pkg].policies = Policies
        /\ tables'[pkg].rates <=> \E c \in DOMAIN protocols : protocols[c] \in {"RM", "DM"}
        /\ \A k \in Packages : k # pkg => tables'[k] = tables[k]
    BY <1>1, <1>3 DEF EndPackage, TypeOK
  <2>3. \A i \in DOMAIN Policies : Policies[i] = "SCHED_FIFO"
    <3>1. ASSUME NEW c \in DOMAIN protocols
          PROVE  protocols[c] \notin {"RR", "EDF"}
      <4>1. PICK e \in Cpus(c) : protocols[c] = Stored(e[2])
        BY DEF IInv, ProtocolsSound
      <4>2. e[2] \notin {"RR", "EDF"}
        BY <1>1, CompleteFacts DEF Cpus
      <4> QED
        BY <4>1, <4>2 DEF Stored
    <3> QED
      BY <3>1 DEF Policies, Policy
  <2>4. ASSUME NEW j \in 1 .. pkg, Bound(j)
        PROVE  DOMAIN Policies # {}
    <3>1. j \in Packages
      BY <1>1, <2>1 DEF Packages, TypeOK, WellFormed, IsSequence
    <3>2. PICK x \in DOMAIN model[j].decls : DeclAt(j, x).k = "system" /\ DeclAt(j, x).binds # <<>>
      BY <2>4 DEF Bound, Decls, DeclAt
    <3>3. HasNumbers(j, DeclAt(j, x))
      BY <2>1, <3>1, <3>2 DEF IInv, PinnedSound
    <3>4. PICK c : c \in DOMAIN ids
      BY <3>2, <3>3 DEF HasNumbers
    <3> QED
      BY <3>4 DEF Policies
  <2>5. ASSUME NEW j \in 1 .. pkg, RateMonotonic(j)
        PROVE  \E c \in DOMAIN protocols : protocols[c] \in {"RM", "DM"}
    <3>1. j \in Packages
      BY <1>1, <2>1 DEF Packages, TypeOK, WellFormed, IsSequence
    <3>2. PICK x \in DOMAIN model[j].decls :
            DeclAt(j, x).k = "cpu" /\ \A c \in Cpus(DeclAt(j, x).n) : c[2] \in {"RM", "DM"}
      BY <2>5 DEF RateMonotonic, Decls, DeclAt
    <3>3. DeclAt(j, x).n \in DOMAIN protocols
      BY <2>1, <3>1, <3>2 DEF IInv, ProtocolsSound
    <3>4. PICK e \in Cpus(DeclAt(j, x).n) : protocols[DeclAt(j, x).n] = Stored(e[2])
      BY <3>3 DEF IInv, ProtocolsSound
    <3> QED
      BY <3>2, <3>3, <3>4 DEF Stored
  <2>6. ASSUME NEW k \in Packages, k < pkg'
        PROVE  /\ \A i \in DOMAIN tables'[k].policies : tables'[k].policies[i] = "SCHED_FIFO"
               /\ (\E j \in 1 .. k : Bound(j)) => DOMAIN tables'[k].policies # {}
               /\ (\E j \in 1 .. k : RateMonotonic(j)) => tables'[k].rates
    <3>1. CASE k = pkg
      BY <2>2, <2>3, <2>4, <2>5, <3>1
    <3>2. CASE k # pkg
      <4>1. k < pkg
        BY <2>1, <2>6, <3>2 DEF Packages
      <4> QED
        BY <1>2, <2>2, <3>2, <4>1 DEF TablesFit, TableCompiles
    <3> QED
      BY <3>1, <3>2
  <2> QED
    BY <1>1, <2>6 DEF TablesFit, TableCompiles
<1>4. CASE ~EndPackage
  <2>1. UNCHANGED <<pkg, tables>>
    BY <1>4 DEF Step, ConvertCpu, ConvertType, ConvertImpl, Generate, AssignId, ConvertSystem,
                Other, Passed, Stopped, Built, BuildIf, vars
  <2> QED
    BY <1>1, <1>2, <2>1 DEF TablesFit, TableCompiles
<1> QED
  BY <1>3, <1>4

(* In a complete model, an implementation is converted when its type, the  *)
(* only one of the name, has been and no other implementation has.         *)
LEMMA FieldsSetStep ==
  ASSUME IInv, Step, Complete
  PROVE  FieldsSet'
<1>1. /\ UNCHANGED model /\ UNCHANGED Packages /\ TypeOK
      /\ \A k, n : StructFields(k, n)' = StructFields(k, n)
  BY TypeStep, SameModel DEF IInv
<1>2. FieldsSet /\ FieldsKnown
  BY DEF IInv, CompleteSound
<1>3. CASE ConvertImpl
  <2> DEFINE n == Decl.n
  <2>1. /\ pkg \in Packages /\ pkg \in Nat /\ pos \in Nat /\ pos + 1 \in DOMAIN model[pkg].decls
        /\ Decl = DeclAt(pkg, pos + 1) /\ Decl.k = "impl" /\ ~Dealt(pkg, pos + 1)
        /\ Decl \in Decls(pkg)
    BY <1>1, <1>3, CurrentFacts DEF ConvertImpl, Generate
  <2>2. Decl.ports = {}
    BY <1>1, <2>1 DEF TypeOK, WellFormed, DeclAt, Packages, IsSequence
  <2>3. PICK x \in DOMAIN model[pkg].decls :
          x < pos + 1 /\ DeclAt(pkg, x).k = "type" /\ DeclAt(pkg, x).n = n
    BY <1>1, <2>1, CompleteFacts
  <2>4. Dealt(pkg, x)
    <3>1. x \in Nat /\ x <= pos
      BY <1>1, <2>1, <2>3, DealtFacts
    <3> QED
      BY <2>1, <3>1 DEF Dealt
  <2>5. \A y \in DOMAIN model[pkg].decls :
          Dealt(pkg, y) /\ DeclAt(pkg, y).k = "impl" => DeclAt(pkg, y).n # n
    <3>1. \A y \in DOMAIN model[pkg].decls :
            DeclAt(pkg, y).k = "impl" /\ DeclAt(pkg, y).n = n => y = pos + 1
      BY <1>1, <2>1, CompleteFacts
    <3> QED
      BY <2>1, <3>1
  <2>6. DOMAIN Known(n) = DeclAt(pkg, x).ports \cup DOMAIN DeclAt(pkg, x).props
    BY <1>2, <2>1, <2>3, <2>4, <2>5 DEF FieldsKnown
  <2>7. \A e \in Decls(pkg) :
          e.k \in {"type", "impl"} /\ e.n = n => e = DeclAt(pkg, x) \/ e = Decl
    <3>1. ASSUME NEW z \in DOMAIN model[pkg].decls,
                 DeclAt(pkg, z).k \in {"type", "impl"}, DeclAt(pkg, z).n = n
          PROVE  DeclAt(pkg, z) = DeclAt(pkg, x) \/ DeclAt(pkg, z) = Decl
      <4>1. CASE DeclAt(pkg, z).k = "type"
        <5>1. z = x
          BY <1>1, <2>1, <2>3, <3>1, <4>1, CompleteFacts
        <5> QED
          BY <5>1
      <4>2. CASE DeclAt(pkg, z).k = "impl"
        <5>1. z = pos + 1
          BY <1>1, <2>1, <3>1, <4>2, CompleteFacts
        <5> QED
          BY <2>1, <5>1
      <4> QED
        BY <3>1, <4>1, <4>2
    <3> QED
      BY <3>1 DEF Decls, DeclAt
  <2>8. DeclAt(pkg, x) \in Decls(pkg)
    BY DEF Decls, DeclAt
  <2>9. StructFields(pkg, n) = DeclAt(pkg, x).ports \cup DOMAIN DeclAt(pkg, x).props \cup DOMAIN Decl.props
    <3> DEFINE d == DeclAt(pkg, x)
               E == {e \in Decls(pkg) : e.k \in {"type", "impl"} /\ e.n = n}
    <3>1. E = {d, Decl}
      BY <2>1, <2>3, <2>7, <2>8
    <3>2. StructFields(pkg, n) = UNION {e.ports \cup DOMAIN e.props : e \in {d, Decl}}
      BY <3>1 DEF StructFields
    <3> QED
      BY <2>2, <3>2
  <2>10. DOMAIN Over(Known(n), Raw(Decl.props)) = StructFields(pkg, n)
    BY <2>6, <2>9 DEF Over, Raw
  <2>11. threads' = [threads EXCEPT ![pkg] =
                       @ \cup {[n |-> n, at |-> pos + 1, own |-> Raw(Decl.props),
                                fields |-> Over(Known(n), Raw(Decl.props))]}]
    BY <1>3 DEF ConvertImpl, Generate
  <2> HIDE DEF n
  <2>12. ASSUME NEW k \in Packages, NEW t \in threads'[k]
         PROVE  DOMAIN t.fields = StructFields(k, t.n)
    <3>1. CASE t \in threads[k]
      BY <1>2, <3>1 DEF FieldsSet
    <3>2. CASE t \notin threads[k]
      BY <1>1, <2>10, <2>11, <2>12, <3>2 DEF TypeOK
    <3> QED
      BY <3>1, <3>2
  <2> QED
    BY <1>1, <2>12 DEF FieldsSet
<1>4. CASE ~ConvertImpl
  <2>1. UNCHANGED threads
    BY <1>4 DEF Step, ConvertCpu, ConvertType, AssignId, ConvertSystem, EndPackage,
                Other, Passed, Stopped, Built, BuildIf, vars
  <2> QED
    BY <1>1, <1>2, <2>1 DEF FieldsSet
<1> QED
  BY <1>3, <1>4

(* What is known of a type of a complete model, until its implementation.  *)
LEMMA FieldsKnownStep ==
  ASSUME IInv, Step, Complete
  PROVE  FieldsKnown'
<1>1. UNCHANGED model /\ UNCHANGED Packages /\ TypeOK
  BY TypeStep DEF IInv
<1>2. SUFFICES
        ASSUME NEW k \in Packages, NEW x \in DOMAIN model[k].decls, NEW n,
               Dealt(k, x)', DeclAt(k, x).k = "type", n = DeclAt(k, x).n,
               \A y \in DOMAIN model[k].decls :
                 Dealt(k, y)' /\ DeclAt(k, y).k = "impl" => DeclAt(k, y).n # n
        PROVE  DOMAIN (IF n \in DOMAIN values' THEN values'[n] ELSE <<>>)
                 = DeclAt(k, x).ports \cup DOMAIN DeclAt(k, x).props
  BY <1>1 DEF FieldsKnown, DeclAt, Known
<1>3. \A y \in DOMAIN model[k].decls :
        Dealt(k, y) /\ DeclAt(k, y).k = "impl" => DeclAt(k, y).n # n
  BY <1>2, DealtStep DEF IInv
<1>4. Dealt(k, x) =>
        DOMAIN (IF n \in DOMAIN values THEN values[n] ELSE <<>>)
          = DeclAt(k, x).ports \cup DOMAIN DeclAt(k, x).props
  BY <1>2, <1>3 DEF IInv, CompleteSound, FieldsKnown, Known
<1>5. CASE ConvertType
  <2>1. /\ pkg \in Packages /\ pos + 1 \in DOMAIN model[pkg].decls
        /\ Decl = DeclAt(pkg, pos + 1) /\ Decl.k = "type" /\ ~Dealt(pkg, pos + 1)
    BY <1>1, <1>5, CurrentFacts DEF ConvertType
  <2>2. Decl.n = n <=> k = pkg /\ x = pos + 1
    BY <1>1, <1>2, <2>1, CompleteFacts
  <2> DEFINE fields == [q \in Decl.ports \cup DOMAIN Decl.props |->
                          IF q \in DOMAIN Decl.props THEN Decl.props[q].v ELSE "None"]
  <2>3. values' = IF DOMAIN fields = {} THEN values ELSE Put(values, Decl.n, fields)
    BY <1>5 DEF ConvertType
  <2>4. DOMAIN fields = Decl.ports \cup DOMAIN Decl.props
    OBVIOUS
  <2> HIDE DEF fields
  <2>5. CASE Dealt(k, x)
    <3>1. n # Decl.n
      BY <2>1, <2>2, <2>5
    <3>2. (n \in DOMAIN values' <=> n \in DOMAIN values)
          /\ (n \in DOMAIN values => values'[n] = values[n])
      BY <2>3, <3>1 DEF Put
    <3> QED
      BY <1>4, <2>5, <3>2
  <2>6. CASE ~Dealt(k, x)
    <3>1. k = pkg /\ x = pos + 1 /\ DeclAt(k, x) = Decl /\ n = Decl.n
      BY <1>1, <1>2, <2>6, DealtStep
    <3>2. CASE DOMAIN fields # {}
      BY <2>3, <2>4, <3>1, <3>2 DEF Put
    <3>3. CASE DOMAIN fields = {}
      (* Nothing else in the model has the name, or comes after the type. *)
      <4>1. n \notin DOMAIN values
        <5>1. SUFFICES ASSUME n \in DOMAIN values
                       PROVE  FALSE
          OBVIOUS
        <5>2. PICK j \in Packages : \E z \in DOMAIN model[j].decls :
                Dealt(j, z) /\ DeclAt(j, z).k \in {"type", "impl"} /\ DeclAt(j, z).n = n
          BY <5>1 DEF IInv, ValuesSound
        <5>3. PICK z \in DOMAIN model[j].decls :
                Dealt(j, z) /\ DeclAt(j, z).k \in {"type", "impl"} /\ DeclAt(j, z).n = n
          BY <5>2
        <5>4. CASE DeclAt(j, z).k = "type"
          <6>1. j = pkg /\ z = pos + 1
            BY <1>1, <2>1, <3>1, <5>3, <5>4, CompleteFacts
          <6> QED
            BY <2>1, <5>3, <6>1
        <5>5. CASE DeclAt(j, z).k = "impl"
          <6>1. PICK y \in DOMAIN model[j].decls :
                  y < z /\ DeclAt(j, y).k = "type" /\ DeclAt(j, y).n = n
            BY <1>1, <5>3, <5>5, CompleteFacts
          <6>2. j = pkg /\ y = pos + 1
            BY <1>1, <2>1, <3>1, <6>1, CompleteFacts
          <6>3. Dealt(j, y)
            <7>1. y \in Nat /\ z \in Nat
              BY <1>1, DealtFacts
            <7> QED
              BY <1>1, <5>3, <6>1, <7>1 DEF Dealt, TypeOK
          <6> QED
            BY <2>1, <6>2, <6>3
        <5> QED
          BY <5>3, <5>4, <5>5
      <4> QED
        BY <2>3, <2>4, <3>1, <3>3, <4>1
    <3> QED
      BY <3>2, <3>3
  <2> QED
    BY <2>5, <2>6
<1>6. CASE ConvertImpl
  <2>1. /\ pkg \in Packages /\ pos + 1 \in DOMAIN model[pkg].decls
        /\ Decl = DeclAt(pkg, pos + 1) /\ Decl.k = "impl" /\ ~Dealt(pkg, pos + 1)
    BY <1>1, <1>6, CurrentFacts DEF ConvertImpl, Generate
  <2>2. \A j, y : j = pkg /\ y = pos + 1 => Dealt(j, y)'
    BY <1>1, <1>6, Advance DEF ConvertImpl, Generate
  <2>3. Dealt(k, x)
    BY <1>1, <1>2, <2>1, DealtStep
  <2>4. n # Decl.n
    <3>1. SUFFICES ASSUME n = Decl.n
                   PROVE  FALSE
      OBVIOUS
    <3>2. PICK y \in DOMAIN model[pkg].decls : DeclAt(pkg, y).k = "type" /\ DeclAt(pkg, y).n = n
      BY <1>1, <2>1, <3>1, CompleteFacts
    <3>3. pkg = k
      BY <1>1, <1>2, <2>1, <3>2, CompleteFacts
    <3> QED
      BY <1>2, <2>1, <2>2, <3>1, <3>3
  <2>5. (n \in DOMAIN values' <=> n \in DOMAIN values)
        /\ (n \in DOMAIN values => values'[n] = values[n])
    BY <1>6, <2>4 DEF ConvertImpl, Generate, Put
  <2> QED
    BY <1>4, <2>3, <2>5
<1>7. CASE ~(ConvertType \/ ConvertImpl)
  <2>1. UNCHANGED values
    BY <1>7 DEF Step, ConvertCpu, AssignId, ConvertSystem, EndPackage, Other, Passed, Stopped,
                Built, BuildIf, vars
  <2>2. Dealt(k, x)
    BY <1>1, <1>2, <1>7, DealtStep
  <2> QED
    BY <1>4, <2>1, <2>2
<1> QED
  BY <1>5, <1>6, <1>7

LEMMA NextIInv ==
  ASSUME IInv, [ConverterNext]_<<vars, dvars>>
  PROVE  IInv'
<1>1. Step
  BY StepKinds
<1>2. TypeOK' /\ IdsSound' /\ (Complete' <=> Complete)
  BY <1>1, TypeStep, IdsStep, SameModel DEF IInv
<1>3. PinnedSound' /\ ProtocolsSound' /\ ValuesSound' /\ ThreadsSound' /\ TablesSound' /\ RunningSound'
  BY <1>1, PinnedStep, ProtocolsStep, ValuesStep, ThreadsStep, TablesStep, RunningStep
<1>4. CompleteSound'
  BY <1>1, <1>2, TablesFitStep, FieldsSetStep, FieldsKnownStep DEF CompleteSound
<1> QED
  BY <1>2, <1>3, <1>4 DEF IInv

(* What is remembered from package to package, and what is generated from  *)
(* it, fits the model: IInv.                                               *)
THEOREM InvariantHolds == ConverterSpec => []IInv
<1>1. ConverterInit => IInv
  BY InitIInv
<1>2. IInv /\ [ConverterNext]_<<vars, dvars>> => IInv'
  BY NextIInv
<1> QED
  BY <1>1, <1>2, PTL DEF ConverterSpec

-----------------------------------------------------------------------------
(* At the end, all declarations have been dealt with. *)
LEMMA AllDealt ==
  ASSUME TypeOK, pkg \notin Packages, NEW k \in Packages, NEW x \in DOMAIN model[k].decls
  PROVE  Dealt(k, x) /\ k < pkg
BY DEF Dealt, TypeOK, Packages, WellFormed, IsSequence

(* d is the system of package k that the generated program is that of. *)
Runs(k, d) ==
  /\ k \in Packages /\ \E x \in DOMAIN model[k].decls : d = DeclAt(k, x)
  /\ d.k = "system" /\ running = Started(k, d) /\ Systems(k) = {d}
  /\ HasNumbers(k, d)

LEMMA ProgramFacts ==
  ASSUME IInv, running # {}
  PROVE  status = "accepted" /\ pkg \notin Packages /\ SchedulingCompiles /\ \E k, d : Runs(k, d)
<1>1. /\ status = "accepted" /\ pkg \notin Packages /\ SchedulingCompiles
      /\ \E k \in Packages : \E d \in Systems(k) : running = Started(k, d)
  BY DEF IInv, RunningSound
<1>2. PICK k \in Packages : \E d \in Systems(k) : running = Started(k, d)
  BY <1>1
<1>3. PICK d \in Systems(k) : running = Started(k, d)
  BY <1>2
<1>4. PICK x \in DOMAIN model[k].decls : d = DeclAt(k, x) /\ d.k = "system"
  BY <1>3 DEF Systems, Decls, DeclAt
<1>5. k \in DOMAIN model
  BY <1>4, DealtFacts DEF IInv
<1>6. \A y \in DOMAIN model[k].decls : DeclAt(k, y).k = "system" => y = x
  BY <1>4, <1>5 DEF IInv, TypeOK, WellFormed, DeclAt
<1>7. Systems(k) = {d}
  BY <1>3, <1>4, <1>6 DEF Systems, Decls, DeclAt
<1>8. HasNumbers(k, d)
  BY <1>1, <1>4, AllDealt DEF IInv, PinnedSound
<1> QED
  BY <1>1, <1>3, <1>4, <1>7, <1>8 DEF Runs

LEMMA RunFacts ==
  ASSUME IInv, NEW k, NEW d, Runs(k, d), NEW r \in running
  PROVE  /\ r.sys = k /\ SystemOf(r) = d /\ r.proc \in DOMAIN d.procs
         /\ r.core = pinned[k][r.proc]
         /\ r.pkg \in Packages
         /\ \E t \in threads[r.pkg] : r.n = t.n /\ r = Run(k, r.proc, r.pkg, t)
<1>1. PICK p \in DOMAIN d.procs : \E ref \in d.procs[p] :
        \E t \in threads[ref.pkg] : t.n = ref.n /\ r = Run(k, p, ref.pkg, t)
  BY DEF Runs, Started
<1>2. PICK ref \in d.procs[p] :
        \E t \in threads[ref.pkg] : t.n = ref.n /\ r = Run(k, p, ref.pkg, t)
  BY <1>1
<1>3. PICK t \in threads[ref.pkg] : t.n = ref.n /\ r = Run(k, p, ref.pkg, t)
  BY <1>2
<1>4. r.sys = k /\ r.proc = p /\ r.pkg = ref.pkg /\ r.n = t.n /\ r.core = pinned[k][p]
  BY <1>3 DEF Run
<1>5. SystemOf(r) = d
  BY <1>4 DEF SystemOf, Runs
<1>6. ref.pkg \in Packages
  <2>1. k \in DOMAIN model /\ DOMAIN model = Packages
    BY DEF IInv, TypeOK, WellFormed, IsSequence, Packages, Runs
  <2> QED
    BY <1>2, <2>1 DEF IInv, TypeOK, WellFormed, Runs, DeclAt
<1> QED
  BY <1>3, <1>4, <1>5, <1>6

(* The number of a process is that of the processor it is bound to. *)
LEMMA CoreFacts ==
  ASSUME IInv, NEW k, NEW d, Runs(k, d), NEW r \in running
  PROVE  \/ BindingOf(d, r.proc) = 0 /\ Processor(r) = "none" /\ r.core = -1
         \/ /\ BindingOf(d, r.proc) # 0 /\ Processor(r) # "none" /\ Processor(r) \in DOMAIN ids
            /\ r.core = ids[Processor(r)] /\ r.core \in Nat
<1>1. SystemOf(r) = d /\ r.proc \in DOMAIN d.procs /\ r.core = pinned[k][r.proc]
  BY RunFacts
<1>2. CASE BindingOf(d, r.proc) = 0
  BY <1>1, <1>2 DEF Processor, Runs, HasNumbers
<1>3. CASE BindingOf(d, r.proc) # 0
  <2>1. k \in DOMAIN model /\ IsSequence(d.binds) /\ \A i \in DOMAIN d.binds : d.binds[i].cpu # "none"
    BY DEF IInv, TypeOK, WellFormed, IsSequence, Packages, Runs, DeclAt
  <2>2. BindingOf(d, r.proc) \in DOMAIN d.binds
    BY <1>3, <2>1, BindingFacts
  <2>3. Processor(r) = d.binds[BindingOf(d, r.proc)].cpu
    BY <1>1, <1>3 DEF Processor
  <2>4. Processor(r) \in DOMAIN ids /\ r.core = ids[Processor(r)]
    BY <1>1, <1>3, <2>3 DEF Runs, HasNumbers
  <2>5. r.core \in Nat
    BY <2>4 DEF IInv, IdsSound
  <2> QED
    BY <1>3, <2>1, <2>2, <2>3, <2>4, <2>5
<1> QED
  BY <1>2, <1>3

(* Threads share a core exactly if their processes share a processor.      *)
THEOREM ProcessorsApart == ConverterSpec => []CoresApart
<1>1. IInv => CoresApart
  <2> SUFFICES ASSUME IInv, NEW r \in running, NEW s \in running
               PROVE  /\ (r.core = s.core) <=> (Processor(r) = Processor(s))
                      /\ (r.core = -1) <=> (Processor(r) = "none")
    BY DEF CoresApart
  <2>1. PICK k, d : Runs(k, d)
    BY ProgramFacts
  <2>2. \A q \in running :
          \/ Processor(q) = "none" /\ q.core = -1
          \/ /\ Processor(q) # "none" /\ Processor(q) \in DOMAIN ids
             /\ q.core = ids[Processor(q)] /\ q.core \in Nat
    BY <2>1, CoreFacts
  <2>3. \A c, e \in DOMAIN ids : ids[c] = ids[e] => c = e
    BY DEF IInv, IdsSound
  <2>4. -1 \notin Nat
    OBVIOUS
  <2> QED
    BY <2>2, <2>3, <2>4
<1> QED
  BY <1>1, InvariantHolds, PTL

-----------------------------------------------------------------------------
(* The thread of a run, and its implementation, the only one of the name. *)
LEMMA OwnFacts ==
  ASSUME IInv, SchedulingCompiles, pkg \notin Packages,
         NEW r, r.pkg \in Packages, NEW t \in threads[r.pkg], r.n = t.n
  PROVE  /\ t.own = Raw(PropsOf("impl", r))
         /\ \A q \in DOMAIN t.own : q \in DOMAIN t.fields /\ t.fields[q] = t.own[q]
         /\ \A q \in DOMAIN PropsOf("impl", r) : PropsOf("impl", r)[q].v \in Int
<1> DEFINE k == r.pkg
           d == DeclAt(k, t.at)
<1>1. /\ t.at \in DOMAIN model[k].decls /\ d.k = "impl" /\ t.n = d.n /\ t.own = Raw(d.props)
      /\ \A q \in DOMAIN t.own : q \in DOMAIN t.fields /\ t.fields[q] = t.own[q]
  BY DEF IInv, ThreadsSound, Dealt
<1>2. \A e \in Decls(k) : e.k = "impl" /\ e.n = r.n => e = d
  <2>1. ASSUME NEW x \in DOMAIN model[k].decls, DeclAt(k, x).k = "impl", DeclAt(k, x).n = r.n
        PROVE  DeclAt(k, x) = d
    <3>1. Dealt(k, x)
      BY <2>1, AllDealt DEF IInv
    <3>2. PICK u \in threads[k] : u.at = x
      BY <2>1, <3>1 DEF IInv, ThreadsSound
    <3>3. u.n = t.n
      BY <2>1, <3>2 DEF IInv, ThreadsSound
    <3>4. u = t
      BY <3>3 DEF SchedulingCompiles, Compiles
    <3> QED
      BY <3>2, <3>4
  <2> QED
    BY <2>1 DEF Decls, DeclAt
<1>3. d \in Decls(k)
  BY <1>1 DEF Decls, DeclAt
<1>4. PropsOf("impl", r) = d.props
  <2> DEFINE e == CHOOSE f \in Decls(k) : f.k = "impl" /\ f.n = r.n
  <2>1. e \in Decls(k) /\ e.k = "impl" /\ e.n = r.n
    BY <1>1, <1>3
  <2>2. e = d
    BY <1>2, <2>1
  <2> QED
    BY <2>2 DEF PropsOf
<1>5. \A q \in DOMAIN d.props : d.props[q].v \in Int
  <2>1. k \in DOMAIN model
    BY DEF IInv, TypeOK, WellFormed, IsSequence, Packages
  <2> QED
    BY <1>1, <2>1 DEF IInv, TypeOK, WellFormed, DeclAt
<1> HIDE DEF d
<1> QED
  BY <1>1, <1>4, <1>5

LEMMA RateFacts ==
  /\ \A P \in Int : PeriodToPriority(P) \in 6 .. 99
  /\ \A P, Q \in Int : P <= Q => PeriodToPriority(P) >= PeriodToPriority(Q)
<1> DEFINE S(P) == {i \in 1 .. 93 : Threshold[i] <= P}
<1>1. DOMAIN Threshold = 1 .. 93 /\ \A i \in 1 .. 93 : Threshold[i] \in Int
  <2>1. DOMAIN Threshold = 1 .. 93
    BY SMTT(60) DEF Threshold
  <2>2. \A i \in 1 .. 93 : Threshold[i] \in Int
    BY SMTT(60) DEF Threshold
  <2> QED
    BY <2>1, <2>2
<1>2. IsFiniteSet(1 .. 93) /\ Cardinality(1 .. 93) = 93
  <2>1. ASSUME NEW n \in Nat
        PROVE  IsFiniteSet(1 .. n) /\ Cardinality(1 .. n) = n
    BY FS_Interval
  <2> QED
    BY <2>1
<1>3. \A P : IsFiniteSet(S(P)) /\ Cardinality(S(P)) \in Nat /\ Cardinality(S(P)) <= 93
  <2>1. \A P : S(P) \in SUBSET (1 .. 93)
    OBVIOUS
  <2> HIDE DEF S
  <2>2. ASSUME NEW P
        PROVE  IsFiniteSet(S(P)) /\ Cardinality(S(P)) <= 93
    BY <1>2, <2>1, FS_Subset
  <2> QED
    BY <2>2, FS_CardinalityType
<1>4. \A P : PeriodToPriority(P) = 99 - Cardinality(S(P))
  BY <1>1 DEF PeriodToPriority
<1>5. ASSUME NEW P \in Int, NEW Q \in Int, P <= Q
      PROVE  Cardinality(S(P)) <= Cardinality(S(Q))
  <2>1. S(P) \subseteq S(Q)
    BY <1>1, <1>5
  <2> QED
    BY <1>3, <2>1, FS_Subset
<1> HIDE DEF S
<1>6. \A P \in Int : PeriodToPriority(P) \in 6 .. 99
  BY <1>3, <1>4
<1>7. ASSUME NEW P \in Int, NEW Q \in Int, P <= Q
      PROVE  PeriodToPriority(P) >= PeriodToPriority(Q)
  BY <1>3, <1>4, <1>5, <1>7
<1> QED
  BY <1>6, <1>7

(* Of two threads with a period only, the longer period never wins: the    *)
(* thresholds of period_to_priority count for any periods.                 *)
THEOREM RateMonotonicOrder == ConverterSpec => []RatesInOrder
<1>1. IInv => RatesInOrder
  <2> DEFINE P(r) == PropsOf("impl", r)
             Rated(r) == DOMAIN P(r) = {"period"} /\ P(r)["period"].u = "ms"
  <2> SUFFICES ASSUME IInv, NEW r \in running, NEW s \in running, Rated(r), Rated(s),
                      P(r)["period"].v <= P(s)["period"].v
               PROVE  r.priority >= s.priority
    BY DEF RatesInOrder
  <2>1. pkg \notin Packages /\ SchedulingCompiles
    BY ProgramFacts
  <2>2. PICK k, d : Runs(k, d)
    BY ProgramFacts
  <2>3. ASSUME NEW q \in running, Rated(q)
        PROVE  q.priority = PeriodToPriority(P(q)["period"].v) /\ P(q)["period"].v \in Int
    <3>1. q.pkg \in Packages
          /\ \E t \in threads[q.pkg] : q.n = t.n /\ q = Run(k, q.proc, q.pkg, t)
      BY <2>2, RunFacts
    <3>2. PICK t \in threads[q.pkg] : q.n = t.n /\ q = Run(k, q.proc, q.pkg, t)
      BY <3>1
    <3>3. /\ t.own = Raw(P(q)) /\ P(q)["period"].v \in Int
          /\ \A x \in DOMAIN t.own : x \in DOMAIN t.fields /\ t.fields[x] = t.own[x]
      BY <2>1, <2>3, <3>1, <3>2, OwnFacts
    <3> DEFINE v == P(q)["period"].v
    <3>4. DOMAIN t.own = {"period"} /\ t.fields["period"] = v
      BY <2>3, <3>3 DEF Raw
    <3> HIDE DEF v
    <3>5. Asked(t) = PeriodToPriority(v)
      BY <3>4 DEF Asked
    <3>6. PeriodToPriority(v) \in 1 .. 99
      BY <3>3, RateFacts DEF v
    <3>7. q.priority = PeriodToPriority(v)
      BY <3>2, <3>5, <3>6 DEF Run
    <3> QED
      BY <3>3, <3>7 DEF v
  <2> HIDE DEF P
  <2> QED
    BY <2>3, RateFacts
<1> QED
  BY <1>1, InvariantHolds, PTL

-----------------------------------------------------------------------------
LEMMA ImageFinite ==
  ASSUME NEW S, IsFiniteSet(S), NEW f
  PROVE  IsFiniteSet({f[x] : x \in S})
<1> DEFINE T == {f[x] : x \in S}
           g == [x \in S |-> f[x]]
<1>1. g \in Surjection(S, T)
  BY DEF Surjection
<1> QED
  BY <1>1, FS_Surjection

(* A processor type with a single protocol. *)
LEMMA OneProtocol ==
  ASSUME TypeOK, NEW n, Cardinality(Cpus(n)) = 1
  PROVE  \A e, f \in Cpus(n) : e = f
<1> DEFINE places(k) == {x \in DOMAIN model[k].decls : DeclAt(k, x).k = "cpu" /\ DeclAt(k, x).n = n}
           entry(k) == [x \in places(k) |-> <<k, DeclAt(k, x).protocol>>]
           entries == [k \in Packages |-> {entry(k)[x] : x \in places(k)}]
<1>1. Cpus(n) = UNION {entries[k] : k \in Packages}
  <2>1. ASSUME NEW k \in Packages
        PROVE  entries[k] = {<<k, d.protocol>> : d \in {e \in Decls(k) : e.k = "cpu" /\ e.n = n}}
    BY DEF Decls, DeclAt
  <2> HIDE DEF entries
  <2> QED
    BY <2>1 DEF Cpus
<1>2. ASSUME NEW k \in Packages
      PROVE  IsFiniteSet(entries[k])
  <2>1. DOMAIN model[k].decls = 1 .. Len(model[k].decls) /\ Len(model[k].decls) \in Nat
    BY DEF TypeOK, WellFormed, IsSequence, Packages
  <2>2. IsFiniteSet(1 .. Len(model[k].decls))
    BY <2>1, FS_Interval
  <2>3. places(k) \in SUBSET (1 .. Len(model[k].decls))
    BY <2>1
  <2> HIDE DEF places
  <2>4. IsFiniteSet(places(k))
    BY <2>2, <2>3, FS_Subset
  <2>5. entries[k] = {entry(k)[x] : x \in places(k)}
    OBVIOUS
  <2> HIDE DEF entry, entries
  <2> QED
    BY <2>4, <2>5, ImageFinite
<1>3. IsFiniteSet(Packages)
  <2>1. Len(model) \in Nat
    BY DEF TypeOK, WellFormed, IsSequence
  <2> QED
    BY <2>1, FS_Interval DEF Packages
<1> HIDE DEF entries
<1>4. IsFiniteSet({entries[k] : k \in Packages})
  BY <1>3, ImageFinite
<1>5. \A T \in {entries[k] : k \in Packages} : IsFiniteSet(T)
  BY <1>2
<1>6. IsFiniteSet(Cpus(n))
  BY <1>1, <1>4, <1>5, FS_UNION
<1> QED
  BY <1>6, FS_Singleton

(* The policy of the generated program is that of the only protocol of a   *)
(* processor type, since its number is in the last table, which compiles.  *)
LEMMA PolicyFacts ==
  ASSUME IInv, pkg \notin Packages, SchedulingCompiles,
         NEW c \in DOMAIN ids, Cardinality(Cpus(c)) = 1, NEW e \in Cpus(c)
  PROVE  Policy(e[2]) = "SCHED_FIFO"
<1>1. PICK k \in Packages : \E d \in Decls(k) : d.k = "cpu" /\ d.n = c
  BY DEF Cpus
<1>2. PICK x \in DOMAIN model[k].decls : DeclAt(k, x).k = "cpu" /\ DeclAt(k, x).n = c
  BY <1>1 DEF Decls, DeclAt
<1>3. c \in DOMAIN protocols
  BY <1>2, AllDealt DEF IInv, ProtocolsSound
<1>4. protocols[c] = Stored(e[2])
  <2>1. PICK f \in Cpus(c) : protocols[c] = Stored(f[2])
    BY <1>3 DEF IInv, ProtocolsSound
  <2>2. e = f
    BY OneProtocol DEF IInv
  <2> QED
    BY <2>1, <2>2
<1>5. Policy(protocols[c]) = Policy(e[2])
  BY <1>4 DEF Policy, Stored
<1>6. ids[c] \in DOMAIN Policies /\ Policies[ids[c]] = Policy(protocols[c])
  <2>1. (CHOOSE d \in DOMAIN ids : ids[d] = ids[c]) = c
    BY DEF IInv, IdsSound
  <2> QED
    BY <1>3, <2>1 DEF Policies
<1>7. Len(model) \in Packages
  <2>1. Len(model) \in Nat
    BY DEF IInv, TypeOK, WellFormed, IsSequence
  <2> QED
    BY <1>1, <2>1 DEF Packages
<1>8. tables[Len(model)].policies = Policies
  BY <1>7 DEF IInv, TablesSound, Packages
<1>9. TableCompiles(Len(model))
  BY <1>7 DEF SchedulingCompiles
<1> QED
  BY <1>5, <1>6, <1>8, <1>9 DEF TableCompiles

(* A thread with a priority has SCHED_FIFO, the only policy that compiles. *)
LEMMA FifoFacts ==
  ASSUME IInv, SchedulingCompiles, NEW k, NEW p, NEW j \in Packages, NEW t \in threads[j],
         Run(k, p, j, t).priority # 0
  PROVE  Run(k, p, j, t).policy = "SCHED_FIFO"
<1> DEFINE id == pinned[k][p]
           named == {i \in InScope(j, HasPolicies) : id \in DOMAIN tables[i].policies}
<1>1. Asked(t) \in 1 .. 99
  BY DEF Run
<1>2. Run(k, p, j, t).policy =
        IF named = {} THEN "SCHED_FIFO" ELSE tables[CHOOSE i \in named : TRUE].policies[id]
  BY <1>1 DEF Run
<1>3. InScope(j, HasPolicies) \subseteq Packages
  BY DEF InScope, HasPolicies
<1>4. ASSUME NEW i \in named
      PROVE  tables[i].policies[id] = "SCHED_FIFO"
  BY <1>3, <1>4 DEF SchedulingCompiles, TableCompiles
<1> HIDE DEF named
<1> QED
  BY <1>2, <1>4

(* What a thread of the generated program runs with is what the model says.*)
THEOREM RunAsTheModelSays == ConverterSpec => []RunsAsDeclared
<1>1. IInv => RunsAsDeclared
  <2> SUFFICES
        ASSUME IInv, NEW r \in running
        PROVE  LET own == PropsOf("impl", r)
               IN  /\ "period" \in DOMAIN own /\ own["period"].u = "ms" => r.period = own["period"].v
                   /\ "priority" \in DOMAIN own /\ own["priority"].v \in 1 .. 99 =>
                        r.priority = own["priority"].v
                   /\ DOMAIN Over(PropsOf("type", r), own) = {} => r.period = 1000 /\ r.priority = 0
                   /\ r.priority # 0 /\ Processor(r) # "none" /\ ProtocolReaches(r) =>
                        \A e \in Cpus(Processor(r)) : r.policy = Policy(e[2])
    BY DEF RunsAsDeclared
  <2> DEFINE own == PropsOf("impl", r)
  <2>1. pkg \notin Packages /\ SchedulingCompiles
    BY ProgramFacts
  <2>2. PICK k, d : Runs(k, d)
    BY ProgramFacts
  <2>3. r.pkg \in Packages /\ \E t \in threads[r.pkg] : r.n = t.n /\ r = Run(k, r.proc, r.pkg, t)
    BY <2>2, RunFacts
  <2>4. PICK t \in threads[r.pkg] : r.n = t.n /\ r = Run(k, r.proc, r.pkg, t)
    BY <2>3
  <2>5. t.own = Raw(own)
    BY <2>1, <2>3, <2>4, OwnFacts
  <2>6. /\ r.period = IF "period" \in DOMAIN t.own THEN t.own["period"] ELSE 1000
        /\ r.priority = IF Asked(t) \in 1 .. 99 THEN Asked(t) ELSE 0
    BY <2>4 DEF Run
  <2>7. DOMAIN t.own = DOMAIN own /\ \A q \in DOMAIN own : t.own[q] = own[q].v
    BY <2>5 DEF Raw
  <2>8. DOMAIN own \subseteq DOMAIN Over(PropsOf("type", r), own)
    BY DEF Over
  <2>9. r.priority # 0 => r.policy = "SCHED_FIFO"
    BY <2>1, <2>3, <2>4, FifoFacts
  <2>10. ASSUME Processor(r) # "none", Cardinality(Cpus(Processor(r))) = 1,
                NEW e \in Cpus(Processor(r))
         PROVE  Policy(e[2]) = "SCHED_FIFO"
    <3>1. Processor(r) \in DOMAIN ids
      BY <2>2, <2>10, CoreFacts
    <3> QED
      BY <2>1, <2>10, <3>1, PolicyFacts
  <2> HIDE DEF own
  <2>11. "period" \in DOMAIN own => r.period = own["period"].v
    BY <2>6, <2>7
  <2>12. "priority" \in DOMAIN own /\ own["priority"].v \in 1 .. 99 => r.priority = own["priority"].v
    BY <2>6, <2>7 DEF Asked
  <2>13. DOMAIN own = {} => r.period = 1000 /\ r.priority = 0
    <3>1. DOMAIN own = {} => Asked(t) = 0
      BY <2>7 DEF Asked
    <3> QED
      BY <2>6, <2>7, <3>1
  <2>14. r.priority # 0 /\ Processor(r) # "none" /\ ProtocolReaches(r) =>
           \A e \in Cpus(Processor(r)) : r.policy = Policy(e[2])
    BY <2>9, <2>10 DEF ProtocolReaches
  <2>15. DOMAIN Over(PropsOf("type", r), own) = {} => DOMAIN own = {}
    BY <2>8
  <2> QED
    BY <2>11, <2>12, <2>13, <2>14, <2>15 DEF own
<1> QED
  BY <1>1, InvariantHolds, PTL

-----------------------------------------------------------------------------
(* rustc accepts the scheduling of a complete model: each package has the  *)
(* tables its threads need, in its own module, and no field too many.      *)
THEOREM CompleteModelsCompile == ConverterSpec => []CompleteAccepted
<1>1. IInv => CompleteAccepted
  <2> SUFFICES ASSUME IInv, Complete, pkg \notin Packages
               PROVE  SchedulingCompiles
    BY DEF CompleteAccepted
  <2>1. TypeOK /\ TablesFit /\ FieldsSet
    BY DEF IInv, CompleteSound
  <2>2. \A k \in Packages : k < pkg
    BY <2>1 DEF TypeOK, Packages, WellFormed, IsSequence
  <2>3. \A S, k : k \in S => Cardinality(InScope(k, S)) = 1
    BY FS_Singleton DEF InScope
  <2>4. ASSUME NEW k \in Packages, NEW t \in threads[k]
        PROVE  Compiles(k, t)
    <3> DEFINE d == DeclAt(k, t.at)
    <3>1. /\ t.at \in DOMAIN model[k].decls /\ d.k = "impl" /\ t.n = d.n
          /\ DOMAIN t.own = DOMAIN d.props
      <4>1. t.at \in DOMAIN model[k].decls /\ d.k = "impl" /\ t.n = d.n /\ t.own = Raw(d.props)
        BY <2>4 DEF IInv, ThreadsSound, Dealt
      <4> QED
        BY <4>1 DEF Raw
    <3>2. DOMAIN t.fields = StructFields(k, t.n)
      BY <2>1, <2>4 DEF FieldsSet
    <3>3. \E e \in Decls(k) : e.k = "type" /\ e.n = t.n
      <4>1. PICK x \in DOMAIN model[k].decls : DeclAt(k, x).k = "type" /\ DeclAt(k, x).n = t.n
        BY <2>1, <3>1, CompleteFacts
      <4> QED
        BY <4>1 DEF Decls, DeclAt
    <3>4. ASSUME NEW u \in threads[k], u.n = t.n
          PROVE  u = t
      <4>1. /\ u.at \in DOMAIN model[k].decls /\ DeclAt(k, u.at).k = "impl"
            /\ u.n = DeclAt(k, u.at).n
        BY <3>4 DEF IInv, ThreadsSound, Dealt
      <4>2. u.at = t.at
        <5>1. \A x, y \in DOMAIN model[k].decls :
                DeclAt(k, x).k = "impl" /\ DeclAt(k, y).k = "impl" /\ DeclAt(k, x).n = DeclAt(k, y).n
                => x = y
          BY <2>1, CompleteFacts
        <5> QED
          BY <3>1, <3>4, <4>1, <5>1
      <4> QED
        BY <2>4, <4>2 DEF IInv, ThreadsSound
    <3>5. DOMAIN t.own # {} => Cardinality(InScope(k, HasPolicies)) = 1
      <4>1. DOMAIN d.props # {} => \E j \in 1 .. k : Bound(j)
        BY <2>1, <3>1, CompleteFacts
      <4>2. DOMAIN d.props # {} => k \in HasPolicies
        BY <2>1, <2>2, <4>1 DEF TablesFit, HasPolicies
      <4> QED
        BY <2>3, <3>1, <4>2
    <3>6. DOMAIN t.own = {"period"} => Cardinality(InScope(k, HasRates)) = 1
      <4>1. DOMAIN d.props = {"period"} => \E j \in 1 .. k : RateMonotonic(j)
        BY <2>1, <3>1, CompleteFacts
      <4>2. DOMAIN d.props = {"period"} => k \in HasRates
        BY <2>1, <2>2, <4>1 DEF TablesFit, HasRates
      <4> QED
        BY <2>3, <3>1, <4>2
    <3> QED
      BY <3>2, <3>3, <3>4, <3>5, <3>6 DEF Compiles
  <2> QED
    BY <2>1, <2>2, <2>4 DEF SchedulingCompiles, TablesFit
<1> QED
  BY <1>1, InvariantHolds, PTL

-----------------------------------------------------------------------------
(* What data types mean: the conversion of names keeps, of every data type *)
(* that is the first of its name, what the model declares it to be.        *)

(* A recursive definition defines a function where every chain of calls    *)
(* ends: F takes p and the value at g[p] to that at p.                     *)
ChainsEnd(A, g) == \A S \in SUBSET A : S # {} => \E p \in S : g[p] \notin S

Solves(f, D, A, g, V, F, b) ==
  /\ f \in [D -> V]
  /\ \A p \in D : f[p] = IF p \in A THEN F[p][f[g[p]]] ELSE b[p]

LEMMA Recursion ==
  ASSUME NEW D, NEW A \in SUBSET D, NEW g \in [A -> D], ChainsEnd(A, g), NEW V,
         NEW F \in [D -> [V -> V]], NEW b \in [D -> V]
  PROVE  \E f : Solves(f, D, A, g, V, F, b)
<1> USE DEF ChainsEnd
<1> DEFINE Part(C, f) ==
      /\ C \in SUBSET D /\ f \in [C -> V]
      /\ \A p \in C : /\ p \in A => g[p] \in C
                      /\ f[p] = IF p \in A THEN F[p][f[g[p]]] ELSE b[p]
<1> HIDE DEF Part
<1>1. ASSUME NEW C, NEW f, Part(C, f), NEW E, NEW e, Part(E, e), NEW q \in C \cap E
      PROVE  f[q] = e[q]
  <2> DEFINE S == {p \in C \cap E : f[p] # e[p]}
  <2>1. S \in SUBSET A
    BY <1>1 DEF Part
  <2>2. \A p \in S : g[p] \in S
    <3> SUFFICES ASSUME NEW p \in S, g[p] \notin S
                 PROVE  FALSE
      OBVIOUS
    <3>1. p \in A /\ p \in C /\ p \in E
      BY <2>1
    <3>2. g[p] \in C /\ g[p] \in E
      BY <1>1, <3>1 DEF Part
    <3>3. f[g[p]] = e[g[p]]
      BY <3>2
    <3>4. f[p] = F[p][f[g[p]]] /\ e[p] = F[p][e[g[p]]]
      BY <1>1, <3>1 DEF Part
    <3> QED
      BY <3>3, <3>4
  <2>3. S = {}
    <3> HIDE DEF S
    <3> QED
      BY <2>1, <2>2
  <2> QED
    BY <2>3
<1>2. \A p \in D : \E C, f : Part(C, f) /\ p \in C
  <2> DEFINE S == {p \in D : \A C, f : Part(C, f) => p \notin C}
  <2>1. S \in SUBSET A
    <3> SUFFICES ASSUME NEW p \in D \ A
                 PROVE  p \notin S
      OBVIOUS
    <3> DEFINE f == [x \in {p} |-> b[x]]
    <3>1. Part({p}, f)
      BY DEF Part
    <3> QED
      BY <3>1
  <2>2. \A p \in S : g[p] \in S
    <3> SUFFICES ASSUME NEW p \in S, g[p] \notin S
                 PROVE  FALSE
      OBVIOUS
    <3>1. p \in A /\ p \in D /\ g[p] \in D
      BY <2>1
    <3>2. PICK C, f : Part(C, f) /\ g[p] \in C
      BY <3>1
    <3>3. p \notin C
      BY <3>2
    <3> DEFINE h == [x \in C \cup {p} |-> IF x = p THEN F[p][f[g[p]]] ELSE f[x]]
    <3>4. /\ f[g[p]] \in V /\ F[p][f[g[p]]] \in V
          /\ C \in SUBSET D /\ f \in [C -> V]
      BY <3>1, <3>2 DEF Part
    <3>5. h \in [C \cup {p} -> V] /\ h[p] = F[p][f[g[p]]] /\ \A x \in C : h[x] = f[x]
      BY <3>3, <3>4
    <3> HIDE DEF h
    <3>6. Part(C \cup {p}, h)
      <4>1. \A x \in C \cup {p} : x \in A => g[x] \in C
        BY <3>2 DEF Part
      <4>2. ASSUME NEW x \in C
            PROVE  h[x] = IF x \in A THEN F[x][h[g[x]]] ELSE b[x]
        <5>1. f[x] = IF x \in A THEN F[x][f[g[x]]] ELSE b[x]
          BY <3>2 DEF Part
        <5> QED
          BY <3>5, <4>1, <5>1
      <4>3. h[p] = IF p \in A THEN F[p][h[g[p]]] ELSE b[p]
        BY <3>1, <3>2, <3>5
      <4> QED
        BY <3>1, <3>4, <3>5, <4>1, <4>2, <4>3 DEF Part
    <3> QED
      BY <3>6
  <2>3. S = {}
    <3> HIDE DEF S
    <3> QED
      BY <2>1, <2>2
  <2> QED
    BY <2>3
<1> DEFINE at(p) == CHOOSE v : \E C, e : Part(C, e) /\ p \in C /\ v = e[p]
           f == [p \in D |-> at(p)]
<1>3. ASSUME NEW C, NEW e, Part(C, e), NEW p \in C
      PROVE  f[p] = e[p]
  <2>1. p \in D
    BY <1>3 DEF Part
  <2>2. \E E, h : Part(E, h) /\ p \in E /\ at(p) = h[p]
    BY <1>3, Zenon
  <2> HIDE DEF at
  <2>3. at(p) = e[p]
    BY <1>1, <1>3, <2>2
  <2> QED
    BY <2>1, <2>3
<1> HIDE DEF at, f
<1>4. ASSUME NEW p \in D
      PROVE  f[p] \in V /\ f[p] = IF p \in A THEN F[p][f[g[p]]] ELSE b[p]
  <2>1. PICK C, e : Part(C, e) /\ p \in C
    BY <1>2
  <2>2. f[p] = e[p]
    BY <1>3, <2>1
  <2>3. p \in A => g[p] \in C
    BY <2>1 DEF Part
  <2>4. p \in A => f[g[p]] = e[g[p]]
    BY <1>3, <2>1, <2>3
  <2> QED
    BY <2>1, <2>2, <2>4 DEF Part
<1>5. f \in [D -> V]
  BY <1>4 DEF f
<1> QED
  BY <1>4, <1>5 DEF Solves

Legal == WellFormed(model) /\ LegalTypes(model)

LEMMA PlaceFacts ==
  ASSUME Legal, NEW p \in DataDecls
  PROVE  /\ p[1] \in Packages /\ p[2] \in DOMAIN model[p[1]].decls /\ p = <<p[1], p[2]>>
         /\ At(p) = DeclAt(p[1], p[2]) /\ At(p).k = "data"
         /\ LegalData(model, At(p)) /\ At(p).n # "?"
         /\ p[1] \in Nat \ {0} /\ p[2] \in Nat \ {0}
<1>1. DOMAIN model = Packages
  BY DEF Legal, WellFormed, IsSequence, Packages
<1>2. PICK k \in Packages : \E x \in DOMAIN model[k].decls :
        p = <<k, x>> /\ model[k].decls[x].k = "data"
  BY <1>1 DEF DataDecls, DataOf
<1>3. PICK x \in DOMAIN model[k].decls : p = <<k, x>> /\ model[k].decls[x].k = "data"
  BY <1>2
<1>4. LegalData(model, model[k].decls[x]) /\ model[k].decls[x].n # "?"
  BY <1>1, <1>3 DEF Legal, LegalTypes
<1>5. IsSequence(model[k].decls) /\ Len(model) \in Nat
  BY <1>1 DEF Legal, WellFormed, IsSequence
<1>6. k \in Nat \ {0} /\ x \in Nat \ {0}
  BY <1>5 DEF Packages, IsSequence
<1> QED
  BY <1>2, <1>3, <1>4, <1>6 DEF At, DeclAt

LEMMA PlacesOf ==
  ASSUME Legal, NEW k \in Packages, NEW x \in DOMAIN model[k].decls, model[k].decls[x].k = "data"
  PROVE  <<k, x>> \in DataDecls /\ At(<<k, x>>) = model[k].decls[x]
BY DEF Legal, WellFormed, IsSequence, Packages, DataDecls, DataOf, At

LEMMA RefFacts ==
  ASSUME Legal, NEW ref, LegalRef(model, ref), ref.pkg # 0
  PROVE  /\ DeclOf(ref) \in DataDecls /\ DeclOf(ref) \in DataNamed(model, ref)
         /\ DeclOf(ref)[1] = ref.pkg /\ Lower[At(DeclOf(ref)).n] = Lower[ref.n]
         /\ ref.n \notin Primitive \cup Foreign
<1>1. DataNamed(model, ref) # {} /\ ref.n \notin Primitive \cup Foreign
  BY DEF LegalRef
<1>2. DeclOf(ref) \in DataNamed(model, ref)
  BY <1>1 DEF DeclOf
<1> QED
  BY <1>1, <1>2 DEF DataNamed, DataDecls, At

(* Array types whose base is one of the data types. *)
Derived == {p \in DataDecls : /\ At(p).rep = "array" /\ At(p).of # <<>> /\ At(p).of[1].pkg # 0}

BaseOf == [p \in Derived |-> DeclOf(At(p).of[1])]

LEMMA FirstFacts ==
  ASSUME NEW s, IsSequence(s), s # <<>>
  PROVE  1 \in DOMAIN s
<1>1. DOMAIN s # {} /\ Len(s) \in Nat
  BY NotEmpty DEF IsSequence
<1> QED
  BY <1>1 DEF IsSequence

LEMMA DerivedFacts ==
  ASSUME Legal
  PROVE  /\ Derived \in SUBSET DataDecls /\ BaseOf \in [Derived -> DataDecls]
         /\ \A p \in DataDecls : At(p).of # <<>> => LegalRef(model, At(p).of[1])
         /\ ChainsEnd(Derived, BaseOf)
<1>1. ASSUME NEW p \in DataDecls, At(p).of # <<>>
      PROVE  LegalRef(model, At(p).of[1])
  BY <1>1, PlaceFacts, FirstFacts DEF LegalData, LegalRefs
<1>2. ASSUME NEW p \in Derived
      PROVE  BaseOf[p] \in DataDecls /\ BaseOf[p] \in DataNamed(model, At(p).of[1])
  BY <1>1, <1>2, RefFacts DEF Derived, BaseOf
<1>3. ASSUME NEW S \in SUBSET Derived, S # {}
      PROVE  \E p \in S : BaseOf[p] \notin S
  <2> DEFINE of(p) == model[p[1]].decls[p[2]].of
  <2>1. S \in SUBSET {p \in DataOf(model) : model[p[1]].decls[p[2]].rep = "array"} /\ S # {}
    BY <1>3 DEF Derived, DataDecls, At
  <2>2. PICK p \in S : \/ of(p) = <<>> \/ of(p)[1].pkg = 0
                       \/ DataNamed(model, of(p)[1]) \cap S = {}
    BY <2>1 DEF Legal, LegalTypes
  <2>3. p \in Derived /\ of(p) = At(p).of
    BY DEF At
  <2>4. DataNamed(model, At(p).of[1]) \cap S = {}
    BY <2>2, <2>3 DEF Derived
  <2> QED
    BY <1>2, <2>3, <2>4
<1> QED
  BY <1>1, <1>2, <1>3 DEF Derived, BaseOf, ChainsEnd

(* The first of its name, if composite or a struct of C the only one. *)
FirstOfName(p) ==
  /\ Lower[At(p).n] \notin DOMAIN BaseTypes
  /\ IF At(p).rep \in NewKinds \/ ~SameIn(0, Meant[p]) THEN Namesakes(p) = {}
     ELSE \A q \in Namesakes(p) : Before(p, q)
  /\ SameIn(p[1], Meant[p])

(* The recursive definition of Keeps has a solution, so that it is one. *)
LEMMA KeepsFacts ==
  ASSUME Legal
  PROVE  \A p \in DataDecls :
           Keeps[p] <=> /\ FirstOfName(p)
                        /\ At(p).rep = "array" =>
                             HasBase(At(p)) /\ (At(p).of[1].pkg = 0 \/ Keeps[DeclOf(At(p).of[1])])
<1> DEFINE F == [p \in DataDecls |-> [v \in BOOLEAN |-> v /\ FirstOfName(p) /\ HasBase(At(p))]]
           b == [p \in DataDecls |-> FirstOfName(p) /\ (At(p).rep = "array" => HasBase(At(p)))]
           body(f, p) == /\ FirstOfName(p)
                         /\ At(p).rep = "array" =>
                              HasBase(At(p)) /\ (At(p).of[1].pkg = 0 \/ f[DeclOf(At(p).of[1])])
<1>1. F \in [DataDecls -> [BOOLEAN -> BOOLEAN]]
  OBVIOUS
<1>2. b \in [DataDecls -> BOOLEAN]
  OBVIOUS
<1>3. \E f : Solves(f, DataDecls, Derived, BaseOf, BOOLEAN, F, b)
  <2> HIDE DEF F, b
  <2> QED
    BY <1>1, <1>2, DerivedFacts, Recursion
<1>4. PICK f \in [DataDecls -> BOOLEAN] : \A p \in DataDecls :
        f[p] = IF p \in Derived THEN F[p][f[BaseOf[p]]] ELSE b[p]
  BY <1>3 DEF Solves
<1>5. ASSUME NEW p \in DataDecls
      PROVE  f[p] = body(f, p)
  <2>1. CASE p \in Derived
    <3>1. BaseOf[p] = DeclOf(At(p).of[1]) /\ BaseOf[p] \in DataDecls /\ f[BaseOf[p]] \in BOOLEAN
      BY <2>1, DerivedFacts DEF BaseOf
    <3>2. f[p] = F[p][f[BaseOf[p]]]
      BY <1>4, <2>1
    <3> QED
      BY <2>1, <3>1, <3>2 DEF Derived
  <2>2. CASE p \notin Derived
    <3>1. f[p] = b[p]
      BY <1>4, <2>2
    <3> QED
      BY <2>2, <3>1 DEF Derived, HasBase
  <2> QED
    BY <2>1, <2>2
<1>6. f = [p \in DataDecls |-> body(f, p)]
  BY <1>4, <1>5
<1>7. Keeps = CHOOSE g : g = [p \in DataDecls |-> body(g, p)]
  BY DEF Keeps, FirstOfName
<1> HIDE DEF body
<1>8. Keeps = [p \in DataDecls |-> body(Keeps, p)]
  BY <1>6, <1>7, Zenon
<1> QED
  BY <1>8 DEF body

LEMMA BuiltInFacts ==
  ASSUME NEW k, NEW x
  PROVE  /\ BuiltIn(k, << x >>) = Meaning(0, IF x \in Primitive THEN "primitive" ELSE "foreign",
                                         IF x \in Structs THEN k ELSE 0, x)
         /\ IsBuiltIn(<< x >>) <=> x \in Primitive \cup Foreign
<1>1. Len(<< x >>) = 1 /\ << x >>[1] = x
  OBVIOUS
<1> QED
  BY <1>1 DEF BuiltIn, IsBuiltIn

(* What is built in is the same in all modules, but for structs of C. *)
LEMMA PrimitiveFacts ==
  ASSUME NEW k, NEW x \in Primitive
  PROVE  BuiltIn(k, << x >>) = Meaning(0, "primitive", 0, x)
BY BuiltInFacts, TypesAssumption

LEMMA BaseFacts ==
  ASSUME NEW n, Lower[n] \in DOMAIN BaseTypes
  PROVE  /\ Base(n) = Meaning(0, "primitive", 0, BaseTypes[Lower[n]])
         /\ BaseTypes[Lower[n]] \in Primitive
         /\ \A k : BuiltIn(k, << BaseTypes[Lower[n]] >>) = Base(n)
<1>1. BaseTypes[Lower[n]] \in Primitive
  BY Zenon DEF Primitive
<1> QED
  BY <1>1, PrimitiveFacts DEF Base

(* The recursive definition of Meant has a solution too. *)
LEMMA MeantFacts ==
  ASSUME Legal
  PROVE  \A p \in DataDecls :
           Meant[p] = IF p \in Derived THEN ArrayOf(Meant[DeclOf(At(p).of[1])])
                      ELSE IF At(p).rep = "array" /\ At(p).of # <<>>
                           THEN ArrayOf(Base(At(p).of[1].n)) ELSE Elementary(p)
<1> DEFINE N == {At(p).n : p \in DataDecls} \cup {At(p).lit : p \in DataDecls} \cup Primitive \cup {""}
           V == [dims : Nat, kind : NewKinds \cup {"primitive", "foreign", "nothing"}, pkg : Nat, n : N]
           F == [p \in DataDecls |-> [v \in V |-> ArrayOf(v)]]
           plain(p) == IF At(p).rep = "array" /\ At(p).of # <<>> THEN ArrayOf(Base(At(p).of[1].n))
                       ELSE Elementary(p)
           b == [p \in DataDecls |-> IF p \in Derived THEN Nothing ELSE plain(p)]
           body(f, p) == IF p \in Derived THEN ArrayOf(f[DeclOf(At(p).of[1])]) ELSE plain(p)
<1>1. F \in [DataDecls -> [V -> V]]
  <2> HIDE DEF N
  <2>1. \A v \in V : ArrayOf(v) \in V
    BY DEF ArrayOf
  <2> HIDE DEF V
  <2> QED
    BY <2>1
<1>2. b \in [DataDecls -> V]
  <2>0. ASSUME NEW x \in N, NEW kind \in NewKinds \cup {"primitive", "foreign", "nothing"}, NEW k \in Nat
        PROVE  Meaning(0, kind, k, x) \in V
    <3> HIDE DEF N
    <3> QED
      BY DEF Meaning
  <2>5. "" \in N /\ \A x \in Primitive : x \in N
    OBVIOUS
  <2> HIDE DEF V
  <2>1. Nothing \in V
    BY <2>0, <2>5 DEF Nothing
  <2>3. ASSUME NEW k \in Nat, NEW x \in N
        PROVE  BuiltIn(k, << x >>) \in V
    <3> HIDE DEF N
    <3>1. (IF x \in Primitive THEN "primitive" ELSE "foreign")
            \in NewKinds \cup {"primitive", "foreign", "nothing"}
      OBVIOUS
    <3>2. (IF x \in Structs THEN k ELSE 0) \in Nat
      OBVIOUS
    <3> QED
      BY <2>0, <3>1, <3>2, BuiltInFacts
  <2>2. ASSUME NEW n, Lower[n] \in DOMAIN BaseTypes
        PROVE  Base(n) \in V /\ ArrayOf(Base(n)) \in V
    <3>1. Base(n) \in V
      BY <2>0, <2>2, <2>5, BaseFacts
    <3> HIDE DEF N
    <3> QED
      BY <3>1 DEF V, ArrayOf
  <2>4. ASSUME NEW p \in DataDecls, p \notin Derived
        PROVE  plain(p) \in V
    <3>1. /\ p[1] \in Nat /\ At(p).n \in N /\ At(p).lit \in N /\ "()" \in N
      BY PlaceFacts DEF Primitive
    <3>2. At(p).rep = "array" /\ At(p).of # <<>> => Lower[At(p).of[1].n] \in DOMAIN BaseTypes
      BY <2>4, DerivedFacts DEF Derived, LegalRef
    <3>3. At(p).rep \in NewKinds => Meaning(0, At(p).rep, p[1], At(p).n) \in V
      BY <2>0, <3>1
    <3> HIDE DEF N
    <3> QED
      BY <2>1, <2>2, <2>3, <3>1, <3>2, <3>3 DEF Elementary
  <2> HIDE DEF V
  <2> QED
    BY <2>1, <2>4
<1>3. \E f : Solves(f, DataDecls, Derived, BaseOf, V, F, b)
  <2> HIDE DEF F, b, V
  <2> QED
    BY <1>1, <1>2, DerivedFacts, Recursion
<1>4. PICK f : Solves(f, DataDecls, Derived, BaseOf, V, F, b)
  BY <1>3
<1> HIDE DEF N
<1>5. ASSUME NEW p \in DataDecls
      PROVE  f[p] = body(f, p)
  <2> HIDE DEF V
  <2>1. CASE p \in Derived
    <3>1. BaseOf[p] = DeclOf(At(p).of[1]) /\ BaseOf[p] \in DataDecls /\ f[BaseOf[p]] \in V
      BY <1>4, <2>1, DerivedFacts DEF BaseOf, Solves
    <3>2. f[p] = F[p][f[BaseOf[p]]]
      BY <1>4, <2>1 DEF Solves
    <3> QED
      BY <2>1, <3>1, <3>2
  <2>2. CASE p \notin Derived
    <3>1. f[p] = b[p]
      BY <1>4, <2>2 DEF Solves
    <3> QED
      BY <2>2, <3>1
  <2> QED
    BY <2>1, <2>2
<1>6. f = [p \in DataDecls |-> body(f, p)]
  BY <1>4, <1>5 DEF Solves
<1> DEFINE code(g, p) ==
      IF At(p).rep = "array" /\ At(p).of # <<>>
      THEN ArrayOf(IF At(p).of[1].pkg = 0 THEN Base(At(p).of[1].n) ELSE g[DeclOf(At(p).of[1])])
      ELSE Elementary(p)
<1>7. Meant = CHOOSE g : g = [p \in DataDecls |-> code(g, p)]
  BY DEF Meant
<1>8. ASSUME NEW g, NEW p \in DataDecls
      PROVE  code(g, p) = body(g, p)
  BY DEF Derived
<1> HIDE DEF body, code
<1>9. f = [p \in DataDecls |-> code(f, p)]
  BY <1>6, <1>8
<1>10. Meant = [p \in DataDecls |-> code(Meant, p)]
  BY <1>7, <1>9, Zenon
<1> QED
  BY <1>8, <1>10 DEF body

LEMMA SameTypes ==
  ASSUME UNCHANGED model
  PROVE  /\ Legal' <=> Legal
         /\ DataDecls' = DataDecls
         /\ \A p : At(p)' = At(p)
         /\ \A ref : DeclOf(ref)' = DeclOf(ref) /\ (LegalRef(model, ref)' <=> LegalRef(model, ref))
         /\ Keeps' = Keeps /\ Meant' = Meant
<1> DEFINE at(m, p) == m[p[1]].decls[p[2]]
           declOf(m, ref) == CHOOSE p \in DataNamed(m, ref) : TRUE
           namesakes(m, p) == {q \in DataOf(m) \ {p} : Lower[at(m, q).n] = Lower[at(m, p).n]}
           elementary(m, p) ==
             CASE at(m, p).rep \in NewKinds -> Meaning(0, at(m, p).rep, p[1], at(m, p).n)
               [] at(m, p).rep = "source" ->
                    IF Lower[at(m, p).lit] \in DOMAIN BaseTypes THEN Base(at(m, p).lit)
                    ELSE BuiltIn(p[1], << at(m, p).lit >>)
               [] at(m, p).rep = "none" -> BuiltIn(0, << "()" >>)
               [] OTHER -> Nothing
           meant(m) == CHOOSE f : f = [p \in DataOf(m) |->
             IF at(m, p).rep = "array" /\ at(m, p).of # <<>>
             THEN ArrayOf(IF at(m, p).of[1].pkg = 0 THEN Base(at(m, p).of[1].n)
                          ELSE f[declOf(m, at(m, p).of[1])])
             ELSE elementary(m, p)]
           keeps(m) == CHOOSE f : f = [p \in DataOf(m) |->
             /\ Lower[at(m, p).n] \notin DOMAIN BaseTypes
             /\ IF at(m, p).rep \in NewKinds \/ ~SameIn(0, meant(m)[p]) THEN namesakes(m, p) = {}
                ELSE \A q \in namesakes(m, p) : Before(p, q)
             /\ SameIn(p[1], meant(m)[p])
             /\ at(m, p).rep = "array" =>
                  HasBase(at(m, p)) /\ (at(m, p).of[1].pkg = 0 \/ f[declOf(m, at(m, p).of[1])])]
<1>3. Meant = meant(model)
  BY DEF Meant, At, DataDecls, Elementary, DeclOf
<1>4. Meant' = meant(model')
  BY DEF Meant, At, DataDecls, Elementary, DeclOf
<1> HIDE DEF meant
<1>1. Keeps = keeps(model)
  BY <1>3 DEF Keeps, At, DataDecls, Namesakes, DeclOf
<1>2. Keeps' = keeps(model')
  BY <1>4 DEF Keeps, At, DataDecls, Namesakes, DeclOf
<1>5. ASSUME NEW ref
      PROVE  DeclOf(ref) = declOf(model, ref) /\ DeclOf(ref)' = declOf(model', ref)
  BY DEF DeclOf
<1> HIDE DEF keeps, meant, declOf
<1>6. \A ref : DeclOf(ref)' = DeclOf(ref) /\ (LegalRef(model, ref)' <=> LegalRef(model, ref))
  BY <1>5
<1> QED
  BY <1>1, <1>2, <1>3, <1>4, <1>6 DEF Legal, DataDecls, At

(* Rust types. *)
IsType(t) == IsSequence(t) /\ Len(t) # 0 /\ t[1] \notin NewKinds

Stands(t, meaning) == IsBuiltIn(t) /\ \E k \in Nat \ {0} : BuiltIn(k, t) = meaning

LEMMA StandsFacts ==
  ASSUME NEW t, NEW meaning, Stands(t, meaning), NEW k, SameIn(k, meaning)
  PROVE  BuiltIn(k, t) = meaning
<1>1. PICK j \in Nat \ {0} : BuiltIn(j, t) = meaning
  BY DEF Stands
<1>2. CASE t[Len(t)] \notin Structs
  BY <1>1, <1>2 DEF BuiltIn
<1>3. CASE t[Len(t)] \in Structs
  <2>1. meaning.kind = "foreign" /\ meaning.pkg = j
    BY <1>1, <1>3, TypesAssumption DEF BuiltIn, Meaning
  <2> QED
    BY <1>1, <2>1 DEF SameIn
<1> QED
  BY <1>2, <1>3

(* A base type is one, and a type of C or Rust in its own module. *)
LEMMA StandsHere ==
  ASSUME NEW x \in Primitive \cup Foreign, NEW k \in Nat
  PROVE  k # 0 \/ x \in Primitive => Stands(<< x >>, BuiltIn(k, << x >>))
<1>1. IsBuiltIn(<< x >>)
  BY BuiltInFacts
<1>2. CASE x \in Primitive
  <2>1. BuiltIn(1, << x >>) = BuiltIn(k, << x >>)
    BY <1>2, PrimitiveFacts
  <2> QED
    BY <1>1, <2>1 DEF Stands
<1> QED
  BY <1>1, <1>2 DEF Stands

NameOf(p) == Lower[At(p).n]

(* The types that keep their meaning, by the way they get their items. *)
Aliases == {p \in DataDecls : Keeps[p] /\ At(p).rep \notin NewKinds}

Composed == {p \in DataDecls : Keeps[p] /\ At(p).rep \in NewKinds}

(* The base types are never redefined, nor is what a literal stands for.   *)
MappingSound ==
  /\ \A b \in DOMAIN BaseTypes : b \in DOMAIN mapping /\ mapping[b] = << BaseTypes[b] >>
  /\ \A n \in DOMAIN mapping : IsType(mapping[n])
  /\ \A p \in DataDecls :
       /\ At(p).rep = "source" /\ Lower[At(p).lit] \notin DOMAIN BaseTypes
       /\ Lower[At(p).lit] \in DOMAIN mapping
       => mapping[Lower[At(p).lit]] = << At(p).lit >>

(* A name stands for the first type that has it, from then on. *)
NamesSound ==
  /\ \A p \in Aliases :
       IF Dealt(p[1], p[2]) THEN NameOf(p) \in DOMAIN mapping /\ Stands(mapping[NameOf(p)], Meant[p])
       ELSE NameOf(p) \notin DOMAIN mapping
  /\ \A p \in Composed : NameOf(p) \notin DOMAIN mapping

(* The items of a name are all aliases of its type, or all the type itself. *)
ItemsSound ==
  /\ \A it \in items : it.n # "?"
  /\ \A it \in items :
       /\ \A p \in Aliases : Lower[it.n] = NameOf(p) =>
            it.kind = "alias" /\ Stands(it.types[1], Meant[p]) /\ SameIn(it.pkg, Meant[p])
       /\ \A p \in Composed : Lower[it.n] = NameOf(p) => it.kind = At(p).rep /\ it.pkg = p[1] /\ it.n = At(p).n

ImpliedSound ==
  \A n \in DOMAIN implied :
    /\ \A p \in Aliases : Lower[n] # NameOf(p)
    /\ \A p \in Composed : Lower[n] = NameOf(p) => implied[n] = At(p).rep /\ n = At(p).n

(* A reference has become a base type, what it means, or the name.         *)
Resolved(ref, t) ==
  /\ LegalRef(model, ref)
  /\ IF ref.pkg = 0 THEN t = << BaseTypes[Lower[ref.n]] >>
     ELSE \/ t \in {NoName, << ref.n >>}
          \/ DeclOf(ref) \in Aliases /\ Stands(t, Meant[DeclOf(ref)])
          \/ ~Keeps[DeclOf(ref)]

UsesSound == \A u \in uses : Resolved(u.ref, u.type)

AcceptedSound == status = "accepted" => \A u \in uses : Denotes(u.pkg, u.type) # Nothing

TypesInv ==
  /\ Legal
  /\ MappingSound
  /\ NamesSound
  /\ ItemsSound
  /\ ImpliedSound
  /\ UsesSound
  /\ AcceptedSound

LEMMA ConcatFacts ==
  ASSUME NEW x, NEW t, IsSequence(t), Len(t) # 0
  PROVE  /\ IsSequence(<< x >> \o t) /\ Len(<< x >> \o t) = Len(t) + 1
         /\ (<< x >> \o t)[1] = x /\ (<< x >> \o t)[Len(t) + 1] = t[Len(t)]
         /\ \A k : BuiltIn(k, << x >> \o t) = ArrayOf(BuiltIn(k, t))
         /\ IsBuiltIn(<< x >> \o t) <=> IsBuiltIn(t)
<1> DEFINE S == {t[i] : i \in 1 .. Len(t)} \cup {x}
           s == << x >> \o t
<1>1. t \in Seq(S) /\ << x >> \in Seq(S) /\ Len(t) \in Nat /\ Len(<< x >>) = 1 /\ << x >>[1] = x
  BY SeqDef DEF IsSequence
<1> HIDE DEF S
<1>2. /\ s \in Seq(S) /\ Len(s) = Len(t) + 1 /\ DOMAIN s = 1 .. Len(s)
      /\ \A i \in 1 .. Len(s) : s[i] = IF i <= 1 THEN << x >>[i] ELSE t[i - 1]
  BY <1>1, ConcatProperties, LenProperties
<1>3. s[1] = x /\ s[Len(t) + 1] = t[Len(t)]
  BY <1>1, <1>2
<1>4. s = [i \in 1 .. Len(s) |-> s[i]]
  BY <1>1, <1>2
<1> HIDE DEF s
<1>5. IsSequence(s)
  BY <1>1, <1>2, <1>4 DEF IsSequence
<1>6. (\A k : BuiltIn(k, s) = ArrayOf(BuiltIn(k, t))) /\ (IsBuiltIn(s) <=> IsBuiltIn(t))
  BY <1>1, <1>2, <1>3 DEF BuiltIn, ArrayOf, IsBuiltIn, Meaning
<1> QED
  BY <1>2, <1>3, <1>5, <1>6 DEF s

LEMMA SingleFacts ==
  ASSUME NEW x, x \notin NewKinds
  PROVE  IsType(<< x >>)
<1>1. << x >> \in [1 .. 1 -> {x}] /\ Len(<< x >>) = 1 /\ << x >>[1] = x
  OBVIOUS
<1>2. {<< x >>[i] : i \in 1 .. 1} = {x}
  BY <1>1
<1> QED
  BY <1>1, <1>2 DEF IsType, IsSequence

LEMMA NotKinds ==
  \A x \in Primitive \cup Foreign : x \notin NewKinds
<1>1. \A x \in Primitive : x \notin NewKinds
  BY DEF Primitive, BaseTypes, NewKinds, Composites
<1> QED
  BY <1>1, TypesAssumption

Here == << pkg, pos + 1 >>

LEMMA HereFacts ==
  ASSUME TypeOK, Legal, Current("data")
  PROVE  /\ Here \in DataDecls /\ At(Here) = Decl /\ NameOf(Here) = Lower[Decl.n]
         /\ Here[1] = pkg /\ Here[2] = pos + 1 /\ ~Dealt(pkg, pos + 1)
         /\ \A p \in Aliases : NameOf(p) = Lower[Decl.n] => p = Here \/ Dealt(p[1], p[2])
         /\ \A p \in Composed : NameOf(p) = Lower[Decl.n] => p = Here
<1>1. /\ pkg \in Packages /\ pkg \in Nat /\ pos \in Nat /\ pos + 1 \in DOMAIN model[pkg].decls
      /\ Decl = model[pkg].decls[pos + 1] /\ Decl.k = "data" /\ ~Dealt(pkg, pos + 1)
  BY CurrentFacts DEF DeclAt
<1>2. Here \in DataDecls /\ At(Here) = Decl
  BY <1>1, PlacesOf DEF Here
<1>3. Here[1] = pkg /\ Here[2] = pos + 1
  BY DEF Here
<1>4. ASSUME NEW p \in DataDecls, Keeps[p], NameOf(p) = Lower[Decl.n], p # Here
      PROVE  /\ At(p).rep \notin NewKinds
             /\ Dealt(p[1], p[2])
  <2>1. FirstOfName(p)
    BY <1>4, KeepsFacts
  <2>2. Here \in Namesakes(p)
    BY <1>2, <1>4 DEF Namesakes, NameOf
  <2>3. At(p).rep \notin NewKinds /\ Before(p, Here)
    BY <2>1, <2>2 DEF FirstOfName
  <2>4. /\ p[1] \in Packages /\ p[2] \in DOMAIN model[p[1]].decls /\ p[1] \in Nat /\ p[2] \in Nat
    BY PlaceFacts
  <2> QED
    BY <1>1, <1>3, <2>3, <2>4 DEF Before, Dealt
<1> QED
  BY <1>1, <1>2, <1>3, <1>4 DEF Aliases, Composed, NameOf

LEMMA ResolveFacts ==
  ASSUME MappingSound, NEW n
  PROVE  IsSequence(Resolve(n)) /\ Len(Resolve(n)) # 0
<1>1. IsSequence(<< n >>) /\ Len(<< n >>) # 0
  <2>1. << n >> \in [1 .. 1 -> {n}] /\ Len(<< n >>) = 1 /\ << n >>[1] = n
    OBVIOUS
  <2>2. {<< n >>[i] : i \in 1 .. 1} = {n}
    BY <2>1
  <2> QED
    BY <2>1, <2>2 DEF IsSequence
<1>2. Mapped(n) => IsType(mapping[Lower[n]])
  BY DEF Mapped, MappingSound
<1> QED
  BY <1>1, <1>2 DEF Resolve, IsType

(* Composite types and enums are new types, if their names are new. *)
LEMMA TypeFacts ==
  ASSUME TypeOK, Legal, MappingSound, Current("data")
  PROVE  /\ NewType <=> ~Mapped(Decl.n) /\ Decl.rep \in NewKinds
         /\ ~NewType => IsType(TypeOf(Decl))
<1>1. LegalData(model, Decl)
  BY HereFacts, PlaceFacts
<1>2. CASE Mapped(Decl.n)
  <2>1. TypeOf(Decl) = mapping[Lower[Decl.n]] /\ IsType(TypeOf(Decl))
    BY <1>2 DEF TypeOf, Mapped, MappingSound
  <2> QED
    BY <1>2, <2>1 DEF NewType, IsType
<1>3. CASE ~Mapped(Decl.n) /\ Decl.rep \in NewKinds
  <2>1. TypeOf(Decl) = << Decl.rep >>
    BY <1>3 DEF TypeOf, NewKinds, Composites
  <2> QED
    BY <1>3, <2>1 DEF NewType
<1>4. CASE ~Mapped(Decl.n) /\ Decl.rep \notin NewKinds
  <2>1. IsType(TypeOf(Decl))
    <3>1. CASE Decl.rep = "source"
      <4>1. TypeOf(Decl) = Resolve(Decl.lit)
        BY <1>4, <3>1 DEF TypeOf
      <4>2. CASE Mapped(Decl.lit)
        BY <4>1, <4>2 DEF Resolve, Mapped, MappingSound
      <4>3. CASE ~Mapped(Decl.lit)
        <5>1. Decl.lit \in Primitive \cup Foreign
          BY <1>1, <3>1, <4>3 DEF LegalData, Mapped, MappingSound
        <5> QED
          BY <4>1, <4>3, <5>1, NotKinds, SingleFacts DEF Resolve
      <4> QED
        BY <4>2, <4>3
    <3>2. CASE Decl.rep = "array"
      <4> DEFINE t == IF HasBase(Decl) THEN Resolve(Decl.of[1].n) ELSE << "i32" >>
      <4>1. TypeOf(Decl) = << "[]" >> \o t
        BY <1>4, <3>2 DEF TypeOf
      <4>2. "i32" \notin NewKinds /\ "[]" \notin NewKinds
        BY DEF NewKinds, Composites
      <4>3. IsSequence(t) /\ Len(t) # 0
        BY <4>2, ResolveFacts, SingleFacts DEF IsType
      <4> HIDE DEF t
      <4>4. Len(t) \in Nat
        BY <4>3 DEF IsSequence
      <4> QED
        BY <4>1, <4>2, <4>3, <4>4, ConcatFacts DEF IsType
    <3>3. CASE Decl.rep = "none"
      <4>1. TypeOf(Decl) = << "()" >>
        BY <1>4, <3>3 DEF TypeOf
      <4> QED
        BY <4>1, SingleFacts DEF NewKinds, Composites
    <3> QED
      BY <1>1, <1>4, <3>1, <3>2, <3>3 DEF LegalData
  <2> QED
    BY <1>4, <2>1 DEF NewType, IsType
<1> QED
  BY <1>2, <1>3, <1>4

(* The first type of a name becomes what it means. *)
LEMMA AliasFacts ==
  ASSUME TypeOK, TypesInv, ConvertAlias, Here \in Aliases
  PROVE  ~Mapped(Decl.n) /\ Stands(TypeOf(Decl), Meant[Here])
<1>1. /\ Current("data") /\ Legal /\ MappingSound /\ NamesSound /\ LegalData(model, Decl)
      /\ At(Here) = Decl /\ Here \in DataDecls /\ Decl.rep \notin NewKinds
  BY HereFacts, PlaceFacts DEF ConvertAlias, TypesInv, Aliases
<1>2. ~Mapped(Decl.n)
  BY <1>1, HereFacts DEF NamesSound, Mapped
<1>3. CASE Decl.rep = "source"
  <2>1. TypeOf(Decl) = Resolve(Decl.lit) /\ Here \notin Derived
    BY <1>1, <1>2, <1>3 DEF TypeOf, Derived
  <2>2. Meant[Here] = IF Lower[Decl.lit] \in DOMAIN BaseTypes THEN Base(Decl.lit)
                      ELSE BuiltIn(pkg, << Decl.lit >>)
    BY <1>1, <1>3, <2>1, MeantFacts DEF Elementary, Here
  <2>3. CASE Lower[Decl.lit] \in DOMAIN BaseTypes
    <3>1. Resolve(Decl.lit) = << BaseTypes[Lower[Decl.lit]] >>
      BY <1>1, <2>3 DEF Resolve, Mapped, MappingSound
    <3> QED
      BY <1>2, <2>1, <2>2, <2>3, <3>1, BaseFacts, StandsHere DEF Base
  <2>4. CASE Lower[Decl.lit] \notin DOMAIN BaseTypes
    <3>1. Resolve(Decl.lit) = << Decl.lit >>
      BY <1>1, <1>3, <2>4 DEF Resolve, Mapped, MappingSound
    <3>2. Decl.lit \in Primitive \cup Foreign
      BY <1>1, <1>3, <2>4 DEF LegalData
    <3>3. pkg \in Nat \ {0}
      BY <1>1, PlaceFacts DEF Here
    <3> QED
      BY <1>2, <2>1, <2>2, <2>4, <3>1, <3>2, <3>3, StandsHere
  <2> QED
    BY <2>3, <2>4
<1>4. CASE Decl.rep = "array"
  <2> DEFINE e == Decl.of[1]
  <2>1. HasBase(Decl) /\ (e.pkg = 0 \/ Keeps[DeclOf(e)])
    BY <1>1, <1>4, KeepsFacts DEF Aliases
  <2>2. Decl.of # <<>> /\ LegalRef(model, e) /\ ~BaseUnknown(Decl) /\ Mapped(e.n)
    BY <1>1, <1>2, <1>4, <2>1, DerivedFacts DEF HasBase, ConvertAlias, BaseUnknown
  <2>3. TypeOf(Decl) = << "[]" >> \o mapping[Lower[e.n]]
    BY <1>2, <1>4, <2>1, <2>2 DEF TypeOf, Resolve
  <2>4. IsType(mapping[Lower[e.n]])
    BY <1>1, <2>2 DEF Mapped, MappingSound
  <2>5. Meant[Here] = ArrayOf(IF e.pkg = 0 THEN Base(e.n) ELSE Meant[DeclOf(e)])
    BY <1>1, <1>4, <2>2, MeantFacts DEF Derived
  <2>6. Stands(mapping[Lower[e.n]], IF e.pkg = 0 THEN Base(e.n) ELSE Meant[DeclOf(e)])
    <3>1. CASE e.pkg = 0
      <4>1. Lower[e.n] \in DOMAIN BaseTypes
        BY <2>2, <3>1 DEF LegalRef
      <4>2. mapping[Lower[e.n]] = << BaseTypes[Lower[e.n]] >>
        BY <1>1, <4>1 DEF MappingSound
      <4> QED
        BY <3>1, <4>1, <4>2, BaseFacts, StandsHere DEF Base
    <3>2. CASE e.pkg # 0
      <4>1. /\ DeclOf(e) \in DataDecls /\ Keeps[DeclOf(e)]
            /\ NameOf(DeclOf(e)) = Lower[e.n] /\ Lower[e.n] \in DOMAIN mapping
        BY <1>1, <2>1, <2>2, <3>2, RefFacts DEF NameOf, Mapped
      <4>2. DeclOf(e) \in Aliases
        BY <1>1, <4>1 DEF NamesSound, Aliases, Composed
      <4> QED
        BY <1>1, <3>2, <4>1, <4>2 DEF NamesSound
    <3> QED
      BY <3>1, <3>2
  <2> HIDE DEF e
  <2> DEFINE m == IF e.pkg = 0 THEN Base(e.n) ELSE Meant[DeclOf(e)]
             t == mapping[Lower[e.n]]
  <2>7. PICK k \in Nat \ {0} : IsBuiltIn(t) /\ BuiltIn(k, t) = m
    BY <2>6 DEF Stands
  <2>8. IsSequence(t) /\ Len(t) # 0
    BY <2>4 DEF IsType
  <2> HIDE DEF m, t
  <2>9. IsBuiltIn(<< "[]" >> \o t) /\ BuiltIn(k, << "[]" >> \o t) = ArrayOf(m)
    BY <2>7, <2>8, ConcatFacts
  <2>10. Stands(<< "[]" >> \o t, ArrayOf(m))
    BY <2>9 DEF Stands
  <2> QED
    BY <1>2, <2>3, <2>5, <2>10 DEF m, t
<1>5. CASE Decl.rep = "none"
  <2>1. TypeOf(Decl) = << "()" >> /\ Here \notin Derived /\ Decl.rep # "array"
    BY <1>1, <1>2, <1>5 DEF TypeOf, Derived
  <2>2. Meant[Here] = BuiltIn(0, << "()" >>)
    BY <1>1, <1>5, <2>1, MeantFacts DEF Elementary
  <2>3. "()" \in Primitive
    BY DEF Primitive
  <2> QED
    BY <1>2, <2>1, <2>2, <2>3, StandsHere
<1> QED
  BY <1>1, <1>2, <1>3, <1>4, <1>5 DEF LegalData

(* Of data types, each step does one of these. *)
LEMMA DataSteps ==
  ASSUME TypeOK, [ConverterNext]_<<vars, dvars>>
  PROVE  /\ UNCHANGED model
         /\ \/ ConvertComposite /\ Current("data")
            \/ ConvertAlias /\ Current("data")
            \/ ConvertDataImpl /\ Current("dataimpl")
            \/ ConvertSubprogram /\ Current("subprogram")
            \/ ConvertPort /\ Current("port")
            \/ UNCHANGED dvars
<1>1. UNCHANGED model
  BY StepKinds, TypeStep
<1> QED
  BY <1>1 DEF ConverterNext, ConvertComposite, ConvertAlias, ConvertDataImpl, ConvertSubprogram,
              ConvertPort, ConvertProcess, PanicOnBase, BuildAll, vars

(* A data type is dealt with when it is converted. *)
LEMMA DataDealt ==
  ASSUME TypeOK, Legal, [ConverterNext]_<<vars, dvars>>, NEW p \in DataDecls
  PROVE  /\ Dealt(p[1], p[2]) => Dealt(p[1], p[2])'
         /\ Dealt(p[1], p[2])' /\ ~Dealt(p[1], p[2]) => p = Here /\ (ConvertAlias \/ ConvertComposite)
         /\ ConvertAlias /\ p = Here => Dealt(p[1], p[2])'
<1>1. Step /\ UNCHANGED model
  BY StepKinds, TypeStep
<1>2. p = << p[1], p[2] >> /\ DeclAt(p[1], p[2]).k = "data"
  BY PlaceFacts
<1>3. ASSUME Dealt(p[1], p[2])', ~Dealt(p[1], p[2])
      PROVE  p = Here /\ (ConvertAlias \/ ConvertComposite)
  <2>1. p[1] = pkg /\ p[2] = pos + 1 /\ Decl.k = "data"
    BY <1>1, <1>2, <1>3, DealtStep
  <2>2. \A kind : Current(kind) => kind = "data"
    BY <2>1 DEF Current, Decl
  <2>3. ~EndPackage
    BY <1>3, EndFacts
  <2>4. ~(UNCHANGED << pkg, pos >>)
    BY <1>1, <1>3 DEF Dealt, Packages
  <2>5. ConvertAlias \/ ConvertComposite
    BY <2>2, <2>3, <2>4 DEF ConverterNext, ConvertCpu, ConvertType, ConvertImpl, Generate, AssignId,
         ConvertSystem, Done, PanicOnBase, ConvertDataImpl, ConvertSubprogram, ConvertPort,
         ConvertProcess, BuildAll, BuildIf, vars
  <2> QED
    BY <1>2, <2>1, <2>5 DEF Here
<1>4. ASSUME ConvertAlias, p = Here
      PROVE  Dealt(p[1], p[2])'
  <2>1. Current("data") /\ pos' = pos + 1 /\ UNCHANGED << model, pkg >>
    BY <1>4 DEF ConvertAlias, Passed
  <2> QED
    BY <1>4, <2>1, Advance DEF Here
<1> QED
  BY <1>1, <1>3, <1>4, DealtStep

(* What a name stands for, it stands for for ever. *)
LEMMA MappingGrows ==
  ASSUME TypeOK, [ConverterNext]_<<vars, dvars>>
  PROVE  \/ UNCHANGED mapping
         \/ /\ ConvertAlias /\ Current("data") /\ ~Mapped(Decl.n)
            /\ DOMAIN mapping' = DOMAIN mapping \cup {Lower[Decl.n]}
            /\ mapping'[Lower[Decl.n]] = TypeOf(Decl)
            /\ \A n \in DOMAIN mapping : mapping'[n] = mapping[n]
<1>1. CASE ConvertAlias /\ Current("data")
  <2>1. mapping' = Remember(Decl)
    BY <1>1 DEF ConvertAlias
  <2>2. CASE Mapped(Decl.n)
    BY <2>1, <2>2 DEF Remember
  <2>3. CASE ~Mapped(Decl.n)
    <3>1. mapping' = Put(mapping, Lower[Decl.n], TypeOf(Decl)) /\ Lower[Decl.n] \notin DOMAIN mapping
      BY <2>1, <2>3 DEF Remember, Mapped
    <3> QED
      BY <1>1, <2>3, <3>1 DEF Put
  <2> QED
    BY <2>2, <2>3
<1>2. CASE ~ConvertAlias
  BY <1>2, DataSteps DEF ConvertComposite, RememberComposite, ConvertDataImpl, ConvertSubprogram,
                         ConvertPort, dvars
<1> QED
  BY <1>1, <1>2 DEF ConvertAlias

LEMMA MappingStep ==
  ASSUME TypeOK, TypesInv, [ConverterNext]_<<vars, dvars>>
  PROVE  MappingSound'
<1>1. /\ Legal /\ MappingSound /\ UNCHANGED model /\ DataDecls' = DataDecls /\ \A p : At(p)' = At(p)
  BY DataSteps, SameTypes DEF TypesInv
<1>2. CASE UNCHANGED mapping
  BY <1>1, <1>2 DEF MappingSound
<1>3. CASE /\ ConvertAlias /\ Current("data") /\ ~Mapped(Decl.n)
           /\ DOMAIN mapping' = DOMAIN mapping \cup {Lower[Decl.n]}
           /\ mapping'[Lower[Decl.n]] = TypeOf(Decl)
           /\ \A n \in DOMAIN mapping : mapping'[n] = mapping[n]
  <2>1. IsType(TypeOf(Decl))
    BY <1>1, <1>3, TypeFacts DEF ConvertAlias
  <2>2. \A n \in DOMAIN mapping' : IsType(mapping'[n])
    BY <1>1, <1>3, <2>1 DEF MappingSound
  <2>3. ASSUME NEW p \in DataDecls, At(p).rep = "source", Lower[At(p).lit] \notin DOMAIN BaseTypes,
               Lower[At(p).lit] = Lower[Decl.n]
        PROVE  TypeOf(Decl) = << At(p).lit >>
    <3>1. LegalData(model, At(p)) /\ Here \in DataDecls /\ At(Here) = Decl
      BY <1>1, <1>3, PlaceFacts, HereFacts
    <3>2. Decl.rep = "source" /\ Decl.lit = At(p).lit
      BY <2>3, <3>1 DEF LegalData, DataDecls, At
    <3> QED
      BY <1>3, <2>3, <3>2 DEF TypeOf, Resolve, Mapped
  <2> QED
    BY <1>1, <1>3, <2>2, <2>3 DEF MappingSound
<1> QED
  BY <1>2, <1>3, MappingGrows

LEMMA NamesStep ==
  ASSUME TypeOK, TypesInv, [ConverterNext]_<<vars, dvars>>
  PROVE  NamesSound'
<1>1. /\ Legal /\ MappingSound /\ NamesSound /\ UNCHANGED model
      /\ DataDecls' = DataDecls /\ Keeps' = Keeps /\ Meant' = Meant /\ \A p : At(p)' = At(p)
  BY DataSteps, SameTypes DEF TypesInv
<1>2. Aliases' = Aliases /\ Composed' = Composed /\ \A p : NameOf(p)' = NameOf(p)
  BY <1>1 DEF Aliases, Composed, NameOf
<1>3. \A n \in DOMAIN mapping : n \in DOMAIN mapping' /\ mapping'[n] = mapping[n]
  BY MappingGrows
<1>4. ASSUME NEW p \in Composed
      PROVE  NameOf(p) \notin DOMAIN mapping'
  <2>1. NameOf(p) \notin DOMAIN mapping
    BY <1>1 DEF NamesSound
  <2>2. ASSUME ConvertAlias, ~Mapped(Decl.n), Current("data"), NameOf(p) = Lower[Decl.n]
        PROVE  FALSE
    <3>1. p = Here /\ At(Here) = Decl
      BY <1>1, <2>2, HereFacts
    <3>2. NewType
      BY <1>1, <2>2, <3>1, TypeFacts DEF Composed
    <3> QED
      BY <2>2, <3>2 DEF ConvertAlias
  <2> QED
    BY <2>1, <2>2, MappingGrows
<1>5. ASSUME NEW p \in Aliases
      PROVE  IF Dealt(p[1], p[2])' THEN NameOf(p) \in DOMAIN mapping' /\ Stands(mapping'[NameOf(p)], Meant[p])
             ELSE NameOf(p) \notin DOMAIN mapping'
  <2> USE DEF Aliases
  <2>1. CASE Dealt(p[1], p[2])
    BY <1>1, <1>3, <2>1, DataDealt DEF NamesSound
  <2>2. CASE ~Dealt(p[1], p[2]) /\ Dealt(p[1], p[2])'
    <3>1. p = Here /\ (ConvertAlias \/ ConvertComposite)
      BY <1>1, <2>2, DataDealt
    <3>2. Current("data")
      BY <3>1 DEF ConvertAlias, ConvertComposite
    <3>3. At(Here) = Decl /\ NameOf(Here) = Lower[Decl.n]
      BY <1>1, <3>2, HereFacts
    <3>4. ConvertAlias
      BY <1>1, <3>1, <3>2, <3>3, TypeFacts DEF ConvertComposite
    <3>5. ~Mapped(Decl.n) /\ Stands(TypeOf(Decl), Meant[p])
      BY <3>1, <3>4, AliasFacts
    <3>6. mapping' = Put(mapping, NameOf(p), TypeOf(Decl))
      BY <3>1, <3>3, <3>4, <3>5 DEF ConvertAlias, Remember
    <3> QED
      BY <2>2, <3>5, <3>6 DEF Put
  <2>3. CASE ~Dealt(p[1], p[2])'
    <3>1. ~Dealt(p[1], p[2])
      BY <1>1, <2>3, DataDealt
    <3>2. NameOf(p) \notin DOMAIN mapping
      BY <1>1, <3>1 DEF NamesSound
    <3>3. ~(ConvertAlias /\ Current("data") /\ NameOf(p) = Lower[Decl.n])
      BY <1>1, <2>3, <3>1, DataDealt, HereFacts
    <3> QED
      BY <2>3, <3>2, <3>3, MappingGrows
  <2> QED
    BY <2>1, <2>2, <2>3
<1> QED
  BY <1>1, <1>2, <1>4, <1>5 DEF NamesSound, Stands

LEMMA SameNames ==
  ASSUME TypeOK, Legal, [ConverterNext]_<<vars, dvars>>
  PROVE  /\ Legal' /\ Aliases' = Aliases /\ Composed' = Composed
         /\ \A p : NameOf(p)' = NameOf(p) /\ At(p)' = At(p)
         /\ Keeps' = Keeps /\ Meant' = Meant
         /\ \A ref : DeclOf(ref)' = DeclOf(ref) /\ (LegalRef(model, ref)' <=> LegalRef(model, ref))
BY DataSteps, SameTypes DEF Aliases, Composed, NameOf

(* A new composite type is the only one of its name, if it keeps it. *)
LEMMA CompositeFacts ==
  ASSUME TypeOK, TypesInv, Current("data"), NewType
  PROVE  /\ \A p \in Aliases : Lower[Decl.n] # NameOf(p)
         /\ \A p \in Composed : Lower[Decl.n] = NameOf(p) =>
              Decl.rep = At(p).rep /\ pkg = p[1] /\ Decl.n = At(p).n
<1>1. Legal /\ MappingSound /\ NamesSound /\ ~Mapped(Decl.n) /\ Decl.rep \in NewKinds
  BY TypeFacts DEF TypesInv
<1>2. ASSUME NEW p \in Aliases, Lower[Decl.n] = NameOf(p)
      PROVE  FALSE
  <2>1. p # Here /\ Dealt(p[1], p[2])
    BY <1>1, <1>2, HereFacts DEF Aliases
  <2> QED
    BY <1>1, <1>2, <2>1 DEF NamesSound, Mapped
<1>3. ASSUME NEW p \in Composed, Lower[Decl.n] = NameOf(p)
      PROVE  Decl.rep = At(p).rep /\ pkg = p[1] /\ Decl.n = At(p).n
  BY <1>1, <1>3, HereFacts
<1> QED
  BY <1>2, <1>3

LEMMA ImpliedStep ==
  ASSUME TypeOK, TypesInv, [ConverterNext]_<<vars, dvars>>
  PROVE  ImpliedSound'
<1>1. Legal /\ ImpliedSound
  BY DEF TypesInv
<1>2. \/ UNCHANGED implied
      \/ /\ Current("data") /\ NewType /\ DOMAIN implied' = DOMAIN implied \cup {Decl.n}
         /\ implied'[Decl.n] = Decl.rep
         /\ \A n \in DOMAIN implied \ {Decl.n} : implied'[n] = implied[n]
  <2>1. CASE ConvertComposite
    <3>1. Current("data") /\ NewType /\ implied' \in {implied, Put(implied, Decl.n, Decl.rep)}
      BY <2>1 DEF ConvertComposite
    <3> QED
      BY <3>1 DEF Put
  <2> QED
    BY <2>1, DataSteps DEF ConvertAlias, ConvertDataImpl, ConvertSubprogram, ConvertPort, dvars
<1> QED
  BY <1>1, <1>2, SameNames, CompositeFacts DEF ImpliedSound

LEMMA ItemsStep ==
  ASSUME TypeOK, TypesInv, [ConverterNext]_<<vars, dvars>>
  PROVE  ItemsSound'
<1> DEFINE Fits(it) ==
      /\ it.n # "?"
      /\ \A p \in Aliases : Lower[it.n] = NameOf(p) =>
           it.kind = "alias" /\ Stands(it.types[1], Meant[p]) /\ SameIn(it.pkg, Meant[p])
      /\ \A p \in Composed : Lower[it.n] = NameOf(p) => it.kind = At(p).rep /\ it.pkg = p[1] /\ it.n = At(p).n
<1>1. /\ Legal /\ ItemsSound /\ ImpliedSound /\ MappingSound /\ NamesSound
      /\ \A it \in items : Fits(it)
  BY DEF TypesInv, ItemsSound
<1>2. CASE ConvertComposite
  <2>1. Current("data") /\ NewType
    BY <1>2 DEF ConvertComposite
  <2>2. PICK types : items' \subseteq items \cup {Item(Decl.n, Decl.rep, types)}
    BY <1>2 DEF ConvertComposite
  <2>3. Decl.n # "?"
    BY <1>1, <2>1, HereFacts, PlaceFacts
  <2>4. Fits(Item(Decl.n, Decl.rep, types))
    BY <2>1, <2>3, CompositeFacts DEF Item
  <2> QED
    BY <1>1, <2>2, <2>4, SameNames DEF ItemsSound, Stands
<1>3. CASE ConvertAlias
  <2>1. Current("data") /\ ~NewType /\ items' = items \cup {Item(Decl.n, "alias", << TypeOf(Decl) >>)}
    BY <1>3 DEF ConvertAlias
  <2>2. Here \in DataDecls /\ At(Here) = Decl /\ Decl.n # "?"
    BY <1>1, <2>1, HereFacts, PlaceFacts
  <2>3. ASSUME NEW p \in Aliases, Lower[Decl.n] = NameOf(p)
        PROVE  Stands(TypeOf(Decl), Meant[p]) /\ SameIn(pkg, Meant[p])
    <3>0. FirstOfName(p)
      BY <1>1, <2>3, KeepsFacts DEF Aliases
    <3>1. CASE p = Here
      BY <1>3, <2>3, <3>0, <3>1, AliasFacts DEF FirstOfName, Here
    <3>2. CASE p # Here
      <4>0. Here \in Namesakes(p)
        BY <2>2, <2>3, <3>2 DEF Namesakes, NameOf
      <4>3. SameIn(pkg, Meant[p])
        BY <3>0, <4>0 DEF FirstOfName, SameIn
      <4>1. Dealt(p[1], p[2])
        BY <1>1, <2>1, <2>3, <3>2, HereFacts
      <4>2. Mapped(Decl.n) /\ Stands(mapping[Lower[Decl.n]], Meant[p])
        BY <1>1, <2>3, <4>1 DEF NamesSound, Mapped
      <4> QED
        BY <4>2, <4>3 DEF TypeOf
    <3> QED
      BY <3>1, <3>2
  <2>4. ASSUME NEW p \in Composed, Lower[Decl.n] = NameOf(p)
        PROVE  FALSE
    <3>1. p = Here /\ ~Mapped(Decl.n)
      BY <1>1, <2>1, <2>4, HereFacts DEF NamesSound, Mapped
    <3> QED
      BY <1>1, <2>1, <2>2, <2>4, <3>1, TypeFacts DEF Composed
  <2>5. Fits(Item(Decl.n, "alias", << TypeOf(Decl) >>))
    BY <2>2, <2>3, <2>4 DEF Item
  <2> QED
    BY <1>1, <2>1, <2>5, SameNames DEF ItemsSound, Stands
<1>4. CASE ConvertDataImpl /\ Current("dataimpl")
  <2>1. \/ UNCHANGED items
        \/ /\ Decl.n \in DOMAIN implied
           /\ \E types : items' = items \cup {Item(Decl.n, implied[Decl.n], types)}
    BY <1>4 DEF ConvertDataImpl
  <2>2. CASE UNCHANGED items
    BY <1>1, <2>2, SameNames DEF ItemsSound, Stands
  <2>3. CASE /\ Decl.n \in DOMAIN implied
             /\ \E types : items' = items \cup {Item(Decl.n, implied[Decl.n], types)}
    <3>1. PICK types : items' = items \cup {Item(Decl.n, implied[Decl.n], types)}
      BY <2>3
    <3>2. /\ pkg \in DOMAIN model /\ pos + 1 \in DOMAIN model[pkg].decls
          /\ Decl = model[pkg].decls[pos + 1] /\ Decl.k = "dataimpl"
      BY <1>4, CurrentFacts DEF DeclAt, TypeOK, WellFormed, IsSequence, Packages
    <3>3. Decl.n # "?" /\ DataNamed(model, [pkg |-> pkg, n |-> Decl.n]) # {}
      BY <1>1, <3>2 DEF Legal, LegalTypes
    <3>4. PICK q \in DataDecls : q[1] = pkg /\ NameOf(q) = Lower[Decl.n]
      BY <3>3 DEF DataNamed, DataDecls, NameOf, At
    <3>5. ASSUME NEW p \in Composed, Lower[Decl.n] = NameOf(p)
          PROVE  pkg = p[1]
      <4>1. Namesakes(p) = {}
        BY <1>1, <3>5, KeepsFacts DEF Composed, FirstOfName
      <4> QED
        BY <3>4, <3>5, <4>1 DEF Namesakes, NameOf
    <3>6. Fits(Item(Decl.n, implied[Decl.n], types))
      BY <1>1, <2>3, <3>3, <3>5 DEF Item, ImpliedSound
    <3> QED
      BY <1>1, <3>1, <3>6, SameNames DEF ItemsSound, Stands
  <2> QED
    BY <2>1, <2>2, <2>3
<1>5. CASE UNCHANGED items
  BY <1>1, <1>5, SameNames DEF ItemsSound, Stands
<1> QED
  BY <1>2, <1>3, <1>4, <1>5, DataSteps DEF ConvertSubprogram, ConvertPort, dvars

(* What a reference becomes, whenever it does. *)
LEMMA ResolvedFacts ==
  ASSUME TypeOK, TypesInv, NEW ref, LegalRef(model, ref)
  PROVE  Resolved(ref, Resolve(ref.n)) /\ (ref.pkg # 0 => Resolved(ref, NoName))
<1>1. Legal /\ MappingSound /\ NamesSound
  BY DEF TypesInv
<1>2. CASE ref.pkg = 0
  BY <1>1, <1>2 DEF LegalRef, Resolved, Resolve, Mapped, MappingSound
<1>3. CASE ref.pkg # 0
  <2>1. DeclOf(ref) \in DataDecls /\ NameOf(DeclOf(ref)) = Lower[ref.n]
    BY <1>1, <1>3, RefFacts DEF NameOf
  <2>2. CASE DeclOf(ref) \in Aliases /\ Mapped(ref.n)
    BY <1>1, <1>3, <2>1, <2>2 DEF Resolved, Resolve, Mapped, NamesSound
  <2>3. CASE DeclOf(ref) \in Composed
    BY <1>1, <1>3, <2>1, <2>3 DEF Resolved, Resolve, Mapped, NamesSound
  <2> QED
    BY <1>3, <2>1, <2>2, <2>3 DEF Resolved, Resolve, Aliases, Composed
<1> QED
  BY <1>2, <1>3

(* The references of a declaration under way are legal. *)
LEMMA DeclLegal ==
  ASSUME TypeOK, Legal, NEW kind, Current(kind)
  PROVE  /\ kind = "data" => LegalRefs(model, Decl.of)
         /\ kind = "dataimpl" => LegalRefs(model, Decl.subs)
         /\ kind = "port" => LegalRef(model, Decl.ref)
         /\ kind = "subprogram" => \A x \in DOMAIN Decl.params : LegalRef(model, Decl.params[x].ref)
<1>1. /\ pkg \in DOMAIN model /\ pos + 1 \in DOMAIN model[pkg].decls
      /\ Decl = model[pkg].decls[pos + 1] /\ Decl.k = kind
  BY CurrentFacts DEF DeclAt, TypeOK, WellFormed, IsSequence, Packages
<1> QED
  BY <1>1 DEF Legal, LegalTypes, LegalData

LEMMA UsesStep ==
  ASSUME TypeOK, TypesInv, [ConverterNext]_<<vars, dvars>>
  PROVE  UsesSound'
<1>1. Legal /\ UsesSound
  BY DEF TypesInv
<1>2. \A ref, t : Resolved(ref, t)' <=> Resolved(ref, t)
  BY <1>1, SameNames DEF Resolved, Stands, NoName
<1>3. ASSUME NEW ref, LegalRef(model, ref)
      PROVE  Resolved(ref, Resolve(ref.n)) /\ Resolved(ref, ElementType(ref)) /\ Resolved(ref, PortType(ref))
  <2>1. ref.pkg = 0 => ref.i = "" /\ ~NamesImpl(ref)
    BY <1>3, TypesAssumption DEF LegalRef, NamesImpl
  <2>2. Resolved(ref, Resolve(ref.n)) /\ (ref.pkg # 0 => Resolved(ref, NoName))
    BY <1>3, ResolvedFacts
  <2> QED
    BY <2>1, <2>2 DEF ElementType, PortType
<1>4. ASSUME \A u \in uses' \ uses : Resolved(u.ref, u.type)
      PROVE  UsesSound'
  BY <1>1, <1>2, <1>4 DEF UsesSound
<1>5. CASE ConvertComposite /\ Current("data")
  <2> DEFINE types == [x \in DOMAIN Decl.of |-> ElementType(Decl.of[x])]
  <2>1. uses' = uses \cup Uses(Decl.of, types)
    BY <1>5 DEF ConvertComposite
  <2>2. \A x \in DOMAIN Decl.of : Resolved(Decl.of[x], types[x])
    BY <1>1, <1>3, <1>5, DeclLegal DEF LegalRefs
  <2> HIDE DEF types
  <2> QED
    BY <1>4, <2>1, <2>2 DEF Uses, Use
<1>6. CASE ConvertDataImpl /\ Current("dataimpl")
  <2>1. uses' \subseteq uses \cup Uses(Decl.subs, SubTypes(Decl))
    BY <1>6 DEF ConvertDataImpl
  <2>2. \A x \in DOMAIN Decl.subs : Resolved(Decl.subs[x], SubTypes(Decl)[x])
    BY <1>1, <1>3, <1>6, DeclLegal DEF LegalRefs, SubTypes
  <2> QED
    BY <1>4, <2>1, <2>2 DEF Uses, Use
<1>7. CASE ConvertSubprogram /\ Current("subprogram")
  <2>1. \A u \in uses' \ uses : \E x \in DOMAIN Decl.params :
          u.ref = Decl.params[x].ref /\ u.type = PortType(Decl.params[x].ref)
    BY <1>7 DEF ConvertSubprogram, Use
  <2>2. \A x \in DOMAIN Decl.params : Resolved(Decl.params[x].ref, PortType(Decl.params[x].ref))
    BY <1>1, <1>3, <1>7, DeclLegal
  <2> QED
    BY <1>4, <2>1, <2>2
<1>8. CASE ConvertPort /\ Current("port")
  <2>1. uses' = uses \cup {Use(Decl.ref, PortType(Decl.ref), FALSE)}
    BY <1>8 DEF ConvertPort
  <2>2. Resolved(Decl.ref, PortType(Decl.ref))
    BY <1>1, <1>3, <1>8, DeclLegal
  <2> QED
    BY <1>4, <2>1, <2>2 DEF Use
<1>9. CASE UNCHANGED uses
  BY <1>4, <1>9
<1> QED
  BY <1>5, <1>6, <1>7, <1>8, <1>9, DataSteps DEF ConvertAlias, dvars

LEMMA AcceptedStep ==
  ASSUME TypeOK, TypesInv, [ConverterNext]_<<vars, dvars>>
  PROVE  AcceptedSound'
<1>1. UNCHANGED model /\ AcceptedSound
  BY DataSteps DEF TypesInv
<1>2. CASE UNCHANGED dvars
  <2>1. \A k, t : Denotes(k, t)' = Denotes(k, t)
    <3>1. items' = items /\ uses' = uses
      BY <1>2 DEF dvars
    <3>2. \A n : With(n)' = With(n)
      BY <3>1 DEF With
    <3>3. \A k, n : InScope(k, With(n))' = InScope(k, With(n))
      BY <1>1, <3>2 DEF InScope
    <3>4. \A k, n : ItemOf(k, n)' = ItemOf(k, n)
      BY <3>1, <3>2, <1>1, Zenon DEF ItemOf, InScope
    <3>5. \A k, t : AsItem(k, t)' = AsItem(k, t)
      BY DEF AsItem
    <3> QED
      BY <3>3, <3>4, <3>5, <3>2 DEF Denotes
  <2>2. status' = "accepted" => status = "accepted" \/ DataCompile
    BY DEF ConverterNext, ConvertCpu, ConvertType, ConvertImpl, Generate, AssignId, ConvertSystem,
           EndPackage, Done, PanicOnBase, ConvertComposite, ConvertAlias, ConvertDataImpl,
           ConvertSubprogram, ConvertPort, ConvertProcess, Passed, BuildAll, BuildIf, vars
  <2>3. DataCompile => \A u \in uses : Denotes(u.pkg, u.type) # Nothing
    BY DEF DataCompile, ItemsCompile
  <2> QED
    BY <1>1, <1>2, <2>1, <2>2, <2>3 DEF AcceptedSound, dvars, Nothing
<1>3. CASE ~UNCHANGED dvars
  <2>1. status' # "accepted"
    BY <1>3, DataSteps DEF ConvertComposite, ConvertAlias, ConvertDataImpl, ConvertSubprogram,
                           ConvertPort, Passed, Current
  <2> QED
    BY <2>1 DEF AcceptedSound
<1> QED
  BY <1>2, <1>3

LEMMA TypesInit == ConverterInit => TypesInv
<1> SUFFICES ASSUME ConverterInit
             PROVE  TypesInv
  OBVIOUS
<1>1. Legal
  BY ModelsAssumption, TypesAssumption DEF ConverterInit, Init, Legal
<1>2. /\ TypeOK /\ mapping = [b \in DOMAIN BaseTypes |-> << BaseTypes[b] >>]
      /\ DOMAIN implied = {} /\ items = {} /\ uses = {} /\ status = "converting"
  BY InitIInv DEF ConverterInit, Init, IInv
<1>3. MappingSound
  <2>1. \A b \in DOMAIN BaseTypes : IsType(<< BaseTypes[b] >>)
    <3>1. \A b \in DOMAIN BaseTypes : BaseTypes[b] \in Primitive
      BY Zenon DEF Primitive
    <3> QED
      BY <3>1, NotKinds, SingleFacts
  <2> QED
    BY <1>2, <2>1, Zenon DEF MappingSound
<1>4. NamesSound
  <2>1. ASSUME NEW p \in DataDecls, Keeps[p]
        PROVE  NameOf(p) \notin DOMAIN mapping /\ ~Dealt(p[1], p[2])
    <3>1. NameOf(p) \notin DOMAIN BaseTypes
      BY <1>1, <2>1, KeepsFacts DEF FirstOfName, NameOf
    <3>2. p[1] \in Nat \ {0} /\ p[2] \in Nat \ {0}
      BY <1>1, PlaceFacts
    <3>3. pkg = 1 /\ pos = 0
      BY DEF ConverterInit, Init
    <3> QED
      BY <1>2, <3>1, <3>2, <3>3 DEF Dealt
  <2> QED
    BY <2>1 DEF NamesSound, Aliases, Composed
<1> QED
  BY <1>1, <1>2, <1>3, <1>4 DEF TypesInv, ItemsSound, ImpliedSound, UsesSound, AcceptedSound

(* At every step of the conversion, type_mappings and the items generated   *)
(* so far agree with the model, and so does what determine_data_type and    *)
(* classifier_to_type have made of each reference.                         *)
THEOREM TypesInvariant == ConverterSpec => []TypesInv
<1>1. ConverterInit => TypesInv
  BY TypesInit
<1>2. TypeOK /\ TypesInv /\ [ConverterNext]_<<vars, dvars>> => TypesInv'
  <2> SUFFICES ASSUME TypeOK, TypesInv, [ConverterNext]_<<vars, dvars>>
               PROVE  TypesInv'
    OBVIOUS
  <2>1. Legal'
    BY SameNames DEF TypesInv
  <2> QED
    BY <2>1, MappingStep, NamesStep, ItemsStep, ImpliedStep, UsesStep, AcceptedStep DEF TypesInv
<1>3. IInv => TypeOK
  BY DEF IInv
<1> QED
  BY <1>1, <1>2, <1>3, InvariantHolds, PTL DEF ConverterSpec

(* Where the generated program compiles, a port, field, element or         *)
(* parameter has the Rust type that the model declares for it, although     *)
(* type_mappings forgets packages and depends on their order: for base      *)
(* types, and for all types that keep their meaning.                       *)
THEOREM MeaningsKept == ConverterSpec => []MeansAsDeclared
<1>1. TypesInv => MeansAsDeclared
  <2> SUFFICES ASSUME TypesInv, status = "accepted", NEW u \in uses,
                      u.ref.pkg = 0 \/ Keeps[DeclOf(u.ref)],
                      SameIn(u.pkg, Declared(u.ref))
               PROVE  Denotes(u.pkg, u.type) = Declared(u.ref)
    BY DEF MeansAsDeclared
  <2> DEFINE ref == u.ref
             p == DeclOf(ref)
  <2>1. /\ Legal /\ ItemsSound /\ Resolved(ref, u.type) /\ Denotes(u.pkg, u.type) # Nothing
        /\ LegalRef(model, ref)
    BY DEF TypesInv, UsesSound, AcceptedSound, Resolved
  <2>2. ASSUME NEW meaning, Stands(u.type, meaning), meaning = Declared(u.ref)
        PROVE  Denotes(u.pkg, u.type) = meaning
    <3>1. IsBuiltIn(u.type)
      BY <2>2 DEF Stands
    <3>2. BuiltIn(u.pkg, u.type) = meaning
      BY <2>2, StandsFacts
    <3> QED
      BY <3>1, <3>2 DEF Denotes
  <2>3. CASE ref.pkg = 0
    <3>1. Lower[ref.n] \in DOMAIN BaseTypes /\ u.type = << BaseTypes[Lower[ref.n]] >>
      BY <2>1, <2>3 DEF LegalRef, Resolved
    <3>2. Stands(u.type, Base(ref.n))
      BY <3>1, BaseFacts, StandsHere DEF Base
    <3> QED
      BY <2>2, <2>3, <3>2 DEF Declared
  <2>4. CASE ref.pkg # 0 /\ p \in Aliases /\ Stands(u.type, Meant[p])
    BY <2>2, <2>4 DEF Declared
  <2>5. CASE ref.pkg # 0 /\ u.type \in {NoName, << ref.n >>}
    <3> DEFINE n == u.type[1]
               scope == InScope(u.pkg, With(n))
               it == ItemOf(u.pkg, n)
    <3>1. Len(u.type) = 1 /\ n \in {"?", ref.n} /\ u.type = << n >>
      BY <2>5 DEF NoName
    <3>2. ~IsBuiltIn(u.type)
      <4>1. ref.n \notin Primitive \cup Foreign
        BY <2>1, <2>5, RefFacts
      <4>2. "?" \notin Primitive \cup Foreign
        BY TypesAssumption DEF Primitive, BaseTypes
      <4> QED
        BY <3>1, <4>1, <4>2, BuiltInFacts
    <3>3. Cardinality(scope) = 1 /\ Denotes(u.pkg, u.type) = AsItem(it, u.type)
      BY <2>1, <3>1, <3>2 DEF Denotes
    <3>4. \E jt \in items : jt.n = n /\ jt.pkg \in scope
      <4>1. scope # {}
        BY <3>3, FS_EmptySet
      <4> QED
        BY <4>1 DEF InScope, With
    <3>5. it \in items /\ it.n = n
      BY <3>4 DEF ItemOf
    <3> HIDE DEF it, scope
    <3>6. n = ref.n /\ p \in DataDecls /\ Keeps[p] /\ Lower[it.n] = NameOf(p)
      BY <2>1, <2>5, <3>1, <3>5, RefFacts DEF ItemsSound, NameOf
    <3>7. CASE At(p).rep \in NewKinds
      <4>1. it.kind = At(p).rep /\ it.pkg = p[1] /\ it.n = At(p).n
        BY <2>1, <3>5, <3>6, <3>7 DEF ItemsSound, Composed
      <4>2. Denotes(u.pkg, u.type) = Meaning(0, At(p).rep, p[1], At(p).n)
        BY <3>1, <3>3, <3>5, <3>7, <4>1 DEF NewKinds, Composites, AsItem
      <4>3. Meant[p] = Elementary(p)
        BY <2>1, <3>6, <3>7, MeantFacts DEF Derived, NewKinds, Composites
      <4> QED
        BY <2>5, <3>7, <4>2, <4>3 DEF Declared, Elementary, NewKinds, Composites
    <3>8. CASE At(p).rep \notin NewKinds
      <4>0. it.kind = "alias" /\ Stands(it.types[1], Meant[p]) /\ SameIn(it.pkg, Meant[p])
        BY <2>1, <3>5, <3>6, <3>8 DEF ItemsSound, Aliases
      <4>1. IsBuiltIn(it.types[1]) /\ BuiltIn(it.pkg, it.types[1]) = Meant[p]
        BY <4>0, StandsFacts DEF Stands
      <4>2. AsItem(it, u.type) = [BuiltIn(it.pkg, it.types[1]) EXCEPT !.dims = @ + 0]
        BY <3>1, <4>0, <4>1 DEF AsItem
      <4>3. [BuiltIn(it.pkg, it.types[1]) EXCEPT !.dims = @ + 0] = BuiltIn(it.pkg, it.types[1])
        BY DEF BuiltIn, Meaning
      <4> QED
        BY <2>5, <3>3, <4>1, <4>2, <4>3 DEF Declared
    <3> QED
      BY <3>7, <3>8
  <2> QED
    BY <2>1, <2>3, <2>4, <2>5 DEF Resolved
<1> QED
  BY <1>1, TypesInvariant, PTL

-----------------------------------------------------------------------------
(* What TypesInv leaves out: under TypesComplete, that each name, item,    *)
(* impl block and wrapper is there once its declaration is dealt with, and *)
(* what it has been made from (Whole).                                     *)

(* Types that wait for their implementation, the place at which a type gets *)
(* its item, and the elements of the item.                                 *)
Waits(p) == At(p).rep \in Composites /\ At(p).of = <<>>

HomeOf(p) == IF Waits(p) THEN CHOOSE y \in DataImpls(p[1], At(p).n) : TRUE ELSE p[2]

Written(p) == Dealt(p[1], HomeOf(p))

Elements(p) == IF Waits(p) THEN DeclAt(p[1], HomeOf(p)).subs ELSE At(p).of

(* What a reference of package k may have become: what its name stands for, *)
(* but for a package to come, or the name, but for one that is done.        *)
Became(k, ref, t) ==
  IF ref.pkg = 0 THEN t = << BaseTypes[Lower[ref.n]] >>
  ELSE \/ t = << ref.n >> /\ (ref.pkg < k => At(DeclOf(ref)).rep \in NewKinds)
       \/ Lower[ref.n] \in DOMAIN mapping /\ t = mapping[Lower[ref.n]] /\ ref.pkg <= k

AllBecame(k, refs, types) ==
  DOMAIN types = DOMAIN refs /\ \A x \in DOMAIN refs : Became(k, refs[x], types[x])

(* Names stand for something built in, arrays for arrays, and what is not   *)
(* meant to be of C for something primitive.                                *)
Settled(p, t) ==
  /\ IsBuiltIn(t)
  /\ At(p).rep = "array" => Len(t) # 1
  /\ Meant[p].kind # "foreign" => t[Len(t)] \in Primitive

NamesWhole ==
  \A p \in DataDecls :
    IF At(p).rep \in NewKinds \/ ~Dealt(p[1], p[2]) THEN NameOf(p) \notin DOMAIN mapping
    ELSE NameOf(p) \in DOMAIN mapping /\ Settled(p, mapping[NameOf(p)])

(* The types that have waited are those of which kinds are remembered. *)
ImpliedWhole ==
  /\ \A n \in DOMAIN implied : \E p \in DataDecls : Waits(p) /\ At(p).n = n /\ implied[n] = At(p).rep
  /\ \A p \in DataDecls : Waits(p) /\ Dealt(p[1], p[2]) => At(p).n \in DOMAIN implied

IsItemOf(it, p) ==
  /\ it.pkg = p[1] /\ it.n = At(p).n
  /\ IF At(p).rep \in NewKinds THEN it.kind = At(p).rep /\ AllBecame(p[1], Elements(p), it.types)
     ELSE /\ it.kind = "alias"
          /\ NameOf(p) \in DOMAIN mapping /\ it.types = << mapping[NameOf(p)] >>

(* The items are those of the types dealt with, one for each. *)
ItemsWhole ==
  /\ \A it \in items : \E p \in DataDecls : Written(p) /\ IsItemOf(it, p)
  /\ \A p \in DataDecls : Written(p) => \E it \in items : IsItemOf(it, p)
  /\ \A it, jt \in items : it.n = jt.n => it = jt

Of(kind, k, x) == Dealt(k, x) /\ DeclAt(k, x).k = kind

SharedIn(k, n) ==
  \E d \in Decls(k) : d.k = "process" /\ \E x \in DOMAIN d.holds : d.holds[x].n = n

IsImplOf(m, k, y) ==
  /\ m.pkg = k /\ m.n = DeclAt(k, y).n /\ m.calls = DeclAt(k, y).calls
  /\ AllBecame(k, DeclAt(k, y).subs, m.types)
  /\ m.shared <=> /\ ~(DeclAt(k, y).subs = <<>> /\ DeclAt(k, y).calls = {})
                  /\ SharedIn(k, DeclAt(k, y).n)

(* So are the impl blocks, whose fields are those of the struct. *)
ImplsWhole ==
  /\ \A m \in impls : \E y : Of("dataimpl", m.pkg, y) /\ IsImplOf(m, m.pkg, y)
  /\ \A k, y : Of("dataimpl", k, y) => \E m \in impls : IsImplOf(m, k, y)
  /\ \A p \in DataDecls : Waits(p) =>
       \A m \in impls : \A it \in items :
         m.pkg = p[1] /\ m.n = At(p).n /\ it.n = At(p).n => it.types = m.types

(* The implementations of package k that an access to n.Impl reads. *)
Reads(k, n) ==
  {y \in DOMAIN model[k].decls : Held(DeclAt(k, y)) # <<>> /\ DeclAt(k, y).n \in Begins[n]}

Plain(ref) == Declared(ref).dims = 0 /\ Declared(ref) # Nothing

CallSound(k, n, call) ==
  \A y \in DOMAIN model[k].decls :
    Reads(k, n) = {y} /\ (\A x \in DOMAIN Held(DeclAt(k, y)) : Plain(Held(DeclAt(k, y))[x])) =>
      AllBecame(k, Held(DeclAt(k, y)), call) /\ \A x \in DOMAIN call : Len(call[x]) = 1

IsWrapperOf(w, k, x) ==
  LET d == DeclAt(k, x)
  IN  /\ w.pkg = k /\ w.n = d.n /\ w.dirs = [y \in DOMAIN d.params |-> d.params[y].dir]
      /\ d.access # <<>> /\ NamesImpl(d.access[1]) => CallSound(k, d.access[1].n, w.call)

(* And the modules of subprograms. *)
WrappersWhole ==
  /\ \A w \in wrappers : \E x : Of("subprogram", w.pkg, x) /\ IsWrapperOf(w, w.pkg, x)
  /\ \A k, x : Of("subprogram", k, x) => \E w \in wrappers : IsWrapperOf(w, k, x)

IsParameter(k, ref) ==
  \E d \in Decls(k) : d.k = "subprogram" /\ \E x \in DOMAIN d.params : d.params[x].ref = ref

UsesWhole ==
  \A u \in uses :
    /\ u.pkg \in Packages /\ u.ref \in References(u.pkg) /\ Became(u.pkg, u.ref, u.type)
    /\ u.wrapped => IsParameter(u.pkg, u.ref)

Whole ==
  /\ status # "panicked"
  /\ NamesWhole /\ ImpliedWhole /\ ItemsWhole /\ ImplsWhole /\ WrappersWhole /\ UsesWhole

TypesWhole == TypesComplete => Whole

IsMeaning(v) == \E dims \in Nat : \E kind, k, n : v = Meaning(dims, kind, k, n)

(* Meanings have a number of dimensions. *)
LEMMA MeaningFacts ==
  /\ \A v : IsMeaning(v) => /\ v.dims \in Nat
                            /\ IsMeaning(ArrayOf(v)) /\ ArrayOf(v).dims = v.dims + 1
                            /\ ArrayOf(v).kind = v.kind
  /\ \A k, x : IsMeaning(BuiltIn(k, << x >>)) /\ BuiltIn(k, << x >>).dims = 0
  /\ \A n : Lower[n] \in DOMAIN BaseTypes => IsMeaning(Base(n)) /\ Base(n).dims = 0
  /\ IsMeaning(Nothing) /\ Nothing.dims = 0
<1>1. ASSUME NEW v, IsMeaning(v)
      PROVE  /\ v.dims \in Nat
             /\ IsMeaning(ArrayOf(v)) /\ ArrayOf(v).dims = v.dims + 1
             /\ ArrayOf(v).kind = v.kind
  <2>1. PICK dims \in Nat : \E kind, k, n : v = Meaning(dims, kind, k, n)
    BY <1>1 DEF IsMeaning
  <2>2. PICK kind, k, n : v = Meaning(dims, kind, k, n)
    BY <2>1
  <2>3. v.dims = dims /\ ArrayOf(v) = Meaning(dims + 1, kind, k, n)
    BY <2>2 DEF Meaning, ArrayOf
  <2>4. ArrayOf(v).dims = dims + 1 /\ dims + 1 \in Nat /\ ArrayOf(v).kind = v.kind
    BY <2>2, <2>3 DEF Meaning
  <2> QED
    BY <2>3, <2>4 DEF IsMeaning
<1>2. ASSUME NEW kind, NEW k, NEW n
      PROVE  IsMeaning(Meaning(0, kind, k, n)) /\ Meaning(0, kind, k, n).dims = 0
  <2>1. IsMeaning(Meaning(0, kind, k, n))
    BY DEF IsMeaning
  <2> QED
    BY <2>1 DEF Meaning
<1>3. ASSUME NEW k, NEW x
      PROVE  IsMeaning(BuiltIn(k, << x >>)) /\ BuiltIn(k, << x >>).dims = 0
  BY <1>2, BuiltInFacts
<1>4. ASSUME NEW n, Lower[n] \in DOMAIN BaseTypes
      PROVE  IsMeaning(Base(n)) /\ Base(n).dims = 0
  BY <1>2, <1>4, BaseFacts
<1> QED
  BY <1>1, <1>2, <1>3, <1>4 DEF Nothing

(* An array has dimensions, if it means anything: by the chain of its bases. *)
LEMMA MeantDims ==
  ASSUME Legal
  PROVE  \A p \in DataDecls :
           /\ IsMeaning(Meant[p])
           /\ At(p).rep = "array" /\ Meant[p].dims = 0 => Meant[p] = Nothing
<1>1. /\ Derived \in SUBSET DataDecls /\ BaseOf \in [Derived -> DataDecls]
      /\ ChainsEnd(Derived, BaseOf)
  BY DerivedFacts
<1>2. ASSUME NEW p \in DataDecls, p \notin Derived
      PROVE  /\ IsMeaning(Meant[p])
             /\ At(p).rep = "array" /\ Meant[p].dims = 0 => Meant[p] = Nothing
  <2>1. CASE At(p).rep = "array" /\ At(p).of # <<>>
    <3>1. At(p).of[1].pkg = 0 /\ Lower[At(p).of[1].n] \in DOMAIN BaseTypes
      BY <1>2, <2>1, DerivedFacts DEF Derived, LegalRef
    <3>2. IsMeaning(Base(At(p).of[1].n)) /\ Base(At(p).of[1].n).dims = 0
      BY <3>1, MeaningFacts
    <3>3. IsMeaning(ArrayOf(Base(At(p).of[1].n))) /\ ArrayOf(Base(At(p).of[1].n)).dims = 0 + 1
      BY <3>2, MeaningFacts
    <3>4. Meant[p] = ArrayOf(Base(At(p).of[1].n))
      BY <1>2, <2>1, MeantFacts
    <3> QED
      BY <3>3, <3>4
  <2>2. CASE ~(At(p).rep = "array" /\ At(p).of # <<>>)
    <3>1. Meant[p] = Elementary(p)
      BY <1>2, <2>2, MeantFacts
    <3>2. At(p).rep \in NewKinds \cup {"source", "none", "array"}
      BY PlaceFacts DEF LegalData
    <3>3. "array" \notin NewKinds /\ "source" \notin NewKinds /\ "none" \notin NewKinds
      BY DEF NewKinds, Composites
    <3>4. At(p).rep = "array" => Elementary(p) = Nothing
      BY <3>3 DEF Elementary
    <3>5. CASE At(p).rep \in NewKinds
      BY <3>1, <3>3, <3>5 DEF Elementary, IsMeaning
    <3>6. CASE At(p).rep = "source"
      <4>1. Elementary(p) = IF Lower[At(p).lit] \in DOMAIN BaseTypes THEN Base(At(p).lit)
                            ELSE BuiltIn(p[1], << At(p).lit >>)
        BY <3>3, <3>6 DEF Elementary
      <4> QED
        BY <3>1, <3>6, <4>1, MeaningFacts
    <3>7. CASE At(p).rep = "none"
      <4>1. Elementary(p) = BuiltIn(0, << "()" >>)
        BY <3>3, <3>7 DEF Elementary
      <4> QED
        BY <3>1, <3>7, <4>1, MeaningFacts
    <3>8. CASE At(p).rep = "array"
      BY <3>1, <3>4, <3>8, MeaningFacts
    <3> QED
      BY <3>2, <3>5, <3>6, <3>7, <3>8
  <2> QED
    BY <2>1, <2>2
<1>3. ASSUME NEW p \in Derived, IsMeaning(Meant[BaseOf[p]])
      PROVE  IsMeaning(Meant[p]) /\ Meant[p].dims # 0
  <2>1. p \in DataDecls /\ BaseOf[p] = DeclOf(At(p).of[1]) /\ BaseOf[p] \in DataDecls
    BY <1>1 DEF BaseOf
  <2>2. Meant[p] = ArrayOf(Meant[BaseOf[p]])
    BY <2>1, MeantFacts
  <2>3. /\ IsMeaning(ArrayOf(Meant[BaseOf[p]])) /\ Meant[BaseOf[p]].dims \in Nat
        /\ ArrayOf(Meant[BaseOf[p]]).dims = Meant[BaseOf[p]].dims + 1
    BY <1>3, MeaningFacts
  <2> QED
    BY <2>2, <2>3
<1> DEFINE S == {p \in DataDecls : ~IsMeaning(Meant[p])}
<1>4. S = {}
  <2>1. S \in SUBSET Derived
    BY <1>2
  <2>2. \A p \in S : BaseOf[p] \in S
    BY <1>1, <1>3, <2>1
  <2> HIDE DEF S
  <2> QED
    BY <1>1, <2>1, <2>2 DEF ChainsEnd
<1>5. \A p \in DataDecls : IsMeaning(Meant[p])
  BY <1>4
<1>6. \A p \in Derived : Meant[p].dims # 0
  BY <1>1, <1>3, <1>5
<1> QED
  BY <1>2, <1>5, <1>6

(* What is no array is what it is in the module of its package. *)
LEMMA OwnMeaning ==
  ASSUME Legal, NEW p \in DataDecls, At(p).rep # "array"
  PROVE  SameIn(p[1], Meant[p])
<1>1. Meant[p] = Elementary(p)
  BY MeantFacts DEF Derived
<1>2. At(p).rep \in NewKinds \cup {"source", "none"}
  BY PlaceFacts DEF LegalData
<1>3. "source" \notin NewKinds /\ "none" \notin NewKinds /\ "foreign" \notin NewKinds
  BY DEF NewKinds, Composites
<1>4. ASSUME NEW k, NEW x
      PROVE  SameIn(k, BuiltIn(k, << x >>))
  BY DEF BuiltIn, SameIn, Meaning
<1>5. CASE At(p).rep \in NewKinds
  BY <1>1, <1>3, <1>5 DEF Elementary, SameIn, Meaning
<1>6. CASE At(p).rep = "source"
  <2>1. Elementary(p) = IF Lower[At(p).lit] \in DOMAIN BaseTypes THEN Base(At(p).lit)
                        ELSE BuiltIn(p[1], << At(p).lit >>)
    BY <1>3, <1>6 DEF Elementary
  <2>2. ASSUME Lower[At(p).lit] \in DOMAIN BaseTypes
        PROVE  Base(At(p).lit).kind = "primitive"
    <3>1. Base(At(p).lit) = Meaning(0, "primitive", 0, BaseTypes[Lower[At(p).lit]])
      BY <2>2, BaseFacts
    <3> QED
      BY <3>1 DEF Meaning
  <2> QED
    BY <1>1, <1>4, <2>1, <2>2 DEF SameIn
<1>7. CASE At(p).rep = "none"
  <2>1. Elementary(p) = BuiltIn(0, << "()" >>)
    BY <1>3, <1>7 DEF Elementary
  <2>2. "()" \in Primitive
    BY DEF Primitive
  <2>3. BuiltIn(0, << "()" >>) = Meaning(0, "primitive", 0, "()")
    BY <2>2, PrimitiveFacts
  <2>4. BuiltIn(0, << "()" >>).kind = "primitive"
    BY <2>3 DEF Meaning
  <2> QED
    BY <1>1, <2>1, <2>4 DEF SameIn
<1> QED
  BY <1>2, <1>5, <1>6, <1>7

(* Where every name is there once, what is no array keeps its meaning.     *)
LEMMA OnceNamed ==
  ASSUME Legal, TypesComplete, NEW p \in DataDecls
  PROVE  /\ \A q \in DataDecls : NameOf(q) = NameOf(p) => q = p
         /\ NameOf(p) \notin DOMAIN BaseTypes
         /\ At(p).rep # "array" => Keeps[p]
<1>1. Namesakes(p) = {} /\ Lower[At(p).n] \notin DOMAIN BaseTypes
  BY DEF TypesComplete
<1>2. At(p).rep # "array" => FirstOfName(p)
  BY <1>1, OwnMeaning DEF FirstOfName
<1> QED
  BY <1>1, <1>2, KeepsFacts DEF NameOf, Namesakes

(* The home of a type is its place, or that of its implementation.         *)
LEMMA HomeFacts ==
  ASSUME Legal, TypesComplete, NEW p \in DataDecls
  PROVE  /\ HomeOf(p) \in DOMAIN model[p[1]].decls
         /\ ~Waits(p) => HomeOf(p) = p[2] /\ Elements(p) = At(p).of
         /\ Waits(p) => /\ DataImpls(p[1], At(p).n) = {HomeOf(p)} /\ HomeOf(p) > p[2]
                        /\ DeclAt(p[1], HomeOf(p)).k = "dataimpl"
                        /\ DeclAt(p[1], HomeOf(p)).n = At(p).n
                        /\ DeclAt(p[1], HomeOf(p)).subs # <<>>
                        /\ Elements(p) = DeclAt(p[1], HomeOf(p)).subs
         /\ At(p).rep \in NewKinds =>
              \A x \in DOMAIN At(p).of : At(p).of[x].i = "" /\ ~NamesImpl(At(p).of[x])
<1>1. CASE Waits(p)
  <2>1. PICK y \in DataImpls(p[1], At(p).n) :
          DataImpls(p[1], At(p).n) = {y} /\ y > p[2] /\ model[p[1]].decls[y].subs # <<>>
    BY <1>1 DEF TypesComplete, Waits
  <2>2. HomeOf(p) = y
    BY <1>1, <2>1 DEF HomeOf
  <2>3. y \in DOMAIN model[p[1]].decls /\ DeclAt(p[1], y).k = "dataimpl" /\ DeclAt(p[1], y).n = At(p).n
    BY <2>1 DEF DataImpls, DeclAt
  <2>4. DeclAt(p[1], y).subs # <<>>
    BY <2>1 DEF DeclAt
  <2>5. At(p).rep \in NewKinds =>
          \A x \in DOMAIN At(p).of : At(p).of[x].i = "" /\ ~NamesImpl(At(p).of[x])
    BY DEF TypesComplete
  <2> QED
    BY <1>1, <2>1, <2>2, <2>3, <2>4, <2>5 DEF Elements
<1>2. CASE ~Waits(p)
  <2>1. p[2] \in DOMAIN model[p[1]].decls
    BY PlaceFacts
  <2>2. At(p).rep \in NewKinds =>
          \A x \in DOMAIN At(p).of : At(p).of[x].i = "" /\ ~NamesImpl(At(p).of[x])
    BY DEF TypesComplete
  <2> QED
    BY <1>2, <2>1, <2>2 DEF HomeOf, Elements
<1> QED
  BY <1>1, <1>2

(* All this is said of the model, which never changes. *)
LEMMA SameWhole ==
  ASSUME UNCHANGED model
  PROVE  /\ TypesComplete' <=> TypesComplete
         /\ Packages' = Packages
         /\ \A p : Waits(p)' <=> Waits(p)
         /\ \A p : HomeOf(p)' = HomeOf(p)
         /\ \A p : Elements(p)' = Elements(p)
         /\ \A k, x : DeclAt(k, x)' = DeclAt(k, x)
         /\ \A k : References(k)' = References(k)
         /\ \A k, n : SharedIn(k, n)' <=> SharedIn(k, n)
         /\ \A k, n : Reads(k, n)' = Reads(k, n)
         /\ \A k, ref : IsParameter(k, ref)' <=> IsParameter(k, ref)
         /\ \A ref : Plain(ref)' <=> Plain(ref)
<1>1. /\ DataDecls' = DataDecls /\ \A p : At(p)' = At(p)
      /\ \A ref : DeclOf(ref)' = DeclOf(ref)
      /\ Keeps' = Keeps /\ Meant' = Meant
  BY SameTypes
<1>2. /\ \A k, x : DeclAt(k, x)' = DeclAt(k, x)
      /\ \A k : Decls(k)' = Decls(k)
      /\ \A k, n : DataImpls(k, n)' = DataImpls(k, n)
      /\ \A p : Namesakes(p)' = Namesakes(p)
      /\ Packages' = Packages
  BY <1>1 DEF DeclAt, Decls, DataImpls, Namesakes, Packages
<1>3. \A ref : Declared(ref)' = Declared(ref) /\ (Spelled(ref)' <=> Spelled(ref))
  BY <1>1 DEF Declared, Spelled
<1>4. \A k : References(k)' = References(k)
  BY <1>2 DEF References
<1>5. \A k, n : OneStruct(k, n)' <=> OneStruct(k, n)
  BY <1>2 DEF OneStruct
<1>6. \A k, n : Sharable(k, n)' <=> Sharable(k, n)
  BY <1>2, <1>3, <1>5 DEF Sharable
<1>7. \A k, d, s : Callable(k, d, s)' <=> Callable(k, d, s)
  BY <1>2, <1>3, <1>5 DEF Callable, Held, NamesImpl, Nothing, Meaning
<1>8. \A k, d : Wrappable(k, d)' <=> Wrappable(k, d)
  BY <1>3 DEF Wrappable
<1>9. TypesComplete' <=> TypesComplete
  BY <1>1, <1>2, <1>3, <1>4, <1>6, <1>7, <1>8 DEF TypesComplete, HasBase, NamesImpl
<1>10. \A p : Waits(p)' <=> Waits(p)
  BY <1>1 DEF Waits
<1>11. \A p : HomeOf(p)' = HomeOf(p)
  <2> DEFINE at(m, p) == m[p[1]].decls[p[2]]
             waits(m, p) == at(m, p).rep \in Composites /\ at(m, p).of = <<>>
             implsOf(m, k, n) ==
               {y \in DOMAIN m[k].decls : m[k].decls[y].k = "dataimpl" /\ m[k].decls[y].n = n}
             home(m, p) == IF waits(m, p) THEN CHOOSE y \in implsOf(m, p[1], at(m, p).n) : TRUE ELSE p[2]
  <2>1. \A p : HomeOf(p) = home(model, p)
    BY DEF HomeOf, Waits, DataImpls, At
  <2>2. \A p : HomeOf(p)' = home(model', p)
    BY DEF HomeOf, Waits, DataImpls, At
  <2> HIDE DEF home
  <2> QED
    BY <2>1, <2>2
<1>12. \A p : Elements(p)' = Elements(p)
  BY <1>1, <1>2, <1>10, <1>11 DEF Elements
<1>13. /\ \A k, n : SharedIn(k, n)' <=> SharedIn(k, n)
       /\ \A k, n : Reads(k, n)' = Reads(k, n)
       /\ \A k, ref : IsParameter(k, ref)' <=> IsParameter(k, ref)
       /\ \A ref : Plain(ref)' <=> Plain(ref)
  BY <1>2, <1>3 DEF SharedIn, Reads, Held, IsParameter, Plain, Nothing, Meaning
<1> QED
  BY <1>2, <1>4, <1>9, <1>10, <1>11, <1>12, <1>13

(* Each step deals with a declaration, or changes nothing of data types. *)
LEMMA WholeSteps ==
  ASSUME TypeOK, [ConverterNext]_<<vars, dvars>>
  PROVE  \/ /\ \/ Current("data") /\ (ConvertComposite \/ ConvertAlias)
               \/ Current("dataimpl") /\ ConvertDataImpl
               \/ Current("subprogram") /\ ConvertSubprogram
               \/ Current("port") /\ ConvertPort
            /\ \A k, x : Dealt(k, x)' <=> Dealt(k, x) \/ (k = pkg /\ x = pos + 1)
         \/ /\ UNCHANGED dvars
            /\ \A k, x : DeclAt(k, x).k \in {"data", "dataimpl", "subprogram", "port"} =>
                           (Dealt(k, x)' <=> Dealt(k, x))
<1>1. Step /\ UNCHANGED model
  BY StepKinds, TypeStep
<1>2. CASE ConvertComposite \/ ConvertAlias
  <2>1. Current("data") /\ pos' = pos + 1 /\ UNCHANGED <<model, pkg>>
    BY <1>2 DEF ConvertComposite, ConvertAlias, Passed
  <2> QED
    BY <1>2, <2>1, Advance
<1>3. CASE ConvertDataImpl
  <2>1. Current("dataimpl") /\ pos' = pos + 1 /\ UNCHANGED <<model, pkg>>
    BY <1>3 DEF ConvertDataImpl, Passed
  <2> QED
    BY <1>3, <2>1, Advance
<1>4. CASE ConvertSubprogram
  <2>1. Current("subprogram") /\ pos' = pos + 1 /\ UNCHANGED <<model, pkg>>
    BY <1>4 DEF ConvertSubprogram, Passed
  <2> QED
    BY <1>4, <2>1, Advance
<1>5. CASE ConvertPort
  <2>1. Current("port") /\ pos' = pos + 1 /\ UNCHANGED <<model, pkg>>
    BY <1>5 DEF ConvertPort, Passed
  <2> QED
    BY <1>5, <2>1, Advance
<1>6. CASE UNCHANGED dvars /\ ~(ConvertComposite \/ ConvertAlias \/ ConvertDataImpl
                                  \/ ConvertSubprogram \/ ConvertPort)
  <2> SUFFICES ASSUME NEW k, NEW x, DeclAt(k, x).k \in {"data", "dataimpl", "subprogram", "port"}
               PROVE  Dealt(k, x)' <=> Dealt(k, x)
    BY <1>6
  <2>1. Dealt(k, x) => Dealt(k, x)'
    BY <1>1, DealtStep
  <2>2. ASSUME Dealt(k, x)', ~Dealt(k, x)
        PROVE  FALSE
    <3>1. Decl.k \in {"data", "dataimpl", "subprogram", "port"}
      BY <1>1, <2>2, DealtStep
    <3>2. \A kind : Current(kind) => kind \in {"data", "dataimpl", "subprogram", "port"}
      BY <3>1 DEF Current, Decl
    <3>3. ~EndPackage
      BY <2>2, EndFacts
    <3>4. ~(UNCHANGED <<pkg, pos>>)
      BY <1>1, <2>2 DEF Dealt, Packages
    <3> QED
      BY <1>6, <3>2, <3>3, <3>4
         DEF ConverterNext, ConvertCpu, ConvertType, ConvertImpl, Generate, AssignId, ConvertSystem,
             Done, PanicOnBase, ConvertProcess, BuildAll, BuildIf, vars
  <2> QED
    BY <2>1, <2>2
<1>7. UNCHANGED dvars \/ ConvertComposite \/ ConvertAlias \/ ConvertDataImpl
        \/ ConvertSubprogram \/ ConvertPort
  BY DataSteps
<1> QED
  BY <1>2, <1>3, <1>4, <1>5, <1>6, <1>7

(* The data type under way has a name that stands for nothing yet. *)
LEMMA HereWhole ==
  ASSUME TypeOK, TypesInv, TypesComplete, NamesWhole, Current("data")
  PROVE  /\ Legal /\ MappingSound /\ NamesSound /\ Here \in DataDecls /\ At(Here) = Decl
         /\ LegalData(model, Decl) /\ NameOf(Here) = Lower[Decl.n] /\ Here = <<pkg, pos + 1>>
         /\ ~Mapped(Decl.n) /\ ~Dealt(pkg, pos + 1)
         /\ NewType <=> Decl.rep \in NewKinds
         /\ pkg \in Packages /\ pos + 1 \in DOMAIN model[pkg].decls /\ DeclAt(pkg, pos + 1) = Decl
<1>1. Legal /\ MappingSound /\ NamesSound
  BY DEF TypesInv
<1>2. /\ Here \in DataDecls /\ At(Here) = Decl /\ NameOf(Here) = Lower[Decl.n]
      /\ Here[1] = pkg /\ Here[2] = pos + 1 /\ ~Dealt(pkg, pos + 1)
      /\ pkg \in Packages /\ pos + 1 \in DOMAIN model[pkg].decls /\ DeclAt(pkg, pos + 1) = Decl
  BY <1>1, HereFacts, CurrentFacts
<1>3. ~Mapped(Decl.n)
  BY <1>2 DEF NamesWhole, Mapped
<1>4. LegalData(model, Decl)
  BY <1>1, <1>2, PlaceFacts
<1> QED
  BY <1>1, <1>2, <1>3, <1>4, TypeFacts DEF Here

(* The base of an array is known by then. *)
LEMMA BaseKnown ==
  ASSUME TypeOK, TypesInv, TypesComplete, NamesWhole, Current("data"),
         Decl.rep = "array", HasBase(Decl)
  PROVE  LET e == Decl.of[1]
         IN  /\ ~BaseUnknown(Decl) /\ Mapped(e.n) /\ LegalRef(model, e)
             /\ e.pkg = 0 => mapping[Lower[e.n]] = << BaseTypes[Lower[e.n]] >>
                             /\ Lower[e.n] \in DOMAIN BaseTypes
             /\ e.pkg # 0 => /\ DeclOf(e) \in DataDecls /\ At(DeclOf(e)).rep \notin NewKinds
                             /\ Settled(DeclOf(e), mapping[Lower[e.n]])
<1> DEFINE e == Decl.of[1]
           q == DeclOf(e)
<1>1. /\ Legal /\ MappingSound /\ Here \in DataDecls /\ At(Here) = Decl /\ Here = <<pkg, pos + 1>>
  BY HereWhole
<1>2. e.i = "" /\ (e.pkg # 0 => Before(q, Here) /\ At(q).rep \notin NewKinds)
  BY <1>1 DEF TypesComplete
<1>3. LegalRef(model, e)
  BY <1>1, DerivedFacts DEF HasBase
<1>4. CASE e.pkg = 0
  <2>1. Lower[e.n] \in DOMAIN BaseTypes
    BY <1>3, <1>4 DEF LegalRef
  <2>2. Mapped(e.n) /\ mapping[Lower[e.n]] = << BaseTypes[Lower[e.n]] >>
    BY <1>1, <2>1 DEF MappingSound, Mapped
  <2> QED
    BY <1>2, <1>3, <1>4, <2>1, <2>2 DEF BaseUnknown
<1>5. CASE e.pkg # 0
  <2>1. q \in DataDecls /\ NameOf(q) = Lower[e.n]
    BY <1>1, <1>3, <1>5, RefFacts DEF NameOf
  <2>2. Before(q, Here) /\ At(q).rep \notin NewKinds
    BY <1>2, <1>5
  <2>3. q[1] \in Packages /\ q[2] \in DOMAIN model[q[1]].decls /\ q[1] \in Nat /\ q[2] \in Nat
    BY <1>1, <2>1, PlaceFacts
  <2>4. pkg \in Nat /\ pos \in Nat /\ Here[1] = pkg /\ Here[2] = pos + 1
    BY <1>1, CurrentFacts
  <2>5. Dealt(q[1], q[2])
    BY <2>2, <2>3, <2>4 DEF Before, Dealt
  <2>6. Lower[e.n] \in DOMAIN mapping /\ Settled(q, mapping[Lower[e.n]])
    BY <2>1, <2>2, <2>5 DEF NamesWhole
  <2> QED
    BY <1>2, <1>3, <1>5, <2>1, <2>2, <2>6 DEF BaseUnknown, Mapped
<1> QED
  BY <1>4, <1>5

(* An array type ends as the type of its elements does. *)
LEMMA LastFacts ==
  ASSUME NEW t, IsType(t)
  PROVE  /\ IsBuiltIn(<< "[]" >> \o t) <=> IsBuiltIn(t)
         /\ Len(<< "[]" >> \o t) # 1
         /\ (<< "[]" >> \o t)[Len(<< "[]" >> \o t)] = t[Len(t)]
<1>1. IsSequence(t) /\ Len(t) \in Nat /\ Len(t) # 0
  BY DEF IsType, IsSequence
<1>2. /\ Len(<< "[]" >> \o t) = Len(t) + 1
      /\ (<< "[]" >> \o t)[Len(t) + 1] = t[Len(t)]
      /\ IsBuiltIn(<< "[]" >> \o t) <=> IsBuiltIn(t)
  BY <1>1, ConcatFacts
<1> QED
  BY <1>1, <1>2

(* What stands for something is of its kind. *)
LEMMA StandsKind ==
  ASSUME NEW t, NEW meaning, Stands(t, meaning)
  PROVE  /\ IsBuiltIn(t) /\ meaning.dims = Len(t) - 1 /\ meaning.n = t[Len(t)]
         /\ meaning.kind # "foreign" => t[Len(t)] \in Primitive
<1>1. PICK k \in Nat \ {0} : BuiltIn(k, t) = meaning
  BY DEF Stands
<1> QED
  BY <1>1 DEF Stands, BuiltIn, Meaning

(* What a name comes to stand for is built in. *)
LEMMA SettledHere ==
  ASSUME TypeOK, TypesInv, TypesComplete, NamesWhole, ConvertAlias
  PROVE  Decl.rep \notin NewKinds /\ Settled(Here, TypeOf(Decl))
<1>1. Current("data") /\ ~NewType
  BY DEF ConvertAlias
<1>2. /\ Legal /\ MappingSound /\ NamesSound /\ Here \in DataDecls /\ At(Here) = Decl
      /\ LegalData(model, Decl) /\ ~Mapped(Decl.n) /\ Decl.rep \notin NewKinds
  BY <1>1, HereWhole
<1>3. Keeps[Here] => Stands(TypeOf(Decl), Meant[Here])
  BY <1>2, AliasFacts DEF Aliases
<1>4. CASE Decl.rep # "array"
  <2>1. Keeps[Here]
    BY <1>2, <1>4, OnceNamed
  <2>2. Stands(TypeOf(Decl), Meant[Here])
    BY <1>3, <2>1
  <2> QED
    BY <1>2, <1>4, <2>2, StandsKind DEF Settled
<1>5. CASE Decl.rep = "array" /\ ~HasBase(Decl)
  <2>1. TypeOf(Decl) = << "[]" >> \o << "i32" >>
    BY <1>2, <1>5 DEF TypeOf
  <2>2. "i32" \in Primitive /\ "i32" \notin NewKinds
    BY DEF Primitive, BaseTypes, NewKinds, Composites
  <2>3. IsType(<< "i32" >>) /\ IsBuiltIn(<< "i32" >>) /\ << "i32" >>[Len(<< "i32" >>)] = "i32"
    BY <2>2, SingleFacts, BuiltInFacts
  <2> QED
    BY <1>2, <1>5, <2>1, <2>2, <2>3, LastFacts DEF Settled
<1>6. CASE Decl.rep = "array" /\ HasBase(Decl)
  <2> DEFINE e == Decl.of[1]
             t == mapping[Lower[e.n]]
  <2>1. /\ Mapped(e.n) /\ LegalRef(model, e)
        /\ e.pkg = 0 => t = << BaseTypes[Lower[e.n]] >> /\ Lower[e.n] \in DOMAIN BaseTypes
        /\ e.pkg # 0 => /\ DeclOf(e) \in DataDecls /\ At(DeclOf(e)).rep \notin NewKinds
                        /\ Settled(DeclOf(e), t)
    BY <1>1, <1>6, BaseKnown
  <2>2. TypeOf(Decl) = << "[]" >> \o t /\ IsType(t)
    BY <1>2, <1>6, <2>1 DEF TypeOf, Resolve, Mapped, MappingSound
  <2>3. IsBuiltIn(t) /\ (Meant[Here].kind # "foreign" => t[Len(t)] \in Primitive)
    <3>1. CASE e.pkg = 0
      <4>1. t = << BaseTypes[Lower[e.n]] >> /\ BaseTypes[Lower[e.n]] \in Primitive
        BY <2>1, <3>1, BaseFacts
      <4> QED
        BY <4>1, BuiltInFacts
    <3>2. CASE e.pkg # 0
      <4>1. Decl.of # <<>>
        BY <1>6 DEF HasBase
      <4>2. Here \in Derived
        BY <1>2, <1>6, <3>2, <4>1 DEF Derived
      <4>3. Meant[Here] = ArrayOf(Meant[DeclOf(e)])
        BY <1>2, <4>2, MeantFacts
      <4>4. IsMeaning(Meant[DeclOf(e)])
        BY <1>2, <2>1, <3>2, MeantDims
      <4>5. Meant[Here].kind = Meant[DeclOf(e)].kind
        BY <4>3, <4>4, MeaningFacts
      <4> QED
        BY <2>1, <3>2, <4>5 DEF Settled
    <3> QED
      BY <3>1, <3>2
  <2> HIDE DEF t, e
  <2> QED
    BY <1>2, <1>6, <2>2, <2>3, LastFacts DEF Settled
<1> QED
  BY <1>4, <1>5, <1>6

(* determine_data_type settles a name once, and every step preserves that. *)
LEMMA NamesWholeStep ==
  ASSUME TypeOK, TypesInv, TypesComplete, NamesWhole, [ConverterNext]_<<vars, dvars>>
  PROVE  NamesWhole'
<1>1. /\ Legal /\ UNCHANGED model /\ DataDecls' = DataDecls /\ Meant' = Meant
      /\ \A p : At(p)' = At(p) /\ NameOf(p)' = NameOf(p)
  BY DataSteps, SameTypes, SameNames DEF TypesInv
<1>2. SUFFICES ASSUME NEW p \in DataDecls
               PROVE  IF At(p).rep \in NewKinds \/ ~Dealt(p[1], p[2])' THEN NameOf(p) \notin DOMAIN mapping'
                      ELSE NameOf(p) \in DOMAIN mapping' /\ Settled(p, mapping'[NameOf(p)])
  <2>1. \A p, t : Settled(p, t)' <=> Settled(p, t)
    BY <1>1 DEF Settled
  <2> QED
    BY <1>1, <1>2, <2>1 DEF NamesWhole
<1>3. /\ Dealt(p[1], p[2]) => Dealt(p[1], p[2])'
      /\ Dealt(p[1], p[2])' /\ ~Dealt(p[1], p[2]) => p = Here /\ (ConvertAlias \/ ConvertComposite)
      /\ ConvertAlias /\ p = Here => Dealt(p[1], p[2])'
  BY <1>1, DataDealt
<1>4. CASE ConvertAlias /\ p = Here
  <2>1. Decl.rep \notin NewKinds /\ Settled(Here, TypeOf(Decl)) /\ Current("data")
    BY <1>4, SettledHere DEF ConvertAlias
  <2>2. At(p) = Decl /\ NameOf(p) = Lower[Decl.n] /\ ~Mapped(Decl.n)
    BY <1>4, <2>1, HereWhole
  <2>3. mapping' = Put(mapping, Lower[Decl.n], TypeOf(Decl))
    BY <1>4, <2>2 DEF ConvertAlias, Remember
  <2> QED
    BY <1>3, <1>4, <2>1, <2>2, <2>3 DEF Put
<1>5. CASE ~(ConvertAlias /\ p = Here)
  <2>1. /\ NameOf(p) \in DOMAIN mapping => NameOf(p) \in DOMAIN mapping' /\ mapping'[NameOf(p)] = mapping[NameOf(p)]
        /\ NameOf(p) \notin DOMAIN mapping => NameOf(p) \notin DOMAIN mapping'
    <3>1. CASE UNCHANGED mapping
      BY <3>1
    <3>2. CASE /\ ConvertAlias /\ Current("data") /\ ~Mapped(Decl.n)
               /\ DOMAIN mapping' = DOMAIN mapping \cup {Lower[Decl.n]}
               /\ \A n \in DOMAIN mapping : mapping'[n] = mapping[n]
      <4>1. Here \in DataDecls /\ NameOf(Here) = Lower[Decl.n]
        BY <3>2, HereWhole
      <4>2. NameOf(p) # Lower[Decl.n]
        BY <1>1, <1>5, <3>2, <4>1, OnceNamed
      <4> QED
        BY <3>2, <4>2
    <3> QED
      BY <3>1, <3>2, MappingGrows
  <2>2. Dealt(p[1], p[2])' /\ ~Dealt(p[1], p[2]) => At(p).rep \in NewKinds
    <3>1. SUFFICES ASSUME Dealt(p[1], p[2])', ~Dealt(p[1], p[2])
                   PROVE  At(p).rep \in NewKinds
      OBVIOUS
    <3>2. ConvertComposite /\ p = Here
      BY <1>3, <1>5, <3>1
    <3>3. Current("data") /\ NewType
      BY <3>2 DEF ConvertComposite
    <3> QED
      BY <3>2, <3>3, HereWhole
  <2> QED
    BY <1>3, <2>1, <2>2 DEF NamesWhole
<1> QED
  BY <1>4, <1>5

(* The expect() on the base of an array never fails. *)
LEMMA NoPanicStep ==
  ASSUME TypeOK, TypesInv, TypesComplete, NamesWhole, status # "panicked",
         [ConverterNext]_<<vars, dvars>>
  PROVE  status' # "panicked"
<1>1. ~PanicOnBase
  <2> SUFFICES ASSUME PanicOnBase
               PROVE  FALSE
    OBVIOUS
  <2>1. Current("data") /\ Decl.rep = "array" /\ BaseUnknown(Decl)
    BY DEF PanicOnBase
  <2>2. HasBase(Decl)
    BY <2>1 DEF BaseUnknown
  <2> QED
    BY <2>1, <2>2, BaseKnown
<1> QED
  BY <1>1 DEF ConverterNext, ConvertCpu, ConvertType, ConvertImpl, Generate, AssignId, ConvertSystem,
              EndPackage, Done, ConvertComposite, ConvertAlias, ConvertDataImpl, ConvertSubprogram,
              ConvertPort, ConvertProcess, Passed, BuildAll, BuildIf, vars

(* What a reference has become, it may have become later too. *)
LEMMA BecameKept ==
  ASSUME TypeOK, [ConverterNext]_<<vars, dvars>>
  PROVE  /\ \A k, ref, t : Became(k, ref, t) => Became(k, ref, t)'
         /\ \A k, refs, types : AllBecame(k, refs, types) => AllBecame(k, refs, types)'
         /\ \A n \in DOMAIN mapping : n \in DOMAIN mapping' /\ mapping'[n] = mapping[n]
<1>1. \A n \in DOMAIN mapping : n \in DOMAIN mapping' /\ mapping'[n] = mapping[n]
  BY MappingGrows
<1>2. \A k, ref, t : Became(k, ref, t) => Became(k, ref, t)'
  <2>1. (\A p : At(p)' = At(p)) /\ \A ref : DeclOf(ref)' = DeclOf(ref)
    BY DataSteps, SameTypes
  <2> QED
    BY <1>1, <2>1 DEF Became
<1> QED
  BY <1>1, <1>2 DEF AllBecame

(* What type_mappings.get(..) finds, or the name. *)
LEMMA BecomeFacts ==
  ASSUME TypeOK, TypesInv, NamesWhole, pkg \in Packages, NEW ref, LegalRef(model, ref)
  PROVE  Became(pkg, ref, Resolve(ref.n))
<1>1. Legal /\ MappingSound
  BY DEF TypesInv
<1>2. CASE ref.pkg = 0
  BY <1>1, <1>2 DEF LegalRef, Became, Resolve, Mapped, MappingSound
<1>3. CASE ref.pkg # 0
  <2> DEFINE p == DeclOf(ref)
  <2>1. p \in DataDecls /\ p[1] = ref.pkg /\ NameOf(p) = Lower[ref.n]
    BY <1>1, <1>3, RefFacts DEF NameOf
  <2>2. p[1] \in Packages /\ p[2] \in DOMAIN model[p[1]].decls /\ p[1] \in Nat /\ pkg \in Nat
    BY <1>1, <2>1, PlaceFacts DEF Packages
  <2>3. CASE Lower[ref.n] \in DOMAIN mapping
    <3>1. Dealt(p[1], p[2])
      BY <2>1, <2>3 DEF NamesWhole
    <3>2. ref.pkg <= pkg
      BY <2>1, <2>2, <3>1 DEF Dealt
    <3> QED
      BY <1>3, <2>3, <3>2 DEF Became, Resolve, Mapped
  <2>4. CASE Lower[ref.n] \notin DOMAIN mapping
    <3>1. At(p).rep \in NewKinds \/ ~Dealt(p[1], p[2])
      BY <2>1, <2>4 DEF NamesWhole
    <3>2. ref.pkg < pkg => At(p).rep \in NewKinds
      BY <2>1, <2>2, <3>1 DEF Dealt
    <3> QED
      BY <1>3, <2>4, <3>2 DEF Became, Resolve, Mapped
  <2> QED
    BY <2>3, <2>4
<1> QED
  BY <1>2, <1>3

LEMMA WholeInit == ConverterInit => Whole \/ ~TypesComplete
<1> SUFFICES ASSUME ConverterInit, TypesComplete
             PROVE  Whole
  OBVIOUS
<1>1. Legal /\ TypeOK
  BY TypesInit, InitIInv DEF TypesInv, IInv
<1>2. /\ mapping = [b \in DOMAIN BaseTypes |-> << BaseTypes[b] >>]
      /\ DOMAIN implied = {} /\ items = {} /\ impls = {} /\ wrappers = {} /\ uses = {}
      /\ status = "converting" /\ pkg = 1 /\ pos = 0
  BY DEF ConverterInit, Init
<1>3. ASSUME NEW k, NEW x, Dealt(k, x)
      PROVE  FALSE
  <2>1. k \in Packages /\ x \in DOMAIN model[k].decls
    BY <1>3 DEF Dealt
  <2>2. k \in Nat \ {0} /\ x \in Nat \ {0}
    BY <1>1, <2>1, DealtFacts DEF Packages
  <2> QED
    BY <1>2, <1>3, <2>2 DEF Dealt
<1>4. NamesWhole
  BY <1>1, <1>2, <1>3, OnceNamed DEF NamesWhole
<1>5. ImpliedWhole /\ ItemsWhole /\ ImplsWhole /\ WrappersWhole /\ UsesWhole
  BY <1>2, <1>3 DEF ImpliedWhole, ItemsWhole, Written, ImplsWhole, Of, WrappersWhole, UsesWhole
<1> QED
  BY <1>2, <1>4, <1>5 DEF Whole

(* The implementation under way is the home of the type that waits for it. *)
LEMMA ImplHere ==
  ASSUME TypeOK, TypesInv, TypesComplete, ImpliedWhole, Current("dataimpl")
  PROVE  /\ pkg \in Packages /\ pos + 1 \in DOMAIN model[pkg].decls
         /\ DeclAt(pkg, pos + 1) = Decl /\ Decl.k = "dataimpl" /\ ~Dealt(pkg, pos + 1)
         /\ LegalRefs(model, Decl.subs)
         /\ \A p \in DataDecls : Waits(p) /\ p[1] = pkg /\ HomeOf(p) = pos + 1 =>
              /\ At(p).n = Decl.n /\ Decl.subs # <<>>
              /\ Decl.n \in DOMAIN implied /\ implied[Decl.n] = At(p).rep
         /\ \A p \in DataDecls : Waits(p) /\ p[1] = pkg /\ At(p).n = Decl.n => HomeOf(p) = pos + 1
         /\ Decl.n \in DOMAIN implied =>
              \E p \in DataDecls : Waits(p) /\ p[1] = pkg /\ At(p).n = Decl.n
<1>1. /\ pkg \in Packages /\ pkg \in Nat /\ pos \in Nat /\ pos + 1 \in DOMAIN model[pkg].decls
      /\ DeclAt(pkg, pos + 1) = Decl /\ Decl.k = "dataimpl" /\ ~Dealt(pkg, pos + 1)
  BY CurrentFacts
<1>2. Legal /\ LegalRefs(model, Decl.subs)
  BY DeclLegal DEF TypesInv
<1>3. ASSUME NEW p \in DataDecls, Waits(p), p[1] = pkg, HomeOf(p) = pos + 1
      PROVE  /\ At(p).n = Decl.n /\ Decl.subs # <<>>
             /\ Decl.n \in DOMAIN implied /\ implied[Decl.n] = At(p).rep
  <2>1. At(p).n = Decl.n /\ Decl.subs # <<>> /\ HomeOf(p) > p[2]
    BY <1>1, <1>2, <1>3, HomeFacts
  <2>2. p[2] \in Nat /\ p[2] \in DOMAIN model[pkg].decls
    BY <1>2, <1>3, PlaceFacts
  <2>3. Dealt(p[1], p[2])
    BY <1>1, <1>3, <2>1, <2>2 DEF Dealt
  <2>4. Decl.n \in DOMAIN implied
    BY <1>3, <2>1, <2>3 DEF ImpliedWhole
  <2>5. PICK q \in DataDecls : At(q).n = Decl.n /\ implied[Decl.n] = At(q).rep
    BY <2>4 DEF ImpliedWhole
  <2>6. q = p
    BY <1>2, <2>1, <2>5, OnceNamed DEF NameOf
  <2> QED
    BY <2>1, <2>4, <2>5, <2>6
<1>4. ASSUME NEW p \in DataDecls, Waits(p), p[1] = pkg, At(p).n = Decl.n
      PROVE  HomeOf(p) = pos + 1
  <2>1. pos + 1 \in DataImpls(p[1], At(p).n)
    BY <1>1, <1>4 DEF DataImpls, DeclAt
  <2> QED
    BY <1>2, <1>4, <2>1, HomeFacts
<1>5. ASSUME Decl.n \in DOMAIN implied
      PROVE  \E p \in DataDecls : Waits(p) /\ p[1] = pkg /\ At(p).n = Decl.n
  <2>1. PICK q \in DataDecls : Waits(q) /\ At(q).n = Decl.n
    BY <1>5 DEF ImpliedWhole
  <2>2. pkg \in DOMAIN model /\ Decl = model[pkg].decls[pos + 1]
    BY <1>1 DEF DeclAt, TypeOK, WellFormed, IsSequence, Packages
  <2>3. DataNamed(model, [pkg |-> pkg, n |-> Decl.n]) # {}
    BY <1>1, <1>2, <2>2 DEF Legal, LegalTypes
  <2>4. PICK r \in DataDecls : r[1] = pkg /\ NameOf(r) = Lower[Decl.n]
    BY <2>3 DEF DataNamed, DataDecls, NameOf, At
  <2>5. r = q
    BY <1>2, <2>1, <2>4, OnceNamed DEF NameOf
  <2> QED
    BY <2>1, <2>4, <2>5
<1> QED
  BY <1>1, <1>2, <1>3, <1>4, <1>5

LEMMA ImpliedWholeStep ==
  ASSUME TypeOK, TypesInv, TypesComplete, NamesWhole, ImpliedWhole, [ConverterNext]_<<vars, dvars>>
  PROVE  ImpliedWhole'
<1>1. /\ Legal /\ UNCHANGED model /\ DataDecls' = DataDecls
      /\ \A p : At(p)' = At(p) /\ (Waits(p)' <=> Waits(p))
  BY DataSteps, SameTypes, SameWhole DEF TypesInv
<1>2. \A p \in DataDecls : Dealt(p[1], p[2])' /\ ~Dealt(p[1], p[2]) =>
                             p = Here /\ (ConvertAlias \/ ConvertComposite)
  BY <1>1, DataDealt
<1>3. CASE ConvertComposite
  <2>1. Current("data") /\ NewType
    BY <1>3 DEF ConvertComposite
  <2>2. Here \in DataDecls /\ At(Here) = Decl /\ Decl.rep \in NewKinds
    BY <2>1, HereWhole
  <2>3. implied' = IF Waits(Here) THEN Put(implied, Decl.n, Decl.rep) ELSE implied
    BY <1>3, <2>2 DEF ConvertComposite, Waits, NewKinds, Composites
  <2>4. CASE Waits(Here)
    <3>1. implied' = Put(implied, Decl.n, Decl.rep)
      BY <2>3, <2>4
    <3>2. /\ DOMAIN implied' = DOMAIN implied \cup {Decl.n} /\ implied'[Decl.n] = Decl.rep
          /\ \A n \in DOMAIN implied \ {Decl.n} : implied'[n] = implied[n]
      BY <3>1 DEF Put
    <3> QED
      BY <1>1, <1>2, <2>2, <2>4, <3>2 DEF ImpliedWhole
  <2>5. CASE ~Waits(Here)
    <3>1. implied' = implied
      BY <2>3, <2>5
    <3> QED
      BY <1>1, <1>2, <2>5, <3>1 DEF ImpliedWhole
  <2> QED
    BY <2>4, <2>5
<1>4. CASE ~ConvertComposite
  <2>1. implied' = implied
    BY <1>4, DataSteps DEF ConvertAlias, ConvertDataImpl, ConvertSubprogram, ConvertPort, dvars
  <2>2. ConvertAlias => ~Waits(Here)
    <3>1. SUFFICES ASSUME ConvertAlias
                   PROVE  ~Waits(Here)
      OBVIOUS
    <3>2. Current("data")
      BY <3>1 DEF ConvertAlias
    <3> QED
      BY <3>1, <3>2, SettledHere, HereWhole DEF Waits, NewKinds
  <2> QED
    BY <1>1, <1>2, <1>4, <2>1, <2>2 DEF ImpliedWhole
<1> QED
  BY <1>3, <1>4

(* An item stays that of its type. *)
LEMMA ItemKept ==
  ASSUME TypeOK, Legal, [ConverterNext]_<<vars, dvars>>
  PROVE  /\ DataDecls' = DataDecls
         /\ \A it, p : IsItemOf(it, p) => IsItemOf(it, p)'
<1>1. /\ UNCHANGED model /\ DataDecls' = DataDecls /\ \A p : NameOf(p)' = NameOf(p) /\ At(p)' = At(p)
      /\ \A p : Elements(p)' = Elements(p)
  BY DataSteps, SameTypes, SameWhole, SameNames
<1> QED
  BY <1>1, BecameKept DEF IsItemOf

(* Items stay as they are, or there is a new one for another type. *)
LEMMA SameItems ==
  ASSUME TypeOK, Legal, ItemsWhole, [ConverterNext]_<<vars, dvars>>,
         items' = items, \A p \in DataDecls : Written(p)' <=> Written(p)
  PROVE  ItemsWhole'
<1>1. \A it \in items : \E p \in DataDecls : Written(p)' /\ IsItemOf(it, p)'
  BY ItemKept DEF ItemsWhole
<1>2. \A p \in DataDecls : Written(p)' => \E it \in items : IsItemOf(it, p)'
  BY ItemKept DEF ItemsWhole
<1> QED
  BY <1>1, <1>2, ItemKept DEF ItemsWhole

(* A type gets one item, where it had none. *)
LEMMA NewItem ==
  ASSUME TypeOK, Legal, TypesComplete, ItemsWhole, [ConverterNext]_<<vars, dvars>>,
         NEW p \in DataDecls, ~Written(p), NEW it, IsItemOf(it, p)', items' = items \cup {it},
         \A q \in DataDecls : Written(q)' <=> Written(q) \/ q = p
  PROVE  ItemsWhole'
<1>1. \A jt \in items' : \E q \in DataDecls : Written(q)' /\ IsItemOf(jt, q)'
  BY ItemKept DEF ItemsWhole
<1>2. \A q \in DataDecls : Written(q)' => \E jt \in items' : IsItemOf(jt, q)'
  BY ItemKept DEF ItemsWhole
<1>3. ASSUME NEW jt \in items
      PROVE  jt.n # it.n
  <2>1. PICK q \in DataDecls : Written(q) /\ IsItemOf(jt, q)
    BY DEF ItemsWhole
  <2>2. At(p)' = At(p)
    BY SameNames
  <2>3. jt.n = At(q).n /\ it.n = At(p).n
    BY <2>1, <2>2 DEF IsItemOf
  <2> QED
    BY <2>1, <2>3, OnceNamed DEF NameOf
<1>4. \A jt, kt \in items' : jt.n = kt.n => jt = kt
  BY <1>3 DEF ItemsWhole
<1> QED
  BY <1>1, <1>2, <1>4, ItemKept DEF ItemsWhole

(* The fields of an implementation under way. *)
LEMMA FieldsBecome ==
  ASSUME TypeOK, TypesInv, NamesWhole, Current("dataimpl")
  PROVE  AllBecame(pkg, Decl.subs, SubTypes(Decl))
<1>1. LegalRefs(model, Decl.subs) /\ pkg \in Packages
  BY DeclLegal, CurrentFacts DEF TypesInv
<1>2. ASSUME NEW x \in DOMAIN Decl.subs
      PROVE  Became(pkg, Decl.subs[x], Resolve(Decl.subs[x].n))
  BY <1>1, BecomeFacts DEF LegalRefs
<1> QED
  BY <1>2 DEF AllBecame, SubTypes

(* A type gets its item in the step of its home. *)
LEMMA WrittenStep ==
  ASSUME TypeOK, TypesInv, TypesComplete, UNCHANGED model, NEW p \in DataDecls,
         \A k, x : Dealt(k, x)' <=> Dealt(k, x) \/ (k = pkg /\ x = pos + 1)
  PROVE  /\ Written(p)' <=> Written(p) \/ (p[1] = pkg /\ HomeOf(p) = pos + 1)
         /\ p[1] = pkg /\ HomeOf(p) = pos + 1 =>
              DeclAt(pkg, pos + 1).k = IF Waits(p) THEN "dataimpl" ELSE "data"
<1>1. HomeOf(p)' = HomeOf(p) /\ Legal
  BY SameWhole DEF TypesInv
<1>2. Waits(p) => DeclAt(p[1], HomeOf(p)).k = "dataimpl"
  BY <1>1, HomeFacts
<1>3. ~Waits(p) => HomeOf(p) = p[2] /\ DeclAt(p[1], p[2]).k = "data"
  BY <1>1, HomeFacts, PlaceFacts
<1> QED
  BY <1>1, <1>2, <1>3 DEF Written

LEMMA ItemsWholeStep ==
  ASSUME TypeOK, TypesInv, TypesComplete, NamesWhole, ImpliedWhole, ItemsWhole,
         [ConverterNext]_<<vars, dvars>>
  PROVE  ItemsWhole'
<1>1. Legal /\ UNCHANGED model
  BY DataSteps DEF TypesInv
<1>2. /\ \A p : NameOf(p)' = NameOf(p) /\ At(p)' = At(p)
      /\ \A p : Elements(p)' = Elements(p)
      /\ \A p \in DataDecls : p = <<p[1], p[2]>>
  BY <1>1, SameNames, SameWhole, PlaceFacts
<1> DEFINE Moved == \A k, x : Dealt(k, x)' <=> Dealt(k, x) \/ (k = pkg /\ x = pos + 1)
<1>3. CASE Current("data") /\ ConvertComposite /\ Moved
  <2> DEFINE types == [x \in DOMAIN Decl.of |-> ElementType(Decl.of[x])]
             it == Item(Decl.n, Decl.rep, types)
  <2>1. /\ Here \in DataDecls /\ At(Here) = Decl /\ Decl.rep \in NewKinds /\ Here = <<pkg, pos + 1>>
        /\ ~Dealt(pkg, pos + 1) /\ DeclAt(pkg, pos + 1) = Decl /\ pkg \in Packages
        /\ LegalData(model, Decl)
    BY <1>3, HereWhole DEF ConvertComposite
  <2>2. Decl.k = "data"
    BY <1>3, CurrentFacts
  <2>3. items' = IF Waits(Here) THEN items ELSE items \cup {it}
    BY <1>3, <2>1 DEF ConvertComposite, Waits, NewKinds, Composites
  <2>4. ASSUME NEW p \in DataDecls
        PROVE  Written(p)' <=> Written(p) \/ (~Waits(Here) /\ p = Here)
    <3>1. /\ Written(p)' <=> Written(p) \/ (p[1] = pkg /\ HomeOf(p) = pos + 1)
          /\ p[1] = pkg /\ HomeOf(p) = pos + 1 => ~Waits(p)
      BY <1>1, <1>3, <2>1, <2>2, WrittenStep
    <3>2. ~Waits(p) => HomeOf(p) = p[2]
      BY <1>1, HomeFacts
    <3> QED
      BY <1>2, <2>1, <3>1, <3>2
  <2>5. CASE Waits(Here)
    BY <1>1, <2>3, <2>4, <2>5, SameItems
  <2>6. CASE ~Waits(Here)
    <3>1. ~Written(Here)
      BY <1>1, <2>1, <2>6, HomeFacts DEF Written
    <3>2. AllBecame(pkg, Decl.of, types)
      <4>1. ASSUME NEW x \in DOMAIN Decl.of
            PROVE  Became(pkg, Decl.of[x], types[x])
        <5>1. Decl.of[x].i = "" /\ ~NamesImpl(Decl.of[x]) /\ LegalRef(model, Decl.of[x])
          BY <1>1, <2>1, HomeFacts DEF LegalData, LegalRefs
        <5> QED
          BY <2>1, <5>1, BecomeFacts DEF ElementType
      <4> HIDE DEF types
      <4>2. DOMAIN types = DOMAIN Decl.of
        BY DEF types
      <4> QED
        BY <4>1, <4>2 DEF AllBecame
    <3> HIDE DEF types
    <3>3. IsItemOf(it, Here)
      <4>1. Elements(Here) = Decl.of
        BY <1>1, <2>1, <2>6, HomeFacts
      <4> QED
        BY <2>1, <3>2, <4>1 DEF IsItemOf, Item
    <3> HIDE DEF it
    <3>4. PICK p \in DataDecls, jt \in {it} : p = Here
      BY <2>1
    <3>5. IsItemOf(jt, p)'
      BY <1>1, <3>3, <3>4, ItemKept
    <3>6. /\ ~Written(p) /\ items' = items \cup {jt}
          /\ \A q \in DataDecls : Written(q)' <=> Written(q) \/ q = p
      BY <2>3, <2>4, <2>6, <3>1, <3>4
    <3> QED
      BY <1>1, <3>5, <3>6, NewItem
  <2> QED
    BY <2>5, <2>6
<1>4. CASE Current("data") /\ ConvertAlias /\ Moved
  <2>1. /\ Here \in DataDecls /\ At(Here) = Decl /\ Decl.rep \notin NewKinds /\ Here = <<pkg, pos + 1>>
        /\ ~Dealt(pkg, pos + 1) /\ DeclAt(pkg, pos + 1) = Decl
        /\ NameOf(Here) = Lower[Decl.n] /\ ~Mapped(Decl.n)
    BY <1>4, HereWhole, SettledHere
  <2>2. Decl.k = "data" /\ ~Waits(Here)
    BY <1>4, <2>1, CurrentFacts DEF Waits, NewKinds
  <2>3. PICK p \in DataDecls, it \in {Item(Decl.n, "alias", << TypeOf(Decl) >>)} : p = Here
    BY <2>1
  <2>4. items' = items \cup {it} /\ mapping' = Put(mapping, Lower[Decl.n], TypeOf(Decl))
    BY <1>4, <2>1, <2>3 DEF ConvertAlias, Remember
  <2>5. NameOf(p) \in DOMAIN mapping' /\ mapping'[NameOf(p)] = TypeOf(Decl)
    BY <2>1, <2>3, <2>4 DEF Put
  <2>6. IsItemOf(it, p)'
    <3>1. it.pkg = p[1] /\ it.n = At(p).n /\ it.kind = "alias" /\ it.types = << TypeOf(Decl) >>
      BY <2>1, <2>3 DEF Item
    <3> QED
      BY <1>2, <2>1, <2>3, <2>5, <3>1 DEF IsItemOf
  <2>7. ~Written(p)
    BY <1>1, <2>1, <2>2, <2>3, HomeFacts DEF Written
  <2>8. ASSUME NEW q \in DataDecls
        PROVE  Written(q)' <=> Written(q) \/ q = p
    <3>1. /\ Written(q)' <=> Written(q) \/ (q[1] = pkg /\ HomeOf(q) = pos + 1)
          /\ q[1] = pkg /\ HomeOf(q) = pos + 1 => ~Waits(q)
      BY <1>1, <1>4, <2>1, <2>2, WrittenStep
    <3>2. ~Waits(q) => HomeOf(q) = q[2]
      BY <1>1, HomeFacts
    <3> QED
      BY <1>2, <2>1, <2>2, <2>3, <3>1, <3>2
  <2> QED
    BY <1>1, <2>4, <2>6, <2>7, <2>8, NewItem
<1>5. CASE Current("dataimpl") /\ ConvertDataImpl /\ Moved
  <2>1. /\ DeclAt(pkg, pos + 1) = Decl /\ Decl.k = "dataimpl" /\ ~Dealt(pkg, pos + 1)
        /\ AllBecame(pkg, Decl.subs, SubTypes(Decl))
    BY <1>5, ImplHere, FieldsBecome
  <2>2. ASSUME NEW q \in DataDecls
        PROVE  /\ Written(q)' <=> Written(q) \/ (q[1] = pkg /\ HomeOf(q) = pos + 1)
               /\ q[1] = pkg /\ HomeOf(q) = pos + 1 => Waits(q)
    BY <1>1, <1>5, <2>1, WrittenStep
  <2>3. CASE \E p \in DataDecls : p[1] = pkg /\ HomeOf(p) = pos + 1
    <3>1. PICK p \in DataDecls : p[1] = pkg /\ HomeOf(p) = pos + 1
      BY <2>3
    <3>2. /\ Waits(p) /\ At(p).n = Decl.n /\ Decl.subs # <<>>
          /\ Decl.n \in DOMAIN implied /\ implied[Decl.n] = At(p).rep
      BY <1>5, <2>2, <3>1, ImplHere
    <3>3. PICK it : it = Item(Decl.n, implied[Decl.n], SubTypes(Decl))
      OBVIOUS
    <3>4. items' = items \cup {it}
      BY <1>5, <3>2, <3>3 DEF ConvertDataImpl
    <3>5. IsItemOf(it, p)
      <4>1. Elements(p) = Decl.subs /\ At(p).rep \in NewKinds
        BY <1>1, <2>1, <3>1, <3>2, HomeFacts DEF Waits, NewKinds
      <4> QED
        BY <2>1, <3>1, <3>2, <3>3, <4>1 DEF IsItemOf, Item
    <3>6. ~Written(p)
      BY <2>1, <3>1 DEF Written
    <3>7. ASSUME NEW q \in DataDecls
          PROVE  Written(q)' <=> Written(q) \/ q = p
      <4>1. q[1] = pkg /\ HomeOf(q) = pos + 1 => At(q).n = Decl.n
        BY <1>5, <2>2, ImplHere
      <4>2. q[1] = pkg /\ HomeOf(q) = pos + 1 => q = p
        BY <1>1, <3>2, <4>1, OnceNamed DEF NameOf
      <4> QED
        BY <2>2, <3>1, <4>2
    <3> QED
      BY <1>1, <3>4, <3>5, <3>6, <3>7, ItemKept, NewItem
  <2>4. CASE ~\E p \in DataDecls : p[1] = pkg /\ HomeOf(p) = pos + 1
    <3>1. Decl.n \notin DOMAIN implied
      BY <1>5, <2>4, ImplHere
    <3>2. items' = items
      BY <1>5, <3>1 DEF ConvertDataImpl
    <3> QED
      BY <1>1, <2>2, <2>4, <3>2, SameItems
  <2> QED
    BY <2>3, <2>4
<1>6. CASE \/ Current("subprogram") /\ ConvertSubprogram /\ Moved
           \/ Current("port") /\ ConvertPort /\ Moved
  <2>1. items' = items
    BY <1>6 DEF ConvertSubprogram, ConvertPort
  <2>2. DeclAt(pkg, pos + 1).k \in {"subprogram", "port"}
    BY <1>6, CurrentFacts
  <2>3. \A p \in DataDecls : Written(p)' <=> Written(p)
    BY <1>1, <1>6, <2>2, WrittenStep
  <2> QED
    BY <1>1, <2>1, <2>3, SameItems
<1>7. CASE /\ UNCHANGED dvars
           /\ \A k, x : DeclAt(k, x).k \in {"data", "dataimpl", "subprogram", "port"} =>
                          (Dealt(k, x)' <=> Dealt(k, x))
  <2>1. ASSUME NEW p \in DataDecls
        PROVE  Written(p)' <=> Written(p)
    <3>1. DeclAt(p[1], HomeOf(p)).k \in {"data", "dataimpl"}
      BY <1>1, HomeFacts, PlaceFacts
    <3>2. HomeOf(p)' = HomeOf(p)
      BY <1>1, SameWhole
    <3> QED
      BY <1>7, <3>1, <3>2 DEF Written
  <2> QED
    BY <1>1, <1>7, <2>1, SameItems DEF dvars
<1> QED
  BY <1>3, <1>4, <1>5, <1>6, <1>7, WholeSteps

(* Which declarations of a kind have been dealt with. *)
LEMMA OfStep ==
  ASSUME TypeOK, [ConverterNext]_<<vars, dvars>>, NEW kind, NEW k, NEW x
  PROVE  /\ DeclAt(k, x)' = DeclAt(k, x)
         /\ Of(kind, k, x) => Of(kind, k, x)'
         /\ /\ \A j, y : Dealt(j, y)' <=> Dealt(j, y) \/ (j = pkg /\ y = pos + 1)
            /\ DeclAt(pkg, pos + 1) = Decl
            => (Of(kind, k, x)' <=> Of(kind, k, x) \/ (k = pkg /\ x = pos + 1 /\ Decl.k = kind))
         /\ /\ \A j, y : DeclAt(j, y).k \in {"data", "dataimpl", "subprogram", "port"} =>
                            (Dealt(j, y)' <=> Dealt(j, y))
            /\ kind \in {"data", "dataimpl", "subprogram", "port"}
            => (Of(kind, k, x)' <=> Of(kind, k, x))
<1>1. UNCHANGED model /\ Step
  BY DataSteps, StepKinds
<1>2. DeclAt(k, x)' = DeclAt(k, x)
  BY <1>1, SameWhole
<1>3. Dealt(k, x) => Dealt(k, x)'
  BY <1>1, DealtStep
<1>4. Of(kind, k, x)' <=> Dealt(k, x)' /\ DeclAt(k, x).k = kind
  BY <1>2 DEF Of
<1>5. ASSUME k = pkg, x = pos + 1, DeclAt(pkg, pos + 1) = Decl
      PROVE  DeclAt(k, x).k = Decl.k
  BY <1>5
<1> QED
  BY <1>2, <1>3, <1>4, <1>5 DEF Of

(* So does an impl block. *)
LEMMA ImplKept ==
  ASSUME TypeOK, [ConverterNext]_<<vars, dvars>>, NEW m, NEW k, NEW y, IsImplOf(m, k, y)
  PROVE  IsImplOf(m, k, y)'
<1>1. DeclAt(k, y)' = DeclAt(k, y) /\ \A n : SharedIn(k, n)' <=> SharedIn(k, n)
  BY DataSteps, SameWhole
<1> QED
  BY <1>1, BecameKept DEF IsImplOf

(* An implementation with the name of a type that waits is its only one. *)
LEMMA ImplOfType ==
  ASSUME Legal, TypesComplete, ImplsWhole, NEW p \in DataDecls, Waits(p),
         NEW m \in impls, m.pkg = p[1], m.n = At(p).n
  PROVE  Written(p)
<1>1. PICK y : Of("dataimpl", m.pkg, y) /\ IsImplOf(m, m.pkg, y)
  BY DEF ImplsWhole
<1>2. y \in DataImpls(p[1], At(p).n)
  BY <1>1 DEF Of, Dealt, IsImplOf, DataImpls, DeclAt
<1>3. y = HomeOf(p)
  BY <1>2, HomeFacts
<1> QED
  BY <1>1, <1>3 DEF Of, Written

(* There is no item of a type before its home is dealt with. *)
LEMMA ItemOfWritten ==
  ASSUME Legal, TypesComplete, ItemsWhole, NEW p \in DataDecls, NEW it \in items, it.n = At(p).n
  PROVE  Written(p) /\ IsItemOf(it, p)
<1>1. PICK q \in DataDecls : Written(q) /\ IsItemOf(it, q)
  BY DEF ItemsWhole
<1>2. q = p
  BY <1>1, OnceNamed DEF IsItemOf, NameOf
<1> QED
  BY <1>1, <1>2

LEMMA ImplsWholeStep ==
  ASSUME TypeOK, TypesInv, TypesComplete, NamesWhole, ImpliedWhole, ItemsWhole, ImplsWhole,
         [ConverterNext]_<<vars, dvars>>
  PROVE  ImplsWhole'
<1>1. /\ Legal /\ UNCHANGED model /\ DataDecls' = DataDecls
      /\ \A p : At(p)' = At(p) /\ (Waits(p)' <=> Waits(p))
  BY DataSteps, SameTypes, SameWhole DEF TypesInv
<1> DEFINE Moved == \A k, x : Dealt(k, x)' <=> Dealt(k, x) \/ (k = pkg /\ x = pos + 1)
           Same(I, M) == \A p \in DataDecls : Waits(p) =>
             \A m \in M : \A it \in I :
               m.pkg = p[1] /\ m.n = At(p).n /\ it.n = At(p).n => it.types = m.types
<1>2. Same(items, impls)
  BY DEF ImplsWhole
<1>3. ASSUME impls' = impls, \A k, x : Of("dataimpl", k, x)' <=> Of("dataimpl", k, x),
             Same(items', impls')
      PROVE  ImplsWhole'
  <2>1. \A m \in impls' : \E y : Of("dataimpl", m.pkg, y)' /\ IsImplOf(m, m.pkg, y)'
    BY <1>3, ImplKept DEF ImplsWhole
  <2>2. \A k, y : Of("dataimpl", k, y)' => \E m \in impls' : IsImplOf(m, k, y)'
    BY <1>3, ImplKept DEF ImplsWhole
  <2> QED
    BY <1>1, <1>3, <2>1, <2>2 DEF ImplsWhole
<1>4. CASE Current("data") /\ (ConvertComposite \/ ConvertAlias) /\ Moved
  <2>1. /\ Here \in DataDecls /\ At(Here) = Decl /\ Here = <<pkg, pos + 1>>
        /\ ~Dealt(pkg, pos + 1) /\ DeclAt(pkg, pos + 1) = Decl
    BY <1>4, HereWhole
  <2>2. Decl.k = "data" /\ impls' = impls
    BY <1>4, CurrentFacts DEF ConvertComposite, ConvertAlias
  <2>3. \A k, x : Of("dataimpl", k, x)' <=> Of("dataimpl", k, x)
    BY <1>4, <2>1, <2>2, OfStep
  <2>4. \A it \in items' : it \in items \/ (it.n = Decl.n /\ ~Waits(Here))
    <3>1. CASE ConvertComposite
      <4>1. NewType
        BY <3>1 DEF ConvertComposite
      <4>2. Decl.rep \in NewKinds
        BY <1>4, <4>1, HereWhole
      <4>3. Decl.rep # "enum" /\ Decl.of = <<>> <=> Waits(Here)
        BY <2>1, <4>2 DEF Waits, NewKinds, Composites
      <4> QED
        BY <3>1, <4>3 DEF ConvertComposite, Item
    <3>2. CASE ConvertAlias
      <4>1. ~Waits(Here)
        BY <2>1, <3>2, SettledHere DEF Waits, NewKinds
      <4> QED
        BY <3>2, <4>1 DEF ConvertAlias, Item
    <3> QED
      BY <1>4, <3>1, <3>2
  <2>5. Same(items', impls')
    <3>1. ASSUME NEW p \in DataDecls, Waits(p), At(p).n = Decl.n
          PROVE  p = Here
      BY <1>1, <2>1, <3>1, OnceNamed DEF NameOf
    <3> QED
      BY <1>2, <2>2, <2>4, <3>1
  <2> QED
    BY <1>3, <2>2, <2>3, <2>5
<1>5. CASE Current("dataimpl") /\ ConvertDataImpl /\ Moved
  <2>1. /\ DeclAt(pkg, pos + 1) = Decl /\ Decl.k = "dataimpl" /\ ~Dealt(pkg, pos + 1)
        /\ AllBecame(pkg, Decl.subs, SubTypes(Decl))
    BY <1>5, ImplHere, FieldsBecome
  <2>2. PICK m, k, x : /\ k = pkg /\ x = pos + 1
                       /\ m = [pkg |-> pkg, n |-> Decl.n, types |-> SubTypes(Decl), calls |-> Decl.calls,
                               shared |-> ~(Decl.subs = <<>> /\ Decl.calls = {}) /\ Shared(Decl.n)]
    OBVIOUS
  <2>3. impls' = impls \cup {m}
    BY <1>5, <2>2 DEF ConvertDataImpl
  <2>4. IsImplOf(m, k, x)
    <3>1. Shared(Decl.n) <=> SharedIn(pkg, Decl.n)
      BY DEF Shared, SharedIn
    <3>2. /\ m.pkg = pkg /\ m.n = Decl.n /\ m.types = SubTypes(Decl) /\ m.calls = Decl.calls
          /\ m.shared = (~(Decl.subs = <<>> /\ Decl.calls = {}) /\ Shared(Decl.n))
      BY <2>2
    <3>3. DeclAt(k, x) = Decl
      BY <2>1, <2>2
    <3> QED
      BY <2>1, <2>2, <3>1, <3>2, <3>3 DEF IsImplOf
  <2>5. IsImplOf(m, k, x)' /\ m.pkg = k
    <3>1. IsImplOf(m, k, x)'
      BY <2>4, ImplKept
    <3> QED
      BY <2>2, <3>1
  <2>6. \A j, y : Of("dataimpl", j, y)' <=> Of("dataimpl", j, y) \/ (j = k /\ y = x)
    BY <1>5, <2>1, <2>2, OfStep
  <2>7. \A i \in impls' : \E y : Of("dataimpl", i.pkg, y)' /\ IsImplOf(i, i.pkg, y)'
    BY <2>3, <2>5, <2>6, ImplKept DEF ImplsWhole
  <2>8. \A j, y : Of("dataimpl", j, y)' => \E i \in impls' : IsImplOf(i, j, y)'
    BY <2>3, <2>5, <2>6, ImplKept DEF ImplsWhole
  <2>9. Same(items', impls')
    <3>1. SUFFICES ASSUME NEW p \in DataDecls, Waits(p), NEW i \in impls', NEW it \in items',
                          i.pkg = p[1], i.n = At(p).n, it.n = At(p).n
                   PROVE  it.types = i.types
      OBVIOUS
    <3>2. \/ it \in items
          \/ it.types = SubTypes(Decl) /\ it.n = Decl.n /\ Decl.n \in DOMAIN implied
      BY <1>5 DEF ConvertDataImpl, Item
    <3>3. i \in impls \/ (i.types = SubTypes(Decl) /\ i.pkg = pkg /\ i.n = Decl.n)
      BY <2>2, <2>3
    <3>4. ASSUME p[1] = pkg, At(p).n = Decl.n
          PROVE  ~Written(p)
      BY <1>5, <2>1, <3>1, <3>4, ImplHere DEF Written
    <3>5. ASSUME it \notin items
          PROVE  p[1] = pkg /\ At(p).n = Decl.n
      <4>1. PICK q \in DataDecls : q[1] = pkg /\ At(q).n = Decl.n
        BY <1>5, <3>2, <3>5, ImplHere
      <4> QED
        BY <1>1, <3>1, <3>2, <3>5, <4>1, OnceNamed DEF NameOf
    <3>6. it \in items => Written(p)
      BY <1>1, <3>1, ItemOfWritten
    <3>7. i \in impls => Written(p)
      BY <1>1, <3>1, ImplOfType
    <3>8. CASE it \in items /\ i \in impls
      BY <1>2, <3>1, <3>8
    <3>9. CASE it \notin items
      BY <3>2, <3>3, <3>4, <3>5, <3>7, <3>9
    <3>10. CASE it \in items /\ i \notin impls
      <4>1. p[1] = pkg /\ At(p).n = Decl.n
        BY <3>1, <3>3, <3>10
      <4> QED
        BY <3>4, <3>6, <3>10, <4>1
    <3> QED
      BY <3>8, <3>9, <3>10
  <2> QED
    BY <1>1, <2>7, <2>8, <2>9 DEF ImplsWhole
<1>6. CASE \/ Current("subprogram") /\ ConvertSubprogram /\ Moved
           \/ Current("port") /\ ConvertPort /\ Moved
  <2>1. items' = items /\ impls' = impls
    BY <1>6 DEF ConvertSubprogram, ConvertPort
  <2>2. DeclAt(pkg, pos + 1) = Decl /\ Decl.k \in {"subprogram", "port"}
    BY <1>6, CurrentFacts
  <2>3. \A k, x : Of("dataimpl", k, x)' <=> Of("dataimpl", k, x)
    BY <1>6, <2>2, OfStep
  <2> QED
    BY <1>2, <1>3, <2>1, <2>3
<1>7. CASE /\ UNCHANGED dvars
           /\ \A k, x : DeclAt(k, x).k \in {"data", "dataimpl", "subprogram", "port"} =>
                          (Dealt(k, x)' <=> Dealt(k, x))
  <2>1. \A k, x : Of("dataimpl", k, x)' <=> Of("dataimpl", k, x)
    BY <1>7, OfStep
  <2>2. items' = items /\ impls' = impls
    BY <1>7 DEF dvars
  <2> QED
    BY <1>2, <1>3, <2>1, <2>2
<1> QED
  BY <1>4, <1>5, <1>6, <1>7, WholeSteps

LEMMA UsesWholeStep ==
  ASSUME TypeOK, TypesInv, TypesComplete, NamesWhole, UsesWhole, [ConverterNext]_<<vars, dvars>>
  PROVE  UsesWhole'
<1>1. /\ Legal /\ MappingSound /\ UNCHANGED model /\ Packages' = Packages
      /\ \A k : References(k)' = References(k)
      /\ \A k, ref : IsParameter(k, ref)' <=> IsParameter(k, ref)
  BY DataSteps, SameWhole DEF TypesInv
<1> DEFINE Fits(u) ==
      /\ u.pkg \in Packages /\ u.ref \in References(u.pkg) /\ Became(u.pkg, u.ref, u.type)
      /\ u.wrapped => IsParameter(u.pkg, u.ref)
<1>2. ASSUME \A u \in uses' \ uses : Fits(u)
      PROVE  UsesWhole'
  <2>1. \A u \in uses' : Fits(u)
    BY <1>2 DEF UsesWhole
  <2> QED
    BY <1>1, <2>1, BecameKept DEF UsesWhole
<1>3. ASSUME NEW kind, Current(kind)
      PROVE  /\ pkg \in Packages /\ Decl \in Decls(pkg) /\ Decl.k = kind
             /\ kind = "data" => \A x \in DOMAIN Decl.of : Decl.of[x] \in References(pkg)
             /\ kind = "dataimpl" => \A x \in DOMAIN Decl.subs : Decl.subs[x] \in References(pkg)
             /\ kind = "subprogram" => \A x \in DOMAIN Decl.params : Decl.params[x].ref \in References(pkg)
             /\ kind = "port" => Decl.ref \in References(pkg)
  <2>1. pkg \in Packages /\ Decl \in Decls(pkg) /\ Decl.k = kind
    BY <1>3, CurrentFacts
  <2> DEFINE refs(d) == CASE d.k \in {"data"}    -> {d.of[x] : x \in DOMAIN d.of}
                          [] d.k = "dataimpl"    -> {d.subs[x] : x \in DOMAIN d.subs}
                          [] d.k = "subprogram"  -> {d.params[x].ref : x \in DOMAIN d.params}
                          [] d.k = "port"        -> {d.ref}
                          [] d.k = "process"     -> {d.holds[x] : x \in DOMAIN d.holds}
                          [] OTHER               -> {}
  <2>2. References(pkg) = UNION {refs(d) : d \in Decls(pkg)}
    BY DEF References
  <2>3. /\ kind = "data" => refs(Decl) = {Decl.of[x] : x \in DOMAIN Decl.of}
        /\ kind = "dataimpl" => refs(Decl) = {Decl.subs[x] : x \in DOMAIN Decl.subs}
        /\ kind = "subprogram" => refs(Decl) = {Decl.params[x].ref : x \in DOMAIN Decl.params}
        /\ kind = "port" => refs(Decl) = {Decl.ref}
    BY <2>1
  <2> HIDE DEF refs
  <2>4. \A r \in refs(Decl) : r \in References(pkg)
    BY <2>1, <2>2
  <2> QED
    BY <2>1, <2>3, <2>4
<1>4. CASE ConvertComposite /\ Current("data")
  <2> DEFINE types == [x \in DOMAIN Decl.of |-> ElementType(Decl.of[x])]
  <2>1. uses' = uses \cup Uses(Decl.of, types)
    BY <1>4 DEF ConvertComposite
  <2>2. NewType /\ Here \in DataDecls /\ At(Here) = Decl
    BY <1>4, HereWhole DEF ConvertComposite
  <2>3. Decl.rep \in NewKinds
    BY <1>4, <2>2, HereWhole
  <2>4. ASSUME NEW x \in DOMAIN Decl.of
        PROVE  Became(pkg, Decl.of[x], types[x])
    <3>1. Decl.of[x].i = "" /\ ~NamesImpl(Decl.of[x]) /\ LegalRef(model, Decl.of[x])
      BY <1>1, <1>4, <2>2, <2>3, HomeFacts, DeclLegal DEF LegalRefs
    <3> QED
      BY <1>3, <1>4, <3>1, BecomeFacts DEF ElementType
  <2> HIDE DEF types
  <2> QED
    BY <1>2, <1>3, <1>4, <2>1, <2>4 DEF Uses, Use
<1>5. CASE ConvertDataImpl /\ Current("dataimpl")
  <2>1. uses' \subseteq uses \cup Uses(Decl.subs, SubTypes(Decl))
    BY <1>5 DEF ConvertDataImpl
  <2>2. \A x \in DOMAIN Decl.subs : Became(pkg, Decl.subs[x], SubTypes(Decl)[x])
    BY <1>5, FieldsBecome DEF AllBecame
  <2> QED
    BY <1>2, <1>3, <1>5, <2>1, <2>2 DEF Uses, Use
<1>6. ASSUME pkg \in Packages, NEW ref, LegalRef(model, ref), ref.pkg # pkg \/ ref.i = ""
      PROVE  Became(pkg, ref, PortType(ref))
  BY <1>6, BecomeFacts DEF PortType
<1>7. CASE ConvertSubprogram /\ Current("subprogram")
  <2>1. ASSUME NEW u \in uses' \ uses
        PROVE  Fits(u)
    <3>1. PICK x \in DOMAIN Decl.params :
            u = Use(Decl.params[x].ref, PortType(Decl.params[x].ref), TRUE)
      BY <1>7 DEF ConvertSubprogram
    <3>2. pkg \in Packages /\ Decl \in Decls(pkg) /\ Decl.k = "subprogram"
      BY <1>3, <1>7
    <3>3. LegalRef(model, Decl.params[x].ref)
      BY <1>1, <1>7, DeclLegal
    <3>4. Wrappable(pkg, Decl)
      BY <3>2 DEF TypesComplete
    <3>5. Decl.params[x].ref.pkg # pkg \/ Decl.params[x].ref.i = ""
      BY <3>4 DEF Wrappable
    <3>6. Became(pkg, Decl.params[x].ref, PortType(Decl.params[x].ref))
      BY <1>6, <3>2, <3>3, <3>5
    <3>7. Decl.params[x].ref \in References(pkg) /\ IsParameter(pkg, Decl.params[x].ref)
      BY <1>3, <1>7, <3>2 DEF IsParameter
    <3> QED
      BY <3>1, <3>2, <3>6, <3>7 DEF Use
  <2> QED
    BY <1>2, <2>1
<1>8. CASE ConvertPort /\ Current("port")
  <2>1. uses' = uses \cup {Use(Decl.ref, PortType(Decl.ref), FALSE)}
    BY <1>8 DEF ConvertPort
  <2>2. pkg \in Packages /\ Decl \in Decls(pkg) /\ Decl.k = "port" /\ Decl.ref \in References(pkg)
    BY <1>3, <1>8
  <2>3. LegalRef(model, Decl.ref) /\ (Decl.ref.pkg # pkg \/ Decl.ref.i = "")
    BY <1>1, <1>8, <2>2, DeclLegal DEF TypesComplete
  <2>4. Fits(Use(Decl.ref, PortType(Decl.ref), FALSE))
    BY <1>6, <2>2, <2>3 DEF Use
  <2> HIDE DEF Fits
  <2> QED
    BY <1>2, <2>1, <2>4
<1>9. CASE uses' = uses
  BY <1>2, <1>9
<1> QED
  BY <1>4, <1>5, <1>7, <1>8, <1>9, DataSteps DEF ConvertAlias, dvars

(* The fields of one declaration are in the order of their places. *)
LEMMA RowFacts ==
  ASSUME NEW y \in Nat, NEW l \in Nat
  PROVE  /\ DOMAIN InOrderOf({y} \X (1 .. l)) = 1 .. l
         /\ \A i \in 1 .. l : InOrderOf({y} \X (1 .. l))[i] = << y, i >>
<1> DEFINE Row(m) == {y} \X (1 .. m)
           Rank(p) == Cardinality({q \in Row(l) : Before(q, p)})
<1>1. ASSUME NEW m \in Nat
      PROVE  Cardinality(Row(m)) = m
  <2>1. IsFiniteSet(1 .. m) /\ Cardinality(1 .. m) = m
    BY FS_Interval
  <2>2. IsFiniteSet({y}) /\ Cardinality({y}) = 1
    BY FS_Singleton
  <2>3. Cardinality(Row(m)) = 1 * m
    BY <2>1, <2>2, FS_Product
  <2> QED
    BY <2>3
<1>2. ASSUME NEW x \in 1 .. l
      PROVE  Rank(<< y, x >>) = x - 1
  <2>1. {q \in Row(l) : Before(q, << y, x >>)} = Row(x - 1)
    <3>1. ASSUME NEW z \in 1 .. l
          PROVE  Before(<< y, z >>, << y, x >>) <=> z < x
      BY DEF Before
    <3>2. \A q \in Row(l) : Before(q, << y, x >>) <=> q \in Row(x - 1)
      BY <3>1
    <3>3. Row(x - 1) \subseteq Row(l)
      OBVIOUS
    <3> QED
      BY <3>2, <3>3
  <2>2. Cardinality(Row(x - 1)) = x - 1
    BY <1>1
  <2> QED
    BY <2>1, <2>2
<1>3. ASSUME NEW i \in 1 .. l
      PROVE  (CHOOSE p \in Row(l) : Rank(p) = i - 1) = << y, i >>
  <2>1. << y, i >> \in Row(l) /\ Rank(<< y, i >>) = i - 1
    BY <1>2
  <2>2. ASSUME NEW p \in Row(l), Rank(p) = i - 1
        PROVE  p = << y, i >>
    <3>1. PICK x \in 1 .. l : p = << y, x >>
      OBVIOUS
    <3>2. Rank(p) = x - 1
      BY <1>2, <3>1
    <3> HIDE DEF Rank
    <3> QED
      BY <2>2, <3>1, <3>2
  <2> HIDE DEF Rank, Row
  <2> QED
    BY <2>1, <2>2
<1>4. InOrderOf(Row(l)) = [i \in 1 .. l |-> CHOOSE p \in Row(l) : Rank(p) = i - 1]
  BY <1>1 DEF InOrderOf
<1> HIDE DEF Rank
<1> QED
  BY <1>3, <1>4

(* What a plain field has become is a name. *)
LEMMA PlainFacts ==
  ASSUME TypesInv, TypesComplete, NamesWhole, NEW ref, LegalRef(model, ref), Plain(ref),
         NEW k, NEW t, Became(k, ref, t)
  PROVE  Len(t) = 1
<1>1. Legal /\ NamesSound /\ MappingSound
  BY DEF TypesInv
<1>2. \A x : Len(<< x >>) = 1
  OBVIOUS
<1>3. CASE ref.pkg = 0 \/ t = << ref.n >>
  BY <1>2, <1>3 DEF Became
<1>4. CASE ref.pkg # 0 /\ Lower[ref.n] \in DOMAIN mapping /\ t = mapping[Lower[ref.n]]
  <2> DEFINE p == DeclOf(ref)
  <2>1. p \in DataDecls /\ NameOf(p) = Lower[ref.n]
    BY <1>1, <1>4, RefFacts DEF NameOf
  <2>2. Meant[p].dims = 0 /\ Meant[p] # Nothing
    BY <1>4 DEF Plain, Declared
  <2>3. At(p).rep \notin NewKinds /\ Dealt(p[1], p[2])
    BY <1>4, <2>1 DEF NamesWhole
  <2>4. At(p).rep # "array"
    BY <1>1, <2>1, <2>2, MeantDims
  <2>5. p \in Aliases
    BY <1>1, <2>1, <2>3, <2>4, OnceNamed DEF Aliases
  <2>6. Stands(t, Meant[p]) /\ Len(t) \in Nat
    BY <1>1, <1>4, <2>1, <2>3, <2>5 DEF NamesSound, MappingSound, IsType, IsSequence
  <2>7. Meant[p].dims = Len(t) - 1
    BY <2>6, StandsKind
  <2>8. Len(t) - 1 = 0
    BY <2>2, <2>7
  <2> QED
    BY <2>6, <2>8
<1> QED
  BY <1>3, <1>4 DEF Became

(* find_data_type_from_implementation finds all data of the implementation, *)
(* if that is the only one with such a name and its data are no arrays.     *)
LEMMA CallFacts ==
  ASSUME TypeOK, TypesInv, TypesComplete, NamesWhole, pkg \in Packages, NEW n
  PROVE  CallSound(pkg, n, AccessTypes(n))
<1> SUFFICES ASSUME NEW y \in DOMAIN model[pkg].decls, Reads(pkg, n) = {y},
                    \A x \in DOMAIN Held(DeclAt(pkg, y)) : Plain(Held(DeclAt(pkg, y))[x])
             PROVE  /\ AllBecame(pkg, Held(DeclAt(pkg, y)), AccessTypes(n))
                    /\ \A x \in DOMAIN AccessTypes(n) : Len(AccessTypes(n)[x]) = 1
  BY DEF CallSound
<1> DEFINE subs == Held(DeclAt(pkg, y))
           L == Len(subs)
           type(p) == Resolve(Held(model[pkg].decls[p[1]])[p[2]].n)
           impl(z) == /\ model[pkg].decls[z].k \in {"dataimpl", "process", "other"}
                      /\ model[pkg].decls[z].n \in Begins[n]
           fields == UNION {{z} \X DOMAIN Held(model[pkg].decls[z]) :
                              z \in {v \in DOMAIN model[pkg].decls : impl(v)}}
           chosen == {p \in fields : Len(type(p)) = 1}
<1>1. /\ Legal /\ pkg \in DOMAIN model /\ y \in Nat
      /\ DeclAt(pkg, y) = model[pkg].decls[y] /\ subs # <<>> /\ impl(y)
  BY DealtFacts DEF TypesInv, Reads, DeclAt, Held
<1>2. LegalRefs(model, subs)
  BY <1>1 DEF Legal, LegalTypes, Held
<1>3. L \in Nat /\ DOMAIN subs = 1 .. L
  BY <1>2 DEF LegalRefs, IsSequence
<1>4. ASSUME NEW x \in DOMAIN subs
      PROVE  Became(pkg, subs[x], Resolve(subs[x].n)) /\ Len(Resolve(subs[x].n)) = 1
  <2>1. LegalRef(model, subs[x]) /\ Plain(subs[x])
    BY <1>2 DEF LegalRefs
  <2> HIDE DEF subs
  <2>2. Became(pkg, subs[x], Resolve(subs[x].n))
    BY <2>1, BecomeFacts
  <2> QED
    BY <2>1, <2>2, PlainFacts
<1>5. ASSUME NEW z \in DOMAIN model[pkg].decls, impl(z), z # y
      PROVE  DOMAIN Held(model[pkg].decls[z]) = {}
  <2>1. Held(model[pkg].decls[z]) = <<>>
    BY <1>5 DEF Reads, DeclAt
  <2> QED
    BY <2>1
<1>6. fields = {y} \X (1 .. L)
  <2> DEFINE held(z) == Held(model[pkg].decls[z])
             named == {v \in DOMAIN model[pkg].decls : impl(v)}
  <2>1. y \in named /\ DOMAIN held(y) = 1 .. L
    BY <1>1, <1>3
  <2>2. \A z \in named : z # y => DOMAIN held(z) = {}
    BY <1>5
  <2>3. fields = UNION {{z} \X DOMAIN held(z) : z \in named}
    OBVIOUS
  <2> HIDE DEF held, named, fields, L
  <2>4. ASSUME NEW q \in fields
        PROVE  q \in {y} \X (1 .. L)
    <3>1. PICK z \in named : q \in {z} \X DOMAIN held(z)
      BY <2>3
    <3>2. z = y
      BY <2>2, <3>1
    <3> QED
      BY <2>1, <3>1, <3>2
  <2>5. ASSUME NEW q \in {y} \X (1 .. L)
        PROVE  q \in fields
    BY <2>1, <2>3
  <2> QED
    BY <2>4, <2>5
<1>7. ASSUME NEW x \in 1 .. L
      PROVE  type(<< y, x >>) = Resolve(subs[x].n)
  BY <1>1
<1>8. chosen = {y} \X (1 .. L)
  <2> HIDE DEF subs, fields, L
  <2>1. ASSUME NEW p \in {y} \X (1 .. L)
        PROVE  Len(type(p)) = 1
    <3>1. PICK x \in 1 .. L : p = << y, x >>
      OBVIOUS
    <3>2. type(p) = Resolve(subs[x].n)
      BY <1>7, <3>1
    <3> HIDE DEF type
    <3> QED
      BY <1>3, <1>4, <3>2
  <2> QED
    BY <1>6, <2>1
<1>9. AccessTypes(n) = [i \in DOMAIN InOrderOf(chosen) |-> type(InOrderOf(chosen)[i])]
  BY DEF AccessTypes
<1> HIDE DEF subs, L, chosen, type
<1>10. DOMAIN InOrderOf(chosen) = 1 .. L /\ \A i \in 1 .. L : InOrderOf(chosen)[i] = << y, i >>
  BY <1>1, <1>3, <1>8, RowFacts
<1>11. DOMAIN AccessTypes(n) = 1 .. L /\ \A i \in 1 .. L : AccessTypes(n)[i] = Resolve(subs[i].n)
  BY <1>7, <1>9, <1>10
<1>12. AllBecame(pkg, subs, AccessTypes(n))
  BY <1>3, <1>4, <1>11 DEF AllBecame
<1>13. \A x \in DOMAIN AccessTypes(n) : Len(AccessTypes(n)[x]) = 1
  BY <1>3, <1>4, <1>11
<1> QED
  BY <1>12, <1>13 DEF subs

(* A wrapper stays that of its subprogram, whose call() is made once. *)
LEMMA WrapperKept ==
  ASSUME TypeOK, [ConverterNext]_<<vars, dvars>>, NEW w, NEW k, NEW x, IsWrapperOf(w, k, x)
  PROVE  IsWrapperOf(w, k, x)'
<1>1. /\ UNCHANGED model
      /\ \A j, y : DeclAt(j, y)' = DeclAt(j, y)
      /\ \A j, n : Reads(j, n)' = Reads(j, n)
      /\ \A ref : Plain(ref)' <=> Plain(ref)
  BY DataSteps, SameWhole
<1>2. ASSUME NEW n, NEW call, CallSound(k, n, call)
      PROVE  CallSound(k, n, call)'
  BY <1>1, <1>2, BecameKept DEF CallSound, Held
<1> QED
  BY <1>1, <1>2 DEF IsWrapperOf, NamesImpl

LEMMA WrappersWholeStep ==
  ASSUME TypeOK, TypesInv, TypesComplete, NamesWhole, WrappersWhole,
         [ConverterNext]_<<vars, dvars>>
  PROVE  WrappersWhole'
<1> DEFINE Moved == \A k, x : Dealt(k, x)' <=> Dealt(k, x) \/ (k = pkg /\ x = pos + 1)
<1>1. ASSUME wrappers' = wrappers,
             \A k, x : Of("subprogram", k, x)' <=> Of("subprogram", k, x)
      PROVE  WrappersWhole'
  <2>1. \A w \in wrappers' : \E x : Of("subprogram", w.pkg, x)' /\ IsWrapperOf(w, w.pkg, x)'
    BY <1>1, WrapperKept DEF WrappersWhole
  <2>2. \A k, x : Of("subprogram", k, x)' => \E w \in wrappers' : IsWrapperOf(w, k, x)'
    BY <1>1, WrapperKept DEF WrappersWhole
  <2> QED
    BY <2>1, <2>2 DEF WrappersWhole
<1>2. CASE Current("subprogram") /\ ConvertSubprogram /\ Moved
  <2> DEFINE d == Decl
             call == IF Decl.access # <<>> /\ NamesImpl(Decl.access[1])
                     THEN AccessTypes(Decl.access[1].n) ELSE <<>>
  <2>1. DeclAt(pkg, pos + 1) = Decl /\ Decl.k = "subprogram" /\ pkg \in Packages
    BY <1>2, CurrentFacts
  <2>2. PICK w, k, x : /\ k = pkg /\ x = pos + 1
                       /\ w = [pkg |-> pkg, n |-> Decl.n,
                               dirs |-> [y \in DOMAIN Decl.params |-> Decl.params[y].dir], call |-> call]
    OBVIOUS
  <2>3. wrappers' = wrappers \cup {w}
    BY <1>2, <2>2 DEF ConvertSubprogram
  <2>4. IsWrapperOf(w, k, x)
    <3>1. DeclAt(k, x) = Decl
      BY <2>1, <2>2
    <3>2. /\ w.pkg = k /\ w.n = Decl.n /\ w.call = call
          /\ w.dirs = [y \in DOMAIN Decl.params |-> Decl.params[y].dir]
      BY <2>2
    <3>3. Decl.access # <<>> /\ NamesImpl(Decl.access[1]) => CallSound(k, Decl.access[1].n, w.call)
      BY <2>1, <2>2, <3>2, CallFacts
    <3> QED
      BY <3>1, <3>2, <3>3 DEF IsWrapperOf
  <2>5. IsWrapperOf(w, k, x)'
    BY <2>4, WrapperKept
  <2>6. w.pkg = k
    BY <2>2
  <2>7. \A j, y : Of("subprogram", j, y)' <=> Of("subprogram", j, y) \/ (j = k /\ y = x)
    BY <1>2, <2>1, <2>2, OfStep
  <2>8. \A v \in wrappers' : \E y : Of("subprogram", v.pkg, y)' /\ IsWrapperOf(v, v.pkg, y)'
    BY <2>3, <2>5, <2>6, <2>7, WrapperKept DEF WrappersWhole
  <2>9. \A j, y : Of("subprogram", j, y)' => \E v \in wrappers' : IsWrapperOf(v, j, y)'
    BY <2>3, <2>5, <2>7, WrapperKept DEF WrappersWhole
  <2> QED
    BY <2>8, <2>9 DEF WrappersWhole
<1>3. CASE \/ Current("data") /\ (ConvertComposite \/ ConvertAlias) /\ Moved
           \/ Current("dataimpl") /\ ConvertDataImpl /\ Moved
           \/ Current("port") /\ ConvertPort /\ Moved
  <2>1. wrappers' = wrappers
    BY <1>3 DEF ConvertComposite, ConvertAlias, ConvertDataImpl, ConvertPort
  <2>2. DeclAt(pkg, pos + 1) = Decl /\ Decl.k \in {"data", "dataimpl", "port"}
    BY <1>3, CurrentFacts
  <2>3. \A k, x : Of("subprogram", k, x)' <=> Of("subprogram", k, x)
    BY <1>3, <2>2, OfStep
  <2> QED
    BY <1>1, <2>1, <2>3
<1>4. CASE /\ UNCHANGED dvars
           /\ \A k, x : DeclAt(k, x).k \in {"data", "dataimpl", "subprogram", "port"} =>
                          (Dealt(k, x)' <=> Dealt(k, x))
  <2>1. \A k, x : Of("subprogram", k, x)' <=> Of("subprogram", k, x)
    BY <1>4, OfStep
  <2> QED
    BY <1>1, <1>4, <2>1 DEF dvars
<1> QED
  BY <1>2, <1>3, <1>4, WholeSteps

(* Under TypesComplete the modules contain, of what has been converted so  *)
(* far, every item, impl block and wrapper, once, with what its references *)
(* have become; determine_array_type has not panicked.                     *)
THEOREM WholeInvariant == ConverterSpec => []TypesWhole
<1>1. ConverterInit => TypesWhole
  BY WholeInit DEF TypesWhole
<1>2. TypeOK /\ TypesInv /\ TypesWhole /\ [ConverterNext]_<<vars, dvars>> => TypesWhole'
  <2> SUFFICES ASSUME TypeOK, TypesInv, TypesWhole, [ConverterNext]_<<vars, dvars>>, TypesComplete'
               PROVE  Whole'
    BY DEF TypesWhole
  <2>1. TypesComplete
    BY DataSteps, SameWhole
  <2>2. /\ status # "panicked" /\ NamesWhole /\ ImpliedWhole /\ ItemsWhole /\ ImplsWhole
        /\ WrappersWhole /\ UsesWhole
    BY <2>1 DEF TypesWhole, Whole
  <2> QED
    BY <2>1, <2>2, NoPanicStep, NamesWholeStep, ImpliedWholeStep, ItemsWholeStep, ImplsWholeStep,
       WrappersWholeStep, UsesWholeStep DEF Whole
<1>3. IInv => TypeOK
  BY DEF IInv
<1> QED
  BY <1>1, <1>2, <1>3, InvariantHolds, TypesInvariant, PTL DEF ConverterSpec

(* All packages of a complete model are converted. *)
Ended == TypeOK /\ TypesInv /\ TypesComplete /\ Whole /\ pkg \notin Packages

(* What types and references stand for in the end, in the module of        *)
(* package k: what they mean, but for arrays that do not keep their        *)
(* meaning and for structs of C in another module.                         *)
Final(k, p) ==
  IF At(p).rep \in NewKinds THEN Meaning(0, At(p).rep, p[1], At(p).n)
  ELSE BuiltIn(k, mapping[NameOf(p)])

FinalRef(k, ref) == IF ref.pkg = 0 THEN Base(ref.n) ELSE Final(k, DeclOf(ref))

(* By then every type has its item, every other declaration what it gives. *)
LEMMA EndedFacts ==
  ASSUME Ended
  PROVE  /\ Legal /\ MappingSound
         /\ \A p \in DataDecls :
              /\ Written(p)
              /\ IF At(p).rep \in NewKinds THEN NameOf(p) \notin DOMAIN mapping
                 ELSE NameOf(p) \in DOMAIN mapping /\ Settled(p, mapping[NameOf(p)])
         /\ \A k \in Packages : \A x \in DOMAIN model[k].decls : Of(DeclAt(k, x).k, k, x)
<1>1. Legal /\ MappingSound /\ TypeOK /\ NamesWhole
  BY DEF Ended, TypesInv, Whole
<1>2. \A k \in Packages : \A x \in DOMAIN model[k].decls : Dealt(k, x)
  BY <1>1, AllDealt DEF Ended
<1>3. ASSUME NEW p \in DataDecls
      PROVE  Written(p) /\ Dealt(p[1], p[2])
  <2>1. HomeOf(p) \in DOMAIN model[p[1]].decls
    BY <1>1, HomeFacts DEF Ended
  <2>2. p[1] \in Packages /\ p[2] \in DOMAIN model[p[1]].decls
    BY <1>1, PlaceFacts
  <2> QED
    BY <1>2, <2>1, <2>2 DEF Written
<1> QED
  BY <1>1, <1>2, <1>3 DEF NamesWhole, Of

(* References of declarations are legal. *)
LEMMA ReferenceFacts ==
  ASSUME Legal, NEW k \in Packages, NEW x \in DOMAIN model[k].decls
  PROVE  LET d == DeclAt(k, x)
         IN  /\ d \in Decls(k)
             /\ d.k = "data" => \A i \in DOMAIN d.of : d.of[i] \in References(k) /\ LegalRef(model, d.of[i])
             /\ d.k = "dataimpl" =>
                  /\ IsSequence(d.subs)
                  /\ \A i \in DOMAIN d.subs : d.subs[i] \in References(k) /\ LegalRef(model, d.subs[i])
<1> DEFINE d == DeclAt(k, x)
<1>1. k \in DOMAIN model
  BY DEF Legal, WellFormed, IsSequence, Packages
<1>2. d \in Decls(k)
  BY DEF DeclAt, Decls
<1>3. /\ d.k = "data" => LegalRefs(model, d.of)
      /\ d.k = "dataimpl" => LegalRefs(model, d.subs)
  BY <1>1 DEF Legal, LegalTypes, LegalData, DeclAt
<1> HIDE DEF d
<1>4. ASSUME d.k = "data", NEW i \in DOMAIN d.of
      PROVE  d.of[i] \in References(k)
  BY <1>2, <1>4 DEF References
<1>5. ASSUME d.k = "dataimpl", NEW i \in DOMAIN d.subs
      PROVE  d.subs[i] \in References(k)
  BY <1>2, <1>5 DEF References
<1>6. /\ d.k = "data" => \A i \in DOMAIN d.of : d.of[i] \in References(k) /\ LegalRef(model, d.of[i])
      /\ d.k = "dataimpl" =>
           /\ IsSequence(d.subs)
           /\ \A i \in DOMAIN d.subs : d.subs[i] \in References(k) /\ LegalRef(model, d.subs[i])
  BY <1>3, <1>4, <1>5 DEF LegalRefs
<1> QED
  BY <1>2, <1>6 DEF d

(* The name of a type means its item wherever it is imported. *)
LEMMA ScopeFacts ==
  ASSUME Ended, NEW p \in DataDecls, NEW k, p[1] \in {k} \cup model[k].withs
  PROVE  /\ Cardinality(InScope(k, With(At(p).n))) = 1
         /\ ItemOf(k, At(p).n) \in items /\ IsItemOf(ItemOf(k, At(p).n), p)
<1> DEFINE n == At(p).n
<1>1. ItemsWhole /\ Written(p)
  BY EndedFacts DEF Ended, Whole
<1>2. PICK it \in items : IsItemOf(it, p)
  BY <1>1 DEF ItemsWhole
<1>3. it.n = n /\ it.pkg = p[1]
  BY <1>2 DEF IsItemOf
<1>4. \A jt \in items : jt.n = n => jt = it
  BY <1>1, <1>3 DEF ItemsWhole
<1> HIDE DEF n
<1>5. With(n) = {p[1]}
  BY <1>3, <1>4 DEF With
<1>6. InScope(k, {p[1]}) = {p[1]}
  BY DEF InScope
<1>7. Cardinality({p[1]}) = 1
  BY FS_Singleton
<1>8. ItemOf(k, n) = CHOOSE jt \in items : jt.n = n /\ jt.pkg \in {p[1]}
  BY <1>5, <1>6 DEF ItemOf
<1>9. ItemOf(k, n) = it
  BY <1>3, <1>4, <1>8
<1> QED
  BY <1>2, <1>5, <1>6, <1>7, <1>9 DEF n

(* A reference of package k has become what it stands for there, or in the *)
(* package of the type it names.                                           *)
LEMMA DenotesFinal ==
  ASSUME Ended, NEW k \in Packages, NEW ref \in References(k), LegalRef(model, ref),
         NEW t, Became(k, ref, t)
  PROVE  /\ Denotes(k, t) = FinalRef(IF t = << ref.n >> THEN ref.pkg ELSE k, ref)
         /\ Denotes(k, t) # Nothing
<1>1. Spelled(ref) /\ ref.pkg \in {0, k} \cup model[k].withs
  BY DEF Ended, TypesComplete
<1>2. Legal /\ MappingSound
  BY EndedFacts
<1>3. \A j, s : BuiltIn(j, s) # Nothing
  BY DEF BuiltIn, Nothing, Meaning
<1>4. CASE ref.pkg = 0
  <2>1. t = << BaseTypes[Lower[ref.n]] >> /\ Lower[ref.n] \in DOMAIN BaseTypes
    BY <1>4 DEF Became, LegalRef
  <2>2. IsBuiltIn(t) /\ BuiltIn(k, t) = Base(ref.n)
    BY <2>1, BaseFacts, BuiltInFacts
  <2> QED
    BY <1>3, <1>4, <2>2 DEF Denotes, FinalRef
<1>5. CASE ref.pkg # 0
  <2> DEFINE p == DeclOf(ref)
  <2>1. /\ p \in DataDecls /\ p[1] = ref.pkg /\ At(p).n = ref.n /\ NameOf(p) = Lower[ref.n]
        /\ ref.n \notin Primitive \cup Foreign
    BY <1>1, <1>2, <1>5, RefFacts DEF Spelled, NameOf
  <2>2. \A j : FinalRef(j, ref) = Final(j, p)
    BY <1>5 DEF FinalRef
  <2> HIDE DEF p
  <2>3. IF At(p).rep \in NewKinds THEN NameOf(p) \notin DOMAIN mapping
        ELSE NameOf(p) \in DOMAIN mapping /\ Settled(p, mapping[NameOf(p)])
    BY <2>1, EndedFacts
  <2>4. \A j : Final(j, p) # Nothing
    BY <1>3 DEF Final, Nothing, Meaning, NewKinds, Composites
  <2>5. CASE t = mapping[Lower[ref.n]] /\ Lower[ref.n] \in DOMAIN mapping
    <3>1. At(p).rep \notin NewKinds /\ IsBuiltIn(t)
      BY <2>1, <2>3, <2>5 DEF Settled
    <3>2. Denotes(k, t) = BuiltIn(k, t)
      BY <3>1 DEF Denotes
    <3>3. Final(k, p) = BuiltIn(k, t)
      BY <2>1, <2>5, <3>1 DEF Final
    <3>4. t # << ref.n >>
      BY <2>1, <3>1, BuiltInFacts
    <3> QED
      BY <2>2, <2>4, <3>2, <3>3, <3>4
  <2>6. CASE t = << ref.n >>
    <3> DEFINE it == ItemOf(k, ref.n)
    <3>1. Len(t) = 1 /\ t[1] = ref.n /\ ~IsBuiltIn(t)
      BY <2>1, <2>6, BuiltInFacts
    <3>2. Cardinality(InScope(k, With(ref.n))) = 1 /\ IsItemOf(it, p)
      <4>1. p[1] \in {k} \cup model[k].withs
        BY <1>1, <1>5, <2>1
      <4> QED
        BY <2>1, <4>1, ScopeFacts
    <3> HIDE DEF it
    <3>3. Denotes(k, t) = AsItem(it, t)
      BY <3>1, <3>2 DEF Denotes, it
    <3>4. CASE At(p).rep \in NewKinds
      <4>1. it.kind = At(p).rep /\ it.pkg = p[1]
        BY <3>2, <3>4 DEF IsItemOf
      <4>2. it.kind # "alias"
        BY <3>4, <4>1 DEF NewKinds, Composites
      <4>3. AsItem(it, t) = Meaning(0, it.kind, it.pkg, ref.n)
        BY <3>1, <4>2 DEF AsItem
      <4>4. \A j : Final(j, p) = Meaning(0, At(p).rep, p[1], ref.n)
        BY <2>1, <3>4 DEF Final
      <4> QED
        BY <2>2, <2>4, <3>3, <4>1, <4>3, <4>4
    <3>5. CASE At(p).rep \notin NewKinds
      <4> DEFINE s == mapping[NameOf(p)]
      <4>1. it.kind = "alias" /\ it.types = << s >> /\ it.pkg = ref.pkg
        BY <2>1, <3>2, <3>5 DEF IsItemOf
      <4>2. IsBuiltIn(s) /\ Final(ref.pkg, p) = BuiltIn(ref.pkg, s)
        BY <2>3, <3>5 DEF Settled, Final
      <4> HIDE DEF s
      <4>3. AsItem(it, t) = [BuiltIn(ref.pkg, s) EXCEPT !.dims = @ + 0]
        BY <3>1, <4>1, <4>2 DEF AsItem
      <4>4. Len(s) - 1 + 0 = Len(s) - 1
        <5>1. IsSequence(s)
          BY <1>2, <2>3, <3>5 DEF MappingSound, IsType, s
        <5> QED
          BY <5>1 DEF IsSequence
      <4>5. [BuiltIn(ref.pkg, s) EXCEPT !.dims = @ + 0] = BuiltIn(ref.pkg, s)
        BY <4>4 DEF BuiltIn, Meaning
      <4> QED
        BY <2>2, <2>4, <2>6, <3>3, <4>2, <4>3, <4>5
    <3> QED
      BY <3>4, <3>5
  <2> QED
    BY <1>5, <2>5, <2>6 DEF Became
<1> QED
  BY <1>4, <1>5

(* All that a reference has become in a package is the same type there.    *)
LEMMA DenotesSame ==
  ASSUME Ended, NEW k \in Packages, NEW ref \in References(k), LegalRef(model, ref),
         NEW s, Became(k, ref, s), NEW t, Became(k, ref, t)
  PROVE  Denotes(k, s) = Denotes(k, t)
<1>1. CASE ref.pkg \in {0, k}
  <2>1. \A j : ref.pkg = 0 => FinalRef(j, ref) = FinalRef(k, ref)
    BY DEF FinalRef
  <2>2. Denotes(k, s) = FinalRef(k, ref) /\ Denotes(k, t) = FinalRef(k, ref)
    BY <1>1, <2>1, DenotesFinal
  <2> QED
    BY <2>2
<1>2. CASE ref.pkg \notin {0, k}
  <2> DEFINE p == DeclOf(ref)
  <2>1. Legal
    BY EndedFacts
  <2>2. p \in DataDecls /\ p[1] = ref.pkg /\ NameOf(p) = Lower[ref.n]
    BY <1>2, <2>1, RefFacts DEF NameOf
  <2>3. ref.pkg \in Nat /\ k \in Nat
    BY <2>1, <2>2, PlaceFacts DEF Packages
  <2>4. At(p).rep \in NewKinds => Lower[ref.n] \notin DOMAIN mapping
    BY <2>2, EndedFacts
  <2>5. CASE ref.pkg < k
    BY <1>2, <2>4, <2>5 DEF Became
  <2>6. CASE ~(ref.pkg <= k)
    BY <1>2, <2>6 DEF Became
  <2> QED
    BY <1>2, <2>3, <2>5, <2>6
<1> QED
  BY <1>1, <1>2

(* What a plain reference stands for is called what the model declares.    *)
LEMMA FinalIsDeclared ==
  ASSUME Ended, NEW ref, LegalRef(model, ref), Plain(ref), NEW k
  PROVE  FinalRef(k, ref).dims = Declared(ref).dims /\ FinalRef(k, ref).n = Declared(ref).n
<1>1. Legal /\ NamesSound
  BY EndedFacts DEF Ended, TypesInv
<1>2. CASE ref.pkg = 0
  BY <1>2 DEF FinalRef, Declared
<1>3. CASE ref.pkg # 0
  <2> DEFINE p == DeclOf(ref)
  <2>1. p \in DataDecls /\ Meant[p].dims = 0 /\ Meant[p] # Nothing
    BY <1>1, <1>3, RefFacts DEF Plain, Declared
  <2>2. FinalRef(k, ref) = Final(k, p) /\ Declared(ref) = Meant[p]
    BY <1>3 DEF FinalRef, Declared
  <2> HIDE DEF p
  <2>3. At(p).rep # "array"
    BY <1>1, <2>1, MeantDims
  <2>4. CASE At(p).rep \in NewKinds
    <3>1. Meant[p] = Elementary(p)
      BY <1>1, <2>1, <2>3, MeantFacts DEF Derived
    <3> QED
      BY <2>2, <2>4, <3>1 DEF Elementary, Final, NewKinds, Composites
  <2>5. CASE At(p).rep \notin NewKinds
    <3>1. p \in Aliases
      BY <1>1, <2>1, <2>3, <2>5, OnceNamed DEF Aliases, Ended
    <3>2. Dealt(p[1], p[2])
      <4>1. Written(p) /\ ~Waits(p)
        BY <2>1, <2>5, EndedFacts DEF Waits, NewKinds
      <4> QED
        BY <4>1 DEF Written, HomeOf
    <3>3. Stands(mapping[NameOf(p)], Meant[p])
      BY <1>1, <3>1, <3>2 DEF NamesSound
    <3>4. /\ Meant[p].dims = Len(mapping[NameOf(p)]) - 1
          /\ Meant[p].n = mapping[NameOf(p)][Len(mapping[NameOf(p)])]
      BY <3>3, StandsKind
    <3> QED
      BY <2>2, <2>5, <3>4 DEF Final, BuiltIn, Meaning
  <2> QED
    BY <2>4, <2>5
<1> QED
  BY <1>2, <1>3

(* The modules of wrappers import what parameters have become. *)
LEMMA WrapperType ==
  ASSUME Ended, NEW ref, LegalRef(model, ref), NEW k, NEW t, Became(k, ref, t),
         IF Declared(ref).dims = 0 THEN Declared(ref).n # "()" ELSE Declared(ref).kind = "primitive"
  PROVE  InWrapper(t)
<1>1. Legal /\ NamesSound /\ MappingSound
  BY EndedFacts DEF Ended, TypesInv
<1>2. "()" \in Primitive
  BY DEF Primitive
<1>3. CASE ref.pkg = 0
  <2>1. t = << BaseTypes[Lower[ref.n]] >> /\ Lower[ref.n] \in DOMAIN BaseTypes
    BY <1>3 DEF Became, LegalRef
  <2>2. Declared(ref) = Meaning(0, "primitive", 0, BaseTypes[Lower[ref.n]])
    BY <1>3, <2>1, BaseFacts DEF Declared
  <2>3. BaseTypes[Lower[ref.n]] # "()"
    BY <2>2 DEF Meaning
  <2> QED
    BY <2>1, <2>3 DEF InWrapper
<1>4. CASE ref.pkg # 0 /\ t = << ref.n >>
  <2>1. ref.n # "()"
    BY <1>1, <1>2, <1>4, RefFacts
  <2> QED
    BY <1>4, <2>1 DEF InWrapper
<1>5. CASE ref.pkg # 0 /\ Lower[ref.n] \in DOMAIN mapping /\ t = mapping[Lower[ref.n]]
  <2> DEFINE p == DeclOf(ref)
  <2>1. p \in DataDecls /\ NameOf(p) = Lower[ref.n] /\ Declared(ref) = Meant[p]
    BY <1>1, <1>5, RefFacts DEF NameOf, Declared
  <2> HIDE DEF p
  <2>2. At(p).rep \notin NewKinds /\ Settled(p, t) /\ Dealt(p[1], p[2])
    BY <1>5, <2>1, EndedFacts DEF Written, HomeOf, Waits, NewKinds
  <2>3. Len(t) \in Nat \ {0}
    BY <1>1, <1>5 DEF MappingSound, IsType, IsSequence
  <2>4. CASE At(p).rep # "array"
    <3>1. p \in Aliases
      BY <1>1, <2>1, <2>2, <2>4, OnceNamed DEF Aliases, Ended
    <3>2. Stands(t, Meant[p])
      BY <1>1, <1>5, <2>1, <2>2, <3>1 DEF NamesSound
    <3>3. /\ Declared(ref).dims = Len(t) - 1 /\ Declared(ref).n = t[Len(t)]
          /\ Declared(ref).kind # "foreign" => t[Len(t)] \in Primitive
      BY <2>1, <3>2, StandsKind
    <3>4. CASE Len(t) = 1
      BY <3>3, <3>4 DEF InWrapper
    <3>5. CASE Len(t) # 1
      <4>1. Declared(ref).dims # 0
        BY <2>3, <3>3, <3>5
      <4> QED
        BY <3>3, <3>5, <4>1 DEF InWrapper
    <3> QED
      BY <3>4, <3>5
  <2>5. CASE At(p).rep = "array"
    <3>1. Len(t) # 1 /\ (Meant[p].kind # "foreign" => t[Len(t)] \in Primitive)
      BY <2>2, <2>5 DEF Settled
    <3>2. Meant[p].dims = 0 => Meant[p].kind # "foreign"
      <4>1. Meant[p].dims = 0 => Meant[p] = Nothing
        BY <1>1, <2>1, <2>5, MeantDims
      <4>2. Nothing.kind = "nothing"
        BY DEF Nothing, Meaning
      <4> QED
        BY <4>1, <4>2
    <3> QED
      BY <2>1, <3>1, <3>2 DEF InWrapper
  <2> QED
    BY <2>4, <2>5
<1> QED
  BY <1>3, <1>4, <1>5 DEF Became

(* Every item and every use of a type is accepted. *)
LEMMA ItemsAccepted ==
  ASSUME Ended
  PROVE  ItemsCompile
<1>1. Legal /\ ItemsWhole /\ UsesWhole /\ UsesSound
  BY EndedFacts DEF Ended, TypesInv, Whole
<1>2. ASSUME NEW u \in uses
      PROVE  /\ Denotes(u.pkg, u.type) # Nothing
             /\ u.wrapped => InWrapper(u.type)
  <2>1. /\ u.pkg \in Packages /\ u.ref \in References(u.pkg) /\ Became(u.pkg, u.ref, u.type)
        /\ LegalRef(model, u.ref)
    BY <1>1 DEF UsesWhole, UsesSound, Resolved
  <2>2. ASSUME u.wrapped
        PROVE  InWrapper(u.type)
    <3>1. PICK d \in Decls(u.pkg) :
            d.k = "subprogram" /\ \E x \in DOMAIN d.params : d.params[x].ref = u.ref
      BY <1>1, <2>2 DEF UsesWhole, IsParameter
    <3>2. PICK x \in DOMAIN d.params : d.params[x].ref = u.ref
      BY <3>1
    <3>3. Wrappable(u.pkg, d)
      BY <2>1, <3>1 DEF Ended, TypesComplete
    <3>4. IF Declared(u.ref).dims = 0 THEN Declared(u.ref).n # "()"
          ELSE Declared(u.ref).kind = "primitive"
      BY <3>2, <3>3 DEF Wrappable
    <3> QED
      BY <2>1, <3>4, WrapperType
  <2> QED
    BY <2>1, <2>2, DenotesFinal
<1>3. ASSUME NEW it \in items
      PROVE  /\ it.kind # "union"
             /\ \A x \in DOMAIN it.types : Denotes(it.pkg, it.types[x]) # Nothing
  <2>1. PICK p \in DataDecls : IsItemOf(it, p)
    BY <1>1 DEF ItemsWhole
  <2>2. it.pkg = p[1] /\ At(p).rep # "union"
    BY <2>1 DEF IsItemOf, Ended, TypesComplete
  <2>3. /\ p[1] \in Packages /\ p[2] \in DOMAIN model[p[1]].decls /\ At(p) = DeclAt(p[1], p[2])
        /\ At(p).k = "data"
    BY <1>1, PlaceFacts
  <2>4. CASE At(p).rep \in NewKinds
    <3>1. it.kind = At(p).rep /\ AllBecame(p[1], Elements(p), it.types)
      BY <2>1, <2>4 DEF IsItemOf
    <3>2. ASSUME NEW x \in DOMAIN Elements(p)
          PROVE  Elements(p)[x] \in References(p[1]) /\ LegalRef(model, Elements(p)[x])
      <4>1. CASE Waits(p)
        <5>1. /\ HomeOf(p) \in DOMAIN model[p[1]].decls
              /\ DeclAt(p[1], HomeOf(p)).k = "dataimpl"
              /\ Elements(p) = DeclAt(p[1], HomeOf(p)).subs
          BY <1>1, <4>1, HomeFacts DEF Ended
        <5> QED
          BY <1>1, <2>3, <5>1, ReferenceFacts
      <4>2. CASE ~Waits(p)
        <5>1. Elements(p) = At(p).of
          BY <1>1, <4>2, HomeFacts DEF Ended
        <5> QED
          BY <1>1, <2>3, <5>1, ReferenceFacts
      <4> QED
        BY <4>1, <4>2
    <3>3. ASSUME NEW x \in DOMAIN it.types
          PROVE  Denotes(it.pkg, it.types[x]) # Nothing
      <4>1. x \in DOMAIN Elements(p) /\ Became(p[1], Elements(p)[x], it.types[x])
        BY <3>1 DEF AllBecame
      <4> QED
        BY <2>2, <2>3, <3>2, <4>1, DenotesFinal
    <3> QED
      BY <2>2, <3>1, <3>3
  <2>5. CASE At(p).rep \notin NewKinds
    <3>1. it.kind = "alias" /\ it.types = << mapping[NameOf(p)] >>
      BY <2>1, <2>5 DEF IsItemOf
    <3>2. IsBuiltIn(mapping[NameOf(p)])
      BY <2>5, EndedFacts DEF Settled
    <3>3. Denotes(it.pkg, mapping[NameOf(p)]) = BuiltIn(it.pkg, mapping[NameOf(p)])
      BY <3>2 DEF Denotes
    <3>4. BuiltIn(it.pkg, mapping[NameOf(p)]) # Nothing
      BY DEF BuiltIn, Nothing, Meaning
    <3>5. \A x \in DOMAIN it.types : it.types[x] = mapping[NameOf(p)]
      BY <3>1
    <3> QED
      BY <3>1, <3>3, <3>4, <3>5
  <2> QED
    BY <2>4, <2>5
<1>4. ASSUME NEW it \in items, NEW jt \in Items(it.pkg, it.n)
      PROVE  jt = it
  BY <1>1 DEF ItemsWhole, Items
<1> QED
  BY <1>2, <1>3, <1>4 DEF ItemsCompile

(* The only implementation of a struct gives it its fields. *)
LEMMA StructFacts ==
  ASSUME Ended, NEW k \in Packages, NEW n, OneStruct(k, n)
  PROVE  \E p \in DataDecls :
           /\ p[1] = k /\ At(p).n = n /\ Waits(p) /\ At(p).rep = "struct"
           /\ DataImpls(k, n) = {HomeOf(p)}
           /\ DeclAt(k, HomeOf(p)).subs # <<>>
           /\ Of("dataimpl", k, HomeOf(p)) /\ DeclAt(k, HomeOf(p)).n = n
<1>1. Legal
  BY EndedFacts
<1>2. PICK x \in DOMAIN model[k].decls :
        /\ model[k].decls[x].k = "data" /\ model[k].decls[x].n = n
        /\ model[k].decls[x].rep = "struct" /\ model[k].decls[x].of = <<>>
  BY DEF OneStruct, Decls
<1>3. PICK p : p = << k, x >>
  OBVIOUS
<1>4. p \in DataDecls /\ p[1] = k /\ At(p) = model[k].decls[x]
  BY <1>1, <1>2, <1>3, PlacesOf
<1>5. Waits(p)
  BY <1>2, <1>4 DEF Waits, Composites
<1>6. /\ DataImpls(k, n) = {HomeOf(p)} /\ HomeOf(p) \in DOMAIN model[k].decls
      /\ DeclAt(k, HomeOf(p)).k = "dataimpl" /\ DeclAt(k, HomeOf(p)).n = n
      /\ DeclAt(k, HomeOf(p)).subs # <<>>
  BY <1>1, <1>2, <1>4, <1>5, HomeFacts DEF Ended
<1>7. Of("dataimpl", k, HomeOf(p))
  BY <1>6, EndedFacts
<1> QED
  BY <1>2, <1>4, <1>5, <1>6, <1>7

LEMMA SameLength ==
  ASSUME NEW n \in Nat, NEW s, NEW t, DOMAIN s = 1 .. n, DOMAIN t = 1 .. n
  PROVE  Len(s) = Len(t)
OBVIOUS

(* An implementation that is shared or has methods is that of a struct. *)
LEMMA ImplStruct ==
  ASSUME Ended, NEW m \in impls, NEW y, Of("dataimpl", m.pkg, y), IsImplOf(m, m.pkg, y),
         m.calls # {} \/ m.shared
  PROVE  /\ OneStruct(m.pkg, m.n)
         /\ DataImpls(m.pkg, m.n) = {y} /\ DeclAt(m.pkg, y).subs # <<>>
         /\ {<<it.kind, it.types>> : it \in Items(m.pkg, m.n)} = {<<"struct", m.types>>}
         /\ m.shared => Sharable(m.pkg, m.n)
<1> DEFINE k == m.pkg
           d == DeclAt(k, y)
<1>1. /\ Legal /\ ItemsWhole /\ ImplsWhole /\ k \in Packages /\ y \in DOMAIN model[k].decls
      /\ d.k = "dataimpl" /\ d \in Decls(k) /\ m.n = d.n /\ m.calls = d.calls
  BY EndedFacts DEF Ended, Whole, Of, Dealt, IsImplOf, DeclAt, Decls
<1>2. ASSUME m.shared
      PROVE  Sharable(k, m.n)
  <2>1. SharedIn(k, m.n)
    BY <1>1, <1>2 DEF IsImplOf
  <2>2. PICK c \in Decls(k) : c.k = "process" /\ \E x \in DOMAIN c.holds : c.holds[x].n = m.n
    BY <2>1 DEF SharedIn
  <2> QED
    BY <1>1, <2>2 DEF Ended, TypesComplete
<1>3. ASSUME m.calls # {}
      PROVE  OneStruct(k, m.n)
  <2>1. PICK s \in d.calls : TRUE
    BY <1>1, <1>3
  <2>2. Callable(k, d, s)
    BY <1>1, <2>1 DEF Ended, TypesComplete
  <2> QED
    BY <1>1, <2>2 DEF Callable
<1>4. OneStruct(k, m.n)
  BY <1>2, <1>3 DEF Sharable
<1>5. PICK p \in DataDecls :
        /\ p[1] = k /\ At(p).n = m.n /\ Waits(p) /\ At(p).rep = "struct"
        /\ DataImpls(k, m.n) = {HomeOf(p)} /\ DeclAt(k, HomeOf(p)).subs # <<>>
  BY <1>1, <1>4, StructFacts
<1>6. y = HomeOf(p)
  BY <1>1, <1>5 DEF DataImpls, DeclAt
<1>7. PICK it \in items : IsItemOf(it, p)
  BY <1>1, EndedFacts DEF ItemsWhole
<1>8. it.pkg = k /\ it.n = m.n /\ it.kind = "struct"
  BY <1>5, <1>7 DEF IsItemOf, Waits, NewKinds
<1>9. it.types = m.types
  BY <1>1, <1>5, <1>8 DEF ImplsWhole
<1>10. Items(k, m.n) = {it}
  BY <1>1, <1>8 DEF ItemsWhole, Items
<1> QED
  BY <1>2, <1>4, <1>5, <1>6, <1>8, <1>9, <1>10

(* A method passes the C function what its wrapper takes. *)
LEMMA CallAccepted ==
  ASSUME Ended, NEW m \in impls, NEW s \in m.calls
  PROVE  CallMatches(m, s)
<1> DEFINE k == m.pkg
<1>1. /\ Legal /\ ImplsWhole /\ WrappersWhole
  BY EndedFacts DEF Ended, Whole
<1>2. PICK y : Of("dataimpl", k, y) /\ IsImplOf(m, k, y)
  BY <1>1 DEF ImplsWhole
<1> DEFINE d == DeclAt(k, y)
<1>3. /\ k \in Packages /\ y \in DOMAIN model[k].decls /\ d.k = "dataimpl" /\ d \in Decls(k)
      /\ m.n = d.n /\ m.calls = d.calls /\ AllBecame(k, d.subs, m.types)
  BY <1>2 DEF Of, Dealt, IsImplOf, DeclAt, Decls
<1>4. DataImpls(k, d.n) = {y} /\ d.subs # <<>>
  BY <1>2, <1>3, ImplStruct
<1>5. Callable(k, d, s)
  BY <1>3 DEF Ended, TypesComplete
<1>6. /\ IsSequence(d.subs)
      /\ \A i \in DOMAIN d.subs : d.subs[i] \in References(k) /\ LegalRef(model, d.subs[i])
  BY <1>1, <1>3, ReferenceFacts
<1> HIDE DEF d, k
<1>7. PICK c \in Decls(k) : /\ c.k = "subprogram" /\ c.access # <<>>
                            /\ Lower[c.n] = Lower[s] /\ c.access[1].n = d.n /\ NamesImpl(c.access[1])
  BY <1>5 DEF Callable
<1>8. PICK x \in DOMAIN model[k].decls : c = DeclAt(k, x)
  BY DEF Decls, DeclAt
<1>9. Of("subprogram", k, x)
  BY <1>3, <1>7, <1>8, EndedFacts
<1>10. PICK w \in wrappers : IsWrapperOf(w, k, x)
  BY <1>1, <1>9 DEF WrappersWhole
<1>11. w.pkg = k /\ Lower[w.n] = Lower[s] /\ CallSound(k, d.n, w.call)
  BY <1>7, <1>8, <1>10 DEF IsWrapperOf
<1>12. Reads(k, d.n) = {y}
  <2>1. {e \in Decls(k) : Held(e) # <<>> /\ e.n \in Begins[d.n]} = {d}
    BY <1>5 DEF Callable
  <2>2. ASSUME NEW z \in Reads(k, d.n)
        PROVE  z = y
    <3>1. /\ z \in DOMAIN model[k].decls /\ Held(DeclAt(k, z)) # <<>>
          /\ DeclAt(k, z).n \in Begins[d.n]
      BY DEF Reads
    <3>2. DeclAt(k, z) = d
      BY <2>1, <3>1 DEF Decls, DeclAt
    <3>3. z \in DataImpls(k, d.n)
      BY <1>3, <3>1, <3>2 DEF DataImpls, DeclAt
    <3> QED
      BY <1>4, <3>3
  <2>3. Held(d) # <<>> /\ d.n \in Begins[d.n]
    BY <2>1
  <2>4. y \in Reads(k, d.n)
    BY <1>3, <2>3 DEF Reads, d
  <2> QED
    BY <2>2, <2>4
<1>13. ASSUME NEW i \in DOMAIN d.subs
       PROVE  Declared(d.subs[i]).dims = 0 /\ Declared(d.subs[i]).n # "()" /\ Plain(d.subs[i])
  BY <1>5 DEF Callable, Plain
<1>14. AllBecame(k, d.subs, w.call)
  <2>1. Held(d) = d.subs
    BY <1>3 DEF Held
  <2> QED
    BY <1>3, <1>11, <1>12, <1>13, <2>1 DEF CallSound, d
<1>15. DOMAIN w.call = DOMAIN d.subs /\ DOMAIN m.types = DOMAIN d.subs
  BY <1>3, <1>14 DEF AllBecame
<1>16. w.call # <<>> /\ Len(w.call) = Len(m.types)
  <2>1. DOMAIN d.subs # {}
    BY <1>4, <1>6, NotEmpty
  <2>2. Len(d.subs) \in Nat /\ DOMAIN d.subs = 1 .. Len(d.subs)
    BY <1>6 DEF IsSequence
  <2>3. Len(w.call) = Len(m.types)
    BY <1>15, <2>2, SameLength
  <2> QED
    BY <1>15, <2>1, <2>3
<1>17. ASSUME NEW i \in DOMAIN m.types
       PROVE  InWrapper(w.call[i]) /\ Denotes(w.pkg, w.call[i]) = Denotes(m.pkg, m.types[i])
  <2>1. i \in DOMAIN d.subs /\ Became(k, d.subs[i], m.types[i]) /\ Became(k, d.subs[i], w.call[i])
    BY <1>3, <1>14, <1>15 DEF AllBecame
  <2>2. InWrapper(w.call[i])
    BY <1>6, <1>13, <2>1, WrapperType
  <2>3. Denotes(k, w.call[i]) = Denotes(k, m.types[i])
    BY <1>3, <1>6, <2>1, DenotesSame
  <2> QED
    BY <1>11, <2>2, <2>3 DEF k
<1> DEFINE named == {v \in wrappers : Lower[v.n] = Lower[s]}
           scope == InScope(m.pkg, {v.pkg : v \in named})
<1>18. w \in named
  BY <1>11
<1>19. scope = {k}
  BY <1>11, <1>18 DEF InScope, k
<1>20. Cardinality(scope) = 1 /\ w.pkg \in scope
  BY <1>11, <1>19, FS_Singleton
<1> QED
  BY <1>16, <1>17, <1>18, <1>20 DEF CallMatches

(* Every impl block is accepted. *)
LEMMA ImplsAccepted ==
  ASSUME Ended, NEW m \in impls
  PROVE  ImplCompiles(m)
<1>1. Legal /\ ImplsWhole
  BY EndedFacts DEF Ended, Whole
<1>2. PICK y : Of("dataimpl", m.pkg, y) /\ IsImplOf(m, m.pkg, y)
  BY <1>1 DEF ImplsWhole
<1> DEFINE d == DeclAt(m.pkg, y)
<1>3. /\ m.pkg \in Packages /\ y \in DOMAIN model[m.pkg].decls /\ d.k = "dataimpl"
      /\ AllBecame(m.pkg, d.subs, m.types)
  BY <1>2 DEF Of, Dealt, IsImplOf
<1>4. ASSUME m.calls # {} \/ m.shared
      PROVE  {<<it.kind, it.types>> : it \in Items(m.pkg, m.n)} = {<<"struct", m.types>>}
  BY <1>2, <1>4, ImplStruct
<1>5. ASSUME m.shared, NEW x \in DOMAIN m.types
      PROVE  LET t == Denotes(m.pkg, m.types[x]) IN t.dims = 0 /\ t.n \in Integral
  <2>1. DataImpls(m.pkg, m.n) = {y} /\ Sharable(m.pkg, m.n)
    BY <1>2, <1>5, ImplStruct
  <2>2. \A i \in DOMAIN d.subs : d.subs[i] \in References(m.pkg) /\ LegalRef(model, d.subs[i])
    BY <1>1, <1>3, ReferenceFacts
  <2>3. x \in DOMAIN d.subs /\ Became(m.pkg, d.subs[x], m.types[x])
    BY <1>3, <1>5 DEF AllBecame
  <2>4. Declared(d.subs[x]).dims = 0 /\ Declared(d.subs[x]).n \in Integral
    BY <2>1, <2>3 DEF Sharable, DeclAt
  <2> HIDE DEF d
  <2>5. Nothing.n \notin Integral
    BY DEF Nothing, Meaning, Integral
  <2>6. Plain(d.subs[x])
    BY <2>4, <2>5 DEF Plain
  <2>7. PICK k : Denotes(m.pkg, m.types[x]) = FinalRef(k, d.subs[x])
    BY <1>3, <2>2, <2>3, DenotesFinal
  <2>8. /\ FinalRef(k, d.subs[x]).dims = Declared(d.subs[x]).dims
        /\ FinalRef(k, d.subs[x]).n = Declared(d.subs[x]).n
    BY <2>2, <2>3, <2>6, FinalIsDeclared
  <2> QED
    BY <2>4, <2>7, <2>8
<1> QED
  BY <1>4, <1>5, CallAccepted DEF ImplCompiles

(* The alias of a shared type is that of the process's own package. *)
LEMMA ProcessAccepted ==
  ASSUME Ended, NEW k \in Packages, NEW c \in Decls(k), c.k = "process"
  PROVE  ProcessCompiles(k, c)
<1> SUFFICES ASSUME NEW x \in DOMAIN c.holds, NEW ref, ref = c.holds[x]
             PROVE  Cardinality(InScope(k, {m.pkg : m \in {i \in impls : i.shared /\ i.n = ref.n}})) = 1
  BY DEF ProcessCompiles
<1>1. Sharable(k, ref.n)
  BY DEF Ended, TypesComplete
<1>2. PICK p \in DataDecls :
        /\ DeclAt(k, HomeOf(p)).subs # <<>>
        /\ Of("dataimpl", k, HomeOf(p)) /\ DeclAt(k, HomeOf(p)).n = ref.n
  BY <1>1, StructFacts DEF Sharable
<1>3. SharedIn(k, ref.n)
  BY DEF SharedIn
<1>4. PICK m \in impls : IsImplOf(m, k, HomeOf(p))
  BY <1>2 DEF Ended, Whole, ImplsWhole
<1>5. m.pkg = k /\ m.n = ref.n /\ m.shared
  BY <1>2, <1>3, <1>4 DEF IsImplOf
<1> DEFINE S == {i \in impls : i.shared /\ i.n = ref.n}
           owners == {i.pkg : i \in S}
<1>6. m \in S
  BY <1>5
<1>7. k \in owners
  BY <1>5, <1>6
<1> HIDE DEF S
<1>8. InScope(k, owners) = {k}
  BY <1>7 DEF InScope
<1> QED
  BY <1>8, FS_Singleton DEF S

(* A complete model is always converted, and its data types, the impl       *)
(* blocks of shared data, the wrappers of C functions and the processes     *)
(* that hold shared data compile: what generate_rust_code emits for data    *)
(* types is wrong only for models that leave something out, whatever the    *)
(* packages, their order and their names.                                   *)
THEOREM CompleteTypesCompile == ConverterSpec => []TypesAccepted
<1>1. TypeOK /\ TypesInv /\ TypesWhole => TypesAccepted
  <2> SUFFICES ASSUME TypeOK, TypesInv, TypesWhole, status = "panicked" \/ pkg \notin Packages,
                      TypesComplete
               PROVE  pkg \notin Packages /\ DataCompile
    BY DEF TypesAccepted
  <2>1. Whole /\ pkg \notin Packages
    BY DEF TypesWhole, Whole
  <2>2. Ended
    BY <2>1 DEF Ended
  <2>3. ItemsCompile /\ \A m \in impls : ImplCompiles(m)
    BY <2>2, ItemsAccepted, ImplsAccepted
  <2>4. ASSUME NEW w \in wrappers, NEW x \in DOMAIN w.dirs, NEW y \in DOMAIN w.dirs,
               w.dirs[x] = w.dirs[y]
        PROVE  x = y
    <3>1. PICK z : Of("subprogram", w.pkg, z) /\ IsWrapperOf(w, w.pkg, z)
      BY <2>1 DEF Whole, WrappersWhole
    <3> DEFINE d == DeclAt(w.pkg, z)
    <3>2. w.pkg \in Packages /\ d \in Decls(w.pkg) /\ d.k = "subprogram"
      BY <3>1 DEF Of, Dealt, Decls, DeclAt
    <3>3. w.dirs = [v \in DOMAIN d.params |-> d.params[v].dir]
      BY <3>1 DEF IsWrapperOf
    <3> HIDE DEF d
    <3>4. Wrappable(w.pkg, d)
      BY <3>2 DEF TypesComplete
    <3>5. x \in DOMAIN d.params /\ y \in DOMAIN d.params /\ d.params[x].dir = d.params[y].dir
      BY <2>4, <3>3
    <3> QED
      BY <3>4, <3>5 DEF Wrappable
  <2>5. \A k \in Packages : \A d \in Decls(k) : d.k = "process" => ProcessCompiles(k, d)
    BY <2>2, ProcessAccepted
  <2> QED
    BY <2>1, <2>3, <2>4, <2>5 DEF DataCompile
<1>2. IInv => TypeOK
  BY DEF IInv
<1> QED
  BY <1>1, <1>2, InvariantHolds, TypesInvariant, WholeInvariant, PTL
=============================================================================
