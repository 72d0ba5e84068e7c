------------------------------ MODULE DataTypes ------------------------------
(***************************************************************************)
(* How data types become Rust types, in the conversion of ThreadScheduling.*)
(*                                                                         *)
(* The converter remembers from package to package which Rust type a data  *)
(* type stands for, by the name of the type in lower case and without its  *)
(* package, and which types wait for their implementation to give their    *)
(* fields.  A reference becomes what is known of the name by then, or else *)
(* the name itself, which rustc resolves in the module of the package.     *)
(***************************************************************************)
EXTENDS ThreadScheduling

CONSTANTS Lower,    \* Lower[n]: name n in lower case
          Begins,   \* Begins[n]: the names that n starts with
          EndInImpl,  \* the names that end with "Impl"
          Foreign,  \* types of the C bindings, which every module includes
          Structs   \* structs and enums of them: each module has its own

VARIABLES mapping,  \* type_mappings: name in lower case -> type
          implied,  \* data_comp_type: name -> kind
          items,    \* type aliases, structs, unions and enums of the modules
          impls,    \* impl blocks of data implementations
          wrappers, \* modules of the subprograms that call C functions
          uses      \* what the references of the model have become

dvars == <<mapping, implied, items, impls, wrappers, uses>>

(* A Rust type is "[]" for each dimension and then the name of a type.  In *)
(* a Package there are the further declarations, in which a reference is   *)
(* [pkg |-> package or 0 for Base_Types, n |-> name, i |-> "" or the name  *)
(* of an implementation]:                                                  *)
(*   [k |-> "data", n |-> type, rep |-> "none", "source", "array", "enum"  *)
(*    or one of Composites, lit |-> the literal of "source", of |-> the    *)
(*    elements, list |-> whether an array gives its base as a list]        *)
(*   [k |-> "dataimpl", n |-> type, subs |-> references, calls |-> names]  *)
(*   [k |-> "subprogram", n |-> name, params |-> sequence of [dir, ref],   *)
(*    access |-> none or one reference]                                    *)
(*   [k |-> "port", ref |-> its data type]                                 *)
(*   [k |-> "process", n |-> type, holds |-> references to shared data],   *)
(*    an implementation, and [k |-> "other", n, holds] for the data of one *)
(*    of a thread, a system, a device and so on.                           *)
Composites == {"struct", "union", "taggedunion"}

NewKinds == Composites \cup {"enum"}

BaseTypes ==
  [boolean |-> "bool", integer |-> "i32", integer_8 |-> "i8", integer_16 |-> "i16",
   integer_32 |-> "i32", integer_64 |-> "i64", unsigned_8 |-> "u8", unsigned_16 |-> "u16",
   unsigned_32 |-> "u32", unsigned_64 |-> "u64", natural |-> "usize", float |-> "f32",
   float_32 |-> "f32", float_64 |-> "f64", character |-> "char", string |-> "String"]

Primitive == {BaseTypes[b] : b \in DOMAIN BaseTypes} \cup {"()"}

(* The data types of model m, by package and place. *)
DataOf(m) ==
  UNION {{<<k, x>> : x \in {y \in DOMAIN m[k].decls : m[k].decls[y].k = "data"}} : k \in DOMAIN m}

DataNamed(m, ref) ==
  {p \in DataOf(m) : p[1] = ref.pkg /\ Lower[m[p[1]].decls[p[2]].n] = Lower[ref.n]}

(* A reference names something, by no word of Rust and no type of C. *)
LegalRef(m, ref) ==
  IF ref.pkg = 0 THEN ref.i = "" /\ Lower[ref.n] \in DOMAIN BaseTypes
  ELSE DataNamed(m, ref) # {} /\ ref.n \notin Primitive \cup Foreign

LegalRefs(m, refs) == IsSequence(refs) /\ \A x \in DOMAIN refs : LegalRef(m, refs[x])

(* A literal is that of a base type or a type of C, and a data type that    *)
(* is named like it has that literal too.                                  *)
LegalData(m, d) ==
  /\ d.rep \in NewKinds \cup {"none", "source", "array"}
  /\ LegalRefs(m, d.of)
  /\ d.rep = "source" /\ Lower[d.lit] \notin DOMAIN BaseTypes =>
       /\ d.lit \in Primitive \cup Foreign
       /\ \A p \in DataOf(m) :
            LET e == m[p[1]].decls[p[2]]
            IN  Lower[e.n] = Lower[d.lit] => e.rep = "source" /\ e.lit = d.lit

(* What AADL asks of the declarations, as far as theorems rely on it: an   *)
(* implementation is in the package of its type, and no array type is the  *)
(* base of its base, and so on.                                            *)
LegalTypes(m) ==
  /\ \A k \in DOMAIN m : \A x \in DOMAIN m[k].decls :
       LET d == m[k].decls[x]
       IN  /\ d.k \in {"data", "dataimpl"} => d.n \notin Primitive \cup Foreign \cup {"?"}
           /\ d.k = "data" => LegalData(m, d)
           /\ d.k \in {"process", "other"} => LegalRefs(m, d.holds)
           /\ d.k = "dataimpl" =>
                LegalRefs(m, d.subs) /\ DataNamed(m, [pkg |-> k, n |-> d.n]) # {}
           /\ d.k = "port" => LegalRef(m, d.ref)
           /\ d.k = "subprogram" =>
                /\ IsSequence(d.params)
                /\ \A y \in DOMAIN d.params : LegalRef(m, d.params[y].ref)
  /\ \A S \in SUBSET {p \in DataOf(m) : m[p[1]].decls[p[2]].rep = "array"} : S # {} =>
       \E p \in S : LET of == m[p[1]].decls[p[2]].of
                    IN  of = <<>> \/ of[1].pkg = 0 \/ DataNamed(m, of[1]) \cap S = {}

ASSUME TypesAssumption ==
  /\ \A x \in DOMAIN Models : \A m \in Models[x] : LegalTypes(m)
  /\ Foreign \cap (NewKinds \cup {"[]", "?"}) = {}
  /\ Structs \subseteq Foreign /\ Structs \cap Primitive = {}
  /\ \A n \in EndInImpl : Lower[n] \notin DOMAIN BaseTypes

ConverterInit ==
  /\ Init
  /\ mapping = [b \in DOMAIN BaseTypes |-> << BaseTypes[b] >>]
  /\ implied = <<>>
  /\ items = {} /\ impls = {} /\ wrappers = {} /\ uses = {}

Mapped(n) == Lower[n] \in DOMAIN mapping

(* type_mappings.get(..).unwrap_or(Type::Named(..)) *)
Resolve(n) == IF Mapped(n) THEN mapping[Lower[n]] ELSE << n >>

(* A name like `S.i` or an empty one, which is no type. *)
NoName == << "?" >>

(* What ends with "Impl", type or implementation, is taken for the name of *)
(* an implementation, with an empty name of a type, by the properties of   *)
(* data and by accesses.                                                   *)
NamesImpl(ref) == (IF ref.i = "" THEN ref.n ELSE ref.i) \in EndInImpl

(* Classifiers of ports lose the implementation only where they have a      *)
(* package, those of elements never, those of subcomponents always.        *)
PortType(ref) == IF ref.pkg # pkg \/ ref.i = "" THEN Resolve(ref.n) ELSE NoName

ElementType(ref) == IF ref.i = "" /\ ~NamesImpl(ref) THEN Resolve(ref.n) ELSE NoName

SubTypes(d) == [x \in DOMAIN d.subs |-> Resolve(d.subs[x].n)]

(* determine_array_type goes by its base where that is not a list and not  *)
(* taken for an implementation, and by i32 otherwise.                      *)
HasBase(d) == d.of # <<>> /\ ~d.list /\ ~NamesImpl(d.of[1])

BaseUnknown(d) == HasBase(d) /\ ~(d.of[1].i = "" /\ Mapped(d.of[1].n))

(* determine_data_type *)
TypeOf(d) ==
  IF Mapped(d.n) THEN mapping[Lower[d.n]]
  ELSE CASE d.rep = "source" -> Resolve(d.lit)
         [] d.rep = "array"  -> << "[]" >> \o (IF HasBase(d) THEN Resolve(d.of[1].n) ELSE << "i32" >>)
         [] d.rep = "none"   -> << "()" >>
         [] OTHER            -> << d.rep >>

Item(n, kind, types) == [pkg |-> pkg, n |-> n, kind |-> kind, types |-> types]

Use(ref, type, wrapped) == [pkg |-> pkg, ref |-> ref, type |-> type, wrapped |-> wrapped]

Uses(refs, types) == {Use(refs[x], types[x], FALSE) : x \in DOMAIN refs}

Passed == /\ pos' = pos + 1
          /\ UNCHANGED <<model, status, pkg, bound, protocols, ids, values, threads,
                         pinned, tables, running>>

-----------------------------------------------------------------------------
(* The expect() of determine_array_type. *)
PanicOnBase ==
  /\ Current("data")
  /\ ~Mapped(Decl.n) /\ Decl.rep = "array" /\ BaseUnknown(Decl)
  /\ status' = "panicked"
  /\ UNCHANGED <<model, pkg, pos, bound, protocols, ids, values, threads, pinned, tables,
                 running, dvars>>

NewType == TypeOf(Decl)[1] \in NewKinds

(* Defect: the kind is remembered as the type, as with an alias. *)
RememberKind(d) == Put(mapping, Lower[d.n], TypeOf(d))

(* The kind of a composite type is not the type its name stands for. *)
RememberComposite(d) == mapping

(* convert_data_component, for a struct, union, enum or tagged union.      *)
ConvertComposite ==
  /\ Current("data") /\ NewType
  /\ LET elements == [x \in DOMAIN Decl.of |-> ElementType(Decl.of[x])]
         waits == Decl.rep # "enum" /\ Decl.of = <<>>
     IN  /\ implied' = IF waits THEN Put(implied, Decl.n, Decl.rep) ELSE implied
         /\ items' = IF waits THEN items ELSE items \cup {Item(Decl.n, Decl.rep, elements)}
         /\ uses' = uses \cup Uses(Decl.of, elements)
  /\ mapping' = RememberComposite(Decl)
  /\ Passed
  /\ UNCHANGED <<impls, wrappers>>

(* Defect: the last type of a name counts. *)
RememberLast(d) ==
  Put(mapping, Lower[d.n], IF d.rep = "source" THEN Resolve(d.lit) ELSE TypeOf(d))

(* The first type of a name counts, the base types first of all. *)
Remember(d) == IF Mapped(d.n) THEN mapping ELSE Put(mapping, Lower[d.n], TypeOf(d))

(* convert_data_component, for all other types: a type alias. *)
ConvertAlias ==
  /\ Current("data") /\ ~NewType
  /\ Decl.rep = "array" => Mapped(Decl.n) \/ ~BaseUnknown(Decl)
  /\ mapping' = Remember(Decl)
  /\ items' = items \cup {Item(Decl.n, "alias", << TypeOf(Decl) >>)}
  /\ Passed
  /\ UNCHANGED <<implied, impls, wrappers, uses>>

(* is_shared_data_component: some process of this package holds it. *)
Shared(n) ==
  \E d \in Decls(pkg) : d.k = "process" /\ \E x \in DOMAIN d.holds : d.holds[x].n = n

(* convert_data_implementation: the fields of a type that waits for them,  *)
(* a method for each subprogram, new() and the alias of a shared type.     *)
ConvertDataImpl ==
  /\ Current("dataimpl")
  /\ LET types == SubTypes(Decl)
         empty == Decl.subs = <<>> /\ Decl.calls = {}
         waited == ~empty /\ Decl.n \in DOMAIN implied
     IN  /\ items' = IF waited THEN items \cup {Item(Decl.n, implied[Decl.n], types)} ELSE items
         /\ uses' = IF waited THEN uses \cup Uses(Decl.subs, types) ELSE uses
         /\ impls' = impls \cup
              {[pkg |-> pkg, n |-> Decl.n, types |-> types, calls |-> Decl.calls,
                shared |-> ~empty /\ Shared(Decl.n)]}
  /\ Passed
  /\ UNCHANGED <<mapping, implied, wrappers>>

(* The order of declarations, and of the fields of declarations. *)
Before(p, q) == p[1] < q[1] \/ (p[1] = q[1] /\ p[2] < q[2])

(* The places in S in this order. *)
InOrderOf(S) ==
  [i \in 1 .. Cardinality(S) |-> CHOOSE p \in S : Cardinality({q \in S : Before(q, p)}) = i - 1]

(* The data subcomponents of an implementation, whatever its category. *)
Held(d) ==
  IF d.k = "dataimpl" THEN d.subs ELSE IF d.k \in {"process", "other"} THEN d.holds ELSE <<>>

(* find_data_type_from_implementation, for an access to type n or to an    *)
(* implementation of it: the data of every implementation, whatever its    *)
(* category, that n begins with, but for the arrays among them.            *)
AccessTypes(n) ==
  LET impl(y)  == /\ model[pkg].decls[y].k \in {"dataimpl", "process", "other"}
                  /\ model[pkg].decls[y].n \in Begins[n]
      type(p)  == Resolve(Held(model[pkg].decls[p[1]])[p[2]].n)
      fields   == UNION {{y} \X DOMAIN Held(model[pkg].decls[y]) :
                           y \in {z \in DOMAIN model[pkg].decls : impl(z)}}
      places   == InOrderOf({p \in fields : Len(type(p)) = 1})
  IN  [i \in DOMAIN places |-> type(places[i])]

(* convert_subprogram_component, with the name of a C function: send() and *)
(* receive() for parameters, call() for an access to what is taken for an  *)
(* implementation.                                                         *)
ConvertSubprogram ==
  /\ Current("subprogram")
  /\ wrappers' = wrappers \cup
       {[pkg |-> pkg, n |-> Decl.n, dirs |-> [x \in DOMAIN Decl.params |-> Decl.params[x].dir],
         call |-> IF Decl.access # <<>> /\ NamesImpl(Decl.access[1])
                  THEN AccessTypes(Decl.access[1].n) ELSE <<>>]}
  /\ uses' = uses \cup {Use(p.ref, PortType(p.ref), TRUE) : p \in {Decl.params[x] : x \in DOMAIN Decl.params}}
  /\ Passed
  /\ UNCHANGED <<mapping, implied, items, impls>>

(* classifier_to_type, for a port of a thread or device. *)
ConvertPort ==
  /\ Current("port")
  /\ uses' = uses \cup {Use(Decl.ref, PortType(Decl.ref), FALSE)}
  /\ Passed
  /\ UNCHANGED <<mapping, implied, items, impls, wrappers>>

ConvertProcess == (Current("process") \/ Current("other")) /\ Passed /\ UNCHANGED dvars

-----------------------------------------------------------------------------
Items(k, n) == {it \in items : it.pkg = k /\ it.n = n}

With(n) == {it.pkg : it \in {jt \in items : jt.n = n}}

Meaning(dims, kind, k, n) == [dims |-> dims, kind |-> kind, pkg |-> k, n |-> n]

Nothing == Meaning(0, "nothing", 0, "")

(* What type t, of Rust or C, is in the module of package k. *)
BuiltIn(k, t) ==
  Meaning(Len(t) - 1, IF t[Len(t)] \in Primitive THEN "primitive" ELSE "foreign",
          IF t[Len(t)] \in Structs THEN k ELSE 0, t[Len(t)])

IsBuiltIn(t) == t[Len(t)] \in Primitive \cup Foreign

(* The item that a name of the module of package k is, where it is one. *)
ItemOf(k, n) == CHOOSE it \in items : it.n = n /\ it.pkg \in InScope(k, With(n))

(* An alias is what it stands for in its module, which is built in. *)
AsItem(it, t) ==
  IF it.kind # "alias" THEN Meaning(Len(t) - 1, it.kind, it.pkg, t[Len(t)])
  ELSE IF ~IsBuiltIn(it.types[1]) THEN Nothing
  ELSE [BuiltIn(it.pkg, it.types[1]) EXCEPT !.dims = @ + (Len(t) - 1)]

(* What rustc takes a type for in the module of package k: something built *)
(* in, or the item of that name in scope.                                  *)
Denotes(k, t) ==
  IF IsBuiltIn(t) THEN BuiltIn(k, t)
  ELSE IF Cardinality(InScope(k, With(t[Len(t)]))) # 1 THEN Nothing
  ELSE AsItem(ItemOf(k, t[Len(t)]), t)

(* A wrapper imports the types of its parameters, if they are no arrays:   *)
(* `super::()` is no import.                                               *)
InWrapper(t) == IF Len(t) = 1 THEN t[1] # "()" ELSE t[Len(t)] \in Primitive

(* Every type is one, every item the only one of its name after            *)
(* merge_item_defs, and none a union, for which Debug cannot be derived.   *)
ItemsCompile ==
  /\ \A u \in uses : /\ Denotes(u.pkg, u.type) # Nothing
                     /\ u.wrapped => InWrapper(u.type)
  /\ \A it \in items :
       /\ it.kind # "union"
       /\ \A x \in DOMAIN it.types : Denotes(it.pkg, it.types[x]) # Nothing
       /\ \A jt \in Items(it.pkg, it.n) : jt = it \/ (it.kind = "struct" /\ jt.kind = "struct")

Integral == {"i8", "i16", "i32", "i64", "u8", "u16", "u32", "u64", "usize"}

(* call() of the wrapper takes what the method passes: all data of the     *)
(* implementation.                                                         *)
CallMatches(m, s) ==
  LET named == {w \in wrappers : Lower[w.n] = Lower[s]}
      scope == InScope(m.pkg, {w.pkg : w \in named})
  IN  /\ Cardinality(scope) = 1
      /\ \E w \in named :
           /\ w.pkg \in scope
           /\ w.call # <<>> /\ Len(w.call) = Len(m.types)
           /\ \A x \in DOMAIN m.types :
                /\ InWrapper(w.call[x])
                /\ Denotes(w.pkg, w.call[x]) = Denotes(m.pkg, m.types[x])

(* The methods pass the fields of the type, and new() sets them all to 0.  *)
ImplCompiles(m) ==
  /\ m.calls # {} \/ m.shared =>
       {<<it.kind, it.types>> : it \in Items(m.pkg, m.n)} = {<<"struct", m.types>>}
  /\ \A s \in m.calls : CallMatches(m, s)
  /\ m.shared => \A x \in DOMAIN m.types :
       LET t == Denotes(m.pkg, m.types[x]) IN t.dims = 0 /\ t.n \in Integral

(* A process declares its shared data by the alias of the shared type.     *)
ProcessCompiles(k, d) ==
  \A x \in DOMAIN d.holds :
    Cardinality(InScope(k, {m.pkg : m \in {i \in impls : i.shared /\ i.n = d.holds[x].n}})) = 1

DataCompile ==
  /\ ItemsCompile
  /\ \A m \in impls : ImplCompiles(m)
  /\ \A w \in wrappers : \A x, y \in DOMAIN w.dirs : w.dirs[x] = w.dirs[y] => x = y
  /\ \A k \in Packages : \A d \in Decls(k) : d.k = "process" => ProcessCompiles(k, d)

BuildAll == BuildIf(SchedulingCompiles /\ DataCompile) /\ UNCHANGED dvars

ConverterNext ==
  \/ (ConvertCpu \/ ConvertType \/ ConvertImpl \/ AssignId \/ ConvertSystem \/ EndPackage
        \/ Done) /\ UNCHANGED dvars
  \/ PanicOnBase \/ ConvertComposite \/ ConvertAlias \/ ConvertDataImpl \/ ConvertSubprogram
  \/ ConvertPort \/ ConvertProcess \/ BuildAll

ConverterSpec == ConverterInit /\ [][ConverterNext]_<<vars, dvars>>

-----------------------------------------------------------------------------
DataDecls == DataOf(model)

At(p) == model[p[1]].decls[p[2]]

Namesakes(p) == {q \in DataDecls \ {p} : Lower[At(q).n] = Lower[At(p).n]}

DeclOf(ref) == CHOOSE p \in DataNamed(model, ref) : TRUE

Base(n) == BuiltIn(0, << BaseTypes[Lower[n]] >>)

ArrayOf(meaning) == [meaning EXCEPT !.dims = @ + 1]

Elementary(p) ==
  CASE At(p).rep \in NewKinds -> Meaning(0, At(p).rep, p[1], At(p).n)
    [] At(p).rep = "source" -> IF Lower[At(p).lit] \in DOMAIN BaseTypes THEN Base(At(p).lit)
                               ELSE BuiltIn(p[1], << At(p).lit >>)
    [] At(p).rep = "none"   -> BuiltIn(0, << "()" >>)
    [] OTHER                -> Nothing

(* What the model says a data type is. *)
Meant[p \in DataDecls] ==
  IF At(p).rep = "array" /\ At(p).of # <<>>
  THEN ArrayOf(IF At(p).of[1].pkg = 0 THEN Base(At(p).of[1].n) ELSE Meant[DeclOf(At(p).of[1])])
  ELSE Elementary(p)

(* What the model says a reference is. *)
Declared(ref) == IF ref.pkg = 0 THEN Base(ref.n) ELSE Meant[DeclOf(ref)]

(* What is a struct or an enum of C is so in the module of its package     *)
(* only: in another module the name is that of another type.               *)
SameIn(k, meaning) == meaning.kind = "foreign" => meaning.pkg \in {0, k}

(* The types that keep their meaning: the first of their name, which is no *)
(* base type's, or the only one if composite or a struct of C, and arrays  *)
(* if their base is neither a list nor called like an implementation, and  *)
(* of their package if it is a struct of C.                                *)
Keeps[p \in DataDecls] ==
  LET d == At(p)
  IN  /\ Lower[d.n] \notin DOMAIN BaseTypes
      /\ IF d.rep \in NewKinds \/ ~SameIn(0, Meant[p]) THEN Namesakes(p) = {}
         ELSE \A q \in Namesakes(p) : Before(p, q)
      /\ SameIn(p[1], Meant[p])
      /\ d.rep = "array" => HasBase(d) /\ (d.of[1].pkg = 0 \/ Keeps[DeclOf(d.of[1])])

(* What rustc accepts means what the model declares, in whichever order    *)
(* packages are converted: the port fields, elements and parameters of a   *)
(* data type that keeps its meaning have this type in all modules, a       *)
(* struct or an enum of C in the module of its package.                    *)
MeansAsDeclared ==
  status = "accepted" =>
    \A u \in uses :
      (u.ref.pkg = 0 \/ Keeps[DeclOf(u.ref)]) /\ SameIn(u.pkg, Declared(u.ref))
        => Denotes(u.pkg, u.type) = Declared(u.ref)

References(k) ==
  UNION {CASE d.k \in {"data"}     -> {d.of[x] : x \in DOMAIN d.of}
           [] d.k = "dataimpl"    -> {d.subs[x] : x \in DOMAIN d.subs}
           [] d.k = "subprogram"  -> {d.params[x].ref : x \in DOMAIN d.params}
           [] d.k = "port"        -> {d.ref}
           [] d.k = "process"     -> {d.holds[x] : x \in DOMAIN d.holds}
           [] OTHER               -> {} : d \in Decls(k)}

Spelled(ref) == ref.pkg = 0 \/ At(DeclOf(ref)).n = ref.n

DataImpls(k, n) ==
  {y \in DOMAIN model[k].decls : model[k].decls[y].k = "dataimpl" /\ model[k].decls[y].n = n}

(* Data type n of package k is a struct with the fields of its only        *)
(* implementation.                                                         *)
OneStruct(k, n) ==
  /\ Cardinality(DataImpls(k, n)) = 1
  /\ \E d \in Decls(k) : d.k = "data" /\ d.n = n /\ d.rep = "struct" /\ d.of = <<>>

Sharable(k, n) ==
  /\ OneStruct(k, n)
  /\ \A y \in DataImpls(k, n) : \A x \in DOMAIN model[k].decls[y].subs :
       LET t == Declared(model[k].decls[y].subs[x]) IN t.dims = 0 /\ t.n \in Integral

Callable(k, d, s) ==
  /\ OneStruct(k, d.n)
  /\ \A x \in DOMAIN d.subs : LET t == Declared(d.subs[x])
                               IN  t.dims = 0 /\ t.n # "()" /\ t # Nothing
  /\ {e \in Decls(k) : Held(e) # <<>> /\ e.n \in Begins[d.n]} = {d}
  /\ \E w \in Decls(k) : /\ w.k = "subprogram" /\ w.access # <<>>
                         /\ Lower[w.n] = Lower[s] /\ w.access[1].n = d.n /\ NamesImpl(w.access[1])
  /\ \A v, w \in Decls(k) : v.k = "subprogram" /\ w.k = "subprogram" /\ Lower[v.n] = Lower[w.n] => v = w

Wrappable(k, d) ==
  \A x \in DOMAIN d.params :
    LET r == d.params[x].ref   t == Declared(r)
    IN  /\ r.pkg # k \/ r.i = ""
        /\ IF t.dims = 0 THEN t.n # "()" ELSE t.kind = "primitive"
        /\ \A y \in DOMAIN d.params : d.params[y].dir = d.params[x].dir => y = x

(* What a model needs for its data types to be accepted: every name once,  *)
(* always spelled alike and imported where it is used, no union; the base  *)
(* of an array a base type or not composite and declared before; fields in *)
(* the type, or in its only implementation after it; implementations named *)
(* only where they may be; what is shared integers, its processes and      *)
(* subprograms in its package.                                             *)
TypesComplete ==
  /\ \A p \in DataDecls :
       LET d == At(p)
       IN  /\ Lower[d.n] \notin DOMAIN BaseTypes /\ Namesakes(p) = {} /\ d.rep # "union"
           /\ d.rep = "array" /\ HasBase(d) =>
                /\ d.of[1].i = ""
                /\ d.of[1].pkg # 0 =>
                     /\ Before(DeclOf(d.of[1]), p)
                     /\ At(DeclOf(d.of[1])).rep \notin NewKinds
           /\ d.rep \in NewKinds => \A x \in DOMAIN d.of : d.of[x].i = "" /\ ~NamesImpl(d.of[x])
           /\ d.rep \in Composites /\ d.of = <<>> =>
                \E y \in DataImpls(p[1], d.n) :
                  DataImpls(p[1], d.n) = {y} /\ y > p[2] /\ model[p[1]].decls[y].subs # <<>>
  /\ \A k \in Packages :
       /\ \A ref \in References(k) : Spelled(ref) /\ ref.pkg \in {0, k} \cup model[k].withs
       /\ \A d \in Decls(k) :
            /\ d.k = "port" => d.ref.pkg # k \/ d.ref.i = ""
            /\ d.k = "process" => \A x \in DOMAIN d.holds : Sharable(k, d.holds[x].n)
            /\ d.k = "dataimpl" => \A s \in d.calls : Callable(k, d, s)
            /\ d.k = "subprogram" => Wrappable(k, d)

(* Such a model is converted without a panic, and its types compile.       *)
TypesAccepted ==
  (status = "panicked" \/ pkg \notin Packages) /\ TypesComplete => pkg \notin Packages /\ DataCompile
=============================================================================
