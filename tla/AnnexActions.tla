---------------------------- MODULE AnnexActions ----------------------------
(***************************************************************************)
(* The translation of the Behavior Annexes of a model, from the text of    *)
(* its packages to what rustc makes of the generated code:                 *)
(*                                                                         *)
(*   parse      the whole text is read, or the generator gives up;         *)
(*   transform  the declarations are walked in their order; ports go to    *)
(*              GLOBAL_PORT_MANAGER, one list for all components, and the  *)
(*              actions of an annex ask it whether a name is a port;       *)
(*   convert    each annex becomes statements;                             *)
(*   build      rustc accepts the project or refuses it.                   *)
(*                                                                         *)
(* What becomes of a value by itself is a parameter; AnnexExpressions is   *)
(* the one of this generator.                                              *)
(***************************************************************************)
EXTENDS AnnexTrees, Integers, Sequences

CONSTANTS Models,      \* the models: records as in LegalAnnexes below
          Lower(_),    \* to_lowercase
          NoneNames,   \* names that contain the letters `none`
          Declared,    \* Rust types of the data types a module declares, by name
          Opened(_),   \* actions with blocks opened: sequences, sets and blocks
          Reads(_),    \* whether the text of an action's value is read to its end
          Tree(_),     \* the AADL tree of an action's value
          Rust(_),     \* rustc's reading of what is generated for an AADL tree
          Typing(_),   \* the type of an expression, "error" where it has none
          Within(_),   \* the parts of an expression
          Same(_, _),  \* two expressions have the same value
          Loses(_),    \* expressions that may get another value on the way
          Covers(_)    \* expressions that the generator supports

VARIABLES model,    \* the model; never changes
          status,   \* the phase, or how it ended
          pos,      \* declarations or components dealt with in this phase
          managed,  \* GLOBAL_PORT_MANAGER: ports in the order they were met
          ast,      \* ast[c]: the actions of component c, after the transformer
          code      \* code[c]: the statements generated for component c

translationVars == <<model, status, pos, managed, ast, code>>

IsSeq(s) == s \in Seq({s[i] : i \in DOMAIN s})

Kinds == {"assign", "output", "access", "signal", "control", "computation", "broadcast"}

RustNames == {"i32", "u16", "bool", "String", "f64"}

ASSUME DeclaredAssumption == DOMAIN Declared \cap RustNames = {}

(* convert_aadl_type_to_rust: a name it does not list stands as it is. *)
RustType(t) ==
  LET l == Lower(t)
  IN  CASE l \in {"integer", "i32", "base_types::integer"}   -> "i32"
        [] l \in {"boolean", "bool", "base_types::boolean"}  -> "bool"
        [] l = "string"                                      -> "String"
        [] l \in {"real", "f64"}                             -> "f64"
        [] l = "base_types::unsigned_16"                     -> "u16"
        [] OTHER                                             -> t

(* What rustc takes the type of a variable for. *)
Resolved(v) ==
  LET t == RustType(v.type) IN IF t \in DOMAIN Declared THEN Declared[t] ELSE t

(* A variable starts with a literal of its type, with an expression or     *)
(* with nothing; a numeral that is no integer is "real".  Expressions use  *)
(* variables of the types `int` and `bool`.                                *)
LegalVariable(v) ==
  /\ RustType(v.type) = "i32" => v.init.k \notin {"bool", "str", "real"}
  /\ RustType(v.type) = "bool" => v.init.k \notin {"num", "str", "real"}
  /\ RustType(v.type) = "f64" => v.init.k \notin {"bool", "str"}
  /\ RustType(v.type) = "String" => v.init.k \notin {"num", "bool", "real"}
  /\ v.init.k = "bool" => v.init \in {Bool(TRUE), Bool(FALSE)}
  /\ Typing(Id(v.n)) \in {"int", "bool", "error"}
  /\ Typing(Id(v.n)) = "int" => Resolved(v) = "i32"
  /\ Typing(Id(v.n)) = "bool" => Resolved(v) = "bool"

(* A component has ports, variables, the in ports its guards name, and the *)
(* actions of its annex in order.  Its names differ in more than case.     *)
LegalComponent(c) ==
  /\ IsSeq(c.ports) /\ IsSeq(c.vars) /\ IsSeq(Opened(c.acts))
  /\ \A x \in DOMAIN c.ports :
       /\ c.ports[x].dir \in {"in", "out", "in out"}
       /\ c.ports[x].type \in {"int", "bool"}
       /\ Lower(Lower(c.ports[x].n)) = Lower(c.ports[x].n)
       /\ \A y \in DOMAIN c.ports : Lower(c.ports[x].n) = Lower(c.ports[y].n) => x = y
       /\ \A y \in DOMAIN c.vars : Lower(c.ports[x].n) # Lower(c.vars[y].n)
  /\ \A x \in DOMAIN c.vars : LegalVariable(c.vars[x])
  /\ \A x \in DOMAIN Opened(c.acts) :
       LET a == Opened(c.acts)[x]
       IN  /\ a.k \in Kinds
           /\ \A y \in DOMAIN c.vars :
                Valued(a) /\ (a.n = c.vars[y].n \/ Id(c.vars[y].n) \in Within(a.e)) =>
                  Typing(Id(c.vars[y].n)) # "error"

(* A model has components and the order of their declarations: a type     *)
(* before its implementation.                                              *)
LegalAnnexes(m) ==
  /\ IsSeq(m.comps) /\ IsSeq(m.decls)
  /\ \A i \in DOMAIN m.comps :
       /\ LegalComponent(m.comps[i])
       /\ \E x \in DOMAIN m.decls : m.decls[x].k = "impl" /\ m.decls[x].c = i
  /\ \A x \in DOMAIN m.decls :
       /\ m.decls[x].k \in {"type", "impl"} /\ m.decls[x].c \in DOMAIN m.comps
       /\ m.decls[x].k = "impl" =>
            \E y \in 1 .. (x - 1) : m.decls[y].k = "type" /\ m.decls[y].c = m.decls[x].c

ASSUME AnnexesAssumption == \A m \in Models : LegalAnnexes(m)

Components == 1 .. Len(model.comps)

PortNames(c) == {c.ports[i].n : i \in DOMAIN c.ports}

OutPorts(c) == {c.ports[i].n : i \in {j \in DOMAIN c.ports : c.ports[j].dir # "in"}}

TranslationInit ==
  /\ model \in Models
  /\ status = "parse"
  /\ pos = 0
  /\ managed = <<>>
  /\ ast = [c \in Components |-> <<>>]
  /\ code = [c \in Components |-> <<>>]

-----------------------------------------------------------------------------
(* An access to shared data, `d !<`, is taken for an output `d !`. *)
Readable(a) ==
  /\ a.k # "access"
  /\ Valued(a) => Reads(a)

Parsing ==
  /\ status = "parse"
  /\ status' = IF \A c \in Components : \A i \in DOMAIN Opened(model.comps[c].acts) :
                    Readable(Opened(model.comps[c].acts)[i])
               THEN "transform" ELSE "rejected"
  /\ UNCHANGED <<model, pos, managed, ast, code>>

-----------------------------------------------------------------------------
(* A clause in whose text `none` occurs has no features. *)
Features(c) == IF PortNames(c) \cap NoneNames # {} THEN <<>> ELSE c.ports

(* Defect: names are compared without regard to case. *)
IsOutgoingAnyCase(n) ==
  \E i \in DOMAIN managed :
    /\ Lower(managed[i].n) = Lower(n) /\ managed[i].dir \in {"out", "in out"}
    /\ \A j \in 1 .. (i - 1) : Lower(managed[j].n) # Lower(n)

(* is_outgoing_port: the first port of that name decides, of whatever      *)
(* component it is.                                                        *)
IsOutgoing(n) ==
  \E i \in DOMAIN managed :
    /\ managed[i].n = n /\ managed[i].dir \in {"out", "in out"}
    /\ \A j \in 1 .. (i - 1) : managed[j].n # n

Action(a) ==
  CASE a.k = "assign" -> [k |-> IF IsOutgoing(a.n) THEN "toPort" ELSE "toLocal",
                          n |-> a.n, tree |-> Tree(a)]
    [] a.k = "output" -> [k |-> "output", n |-> a.n, tree |-> Tree(a)]
    [] OTHER          -> [k |-> a.k]

(* transform_communication_action unwraps a value that `p !`, `p ?` and    *)
(* `p >>` do not have.                                                     *)
Panics(acts) == \E i \in DOMAIN acts : acts[i].k = "signal"

TransformType ==
  /\ status = "transform" /\ pos < Len(model.decls)
  /\ LET d == model.decls[pos + 1]
     IN  d.k = "type" /\ managed' = managed \o Features(model.comps[d.c])
  /\ pos' = pos + 1
  /\ UNCHANGED <<model, status, ast, code>>

TransformImpl ==
  /\ status = "transform" /\ pos < Len(model.decls)
  /\ LET d    == model.decls[pos + 1]
         acts == Opened(model.comps[d.c].acts)
     IN  /\ d.k = "impl"
         /\ IF Panics(acts)
            THEN status' = "panicked" /\ UNCHANGED <<pos, ast>>
            ELSE /\ ast' = [ast EXCEPT ![d.c] = [i \in DOMAIN acts |-> Action(acts[i])]]
                 /\ pos' = pos + 1
                 /\ UNCHANGED status
  /\ UNCHANGED <<model, managed, code>>

Transformed ==
  /\ status = "transform" /\ pos = Len(model.decls)
  /\ status' = "convert" /\ pos' = 0
  /\ UNCHANGED <<model, managed, ast, code>>

-----------------------------------------------------------------------------
(* The statement for an action.  Only the name of an output is put in      *)
(* lower case; what is not supported becomes a comment.                    *)
Statement(a) ==
  CASE a.k = "toLocal" -> [k |-> "set", n |-> a.n, e |-> Rust(a.tree)]
    [] a.k = "toPort"  -> [k |-> "send", n |-> a.n, e |-> Rust(a.tree)]
    [] a.k = "output"  -> [k |-> "send", n |-> Lower(a.n), e |-> Rust(a.tree)]
    [] OTHER           -> [k |-> "comment"]

(* parse_initial_value, and generate_default_value_for_type where there is *)
(* no initial value: what is no literal of the type is its default, and of *)
(* a type not listed here every value is 0.  A real number is printed      *)
(* without the fraction it does not have.                                  *)
InitialValue(v) ==
  LET t == RustType(v.type)
  IN  CASE t = "bool"                              -> Bool(v.init = Bool(TRUE))
        [] t = "String"                            -> Str
        [] t = "i32" /\ v.init.k = "num"           -> v.init
        [] t = "f64" /\ v.init.k \in {"num", "real"} -> v.init
        [] OTHER                                   -> Num(0)

Let(v) == [k |-> "let", n |-> v.n, t |-> Resolved(v), e |-> InitialValue(v)]

ConvertAnnex ==
  /\ status = "convert" /\ pos < Len(model.comps)
  /\ LET c == pos + 1   vs == model.comps[c].vars
     IN code' = [code EXCEPT ![c] =
                   [i \in DOMAIN vs |-> Let(vs[i])]
                     \o [i \in DOMAIN ast[c] |-> Statement(ast[c][i])]]
  /\ pos' = pos + 1
  /\ UNCHANGED <<model, status, managed, ast>>

(* A literal that rustc takes for a value of type t: none for a String,    *)
(* for which a literal is a borrowed string, nor for an unknown name.      *)
Fits(t, e) ==
  \/ t \in {"i32", "u16"} /\ e.k = "num"
  \/ t = "bool" /\ e.k = "bool"
  \/ t = "f64" /\ e.k = "real"

(* A variable is declared with a literal of its type.  The names another   *)
(* statement of component c may use: those of its variables, and of the    *)
(* ports read at dispatch.                                                 *)
Accepts(c, st) ==
  /\ st.k = "let" => Fits(st.t, st.e)
  /\ st.k = "set" =>
       \E i \in DOMAIN c.vars : c.vars[i].n = st.n /\ Typing(Id(st.n)) = Typing(st.e)
  /\ st.k = "send" =>
       \E i \in DOMAIN Features(c) : LET p == Features(c)[i]
         IN Lower(p.n) = st.n /\ p.dir # "in" /\ p.type = Typing(st.e)
  /\ st.k \in {"set", "send"} =>
       /\ Typing(st.e) # "error"
       /\ \A x \in Within(st.e) :
            /\ x.k = "id" => x.n \in {c.vars[i].n : i \in DOMAIN c.vars} \cup c.reads
            /\ x.k = "field" => \E i \in DOMAIN Features(c) : Lower(Features(c)[i].n) = Port

Build ==
  /\ status = "convert" /\ pos = Len(model.comps)
  /\ status' = IF \A c \in Components : \A i \in DOMAIN code[c] :
                    Accepts(model.comps[c], code[c][i])
               THEN "accepted" ELSE "refused"
  /\ UNCHANGED <<model, pos, managed, ast, code>>

Done == status \in {"accepted", "refused", "rejected", "panicked"} /\ UNCHANGED translationVars

TranslationNext ==
  Parsing \/ TransformType \/ TransformImpl \/ Transformed \/ ConvertAnnex \/ Build \/ Done

TranslationSpec == TranslationInit /\ [][TranslationNext]_translationVars

-----------------------------------------------------------------------------
(* The statement that does what action a of component c says. *)
Does(c, a, st) ==
  /\ Valued(a)
  /\ st.k = IF a.k = "output" \/ \E n \in OutPorts(c) : Lower(n) = Lower(a.n) THEN "send" ELSE "set"
  /\ st.n \in {a.n, Lower(a.n)}
  /\ Same(a.e, st.e)

KnownActionLoss(a) == IF Valued(a) THEN Loses(a.e)
                      ELSE a.k \in {"control", "computation", "broadcast"}

(* A value given as an expression, and one of a type that is not listed or *)
(* of Unsigned_16, are lost.                                               *)
KnownInitialLoss(v) ==
  \/ RustType(v.type) \notin {"i32", "bool", "f64"}
  \/ v.init.k \notin {"num", "bool", "real", "nothing"}

(* When rustc accepts the generated project, it does action for action     *)
(* what the annexes say, and its variables start as they say; what is lost *)
(* without a word is one of the kinds named here.  In particular a name    *)
(* taken for the port of another component never gets past rustc.          *)
LostOnlyWhereKnown ==
  status = "accepted" =>
    \A c \in Components :
      LET comp == model.comps[c]
          acts == Opened(comp.acts)
          n    == Len(comp.vars)
      IN  /\ \A i \in DOMAIN acts :
               KnownActionLoss(acts[i]) \/ Does(comp, acts[i], code[c][n + i])
          /\ \A i \in DOMAIN comp.vars :
               \/ comp.vars[i].init.k = "nothing" \/ comp.vars[i].init = code[c][i].e
               \/ KnownInitialLoss(comp.vars[i])

(* What an author may write: supported expressions of the right type,      *)
(* assigned to variables or to ports in lower case, or sent.               *)
SupportedAction(c, a) ==
  LET targets == {[n |-> p.n, t |-> p.type] : p \in {c.ports[i] : i \in DOMAIN c.ports}}
      locals  == {c.vars[i].n : i \in DOMAIN c.vars}
  IN  /\ Valued(a)
      /\ Covers(a.e) /\ Typing(a.e) # "error"
      /\ \A x \in Within(a.e) : x.k = "id" => x.n \in locals \cup c.reads
      /\ \/ a.n \in OutPorts(c) /\ [n |-> a.n, t |-> Typing(a.e)] \in targets
            /\ (a.k = "assign" => Lower(a.n) = a.n)
         \/ a.k = "assign" /\ a.n \in locals /\ Typing(Id(a.n)) = Typing(a.e)

(* Variables of the listed types; real ones only where they start with a   *)
(* fraction.                                                               *)
SupportedVariable(v) ==
  \/ RustType(v.type) \in {"i32", "u16", "bool"}
  \/ RustType(v.type) = "f64" /\ v.init.k = "real"

(* No name a component assigns is a port of another component with the     *)
(* other direction: ports are looked up by their bare name.                *)
NamesApart ==
  \A c, d \in Components : \A i \in DOMAIN Opened(model.comps[c].acts) :
    LET a == Opened(model.comps[c].acts)[i]
    IN  a.k = "assign" /\ a.n \in PortNames(model.comps[d]) =>
          (a.n \in OutPorts(model.comps[c]) <=> a.n \in OutPorts(model.comps[d]))

(* The annexes of the model keep to the supported part, names are apart    *)
(* and no component has a name that contains `none`.                       *)
Supportable ==
  /\ NamesApart
  /\ \A c \in Components :
       /\ PortNames(model.comps[c]) \cap NoneNames = {}
       /\ \A i \in DOMAIN model.comps[c].vars : SupportedVariable(model.comps[c].vars[i])
       /\ \A i \in DOMAIN Opened(model.comps[c].acts) :
            SupportedAction(model.comps[c], Opened(model.comps[c].acts)[i])

(* Such a model goes through, whatever the order of its declarations. *)
SupportedAccepted == Supportable => status \notin {"rejected", "panicked", "refused"}
=============================================================================
