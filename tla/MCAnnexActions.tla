--------------------------- MODULE MCAnnexActions ---------------------------
(***************************************************************************)
(* Models for TLC: one component whose annex has one action, with every    *)
(* expression of the sets below; one with a variable of every type, started *)
(* in every way; and two components whose ports and        *)
(* variables share names, in three orders, with every pair of actions.     *)
(***************************************************************************)
EXTENDS AnnexActions, AnnexExpressions, TLC

MCValues == {-3, -1, 2}

MCLower(n) == IF n = "Cmd" THEN "cmd" ELSE n

a == Id("a")

b == Id("b")

p == Id("p")

r == Id("r")

two == Num(2)

Bins(ops, L, R) == {Bin(op, x, y) : op \in ops, x \in L, y \in R}

Factors == {a, two, Attr("count"), Un("abs", a), Paren(Bin("+", a, b)), Bin("**", a, two)}

Products == Bins({"*", "/", "mod", "rem"}, {b, Paren(a)}, Factors)
              \cup Bins({"*", "/", "rem"}, Bins({"*", "mod"}, {a}, {b}), {two, a})

Sums == Bins({"+", "-"}, {a, Bin("*", a, b), Neg(b), Neg(Bin("mod", a, two))},
             Factors \cup {Bin("*", two, b), Bin("mod", b, two)})
          \cup Bins({"+", "-"}, Bins({"+", "-"}, {a, Neg(a)}, {b, two}), {two, a, Bin("/", a, b)})

IntExprs == Factors \cup Products \cup Sums \cup {Neg(a), Neg(Bin("rem", a, b))}

Truths == {p, Id("q"), Bool(TRUE), Attr("fresh"), Attr("check"), Un("not", p), Paren(p)}

Relations == Bins({"=", "!=", "<", "<=", ">", ">="}, {a, Bin("+", a, b)}, {b, Bin("-", two, b)})
               \cup Bins({"=", "!="}, {p}, {r, Bool(FALSE)})

BoolExprs == Truths \cup Relations
               \cup Bins({"and", "or", "xor"}, Truths \cup {Bin("<", a, b), Bin("=", p, r)},
                         {r, Bin(">", a, two), Bin("=", p, r)})
               \cup Bins({"and", "or", "xor"}, Bins({"and", "or", "xor"}, {p, Bin("<", a, b)}, {r, Id("q")}),
                         {p, Bin("=", r, p), Bin("!=", a, b)})

Assign(n, e) == [k |-> "assign", n |-> n, e |-> e]
Output(n, e) == [k |-> "output", n |-> n, e |-> e]
Other(k) == [k |-> k]
Block(acts) == [k |-> "block", acts |-> acts]

PortOf(n, d, t) == [n |-> n, dir |-> d, type |-> t]
Var(n, t, e) == [n |-> n, type |-> t, init |-> e]

Comp(ports, vs, acts) ==
  [ports |-> ports, vars |-> vs, reads |-> {"q"} \cap {ports[i].n : i \in DOMAIN ports},
   acts |-> acts]

OwnPorts == << PortOf("cmd", "out", "int"), PortOf("on", "in out", "bool"), PortOf("q", "in", "bool") >>

OwnVars == << Var("a", "integer", two), Var("b", "integer", Bin("+", two, two)),
              Var("p", "boolean", Bool(TRUE)), Var("r", "boolean", Bool(FALSE)),
              Var("w", "base_types::unsigned_16", two) >>

Unset == [k |-> "nothing"]

Real == [k |-> "real"]

MCDeclared == "Speed" :> "i32" @@ "Flag" :> "bool"

(* A variable of every type, with each start that is legal for it. *)
Variables ==
  [n : {"v"}, init : {Unset, Num(0), two, Bin("+", two, two), Bool(TRUE), Bool(FALSE), Real, Str},
   type : {"integer", "base_types::integer", "boolean", "base_types::unsigned_16", "unsigned_16",
           "string", "real", "Speed", "Flag"}]

Decl(k, c) == [k |-> k, c |-> c]

Single(act) == [comps |-> << Comp(OwnPorts, OwnVars, <<act>>) >>,
                decls |-> << Decl("type", 1), Decl("impl", 1) >>]

Starts == {[comps |-> << Comp(OwnPorts, OwnVars \o <<v>>, << Assign("a", two) >>) >>,
            decls |-> << Decl("type", 1), Decl("impl", 1) >>] : v \in {x \in Variables : LegalVariable(x)}}

Singles ==
  {Single(Assign("a", e)) : e \in IntExprs} \cup {Single(Output("cmd", e)) : e \in IntExprs}
    \cup {Single(Assign("p", e)) : e \in BoolExprs} \cup {Single(Assign("on", e)) : e \in BoolExprs}
    \cup {Single(Output("on", e)) : e \in BoolExprs}

Orders == { << Decl("type", 1), Decl("impl", 1), Decl("type", 2), Decl("impl", 2) >>,
            << Decl("type", 1), Decl("type", 2), Decl("impl", 2), Decl("impl", 1) >>,
            << Decl("type", 2), Decl("impl", 2), Decl("type", 1), Decl("impl", 1) >> }

(* The ports of the first component: names the second one uses as well, in *)
(* the same or the other direction or in another case, or with `none`.     *)
OtherPorts == { << PortOf("cmd", "out", "int") >>, << PortOf("cmd", "in", "int") >>,
                << PortOf("a", "out", "int"), PortOf("q", "in", "bool") >>,
                << PortOf("Cmd", "in", "int") >>, << PortOf("Cmd", "out", "int") >>,
                << PortOf("cmd", "out", "int"), PortOf("none_left", "in", "bool") >> }

OtherActs(ports) == { <<>>, << Assign(ports[1].n, two) >>, << Assign(MCLower(ports[1].n), two) >>,
                      << Output(ports[1].n, two) >> }

Actions == {Assign("a", Bin("+", a, two)), Assign("cmd", a), Output("cmd", b), Output("on", p),
            Assign("on", Bin("and", p, Id("q"))), Other("signal"), Other("access"),
            Other("control"), Other("broadcast"), Other("computation"),
            Block(<< Assign("a", two), Block(<< Output("cmd", a), Assign("b", a) >>) >>)}

Pairs ==
  { [comps |-> << Comp(ps, <<>>, first), Comp(OwnPorts, OwnVars, <<x, y>>) >>, decls |-> o] :
      o \in Orders, x \in Actions, y \in Actions,
      <<ps, first>> \in UNION {{ps} \X OtherActs(ps) : ps \in OtherPorts} }

MCModels == Singles \cup Starts \cup Pairs
=============================================================================
