--------------------------- MODULE AnnexExpressions ---------------------------
(***************************************************************************)
(* What becomes of a value expression of a Behavior Annex on its way into  *)
(* the generated program: the grammar reads its tokens, the transformer    *)
(* builds the AADL tree, AnnexConverter turns it into a Rust tree, the     *)
(* printer writes that as text, and rustc reads the text.                  *)
(*                                                                         *)
(* Integers are unbounded.                                                 *)
(***************************************************************************)
EXTENDS AnnexTrees, Integers, Sequences, FiniteSets, SequencesExt

CONSTANTS IntVars, BoolVars,  \* local variables of the annex, by their type
          Values              \* bound: integers that variables range over

ASSUME ExpressionConstants ==
  /\ IntVars \cap BoolVars = {}
  /\ Values \subseteq Int \ {0}

-----------------------------------------------------------------------------
(* The sentence of a tree, a sequence of tokens.  Attributes of a port and *)
(* numerals are single tokens.                                             *)
Tok(t) == [k |-> "tok", t |-> t]

RECURSIVE Sentence(_)
Sentence(e) ==
  CASE e.k = "bin"   -> Sentence(e.l) \o <<Tok(e.op)>> \o Sentence(e.r)
    [] e.k = "neg"   -> <<Tok("-")>> \o Sentence(e.e)
    [] e.k = "un"    -> <<Tok(e.op)>> \o Sentence(e.e)
    [] e.k = "paren" -> <<Tok("(")>> \o Sentence(e.e) \o <<Tok(")")>>
    [] OTHER         -> <<e>>

-----------------------------------------------------------------------------
(* The grammar, a parsing expression grammar: alternatives are tried in    *)
(* order and the first that matches is taken for good.  So                 *)
(*   - `<=`, `>=` and `**` are never read: `<`, `>` and `*` match before;  *)
(*   - `abs` and `not` are read as identifiers: `value` is tried before    *)
(*     the other alternatives of `factor`;                                 *)
(*   - `(...)`, to the first `)`, is read as a string: `value_constant` is *)
(*     tried before the parenthesised alternative of `value`.              *)
Levels == 1 .. 4

Logical == 1

Relational == 2

Adding == 3

Operators == << {"and", "or", "xor"}, {"=", "!=", "<", ">"},
                {"+", "-"}, {"*", "/", "mod", "rem"} >>

Fail == [ok |-> FALSE]
Got(tree, rest) == [ok |-> TRUE, tree |-> tree, rest |-> rest]

IsTok(s, T) == s # <<>> /\ Head(s).k = "tok" /\ Head(s).t \in T

Value(s) ==
  LET close == SelectInSeq(s, LAMBDA x : x = Tok(")"))
  IN  CASE s = <<>> -> Fail
        [] IsTok(s, {"("}) /\ close # 0 -> Got(Str, SubSeq(s, close + 1, Len(s)))
        [] IsTok(s, {"abs", "not"})     -> Got(Id(Head(s).t), Tail(s))
        [] Head(s).k # "tok"            -> Got(Head(s), Tail(s))
        [] OTHER                        -> Fail

(* One level of the grammar: an operand of the level below, after a sign   *)
(* where it adds, and as many operators with operands as can be read, at   *)
(* most one where it compares.                                             *)
RECURSIVE Parse(_, _), More(_, _, _)

Parse(level, s) ==
  LET signed == level = Adding /\ IsTok(s, {"+", "-"})
      first  == Parse(level + 1, IF signed THEN Tail(s) ELSE s)
  IN  IF level \notin Levels THEN Value(s)
      ELSE IF ~first.ok THEN Fail
      ELSE More(level, [minus |-> signed /\ Head(s) = Tok("-"),
                        first |-> first.tree, ops |-> <<>>], first.rest)

More(level, node, s) ==
  LET right == Parse(level + 1, Tail(s))
  IN  IF /\ IsTok(s, Operators[level])
         /\ ~(level = Relational /\ node.ops # <<>>)
         /\ right.ok
      THEN More(level, [node EXCEPT !.ops = Append(@, [op |-> Head(s).t,
                                                       right |-> right.tree])],
                right.rest)
      ELSE Got(node, s)

-----------------------------------------------------------------------------
(* The transformer.  The right operand of an additive or a multiplicative  *)
(* operator must fit a BasicExpression: of a product it takes the first    *)
(* factor, and what is neither a variable nor a literal becomes a variable *)
(* `temp`; a boolean literal ends as 0.                                    *)
Basic(v) ==
  CASE v.k \in {"id", "num"} -> v
    [] v.k = "bool"          -> Num(0)
    [] OTHER                 -> Id("temp")

(* convert_value: `fresh` is always true, `port?` asks whether the port is *)
(* connected, `port'count` calls a method that its field does not have.    *)
ConvertValue(v) ==
  CASE v = Attr("fresh") -> Bool(TRUE)
    [] v = Attr("check") -> Field("is_some")
    [] v = Attr("count") -> Field("len")
    [] OTHER             -> v

RustOp(op) ==
  CASE op = "and" -> "&&"
    [] op = "or"  -> "||"
    [] op = "xor" -> "^"
    [] op = "="   -> "=="
    [] op \in {"mod", "rem"} -> "%"
    [] OTHER      -> op

(* The operands of a level, nested to the left. *)
Nest(first, ops, Operand(_)) ==
  FoldLeft(LAMBDA acc, o : Bin(RustOp(o.op), acc, Operand(o.right)), first, ops)

ConvertTerm(n) == Nest(ConvertValue(n.first), n.ops, Basic)

(* Defect: the sign is kept only where no other term follows. *)
ConvertSimpleSigned(n) ==
  Nest(IF n.minus /\ n.ops = <<>> THEN Neg(ConvertTerm(n.first)) ELSE ConvertTerm(n.first),
       n.ops, LAMBDA t : Basic(t.first))

ConvertSimple(n) ==
  Nest(IF n.minus THEN Neg(ConvertTerm(n.first)) ELSE ConvertTerm(n.first),
       n.ops, LAMBDA t : Basic(t.first))

ConvertRelation(n) == Nest(ConvertSimple(n.first), n.ops, ConvertSimple)

Convert(n) == Nest(ConvertRelation(n.first), n.ops, ConvertRelation)

-----------------------------------------------------------------------------
(* The printer writes the operands of an operator without parentheses. *)
RECURSIVE Printed(_)
Printed(e) ==
  CASE e.k = "bin" -> Printed(e.l) \o <<Tok(e.op)>> \o Printed(e.r)
    [] e.k = "neg" -> <<Tok("neg")>> \o Printed(e.e)
    [] OTHER       -> <<e>>

(* Precedence of Rust's binary operators, weakest first. *)
Precedence == << {"||"}, {"&&"}, {"==", "!=", "<", ">"}, {"^"},
                 {"+", "-"}, {"*", "/", "%"} >>

Comparing == 3

NoParse == [k |-> "noparse"]

(* rustc: split at the last operator of the weakest kind; comparisons do   *)
(* not chain; a sign binds tighter than every binary operator.             *)
RECURSIVE RustParse(_)
RustParse(ts) ==
  LET at(i)  == {j \in DOMAIN ts : IsTok(<<ts[j]>>, Precedence[i])}
      levels == {i \in DOMAIN Precedence : at(i) # {}}
      weakest == CHOOSE i \in levels : \A j \in levels : i <= j
      split  == CHOOSE j \in at(weakest) : \A m \in at(weakest) : m <= j
  IN  CASE levels = {} -> IF IsTok(ts, {"neg"}) THEN Neg(RustParse(Tail(ts))) ELSE ts[1]
        [] levels # {} /\ weakest = Comparing /\ Cardinality(at(weakest)) > 1 -> NoParse
        [] OTHER -> Bin(ts[split].t, RustParse(SubSeq(ts, 1, split - 1)),
                        RustParse(SubSeq(ts, split + 1, Len(ts))))

Comparisons == {"=", "==", "!=", "<", "<=", ">", ">="}

(* The type of an expression of either language, "error" where it has none: *)
(* for the Rust tree, where rustc finds none.  `len` is no method of a port *)
(* field, and `temp` no variable.                                           *)
RECURSIVE TypeOf(_)
TypeOf(e) ==
  CASE e.k = "num" \/ (e.k = "id" /\ e.n \in IntVars) \/ e = Attr("count")  -> "int"
    [] e.k = "bool" \/ (e.k = "id" /\ e.n \in BoolVars \cup {Port})         -> "bool"
    [] e = Field("is_some") \/ e \in {Attr("fresh"), Attr("check")}          -> "bool"
    [] e.k = "str"                                                          -> "string"
    [] e.k = "paren" \/ (e.k = "neg" /\ TypeOf(e.e) = "int")                 -> TypeOf(e.e)
    [] e.k = "un"                                                           -> TypeOf(e.e)
    [] e.k = "bin" /\ TypeOf(e.l) = TypeOf(e.r) ->
         LET t == TypeOf(e.l)
         IN  CASE e.op \in Comparisons /\ t # "error" -> "bool"
               [] e.op \in {"and", "&&", "or", "||", "xor", "^"} /\ t = "bool" -> "bool"
               [] e.op \in {"+", "-", "*", "/", "mod", "rem", "%", "**", "^"} /\ t = "int" -> "int"
               [] OTHER -> "error"
    [] OTHER                                                                -> "error"

-----------------------------------------------------------------------------
(* Actions with blocks opened: a sequence, a set (`&`) and a nested block  *)
(* all become their actions in order.                                      *)
RECURSIVE Flat(_)
Flat(acts) ==
  FlattenSeq([i \in DOMAIN acts |-> IF acts[i].k = "block" THEN Flat(acts[i].acts)
                                    ELSE <<acts[i]>>])

(* The tree the grammar gives for the value of an action.  Of an assigned  *)
(* value a first `(` and a last `)` are skipped, each if it is there.      *)
ReadValue(a) ==
  LET s    == Sentence(a.e)
      open == a.k = "assign" /\ IsTok(s, {"("})
      r    == Parse(Logical, IF open THEN Tail(s) ELSE s)
  IN  IF r.ok /\ a.k = "assign" /\ IsTok(r.rest, {")"}) THEN Got(r.tree, Tail(r.rest)) ELSE r

(* The text of an action's value is read to its end. *)
ReadWhole(a) == ReadValue(a).ok /\ ReadValue(a).rest = <<>>

ReadTree(a) == ReadValue(a).tree

(* rustc's reading of what is generated for the AADL tree n. *)
Compiled(n) == RustParse(Printed(Convert(n)))

-----------------------------------------------------------------------------
(* Values.  env gives the variables, whether the port is fresh and has a   *)
(* message, and whether its field is Some.  AADL's `mod` has the sign of   *)
(* its right operand, `rem` and Rust's `%` that of the left.               *)
AbsVal(x) == IF x < 0 THEN -x ELSE x

Quot(x, y) == (IF (x < 0) = (y < 0) THEN 1 ELSE -1) * (AbsVal(x) \div AbsVal(y))

Rem(x, y) == x - y * Quot(x, y)

Mod(x, y) == LET r == Rem(x, y) IN IF r # 0 /\ (r < 0) # (y < 0) THEN r + y ELSE r

Apply(op, x, y) ==
  CASE op = "+" -> x + y
    [] op = "-" -> x - y
    [] op = "*" -> x * y
    [] op = "/" -> Quot(x, y)
    [] op = "mod" -> Mod(x, y)
    [] op \in {"rem", "%"} -> Rem(x, y)
    [] op \in {"=", "=="} -> x = y
    [] op = "!=" -> x # y
    [] op = "<" -> x < y
    [] op = ">" -> x > y
    [] op \in {"and", "&&"} -> x /\ y
    [] op \in {"or", "||"} -> x \/ y
    [] op \in {"xor", "^"} -> x # y

RECURSIVE Eval(_, _)
Eval(e, env) ==
  CASE e.k = "num"   -> e.v
    [] e.k = "bool"  -> e.b
    [] e.k = "id"    -> env.val[e.n]
    [] e.k = "attr"  -> env[e.q]
    [] e.k = "field" -> env.connected
    [] e.k = "neg"   -> -Eval(e.e, env)
    [] e.k = "paren" -> Eval(e.e, env)
    [] e.k = "un"    -> IF e.op = "not" THEN ~Eval(e.e, env) ELSE AbsVal(Eval(e.e, env))
    [] e.k = "bin"   -> Apply(e.op, Eval(e.l, env), Eval(e.r, env))

Environments ==
  { [val |-> ints @@ bools, fresh |-> f, check |-> c, connected |-> d] :
      ints \in [IntVars -> Values], bools \in [BoolVars \cup {Port} -> BOOLEAN],
      f \in BOOLEAN, c \in BOOLEAN, d \in BOOLEAN }

SameValue(e, f) == \A env \in Environments : Eval(e, env) = Eval(f, env)

-----------------------------------------------------------------------------
RECURSIVE Parts(_)
Parts(e) ==
  {e} \cup (CASE e.k = "bin" -> Parts(e.l) \cup Parts(e.r)
             [] e.k \in {"neg", "un", "paren"} -> Parts(e.e)
             [] OTHER -> {})

IsBin(e, ops) == e.k = "bin" /\ e.op \in ops

(* Written from left to right, to the author `and`, `or` and `xor` are one *)
(* level; to Rust the later operator binds tighter.                        *)
Regrouped(e) ==
  \/ IsBin(e, {"and"}) /\ IsBin(e.l, {"or"})
  \/ IsBin(e, {"xor"}) /\ IsBin(e.l, {"and", "or"})

(* The ways in which a program that rustc accepts computes another value   *)
(* than the annex says.                                                    *)
KnownLoss(e) ==
  \E x \in Parts(e) :
    \/ IsBin(x, {"+", "-"}) /\ IsBin(x.r, {"*", "/", "mod", "rem"})
    \/ IsBin(x, {"mod"})
    \/ Regrouped(x)
    \/ x \in {Attr("fresh"), Attr("check")}

(* What the translation supports: variables and literals, products only as *)
(* the first term of a sum, comparisons that are read, and no `xor` beside *)
(* a comparison.                                                           *)
Supported(e) ==
  /\ ~KnownLoss(e)
  /\ \A x \in Parts(e) :
       /\ x.k \notin {"attr", "un", "paren", "str"}
       /\ ~IsBin(x, {"<=", ">=", "**"})
       /\ IsBin(x, {"xor"}) => \A y \in Parts(e) : ~IsBin(y, {"=", "!=", "<", ">"})
=============================================================================
