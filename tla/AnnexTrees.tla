------------------------------ MODULE AnnexTrees ------------------------------
(***************************************************************************)
(* The value expressions of a Behavior Annex and of the generated program. *)
(* Trees are records; `k` tells their kind.  The same kinds stand for the  *)
(* expression the author wrote and for the one rustc reads, so that their  *)
(* values can be compared.                                                 *)
(***************************************************************************)
CONSTANT Port  \* an in port with a boolean value

Id(n) == [k |-> "id", n |-> n]
Num(v) == [k |-> "num", v |-> v]
Bool(b) == [k |-> "bool", b |-> b]
Str == [k |-> "str"]
Bin(op, l, r) == [k |-> "bin", op |-> op, l |-> l, r |-> r]
Neg(e) == [k |-> "neg", e |-> e]

(* Written by the author only: port'fresh, port'count, port?; abs e, not e *)
(* and parentheses.                                                        *)
Attr(q) == [k |-> "attr", q |-> q]
Un(op, e) == [k |-> "un", op |-> op, e |-> e]
Paren(e) == [k |-> "paren", e |-> e]

(* In the Rust tree only: a call on the field of the port. *)
Field(m) == [k |-> "field", m |-> m]

(* Actions of an annex with a value. *)
Valued(a) == a.k \in {"assign", "output"}
=============================================================================
