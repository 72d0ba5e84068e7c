----------------------------- MODULE MCConversion -----------------------------
(***************************************************************************)
(* Models for TLC: those of the scheduling, and models with data types.    *)
(***************************************************************************)
EXTENDS MCThreadScheduling, DataTypes

MCLower ==
  [n \in {"Speed", "speed", "Pos", "Point", "Po", "Integer", "Integer_32", "Float", "Boolean", "c_t",
          "c_int", "Impl", "MyImpl", "SpeedImpl", "Update"} |->
     CASE n \in {"Speed", "speed"} -> "speed"
       [] n = "Integer" -> "integer"  [] n = "Integer_32" -> "integer_32"
       [] n = "Float" -> "float"      [] n = "Boolean" -> "boolean"
       [] OTHER -> n]

MCEndInImpl == {"Impl", "MyImpl", "SpeedImpl"}

MCBegins ==
  [n \in DOMAIN MCLower |-> IF n \in {"Pos", "Point"} THEN {n, "Po"}
                            ELSE IF n = "SpeedImpl" THEN {n, "Speed"} ELSE {n}]

Ref(k, n, i) == [pkg |-> k, n |-> n, i |-> i]

Data(n, rep, lit, of, list) ==
  [k |-> "data", n |-> n, rep |-> rep, lit |-> lit, of |-> of, list |-> list]

Source(n, lit) == Data(n, "source", lit, <<>>, FALSE)

Array(n, ref, list) == Data(n, "array", "", << ref >>, list)

Composite(n, rep, of) == Data(n, rep, "", of, FALSE)

DataImpl(n, subs, calls) == [k |-> "dataimpl", n |-> n, subs |-> subs, calls |-> calls]

Subprogram(n, params, access) == [k |-> "subprogram", n |-> n, params |-> params, access |-> access]

Param(dir, ref) == [dir |-> dir, ref |-> ref]

DataPort(ref) == [k |-> "port", ref |-> ref]

Process(n, holds) == [k |-> "process", n |-> n, holds |-> holds]

Other(n, holds) == [k |-> "other", n |-> n, holds |-> holds]

Nowhere == System(<<>>, [cpu |-> "cpu"], <<>>)

-----------------------------------------------------------------------------
(* Two packages with a data type each, and one that uses both, in every    *)
(* order: names the same, of different case, that of a base type, apart.   *)
Firsts ==
  {Source("Speed", "Float"), Source("Speed", "c_t"), Source("Speed", "c_int"), Array("Speed", Ref(0, "Float", ""), FALSE),
   Array("Speed", Ref(0, "Float", ""), TRUE), Composite("Speed", "enum", <<>>),
   Composite("Speed", "struct", << Ref(0, "Float", "") >>), Data("Speed", "none", "", <<>>, FALSE)}

Seconds(first) ==
  {Source(n, "Boolean") : n \in {"Speed", "speed", "Pos", "Integer"}}
    \cup {Composite(n, "struct", << Ref(first, "Speed", "") >>) : n \in {"Speed", "Pos"}}
    \cup {Array("Pos", Ref(first, n, i), list) :
            n \in {"Speed", "speed"}, i \in {"", "Impl", "i"}, list \in BOOLEAN}

Provider(first, second, d, i) ==
  Pkg({second}, << d, DataImpl(d.n, <<>>, {}), DataPort(Ref(first, "Speed", i)) >>)

Middle(first, d) ==
  Pkg({first}, << DataPort(Ref(first, "Speed", "i")), d, DataImpl(d.n, <<>>, {}) >>)

User(withs, first, second, d, n, i, dir) ==
  Pkg(withs,
      << DataPort(Ref(first, n, "")), DataPort(Ref(second, d.n, i)),
         Subprogram("Update", IF dir = "none" THEN <<>>
                              ELSE << Param("in", Ref(second, d.n, "")),
                                      Param(dir, Ref(0, "Integer", "")) >>, <<>>),
         Nowhere >>)

InOrder(first, second, p, q, r) ==
  LET at(k) == IF k = first THEN p ELSE IF k = second THEN q ELSE r
  IN  << at(1), at(2), at(3) >>

Threes ==
  [x \in {o \in {"three"} \X (1 .. 3) \X (1 .. 3) : o[2] # o[3]} |->
     {InOrder(x[2], x[3], Provider(x[2], x[3], d1, i), Middle(x[2], d2), User(withs, x[2], x[3], d2, n, i, dir)) :
        withs \in {{x[2], x[3]}, {x[3]}}, d1 \in Firsts, d2 \in Seconds(x[2]), n \in {"Speed", "speed"}, i \in {"", "i"},
        dir \in {"in", "out", "none"}}]

(* A data type that is named like an implementation, and one made of it in *)
(* the same package or the next.                                           *)
Likes ==
  [x \in {"like"} \X {"Float", "c_t"} \X {1, 2} |->
     {<< Pkg({}, << Source("SpeedImpl", x[2]) >> \o (IF x[3] = 1 THEN << d >> ELSE <<>>)),
         Pkg({1}, (IF x[3] = 2 THEN << d >> ELSE <<>>)
                    \o << DataPort(Ref(1, "SpeedImpl", "")), DataPort(Ref(x[3], "Pos", "")), Nowhere >>) >> :
        d \in {Array("Pos", Ref(1, "SpeedImpl", i), FALSE) : i \in {"", "i", "MyImpl"}}
                \cup {Composite("Pos", "struct", << Ref(1, "SpeedImpl", i) >>) : i \in {"", "i"}}}]

(* References to what is converted later: to an array of one's own data in *)
(* another package, to data with a namesake in another package.            *)
Later ==
  [x \in {"later"} \X {"Float", "c_t", "c_int"} |->
     {<< Pkg({2}, << Source("Speed", x[2]), DataPort(Ref(2, "Pos", "")), Nowhere >>),
         Pkg({1}, << Array("Pos", Ref(1, "Speed", ""), FALSE) >>) >>,
      << Pkg({2}, << DataPort(Ref(1, "Speed", "")), Source("speed", x[2]), Nowhere >>),
         Pkg({}, << Source("Speed", x[2]) >>) >>}]

-----------------------------------------------------------------------------
(* A package with a data type and its implementation, their subprogram and *)
(* processes, in every order, and another with a process and the system.   *)
Fields ==
  {<<>>, << Ref(0, "Integer_32", "") >>, << Ref(0, "Float", "") >>,
   << Ref(0, "Integer_32", ""), Ref(1, "Speed", "") >>}

Positions ==
  {Composite("Pos", rep, of) : rep \in Composites, of \in {<<>>, << Ref(1, "Speed", ""), Ref(0, "Float", "") >>}}
    \cup {Composite("Pos", "struct", << Ref(1, "Speed", "i") >>), Data("Pos", "none", "", <<>>, FALSE)}

Speeds == {Source("Speed", "Integer"), Source("Speed", "c_t"), Array("Speed", Ref(0, "Integer", ""), FALSE),
           Data("Speed", "array", "", <<>>, FALSE)}

(* Types whose names begin with one another: Po, and Pos. *)
Prefixed == << Composite("Po", "struct", <<>>), DataImpl("Po", << Ref(0, "Boolean", "") >>, {}) >>

(* A second implementation, and a subprogram with a parameter. *)
Further ==
  {<<>>, Prefixed, << DataImpl("Pos", << Ref(0, "Boolean", "") >>, {}) >>,
   << Other("Po", << Ref(0, "Boolean", "") >>) >>, << Process("Po", << Ref(1, "Pos", "Impl") >>) >>}
    \cup {<< Subprogram("Po", << Param("in", Ref(1, "Pos", i)) >>, <<>>) >> : i \in {"", "i"}}

Orders == {o \in [1 .. 4 -> 1 .. 4] : \A x, y \in 1 .. 4 : o[x] = o[y] => x = y}

Sharing(order, data, fields, speed, access, others, held, away) ==
  LET parts == << data, DataImpl("Pos", fields, IF access = "none" THEN {} ELSE {"Update"}), speed,
                  Subprogram("Update", <<>>, IF access = "none" THEN <<>>
                                             ELSE << Ref(1, "Pos", access) >>) >>
  IN  << Pkg({}, << parts[order[1]], parts[order[2]], parts[order[3]], parts[order[4]] >> \o others
                   \o << Process("Here", IF held THEN << Ref(1, "Pos", "Impl") >> ELSE <<>>) >>),
         Pkg({1}, << Process("Away", IF away THEN << Ref(1, "Pos", "Impl") >> ELSE <<>>), Nowhere >>) >>

Few == {o \in Orders : o[1] = 1 /\ o[2] = 2}

Shares ==
  Over(
    [x \in {"share"} \X Orders |->
       {Sharing(x[2], data, fields, speed, "Impl", <<>>, TRUE, FALSE) :
          data \in Positions, fields \in Fields, speed \in Speeds}],
    [x \in {"share"} \X Few \X {"none", "Impl", "MyImpl", "i"} |->
       {Sharing(x[2], data, fields, speed, x[3], others, at = "here", at = "away") :
          data \in Positions, fields \in Fields, speed \in Speeds, others \in Further,
          at \in {"none", "here", "away"}}])

AllModels == Over(MCModels, Over(Threes, Over(Likes, Over(Later, Shares))))
=============================================================================
