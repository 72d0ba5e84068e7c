---------------------------- MODULE MCGeneration ----------------------------
(***************************************************************************)
(* Two component types for the runs of Generation.  The port x is an out   *)
(* port of one type and an in port of the other.                           *)
(***************************************************************************)
EXTENDS Generation

CONSTANTS T1, T2, t, u, P, Q, a, b, c, d

MCTypes == {T1, T2}
MCTypeNames == {t, u}
MCOut == [k \in MCTypes |-> IF k = T1 THEN {"x"} ELSE {"z"}]
MCNameSets == {{a, b}, {c, d}}
MCOwners == {P, Q}

(* The models of Init, one of each kind up to renaming types, processes    *)
(* and subcomponents.  Connections between threads have something to meet  *)
(* only where there is a system; they are left out elsewhere.              *)
MCInit ==
  /\ name \in {f \in [MCTypes -> MCTypeNames] : f[T1] = t}
  /\ owner \in {f \in [Impls -> MCOwners \cup {NoType}] :
                  \A m \in Impls : f[m] = Q => m > 1 /\ f[1] = P}
  /\ subs \in {f \in [Impls -> UNION {[D -> MCTypes] : D \in MCNameSets}] : DOMAIN f[1] = {a, b}}
  /\ LET some(m) == {C \in Few(Connectable(Kind(m), subs[m])) :
                       (\A l \in Impls : Kind(l) = "process") => \A e \in C : e.src.comp = Self}
     IN \E A \in some(1), B \in some(2) : conns = [m \in Impls |-> IF m = 1 THEN A ELSE B]
  /\ Init

MCSpec == MCInit /\ [][Next]_vars
=============================================================================
