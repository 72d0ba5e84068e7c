------------------------- MODULE MCThreadScheduling -------------------------
(***************************************************************************)
(* Models for TLC: one package with two threads, for every choice of their *)
(* properties; and a library and an application, converted in either order,*)
(* each with a system, for every choice of processors and bindings.        *)
(***************************************************************************)
EXTENDS ThreadScheduling

Q(v, u) == [v |-> v, u |-> u]

Period(v) == [period |-> Q(v, "ms")]

Priority(v) == [priority |-> Q(v, "none")]

Both(v, w) == [period |-> Q(v, "ms"), priority |-> Q(w, "none")]

None == <<>>

Cpu(n, protocol) == [k |-> "cpu", n |-> n, protocol |-> protocol]

Type(n, props, ports) == [k |-> "type", n |-> n, props |-> props, ports |-> ports]

Impl(n, props) == [k |-> "impl", n |-> n, props |-> props, ports |-> {}]

Bind(p, c) == [to |-> p, cpu |-> c]

System(binds, cpus, procs) == [k |-> "system", binds |-> binds, cpus |-> cpus, procs |-> procs]

Pkg(withs, decls) == [withs |-> withs, decls |-> decls]

T(k, n) == [pkg |-> k, n |-> n]

-----------------------------------------------------------------------------
TypeProps == {None, Period(20), Priority(7)}

ImplProps == {None, Period(5), Period(10), Period(1259), Both(100, 60), Priority(0), Priority(99),
              [period |-> Q(1, "sec")]}

One(tp1, ip1, tp2, ip2, protocol, ports, binds) ==
  << Pkg({}, << Cpu("cpu", protocol), Type("t1", tp1, ports), Impl("t1", ip1),
                Type("t2", tp2, {}), Impl("t2", ip2),
                System(binds, [cpu |-> "cpu"], [p |-> {T(1, "t1")}, q |-> {T(1, "t2")}]) >>) >>

Ones ==
  [x \in {"one"} \X TypeProps |->
     {One(x[2], ip1, tp2, ip2, protocol, {"in"}, binds) :
        ip1 \in ImplProps, tp2 \in TypeProps, ip2 \in ImplProps, protocol \in {"none", "RM"},
        binds \in {<< Bind("p", "cpu") >>, << Bind("q", "cpu"), Bind("p", "cpu") >>}}]

-----------------------------------------------------------------------------
(* The library: a processor and a thread, both also known by these names   *)
(* to the application, and a system of its own, bound or not.              *)
Library(k, protocol, props, tp, binds) ==
  Pkg({}, << Cpu("cpu", protocol), Type("t1", tp, {}), Impl("t1", props),
             System(binds, [cpu |-> "cpu", hw |-> "cpu"], [p |-> {T(k, "t1")}]) >>)

(* The application: its implementation before its type, or after it. *)
Application(k, other, withs, n, cpu, props, tp, late, binds) ==
  LET ty == Type(n, tp, {})   im == Impl(n, props)
      threads2 == IF late THEN << im, ty >> ELSE << ty, im >>
  IN  Pkg(withs, cpu \o << System(binds, [hw |-> "cpu", cpu |-> "cpu", aux |-> "aux"],
                                  [p |-> {T(k, n)}, q |-> {T(other, "t1"), T(k, n)}]) >> \o threads2)

Bindings == {<<>>, << Bind("p", "hw") >>, << Bind("q", "cpu"), Bind("p", "hw") >>,
             << Bind("p", "aux"), Bind("q", "cpu"), Bind("q", "hw") >>}

Twos ==
  [x \in {"two"} \X BOOLEAN \X {"RM", "none", "RR"} \X SUBSET {1, 2} |->
     LET lib == IF x[2] THEN 1 ELSE 2   app == 3 - lib
     IN  { LET l == Library(lib, x[3], lprops, ltp, lbinds)
               a == Application(app, lib, x[4], n, cpu, props, None, late, binds)
           IN  IF x[2] THEN << l, a >> ELSE << a, l >> :
             lprops \in {Period(10), Priority(9)}, ltp \in {None, Priority(3)},
             lbinds \in {<<>>, << Bind("p", "cpu") >>, << Bind("p", "hw") >>}, n \in {"t1", "t2"},
             cpu \in {<<>>, << Cpu("aux", "DM") >>, << Cpu("cpu", "EDF") >>},
             props \in {Period(12), Priority(11)}, late \in BOOLEAN, binds \in Bindings }]

MCModels == Over(Ones, Twos)
=============================================================================
