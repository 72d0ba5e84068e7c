--------------------------- MODULE ThreadScheduling ---------------------------
(***************************************************************************)
(* How processors, bindings and the properties of threads become the core, *)
(* the policy and the priority a generated thread runs with.               *)
(*                                                                         *)
(* The packages of a model are converted one after another.  The converter *)
(* remembers, from package to package, the protocol of each processor type,*)
(* the number of each bound processor and the property values of threads;  *)
(* at the end of a package it writes what it knows by then into the        *)
(* package's module: the table CPU_ID_TO_SCHED_POLICY and the function     *)
(* period_to_priority, which the threads of that package use.              *)
(***************************************************************************)
EXTENDS Integers, FiniteSets, Sequences

CONSTANT Models  \* Models[x]: set of models, sequences of packages as in Package below

VARIABLES model,      \* the model; never changes
          status,     \* "converting", "panicked", "accepted" or "refused" by rustc
          pkg, pos,   \* the package under way, its declarations dealt with
          bound,      \* bindings of the system under way dealt with
          protocols,  \* cpu_scheduling_protocols: processor type -> protocol
          ids,        \* cpu_name_to_id_mapping: name of a processor -> number
          values,     \* thread_field_values: thread type -> field -> value
          threads,    \* threads[k]: implementations generated in package k
          pinned,     \* pinned[k]: process -> number passed to its new()
          tables,     \* tables[k]: what the end of package k has written
          running     \* the threads of the generated program, once it runs

vars == <<model, status, pkg, pos, bound, protocols, ids, values, threads, pinned,
          tables, running>>

(* Package: [withs |-> numbers of packages, decls |-> declarations], a     *)
(* declaration being one of                                                *)
(*   [k |-> "cpu", n |-> type, protocol |-> "none" or its class]           *)
(*   [k |-> "type" or "impl", n |-> thread type, props |-> properties,     *)
(*    ports |-> names], ports being empty for an "impl"                    *)
(*   [k |-> "system", binds |-> sequence of [to |-> process, cpu |-> name],*)
(*    cpus |-> name -> type, procs |-> process -> set of threads], at most *)
(*   one in a package; a thread is [pkg |-> number, n |-> type].           *)
(* Properties are functions from {"period", "priority"} to quantities.     *)
IsSequence(s) == Len(s) \in Nat /\ s \in [1 .. Len(s) -> {s[i] : i \in 1 .. Len(s)}]

(* What the above says of a model, as far as theorems rely on it; `none`,   *)
(* here for no processor, is a reserved word of AADL.                      *)
WellFormed(m) ==
  /\ IsSequence(m)
  /\ \A k \in DOMAIN m :
       /\ IsSequence(m[k].decls)
       /\ \A x, y \in DOMAIN m[k].decls :
            m[k].decls[x].k = "system" /\ m[k].decls[y].k = "system" => x = y
       /\ \A x \in DOMAIN m[k].decls :
            LET d == m[k].decls[x]
            IN  /\ d.k = "system" =>
                     /\ IsSequence(d.binds)
                     /\ \A i \in DOMAIN d.binds : d.binds[i].cpu # "none"
                     /\ \A p \in DOMAIN d.procs : \A t \in d.procs[p] : t.pkg \in DOMAIN m
                /\ d.k = "impl" => d.ports = {}
                /\ d.k = "impl" => \A q \in DOMAIN d.props : d.props[q].v \in Int

ASSUME ModelsAssumption == \A x \in DOMAIN Models : \A m \in Models[x] : WellFormed(m)

Packages == 1 .. Len(model)

Decls(k) == {model[k].decls[i] : i \in DOMAIN model[k].decls}

Init ==
  /\ \E x \in DOMAIN Models : model \in Models[x]
  /\ status = "converting"
  /\ pkg = 1 /\ pos = 0 /\ bound = 0
  /\ protocols = <<>> /\ ids = <<>> /\ values = <<>>
  /\ threads = [k \in Packages |-> {}]
  /\ pinned = [k \in Packages |-> <<>>]
  /\ tables = [k \in Packages |-> [policies |-> <<>>, rates |-> FALSE]]
  /\ running = {}

Current(kind) ==
  /\ status = "converting" /\ pkg \in Packages
  /\ pos < Len(model[pkg].decls)
  /\ model[pkg].decls[pos + 1].k = kind

Decl == model[pkg].decls[pos + 1]

Put(f, x, v) == [y \in DOMAIN f \cup {x} |-> IF y = x THEN v ELSE f[y]]

(* f with g's values where both have one. *)
Over(f, g) == [y \in DOMAIN f \cup DOMAIN g |-> IF y \in DOMAIN g THEN g[y] ELSE f[y]]

-----------------------------------------------------------------------------
(* convert_processor_implementation: by the name of the type. *)
ConvertCpu ==
  /\ Current("cpu")
  /\ protocols' = Put(protocols, Decl.n, IF Decl.protocol = "none" THEN "FIFO" ELSE Decl.protocol)
  /\ pos' = pos + 1
  /\ UNCHANGED <<model, status, pkg, bound, ids, values, threads, pinned, tables, running>>

(* convert_thread_component: the ports and properties of the type replace  *)
(* what is known of a thread of that name; a type without any replaces     *)
(* nothing.                                                                *)
ConvertType ==
  /\ Current("type")
  /\ LET fields == [x \in Decl.ports \cup DOMAIN Decl.props |->
                       IF x \in DOMAIN Decl.props THEN Decl.props[x].v ELSE "None"]
     IN  values' = IF DOMAIN fields = {} THEN values ELSE Put(values, Decl.n, fields)
  /\ pos' = pos + 1
  /\ UNCHANGED <<model, status, pkg, bound, protocols, ids, threads, pinned, tables, running>>

Known(n) == IF n \in DOMAIN values THEN values[n] ELSE <<>>

Raw(props) == [x \in DOMAIN props |-> props[x].v]

(* The numbers of properties count, their units do not. *)
Generate(fields) ==
  /\ Current("impl")
  /\ values' = IF DOMAIN Decl.props = {} THEN values ELSE Put(values, Decl.n, fields)
  /\ threads' = [threads EXCEPT ![pkg] =
                   @ \cup {[n |-> Decl.n, at |-> pos + 1, own |-> Raw(Decl.props),
                            fields |-> fields]}]
  /\ pos' = pos + 1
  /\ UNCHANGED <<model, status, pkg, bound, protocols, ids, pinned, tables, running>>

(* Defect: a value of the type is kept. *)
ConvertImplKeeping == Generate(Over(Raw(Decl.props), Known(Decl.n)))

(* convert_thread_implemenation: the properties of the implementation are  *)
(* added to what is known; new() sets every field known by then.           *)
ConvertImpl == Generate(Over(Known(Decl.n), Raw(Decl.props)))

(* Defect: numbers start anew in every system. *)
NextIdOfSystem == Cardinality({c \in DOMAIN ids : \E i \in 1 .. bound : Decl.binds[i].cpu = c})

NextId == Cardinality(DOMAIN ids)

(* create_system_new_body: first the bindings are gone through, each new   *)
(* name of a processor gets the next number.                               *)
AssignId ==
  /\ Current("system") /\ bound < Len(Decl.binds)
  /\ LET c == Decl.binds[bound + 1].cpu
     IN  ids' = IF c \in DOMAIN ids THEN ids ELSE Put(ids, c, NextId)
  /\ bound' = bound + 1
  /\ UNCHANGED <<model, status, pkg, pos, protocols, values, threads, pinned, tables, running>>

(* The binding that counts for process p of system d: the first; 0: none. *)
BindingOf(d, p) ==
  LET B == {i \in DOMAIN d.binds : d.binds[i].to = p}
  IN  IF B = {} THEN 0 ELSE CHOOSE i \in B : \A j \in B : i <= j

(* Then each process gets the number of its processor, or -1. *)
ConvertSystem ==
  /\ Current("system") /\ bound = Len(Decl.binds)
  /\ pinned' = [pinned EXCEPT ![pkg] =
                  [p \in DOMAIN Decl.procs |->
                     IF BindingOf(Decl, p) = 0 THEN -1 ELSE ids[Decl.binds[BindingOf(Decl, p)].cpu]]]
  /\ pos' = pos + 1 /\ bound' = 0
  /\ UNCHANGED <<model, status, pkg, protocols, ids, values, threads, tables, running>>

-----------------------------------------------------------------------------
Policy(protocol) ==
  CASE protocol = "RR"  -> "SCHED_RR"
    [] protocol = "EDF" -> "SCHED_DEADLINE"
    [] OTHER            -> "SCHED_FIFO"

(* convert_cpu_schedule_mapping: the protocol is looked up by the name of  *)
(* the subcomponent, under which ids has it.                               *)
Policies ==
  [i \in {ids[c] : c \in DOMAIN ids} |->
     LET c == CHOOSE d \in DOMAIN ids : ids[d] = i
     IN  IF c \in DOMAIN protocols THEN Policy(protocols[c]) ELSE "SCHED_FIFO"]

EndPackage ==
  /\ status = "converting" /\ pkg \in Packages
  /\ pos = Len(model[pkg].decls)
  /\ tables' = [tables EXCEPT ![pkg] =
                  [policies |-> Policies,
                   rates |-> \E c \in DOMAIN protocols : protocols[c] \in {"RM", "DM"}]]
  /\ pkg' = pkg + 1 /\ pos' = 0
  /\ UNCHANGED <<model, status, bound, protocols, ids, values, threads, pinned, running>>

-----------------------------------------------------------------------------
(* What a name means in package k, of the packages in S that have an item   *)
(* of that name: its own, or those of the packages it imports.             *)
InScope(k, S) == IF k \in S THEN {k} ELSE model[k].withs \cap S

HasPolicies == {k \in Packages : DOMAIN tables[k].policies # {}}

HasRates == {k \in Packages : tables[k].rates}

(* Defect: the structs of a type and of its implementation are not merged. *)
StructFieldsUnmerged(k, n) ==
  UNION {d.ports \cup DOMAIN d.props : d \in {e \in Decls(k) : e.k = "type" /\ e.n = n}}

(* merge_item_defs: the fields of a thread's struct. *)
StructFields(k, n) ==
  UNION {d.ports \cup DOMAIN d.props : d \in {e \in Decls(k) : e.k \in {"type", "impl"} /\ e.n = n}}

(* rustc on thread t of package k: new() sets all fields of the struct and *)
(* no other, `cpu_id` is a field of the type's, a type has one             *)
(* implementation, and the table and the function run() uses are there.    *)
Compiles(k, t) ==
  /\ DOMAIN t.fields = StructFields(k, t.n)
  /\ \E d \in Decls(k) : d.k = "type" /\ d.n = t.n
  /\ \A u \in threads[k] : u.n = t.n => u = t
  /\ DOMAIN t.own # {} => Cardinality(InScope(k, HasPolicies)) = 1
  /\ DOMAIN t.own = {"period"} => Cardinality(InScope(k, HasRates)) = 1

(* Of the policies only SCHED_FIFO is imported. *)
TableCompiles(k) == \A i \in DOMAIN tables[k].policies : tables[k].policies[i] = "SCHED_FIFO"

(* period_to_priority, max(1, min(99, 99 - floor(10 log10(P)))): Threshold *)
(* [i] is the least P with 10 log10(P) >= i.  Bound: P < 2^31 ms.          *)
Threshold ==
  << 2, 2, 2, 3, 4, 4, 6, 7, 8, 10, 13, 16, 20, 26, 32, 40, 51, 64, 80,
     100, 126, 159, 200, 252, 317, 399, 502, 631, 795, 1000, 1259, 1585,
     1996, 2512, 3163, 3982, 5012, 6310, 7944, 10000, 12590, 15849,
     19953, 25119, 31623, 39811, 50119, 63096, 79433, 100000, 125893,
     158490, 199527, 251189, 316228, 398108, 501188, 630958, 794329,
     1000000, 1258926, 1584894, 1995263, 2511887, 3162278, 3981072,
     5011873, 6309574, 7943283, 10000000, 12589255, 15848932, 19952624,
     25118865, 31622777, 39810718, 50118724, 63095735, 79432824,
     100000000, 125892542, 158489320, 199526232, 251188644, 316227767,
     398107171, 501187234, 630957345, 794328235, 1000000000, 1258925412,
     1584893193, 1995262315 >>

PeriodToPriority(P) == 99 - Cardinality({i \in DOMAIN Threshold : Threshold[i] <= P})

(* Defect: a period comes before a priority. *)
AskedByPeriod(t) ==
  IF "period" \in DOMAIN t.own THEN PeriodToPriority(t.fields["period"])
  ELSE IF "priority" \in DOMAIN t.own THEN t.own["priority"] ELSE 0

(* The priority run() asks for; 0: none. *)
Asked(t) ==
  CASE "priority" \in DOMAIN t.own -> t.own["priority"]
    [] DOMAIN t.own = {"period"}   -> PeriodToPriority(t.fields["period"])
    [] OTHER                       -> 0

(* create_thread_run_body: thread t of package k in process p of the       *)
(* system of package sys.  The kernel takes real-time priorities from 1 to *)
(* 99; without one a thread keeps the ordinary policy.                     *)
Run(sys, p, k, t) ==
  LET id    == pinned[sys][p]
      named == {j \in InScope(k, HasPolicies) : id \in DOMAIN tables[j].policies}
  IN  [sys |-> sys, proc |-> p, pkg |-> k, n |-> t.n, core |-> id,
       priority |-> IF Asked(t) \in 1 .. 99 THEN Asked(t) ELSE 0,
       policy |-> IF Asked(t) \notin 1 .. 99 THEN "SCHED_OTHER"
                  ELSE IF named = {} THEN "SCHED_FIFO"
                  ELSE tables[CHOOSE j \in named : TRUE].policies[id],
       period |-> IF "period" \in DOMAIN t.own THEN t.own["period"] ELSE 1000]

Systems(k) == {d \in Decls(k) : d.k = "system"}

Started(k, d) ==
  UNION {UNION {{Run(k, p, r.pkg, t) : t \in {u \in threads[r.pkg] : u.n = r.n}} :
                  r \in d.procs[p]} : p \in DOMAIN d.procs}

SchedulingCompiles == \A k \in Packages : TableCompiles(k) /\ \A t \in threads[k] : Compiles(k, t)

(* The generated program is that of one of the systems, if it compiles. *)
BuildIf(compiles) ==
  /\ status = "converting" /\ pkg \notin Packages
  /\ \/ /\ compiles
        /\ status' = "accepted"
        /\ \E k \in Packages : \E d \in Systems(k) : running' = Started(k, d)
     \/ /\ ~compiles
        /\ status' = "refused"
        /\ UNCHANGED running
  /\ UNCHANGED <<model, pkg, pos, bound, protocols, ids, values, threads, pinned, tables>>

Build == BuildIf(SchedulingCompiles)

Done == status # "converting" /\ UNCHANGED vars

Next == \/ ConvertCpu \/ ConvertType \/ ConvertImpl \/ AssignId \/ ConvertSystem
        \/ EndPackage \/ Build \/ Done

Spec == Init /\ [][Next]_vars

-----------------------------------------------------------------------------
SystemOf(r) == CHOOSE d \in Systems(r.sys) : TRUE

(* The processor the system binds r's process to, if any. *)
Processor(r) ==
  LET d == SystemOf(r)   i == BindingOf(d, r.proc)
  IN  IF i = 0 THEN "none" ELSE d.binds[i].cpu

PropsOf(kind, r) == (CHOOSE d \in Decls(r.pkg) : d.k = kind /\ d.n = r.n).props

Cpus(n) == UNION {{<<k, d.protocol>> : d \in {e \in Decls(k) : e.k = "cpu" /\ e.n = n}} : k \in Packages}

(* The protocol of a processor reaches the thread: the subcomponent is     *)
(* named like its type, no other type has that name, and it is converted   *)
(* no later than the package whose table the thread uses.                  *)
ProtocolReaches(r) ==
  LET c == Processor(r)
  IN  /\ SystemOf(r).cpus[c] = c
      /\ Cardinality(Cpus(c)) = 1
      /\ \A e \in Cpus(c) : \A j \in InScope(r.pkg, HasPolicies) : e[1] <= j

(* What a thread runs with is what the model says, as far as run() heeds it: *)
(* a period in ms and a real-time priority of the implementation, the policy *)
(* of the protocol of its processor, and the default, 1000 ms and no         *)
(* priority, where neither type nor implementation has a property.  Lost     *)
(* without a word are properties of the type only, periods in other units,   *)
(* priorities beyond 1 .. 99, and protocols that do not reach the thread.    *)
RunsAsDeclared ==
  \A r \in running :
    LET own == PropsOf("impl", r)
    IN  /\ "period" \in DOMAIN own /\ own["period"].u = "ms" => r.period = own["period"].v
        /\ "priority" \in DOMAIN own /\ own["priority"].v \in 1 .. 99 =>
             r.priority = own["priority"].v
        /\ DOMAIN Over(PropsOf("type", r), own) = {} => r.period = 1000 /\ r.priority = 0
        /\ r.priority # 0 /\ Processor(r) # "none" /\ ProtocolReaches(r) =>
             \A e \in Cpus(Processor(r)) : r.policy = Policy(e[2])

(* Threads are pinned to the same core exactly if their processes are bound*)
(* to the same processor; threads of unbound processes are not pinned.     *)
CoresApart ==
  \A r, s \in running :
    /\ (r.core = s.core) <=> (Processor(r) = Processor(s))
    /\ (r.core = -1) <=> (Processor(r) = "none")

(* Rate monotonic: of two threads that have a period in ms and no priority,*)
(* the one with the longer period never gets the higher priority.          *)
RatesInOrder ==
  LET Rated(r) == /\ DOMAIN PropsOf("impl", r) = {"period"}
                  /\ PropsOf("impl", r)["period"].u = "ms"
  IN  \A r, s \in running :
        /\ Rated(r) /\ Rated(s)
        /\ PropsOf("impl", r)["period"].v <= PropsOf("impl", s)["period"].v
        => r.priority >= s.priority

(* What a model needs for rustc to accept its scheduling: processors with  *)
(* a priority protocol; each thread type once, before its only             *)
(* implementation; where a property is given, a bound processor no later   *)
(* than that package, and where only a period is, a rate monotonic one.    *)
Complete ==
  /\ \A k \in Packages : \A d \in Decls(k) : d.k = "cpu" => d.protocol \notin {"RR", "EDF"}
  /\ \A j, k \in Packages : \A x \in DOMAIN model[j].decls, y \in DOMAIN model[k].decls :
       LET d == model[j].decls[x]   e == model[k].decls[y]
       IN  d.k \in {"type", "impl"} /\ d.k = e.k /\ d.n = e.n => j = k /\ x = y
  /\ \A k \in Packages : \A y \in DOMAIN model[k].decls :
       LET d == model[k].decls[y]
           upTo(S(_)) == \E j \in 1 .. k : \E e \in Decls(j) : S(e)
       IN  d.k = "impl" =>
             /\ \E x \in 1 .. y : model[k].decls[x].k = "type" /\ model[k].decls[x].n = d.n
             /\ DOMAIN d.props # {} => upTo(LAMBDA e : e.k = "system" /\ e.binds # <<>>)
             /\ DOMAIN d.props = {"period"} =>
                  upTo(LAMBDA e : /\ e.k = "cpu"
                                  /\ \A c \in Cpus(e.n) : c[2] \in {"RM", "DM"})

CompleteAccepted == Complete /\ pkg \notin Packages => SchedulingCompiles
=============================================================================
