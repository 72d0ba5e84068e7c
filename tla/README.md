# Specifications of AADL2Rust

AADL2Rust translates AADL architecture models into Rust programs: threads,
processes, devices and their port connections become OS threads, structs and
channels. The translator itself is sequential. What is hard to test is the
program it writes: dozens of threads that exchange messages over channels, wake
up by period, by event or by timeout, and are wired together by straight-line
code whose result depends on the whole list of connections. The specifications
here are about that program, as the generator writes it, and about the parts of
the generator that decide how it is wired, with what priority and on which core
its threads run, what the actions of an annex become and which Rust types its
data types.

All paths below are relative to `src/`; `conv_*` files live in
`src/aadl_ast2rust_code/implementations` and `.../types`.

## The system

| component | where | state | operations | interacts by |
|---|---|---|---|---|
| port connection | `conv_process_impl.rs`, `conv_thread_impl.rs`, `conv_device_type.rs` | channels, what a forwarder holds | send, try_recv, forward | channels (crossbeam, unbounded) |
| event-driven thread | `conv_thread_impl.rs` | vector of events, last dispatch or start time | poll, select, hold, execute, idle | its in ports |
| periodic thread | `conv_thread_impl.rs` | `next_release` | sleep, run the calls, run the annex | its ports |
| device | `conv_device_type.rs` | start of the turn | receive, send, sleep for the rest | its ports |
| process, system | `conv_process_impl.rs`, `conv_system_impl.rs`, `converter.rs` | `Option` fields for the halves of channels | `new()` wires, `run()` starts | calls, moved fields |
| Behavior Annex | `converter_annex.rs`, `transform_annex.rs` | `state` | read ports, macro-step | ports of its thread |
| shared data | `conv_data_impl.rs`, `conv_thread_impl.rs` | `Arc<Mutex<..>>` | lock, call | the lock |
| scheduling | `conv_processor_impl.rs`, `conv_system_impl.rs`, `conv_thread_type.rs`, `conv_thread_impl.rs`, `collector.rs` | protocols, numbers of processors and values of thread fields, all kept over packages | convert processors, bindings, threads; write the tables at the end of a package | tables in the modules of the generated program, OS |
| annex translation | `aadl.pest`, `transform.rs`, `transform_annex.rs`, `converter_annex.rs`, `intermediate_print.rs` | one list of ports for all components | parse, transform, convert, print | syntax trees, text |
| broadcast channel | `converter.rs` (tokio) | ring of 100 messages | send, try_recv, lag | its subscribers |
| collectors, converter | `collector.rs`, `converter.rs` | broadcast maps kept over packages | collect, convert | files in alphabetical order |
| data types | `conv_data_type.rs`, `conv_data_impl.rs`, `conv_subprogram_type.rs`, `converter.rs` | the type a name stands for, the types that wait for their fields; kept over packages | convert types, implementations, subprograms, ports | names in the modules of the generated program |
| merge | `merge_utils.rs` | - | merge items of one name | - |
| the rest of parser, syntax trees and printer, project assembly, statistics, command line | `ast.rs`, `transform*.rs`, `crates/`, `build_project_tool.rs`, `model_statistics.rs`, `main.rs` | - | - | files |

What makes them correct, and what could go wrong without a test noticing, is
the list of hazards in `PROJECT.json`.

## Modules

| module | about | proofs |
|---|---|---|
| `PortLink` | what a connection promises its two ends: a FIFO link | |
| `PortPipeline` | a connection as chain of channels and forwarding threads | `PortPipelineProofs` |
| `EventDispatch` | the loop of an Aperiodic, Sporadic or Timed thread | `EventDispatchProofs` |
| `PeriodicTransfer` | a device or a periodic thread that feeds a periodic thread | `PeriodicThreadProofs` |
| `Wiring` | `new()` and `run()` of a process or system | `WiringProofs` |
| `Generation` (`MCGeneration`: two component types, and models up to renaming) | the converter over several packages | `GenerationProofs` |
| `SharedData` | a data component and the threads that share it | `SharedDataProofs` |
| `LossyStream` | what a broadcast promises a subscriber | |
| `Broadcast` | a broadcast channel and its subscribers | `BroadcastProofs` |
| `BehaviorAnnex` (`MCBehaviorAnnex`: seven annexes) | macro-steps | `PeriodicThreadProofs` |
| `AnnexTrees` | the records that stand for expressions | |
| `AnnexExpressions` | an expression of an annex from its text to the text rustc reads | |
| `AnnexActions` (`MCAnnexActions`: models of two components) | annexes of a model from the parser to rustc | `PeriodicThreadProofs` |
| `ThreadScheduling` (`MCThreadScheduling`: models of one and two packages) | core, policy, priority and period of the threads | `ConversionProofs` |
| `DataTypes` (`MCConversion`: those models, and models with data types) | extends `ThreadScheduling` by the declarations of data | `ConversionProofs` |

Definitions named in a comment as a defect are mutated forms of the definition
that follows them. No specification uses them; a run with one in place of the
original must find a property violated.

### PortPipeline

`hops` channels, `chan`, each `crossbeam_channel::unbounded()`; between them the
threads `create_single_forwarding_thread` writes. `Take(f)` and `Give(f)` are
the two calls of a turn of forwarder `f`; the message is in `hand[f]` in
between. `Produce` is `sender.send(val)`; on a channel without Receiver the
`unwrap()` of a subprogram call panics (`ProduceRejected`), while the `let _ =`
of a device is a stuttering step. `ProducerFails` and `ConsumerFails` are panics
for other reasons; a dropped Receiver discards what is in its channel. The
histories `sent`, `got`, `entered`, `left` exist for the properties only.

The abstract specification is `PortLink`: messages sent, messages received, the
fate of both ends. `ImplementsLink` checks the refinement with liveness;
`PipelineRefinesLink` proves its safety part.

### EventDispatch

One action per step of the loop: `Poll` (one port of a pass), `EndOfPass`,
`Select(p)` (`max_by` and `remove`, with the Sporadic delay computed), `Wake`,
`Finish` (the calls are over), `Idle`. `Arrive` and `Tick` are the environment.
The vector `events` is the function `batch`, since a pass puts at most one event
of each port into it and keeps the order of the ports. `Instant`s are ranks
within a batch, equal ones included. The order of ports and their urgencies are
any the generator can produce (`PollOrder`); ports without an urgency are not
polled when another has one, and `polled` says where they begin.

### PeriodicTransfer

Clocks are relative: `until` is `next_release - now` of the reader, `since` is
`now - start` of a writing device. A writing thread runs the same loop as the
reader; it is represented by what `OnGrid` shows of that loop, the time since its
last multiple of the period (`since`) and the multiples whose jobs have not begun
(`behind`). `Tick` lets time pass as long as nobody lags behind its sleep by
more than `MaxLate`. `phase`, `owed`, `base` and `late` are histories: the first
two count the multiples of the reader's period, with which the grid property
compares `until`; the others say what the channel may hold beside the messages of
two undisturbed actors.

Only a thread of the same process is connected to the reader by one channel
(`route = "direct"`). Devices are subcomponents of systems, so the process of the
reader forwards what they send, and two processes forward between threads of
different ones (`route = "forwarded"`). What the forwarders have taken or have
before them is counted in `underway`, and `Forward` is the last of them giving one
message on, in a turn that comes when it comes. While a message is `underway`, or a
writing thread is behind, the reader polls in vain; then it gets all at once. `late`
is the most that was missing at one time in these two ways. A device's own delays do
not count in it: it sends less often after them, never faster. `MaxUnderway` bounds
what forwarders hold as time goes on; a forwarder whose turn, a millisecond's sleep
and more, is longer than the writer's period would fall behind without bound.

### Wiring

`Wire` is one turn of the loop over the connections in `new()`, with the whole
of `create_channel_connection`; `StartForwarder` is one of the forwarding
threads of `run()` and its `unwrap()`. Channels are numbered by the connection
that made them. `Counted`, `Subscribers` and `Broadcast` are the collectors'
decision. The lists of connections are all lists without repetition; the order
matters and is part of the state.

The collectors go by bare names: of a system's subcomponents over all system
implementations of the package and what earlier packages left in
`process_broadcast_send`, of a process's in ports over all processes, of the
receivers over all implementations of a process type of that name. `elsewhere`
says how often the name of a source has been met outside the component, `heard`
which connections are remembered from there. A process looks up the ports of its
threads in the list of the systems too, so that they can be broadcasts, set up
anew for every connection. What is remembered from elsewhere can subscribe a sink
to a source that nobody connects it to in this component, and take it away from
another source; `Expressible` and `NoStrayConnection` say so, and exclude no more
than that. `Compiles` leaves out what rustc refuses: a broadcast connected to an
own out port, whose channel is called by a name it does not have, and subscribers
that the component does not have.

### BehaviorAnnex

`Dispatch` reads the named ports once, `Arm(i)` is a transition, `Default` is
the `_ => break` arm. Values are what the guards see: true or false. An annex is
a constant; `MCBehaviorAnnex` has seven, among them guarded and unguarded
choices, chains of transient states and one cycle of them. `Compiles` keeps out
those whose `match` rustc would refuse. Names of the specification (`AnnexInit`,
`AnnexNext`, `AnnexSpec`) are apart from those of `PeriodicTransfer`, since the proofs
about the two parts of a periodic thread's loop share a module.

### AnnexTrees, AnnexExpressions, AnnexActions

The way of an annex is a pipeline: text, AADL tree, Rust tree, text. Operators of
`AnnexExpressions` are its stages. `Sentence` is what the author wrote, `Parse`
the grammar with its ordered choice, `Basic`, `ConvertSimple` and the others the
two translations, `Printed` the printer, `RustParse` and `TypeOf` what rustc makes
of it; `Eval` gives both ends a value, so that they can be compared in all
`Environments`. `AnnexActions` has the phases as actions: `TransformType` and
`TransformImpl` walk the declarations of all components in order and share
`managed`, the list of ports; `ConvertAnnex` writes statements; `Build` is rustc.

What becomes of a value by itself is a parameter of `AnnexActions` (`Reads`, `Tree`,
`Rust`, `Typing`, `Same` and others); the run gives it the operators of
`AnnexExpressions`. Expressions are trees that RECURSIVE operators walk; the pipeline
around them is free of recursion, so that it can be proved about. `LegalAnnexes`
says what a model is: a type is declared before its implementations, ports and
variables of a component have names that differ in more than case (AADL ignores case),
`to_lowercase` twice is the same as once, and a variable starts with a literal of its
type, with an expression or with nothing; expressions use variables of the types that
become `i32` and `bool`. TLC evaluates it on all models of the run.

That a translation is right cannot be stated without saying where it is not.
`KnownLoss` names what rustc accepts although it computes something else:

- a product as right term of a sum loses all but its first factor
  (`a + b * c` becomes `a + b`);
- `mod` becomes `%`, which has another sign for negative operands;
- no parentheses are printed, so that `p or q and r`, which AADL reads from left to
  right, is grouped by Rust's precedence;
- `port'fresh` is always true and `port?` asks whether the port is connected;
- `if`, loops, `computation` and broadcasts become comments
  (`KnownActionLoss`); the initial value of a variable of type `Unsigned_16`, or of a
  data type of the package, and one that is no literal, becomes 0
  (`KnownInitialLoss`).

Other things never get past a stage, and are visible in what `Supported` leaves
out: `<=`, `>=` and `**` are not read, since `<`, `>` and `*` are tried first;
`abs` and `not` are read as names, parentheses as a string; an access to shared
data is read as an output and rejected; `p!` without a value panics the
transformer. A variable of a type that `convert_aadl_type_to_rust` does not list keeps
the name it has in AADL, which rustc knows only where the module declares a type of that name (`Declared`); a
`String` gets a borrowed literal, and a real number without a fraction an integer:
rustc refuses all three (`Fits`). `LostOnlyWhereKnown` says that there are no further losses, in
particular that a local variable mistaken for another component's port never
leads to a program that compiles; `SupportedAccepted` that what remains goes
through, for any order of declarations.

### ThreadScheduling

`ConvertCpu`, `ConvertType`, `ConvertImpl` and `ConvertSystem` are the
declarations of a package in their order, `AssignId` one binding of a system,
`EndPackage` the table `CPU_ID_TO_SCHED_POLICY` and `period_to_priority`, `Build`
rustc's verdict and `run()` of every thread. `protocols`, `ids` and `values` are the
converter's maps; all three are kept from package to package. What a thread finds
under the two names is what its package or the packages it imports have
(`InScope`); two imported tables are ambiguous. Properties are a number and a
unit, of which the code heeds the number. `Threshold` tabulates the formula of
`period_to_priority` for periods below 2^31 ms.

`RunsAsDeclared` says what a thread runs with, and its comment what is lost
of clauses that the transformer reads (one that contains the letters `none` it drops, see below):
properties that only the thread type has, other units than ms, priorities the
kernel refuses, and protocols of processors whose subcomponent is not named like
its type. `docs/aadl_rust_ast_conversion.md:1048-1063` shows `Period` and
`Priority` at a thread type and says that `run()` sets the scheduling by them; the
code reads the implementation only. `Complete` is what a model needs to be
accepted by rustc. `WellFormed` is what the proofs assume of a model; each part is what the
comment on packages says or what the grammar and the transformer see to.

### DataTypes

The same conversion with further kinds of declarations, one action each:
`ConvertAlias` and `ConvertComposite` are the two outcomes of
`convert_data_component`, `ConvertDataImpl` gives a type that waits for them its
fields, `ConvertSubprogram` writes the module of a C function, `ConvertPort` the
type of a port field. `PanicOnBase` is the `expect()` on the base of an array.
`mapping` and `implied` are the converter's `type_mappings` and
`data_comp_type`; `items`, `impls` and `wrappers` are what the modules contain;
`uses` records what each reference of the model has become. `Denotes` is what
rustc takes a type for in a module, and `DataCompile` its verdict; `BuildAll`
joins it to that of `ThreadScheduling`.

The two properties compare the program with `Declared`, the meaning of a
reference in the model. `MeansAsDeclared` says that what rustc accepts is what the
model declares, in every order of packages, for the types that keep their meaning
(`Keeps`). The others lose it without a word:

- a name in lower case stands for the first type of that name, whatever its
  package, and for a base type if there is one of that name; later types become
  aliases of it;
- an array whose base is a list, as in `AADLSource/aocs/dataaocs.aadl:138`, is one of
  `i32`, and so is one whose base has a last name that ends in `Impl`, be it an
  implementation `T.MyImpl` or a type `FooImpl` (`NamesImpl`);
- a struct or an enum of C (`Structs`) is another type in every module, since the
  bindings are included into each (`converter.rs:214`): what is one has its meaning in
  the module of its own package (`SameIn`), and only if no other type has its name.

`TypesAccepted` says that a model with `TypesComplete` goes through, without a panic and
without an error of rustc. What `TypesComplete` leaves out is refused, or may be: unions
(`derive(Debug)`), elements and ports of the own package that name an implementation,
elements of a type whose name ends in `Impl`, data types of packages that are not
imported where they are used (a reference may name any package of the model), arrays of
composite types or of types converted later, implementations before their type, an
access to what does not end in `Impl`, a second implementation, of a process or whatever
has data, whose type's name begins that of the accessed one
(`find_data_type_from_implementation` goes by `starts_with` over implementations of
every category), arrays among the data of an accessed implementation, with a base or
without, shared data of another package, and shared fields that are no integers (`new()`
sets them to 0). Each of its conditions is needed in the run, but that on the names of
base types, which are rather a matter of meaning.

A model is taken to give the fields of a type either in the type or in its
implementation, and to use names of base types or of C types in `Type_Source_Name`.
`LegalTypes` is what the proofs assume of a model, and TLC evaluates it on all models of
the run: references name something, and nothing by a word of Rust or the name of a C
type; no data type is called so either, and no base type ends in `Impl`; an
implementation is in the package of its type, as AADL has it; no array type contains
itself by way of its bases, for which a type has no meaning in AADL either; and where
`Type_Source_Name` gives a C type whose name a data type of the model has too, that type
has the same one.

### Generation

`Collect` is `collect_process_connections` or `collect_thread_connections` at
the beginning of a package, `Convert` the declarations of the package: types get
their fields, implementations their `new()`. `Panic` is a failed assertion of
`convert_port_type`. A model is any placement of types and implementations in
packages, systems and processes mixed, with any connections but those to own out
ports. The two collectors keep their own maps, here told apart by `kind`, but a
process looks the ports of its threads up in the systems' `process_broadcast_send`,
and `convert_port_type` looks through both maps. All of them go by bare names:
`name` is the identifier of a type, which types of several packages can share,
`owner` that of the type of a process implementation, which its implementations and
types of other packages share. `process_broadcast_receive` and
`thread_broadcast_receive` are sets of pairs.

Conditions say for which models a property holds: `NamesApart` (of subcomponents),
`OwnersApart` (of process types), `TypesApart`, or the weaker `DirectionsAgree` (types
of one name have the same out ports, so that one taken for the other does not run
into an assertion), `UsersFirst` (no type in a package that precedes one of its
users) and `Uniform` (no port that is a broadcast port in one subcomponent and an
ordinary one in another, which one field type cannot serve). The generator checks
none of them, and without any of them the run finds a model that breaks the
property.

### SharedData

The `Arc<Mutex<..>>` of one data component. `Lock`, `Write`, `Return` are one call
under the lock, `Skip` a call that finds the lock poisoned, `Redispatch` the next
release of the thread. `Faulty` threads are those whose subprograms may panic. A
field is known by its last writer, which is all a torn update needs. The
generator passes a thread one such component at most (`create_thread_new_method`
would give the trait's `new()` a second parameter, which rustc refuses), so that
there is never a second lock to wait for.

### Broadcast

`ring`, `tail` and `next` are tokio's channel as far as generated code depends on
it: a send overwrites, `Lag` is the error of `try_recv` that generated code drops
with `_ => {}`. `LossyStream` is the abstract specification for a single
subscriber; `ImplementsStream` has it for all of them at once.

## Runs

| run | properties | bounds and why they suffice |
|---|---|---|
| `pipeline` | order, conservation, refinement (delivery included), draining | three channels are the longest chain the generator builds; four messages of two values fill all places of the chain at once |
| `dispatch` | once and in order, bounded overtaking and inversion, minimum separation, no starvation, timeouts | two ports of two urgencies are enough for any comparison `max_by` makes; three messages let a port refill while it waits |
| `periodic` | release grid, bounded channel, draining | periods of one to three ticks give equal, multiple and coprime pairs; a delay of four ticks is longer than any period, so that a writing thread is up to four releases behind; forwarders hold two messages and what is sent between two ticks |
| `wiring` | expressible connections realised, none invented, start-up | three connections between three sources and three sinks contain every sharing of sources and sinks, a broadcast between other connections, and every order of them; a name met twice elsewhere makes any source a broadcast by itself, and two connections heard of elsewhere give it sinks of its own and of others |
| `annex` | macro-steps end, and end where they should | see `MCBehaviorAnnex`; two messages per port let a dispatch leave one behind |
| `generation` | fields and channels agree, no panic, no foreign ports | two packages and two implementations are enough for anything to be left over from an earlier package; two connections make one broadcast, or two halves that meet; two types have one name or two, two processes too; connections between threads are left out where no implementation is a system, since they meet nothing there |
| `shared_data` | no torn data, frozen after a panic, the others live on | three threads of which two may panic: one can be in a call, one waiting, one gone; three fields give a beginning, a middle and an end of a call |
| `broadcast` | unread messages kept, a stream for each, newest message arrives | a ring of two and six messages: a subscriber can be overtaken three times, the other never |
| `annex_actions` | nothing lost but what is known, the supported goes through | every type of variable with every start; 320 expressions of up to four operators: each operator as left and as right operand of those of its own level and of the levels next to it, signs and attributes among the operands; all pairs of eleven actions beside a second component whose ports have equal, differently directed or differently spelt names, in three orders of declarations; integers of both signs |
| `conversion` | threads run as declared, cores apart, rates in order, complete models accepted; types mean what is declared, complete types accepted | scheduling: one package with every choice of properties of two threads and their types; a library and an application in either order, importing each other or not, with shared names, three protocols and unbound, singly and doubly bound processes. Data: three packages in every order, two of them with a type each whose names are equal, differ in case, are a base type's or differ, and a third that uses both and imports both or one; one package with a type, its implementation, a field's type and a subprogram in every order, with further implementations and shared data here or in another package; types named like implementations, and what is made of them; implementations of a process or another component with names that begin the accessed one's; references to what is converted later, from another package and beside a namesake |
| `wiring_documented` | expected to be violated | two connections are enough for it |
| `generation_documented` | expected to be violated | as `generation` |

`wiring_documented` shows a disagreement between code and documentation:
`docs/aadl_rust_ast_conversion.md` says of every ordinary connection
that its source gets the sender and its destination the receiver of its channel.
When two of them share a sink, or a source that is not a broadcast one, the later
assignment drops the half of the earlier; the generator reports nothing. `wiring` states what does hold (`ConnectionsRealised`).

`generation_documented` shows another: the document gives every port of a
broadcast a broadcast type, the code only when the broadcast has been collected
by the time the type is converted. `generation` states the condition under which
it has (`FieldsAgree`).

Deadlock is checked where the system never stops (`periodic`, `annex`, `shared_data`), and in
`annex_actions` and `conversion`, where every conversion must come to a verdict; in
the others the messages, or the code of `new()` and `run()`, may come to their end.

## Fairness

All liveness rests on weak fairness of the steps of OS threads whose loops never
block except in a sleep of bounded length, and on time going on: forwarders and
the consumer (`pipeline`), the thread and the clock (`dispatch`), the thread,
the device, the forwarders and the clock (`periodic`), the main thread (`wiring`), the periodic
thread (`annex`), the threads of a process (`shared_data`), the subscribers
(`broadcast`). A lock is not assumed to be fair: `std::sync::Mutex` does not queue,
and no property says that a thread gets a lock others keep taking. Producers are never obliged to send, nobody to fail. Threads
under SCHED_FIFO on one CPU could in principle starve a less urgent one; every
generated loop sleeps in an idle turn except that of a Timed thread, which
polls without a pause, so for models with Timed threads bound to a shared CPU
the assumption is a real one.

## Proofs

Everything here is proved for every value of the constants, from the named
assumptions in the modules: chains of any length, any number of ports,
urgencies and messages, any periods and delays, any lists of connections, any
models. `TypeOK`, `IInv` and the like are in the proof modules where no run
needs them; each has been checked by TLC on the run's instance before it was
proved.

- `PortPipelineProofs`: `InvariantHolds` shows the inductive invariant `IInv`.
  That what was received is a prefix of what was sent cannot be shown by itself:
  one has to know that every channel and every hand holds the messages
  that follow, which needs the counters `entered` and `left` to fit together
  along the chain also when the last Receiver is gone. `OrderKept`,
  `NothingLost`, `PrefixReceived` are its parts; `PipelineRefinesLink` maps each step to a step of `PortLink` or to a
  stuttering one.
- `EventDispatchProofs`: `TypeCorrect` and `OnceInOrder` by induction;
  `SporadicSeparated` from the invariant that ties `gap`, the time since the
  last execution began, to `elapsed`; `OvertakingBounded` and
  `InversionBounded` from an invariant that says, for each place of the loop and
  of its cursor, how often another port can have been dispatched since a message
  became the oldest one waiting.
- `PeriodicThreadProofs`: `ReleasesOnGrid` from the equation that keeps
  `next_release` on the grid; `BacklogIsBounded` from a tighter one
  (`BacklogTight`) that relates the backlog to both clocks, to what a late
  writer still owes and to what forwarders hold. `MacroStepsEnd` (`MacroStepBounded`) from `StepsCounted`: a
  rank that descends along transitions between transient states exists, and the
  transitions taken since the release are at most the transient states above
  the current one, and one more. It assumes the states of an annex to be
  finitely many. `MacroStepsComplete` is `RunsToCompletion`.
- `SharedDataProofs`: `CallsStartWhole` (`NeverTorn`) and `PoisonedDataFrozen` from
  an invariant that says which fields the call in progress has written and that
  the others still agree; without it nothing is known of the fields at the next
  `Lock`.
- `BroadcastProofs`: `UnreadMessagesKept` (`UnreadKept`) and, step by step, the
  refinement `BroadcastImplementsStreams` (`ImplementsStream`). Both need to know
  of every slot, also of one nobody reads next, which message it holds
  (`RingSound`, `RingFull`): a subscriber that lags jumps to a slot it has never
  looked at.
- `WiringProofs`: `NoStray` and `ExpressibleRealised` (`NoStrayConnection`,
  `ConnectionsRealised`) by induction over the turns of the loop, for any list and
  anything remembered from elsewhere. Half
  done, a list has realised every expressible connection dealt with so far
  (`DoneRealised`); a broadcast is realised before its
  other connections are reached, so that it needs a part of its own
  (`BroadcastsWired`). `LinkedSurvives` is the safety half of `LinkedComesUp`: `run()`
  does not panic.
- `GenerationProofs`: `AssertionsHold`, `OnlyOwnEnds`, `FieldsFit`
  (`GeneratorSurvives`, `OwnEndsOnly`, `FieldsAgree`). The maps of the
  collectors outlive their package, so the invariant says what is in them in terms of
  all packages converted so far (`RecvSound`, `SendSound`), and what a field's type
  was decided by in terms of the maps at that time (`FieldSound`), before the
  implementations that use it need have been seen.
- `ConversionProofs`: `ProcessorsApart` (`CoresApart`), `RateMonotonicOrder`
  (`RatesInOrder`), `RunAsTheModelSays` (`RunsAsDeclared`) and
  `CompleteModelsCompile` (`CompleteAccepted`), of the whole conversion, data types
  included (`StepKinds`: their steps leave the scheduling alone). The invariant ties
  each map to the declarations dealt with: numbers are below the size of their map, so
  that the next one is new (`IdsSound`); processes have the numbers of their
  processors (`PinnedSound`); a protocol is one that some processor of the name has
  (`ProtocolsSound`); a thread is made for each implementation, from its
  properties (`ThreadsSound`). That complete models are accepted needs more, under
  `Complete` only: what is known of a type between its declaration and
  its implementation (`FieldsKnown`) is what the struct will have, and no other
  package has touched it (`ValuesSound`). `RateFacts` is about `period_to_priority` for
  every period: priorities in 6 .. 99 that never rise. `Least` gives each set of
  natural numbers its least element, for `BindingOf`. `ModelsAssumption` is
  `WellFormed`: sequences are sequences, packages have at most one system, the
  processor of a binding is not called `none` (a reserved word of AADL), threads
  are in packages of the model, implementations have no ports of their own, and
  values of properties are integers. TLC evaluates it on all models of the
  run.
- `ConversionProofs`, of data types: `MeaningsKept` (`MeansAsDeclared`) from the
  invariant `TypesInv` (`TypesInvariant`). A name is looked up in `mapping`
  wherever it is used, also long before or after its declaration, so the
  invariant says of every declaration that keeps its meaning what the map has under
  its name before it is dealt with (nothing) and since (what it means, for ever:
  `NamesSound`, `MappingGrows`); of the items, that all of that name are this type or aliases
  of what it means, in whichever package (`ItemsSound`), which makes it no matter
  which of them rustc resolves; of `implied`, that an implementation
  completes its own type (`ImpliedSound`); and of each reference what it has become
  (`UsesSound`). What is a struct of C means something else in each module, so both are
  said of the module it is in. `Keeps` and `Meant` follow the bases of arrays through the model
  and are recursive functions over its declarations, in no order the declarations
  come in. That such a definition has a solution is proved once, for one call per
  element, from the well-foundedness of the calls (`Recursion`); `LegalTypes` says
  that of arrays. The proof then only unfolds them (`KeepsFacts`,
  `MeantFacts`).
- `ConversionProofs`, of complete models: `CompleteTypesCompile` (`TypesAccepted`), the
  converse, from `TypesWhole` (`WholeInvariant`). `TypesInv` says what a name means if it
  means anything; here it has to be there. So `TypesWhole` says, under `TypesComplete`
  only, that the map has exactly the names of the types dealt with that are not
  composite (`NamesWhole`), that a type has one item, from the step on that deals with
  its home, which is its own place or that of its implementation (`HomeOf`, `ItemsWhole`,
  for which the kinds in `implied` are needed: `ImpliedWhole`), that the impl block of a
  type has the fields its struct has (`ImplsWhole`), and of every field, parameter and
  element either the name or what the name stands for (`Became`), since it depends on the
  order of packages which of the two it is. At the end both denote the same
  (`DenotesFinal`), so that a method and the wrapper it calls agree though they were
  converted at different times (`CallAccepted`). What `AccessTypes` finds for a wrapper is
  a matter of the order of declarations (`InOrderOf`, `RowFacts`), and that arrays among
  what it looks through are left out makes it necessary to know what is no array
  (`MeantDims`, along the chain of bases). That a panic does not happen is part of the
  invariant (`NoPanicStep`). The attempt to prove this corrected `TypesComplete` twice: a
  package has to be imported where its types are used, and an array without a base
  may not be among the data a C function takes; TLC then found models for both.
- `PeriodicThreadProofs`, of the translation of annexes: `ActionsKept`
  (`LostOnlyWhereKnown`) and `SupportedGoesThrough` (`SupportedAccepted`), for any
  models, any number of components and any order of declarations. A model has any
  expressions, so both have a hypothesis about each value by itself
  (`ExpressionsKept`: what is read, typed by rustc and no known loss has the value
  written; `SupportedKept`: what is supported is read, keeps its type and uses no
  other names). What is proved is what happens around the values: `TranslationInv`
  says of a component that has been transformed that each action has a tree in its
  place, whether taken for a port or a variable (`Trees`), and of one that has been
  converted that its code is its variables and then a statement per action (`Codes`).
  That is enough for the first theorem: what was taken for the wrong thing does
  not get past `Accepts`. It made `Does` compare the names of ports as AADL does:
  an assignment to `cmd` is one to the port `Cmd`, and compiles only where another
  component has an out port `cmd`. For the second, `Managed` says which ports
  `GLOBAL_PORT_MANAGER` has when an implementation is reached, so that the first port of
  a name, whichever component it is of, has the direction of the component's own
  (`OutgoingFound`, `Directed`).

Model-checked only are

- liveness, which the prover has no means for: delivery (`ImplementsLink`, of
  which the safety part is proved) and draining, no starvation and timeouts
  (`EveryEventExecuted`, `TimedReacts`), `Drains`, the end of `run()` in
  `LinkedComesUp`, `ReleasedForEver`, `OthersLiveOn`, `NewestArrives`;
- what `AnnexExpressions` makes of one expression: the hypotheses `ExpressionsKept` and
  `SupportedKept`. Expressions are trees, which RECURSIVE operators walk; such modules
  are out of reach. The 320 expressions of `annex_actions` are each the only value of a
  model of its own, where the run's two properties say of it what the hypotheses do.

The type invariants of `SharedData`, `Broadcast`, `Wiring`, `Generation`,
`BehaviorAnnex` and `ThreadScheduling` are proved only.

## Not modelled

- The rest of the parser, of the transformer and of the printer: a one-to-one
  translation of declarations without state. Where a choice in it matters to the
  modules here (features clauses, order of declarations, grouping of operators) it is
  modelled.
- Private sections of packages: the models of all modules have public declarations.
- Of data types the names of enumerators and elements, the dimensions of arrays and
  the bodies of C wrappers; several data accesses of one subprogram, which would
  need two functions called `call`.
- Project assembly, statistics, the command line: each file for itself.
- The bodies of subprograms, which are user code: a call is one step that may
  panic. The text of what is generated, and logging, are left out throughout.
- A device that reads: each late wake-up shifts its whole schedule, so that
  nothing bounds the channel of a periodic writer of the same period, and there is
  no promise to state.
- A port without a message reads as the default value in a guard
  (`converter_annex.rs:361`), and two shared data components of one thread give
  code that does not compile (`conv_thread_impl.rs:150`): no document says what
  should happen, so that there is nothing to state.
- Several parameter connections of one call, and what is written into a port of which
  no such connection is known: a matter of the calls inside one dispatch, which the
  modules take as one step.
- Clauses in whose text `none` occurs, also as part of a name, are dropped as a whole by the
  transformer. Of features clauses this is modelled (`Features` of
  `AnnexActions`). Properties and subcomponents clauses (`transform.rs:602`,
  `transform.rs:1010`) are taken to contain no such text: a thread whose properties
  clause has, say, a property `none_of_them` would lose its period, priority and
  protocol, which `RunsAsDeclared` says nothing about.

## Plan

Every safety property and action property of the runs is proved, two of them under
hypotheses about single expressions. What could still be proved:

1. `ExpressionsKept` and `SupportedKept`, with the operators on expressions
   written as recursive functions over the expressions of a model. `Recursion` would
   have to be generalised to several calls per element, since an expression has two
   operands.
