---------------------------- MODULE BehaviorAnnex ----------------------------
(***************************************************************************)
(* The state machine that a Behavior Annex becomes inside the loop of a    *)
(* periodic thread: at each dispatch one try_recv on every port the        *)
(* transitions name, then a macro-step,                                    *)
(*   loop { match state { <one arm per transition>, _ => break } break }   *)
(* whose arms come in the order of the transitions, assign the destination *)
(* and `continue` unless it is complete or final.                          *)
(*                                                                         *)
(* `state` lives outside the thread's loop.  The values read are those of  *)
(* this dispatch only; a port without a message reads as the default value *)
(* (false, 0).  Values are told apart by what guards see of them: whether  *)
(* `port`, or `n < port`, holds.                                           *)
(***************************************************************************)
EXTENDS Naturals, Sequences, FiniteSets

CONSTANTS Automata,     \* the annexes: records as in Automaton below
          Ports,        \* ports named in guards
          MaxPending    \* bound: messages waiting on one port

ASSUME MaxPendingAssumption == MaxPending \in Nat

VARIABLES ba,       \* the annex; never changes
          state,    \* the variable `state`
          pc,       \* "dispatch": waiting for the release; "match": in the loop
          value,    \* value[p]: what the last dispatch read from port p
          chan,     \* chan[p]: messages waiting on port p
          steps     \* history: transitions taken in this macro-step

annexVars == <<ba, state, pc, value, chan, steps>>

(* An annex: its states, the initial one, the complete or final ones, and  *)
(* its transitions in order, one for each source state of a transition.    *)
(* A guard tests that each of its ports "is" or is "not" set; "none" is an *)
(* unconditional transition, or `on dispatch` with or without ports, which *)
(* are read but not tested.                                                *)
Automaton(a) ==
  /\ IsFiniteSet(a.states)
  /\ a.initial \in a.states
  /\ a.complete \subseteq a.states
  /\ \A i \in DOMAIN a.transitions :
       LET t == a.transitions[i]
       IN  /\ t.src \in a.states /\ t.dst \in a.states
           /\ t.test \in {"none", "is", "not"} /\ t.ports \subseteq Ports
           /\ t.test # "none" => t.ports # {}

(* rustc accepts the match: a guarded arm adds `_ => break`, otherwise     *)
(* every state has an arm.                                                 *)
Compiles(a) ==
  LET srcOf(S) == {a.transitions[i].src : i \in {j \in DOMAIN a.transitions :
                                                    a.transitions[j].test \in S}}
  IN srcOf({"is", "not"}) # {} \/ srcOf({"none"}) = a.states

ASSUME AutomataAssumption == \A a \in Automata : Automaton(a) /\ Compiles(a)

Transitions == ba.transitions

(* extract_ports_from_condition, of all transitions whatever their source. *)
NamedPorts == UNION {Transitions[i].ports : i \in DOMAIN Transitions}

AnnexInit ==
  /\ ba \in Automata
  /\ state = ba.initial
  /\ pc = "dispatch"
  /\ value = [p \in Ports |-> FALSE]
  /\ chan = [p \in Ports |-> <<>>]
  /\ steps = 0

-----------------------------------------------------------------------------
(* Another thread sends v to port p. *)
Send(p, v) ==
  /\ Len(chan[p]) < MaxPending
  /\ chan' = [chan EXCEPT ![p] = Append(@, v)]
  /\ UNCHANGED <<ba, state, pc, value, steps>>

(* The release of the thread: generate_port_receive_code. *)
Dispatch ==
  /\ pc = "dispatch"
  /\ pc' = "match"
  /\ value' = [p \in Ports |-> p \in NamedPorts /\ chan[p] # <<>> /\ Head(chan[p])]
  /\ chan' = [p \in Ports |-> IF p \in NamedPorts /\ chan[p] # <<>>
                              THEN Tail(chan[p]) ELSE chan[p]]
  /\ steps' = 0
  /\ UNCHANGED <<ba, state>>

Holds(t) ==
  \/ t.test = "none"
  \/ t.test = "is" /\ \A p \in t.ports : value[p]
  \/ t.test = "not" /\ \A p \in t.ports : ~value[p]

Enabled(i) == Transitions[i].src = state /\ Holds(Transitions[i])

(* The first arm of the match whose pattern and guard agree. *)
FirstArm(i) == Enabled(i) /\ \A j \in 1 .. (i - 1) : ~Enabled(j)

(* Defect: no arm continues, a dispatch takes one transition. *)
ContinuesNever(s) == FALSE

(* Defect: only a final state ends the macro-step. *)
ContinuesAlways(s) == TRUE

(* should_continue_state: the destination is neither complete nor final. *)
Continues(s) == s \notin ba.complete

(* Bound: beyond it the transitions of a macro-step are not counted. *)
MaxSteps == Cardinality(ba.states) + 1

Arm(i) ==
  /\ pc = "match"
  /\ FirstArm(i)
  /\ state' = Transitions[i].dst
  /\ steps' = IF steps <= MaxSteps THEN steps + 1 ELSE steps
  /\ pc' = IF Continues(state') THEN "match" ELSE "dispatch"
  /\ UNCHANGED <<ba, value, chan>>

(* No arm agrees: `_ => break`. *)
Default ==
  /\ pc = "match"
  /\ \A i \in DOMAIN Transitions : ~Enabled(i)
  /\ pc' = "dispatch"
  /\ UNCHANGED <<ba, state, value, chan, steps>>

AnnexNext ==
  \/ \E p \in Ports, v \in BOOLEAN : Send(p, v)
  \/ Dispatch
  \/ \E i \in DOMAIN Transitions : Arm(i)
  \/ Default

(* The thread is released in every period and never blocks in between.     *)
AnnexStep == Dispatch \/ (\E i \in DOMAIN Transitions : Arm(i)) \/ Default

AnnexSpec == AnnexInit /\ [][AnnexNext]_annexVars

FairAnnexSpec == AnnexSpec /\ WF_annexVars(AnnexStep)

-----------------------------------------------------------------------------
Transient == ba.states \ ba.complete

(* No cycle of transitions stays among states that are neither complete    *)
(* nor final: the states can be ranked so that every such step descends.   *)
TransientAcyclic ==
  \E rank \in [ba.states -> 0 .. Cardinality(ba.states)] :
    \A i \in DOMAIN Transitions :
      LET t == Transitions[i]
      IN {t.src, t.dst} \subseteq Transient => rank[t.src] > rank[t.dst]

(* A macro-step of such an annex visits no transient state twice, whatever *)
(* the ports deliver: it takes at most one transition per transient state, *)
(* and one more out of a complete state.                                   *)
MacroStepBounded == TransientAcyclic => steps <= Cardinality(Transient) + 1

(* The inputs of one dispatch are used up: the thread goes back to wait    *)
(* for its release in a complete or final state, or in a state none of     *)
(* whose transitions these inputs enable.                                  *)
RunsToCompletion ==
  [][pc = "match" /\ pc' = "dispatch" =>
       state' \in ba.complete \/ \A i \in DOMAIN Transitions : ~Enabled(i)']_annexVars

(* The thread comes back to its release for ever; its loop cannot spin on  *)
(* the frozen inputs of one dispatch.                                      *)
ReleasedForEver == []<>(pc = "dispatch" \/ ~TransientAcyclic)
=============================================================================
