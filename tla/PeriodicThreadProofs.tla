------------------------ MODULE PeriodicThreadProofs ------------------------
(***************************************************************************)
(* Proofs about the loop of a periodic thread: its releases and its        *)
(* channel (PeriodicTransfer), for all periods and delays, what its annex  *)
(* does in a release (BehaviorAnnex), for all annexes, and how the actions *)
(* of annexes are translated (AnnexActions), for all models.               *)
(*                                                                         *)
(* The type invariant needs the grid (a release that is not due has not    *)
(* been counted) and the grid needs types, so both are proved together     *)
(* with what holds before the thread begins.  The bound of the backlog is  *)
(* strengthened to one that counts what the writer may still send now:     *)
(* whether it has sent since it woke, how many releases it is behind, and  *)
(* whether it woke or was due in the current period of the reader, and     *)
(* what is still with the forwarders.                                      *)
(*                                                                         *)
(* Of the translation the theorems are about what becomes of an action     *)
(* around its value; what becomes of a value is their hypothesis, which    *)
(* TLC checks expression by expression.                                    *)
(***************************************************************************)
EXTENDS PeriodicTransfer, BehaviorAnnex, AnnexActions, FiniteSetTheorems, WellFoundedInduction,
        NaturalsInduction, TLAPS

(* What a thread that has not begun has not done. *)
NotBegun == tpc = "new" => until <= 0 /\ phase = 0 /\ owed = 0

Grid == TypeOK /\ NotBegun /\ OnGrid

LEMMA Product ==
  ASSUME NEW t \in Nat \ {0}, NEW k \in Nat
  PROVE  /\ t * k \in Nat
         /\ t * (k + 1) = t * k + t
         /\ k >= 1 => t * k >= t
         /\ k = 0 => t * k = 0
<1>1. t * k \in Nat /\ t * (k + 1) = t * k + t /\ (k = 0 => t * k = 0)
  OBVIOUS
<1>2. ASSUME k >= 1 PROVE t * k >= t
  <2>1. PICK j \in Nat : k = j + 1
    <3>1. k - 1 \in Nat /\ k = (k - 1) + 1
      BY <1>2
    <3> QED
      BY <3>1
  <2>2. t * k = t * j + t /\ t * j \in Nat
    BY <2>1
  <2> QED
    BY <2>2
<1> QED
  BY <1>1, <1>2

(* The types as arithmetic facts. *)
LEMMA Numbers ==
  ASSUME TypeOK
  PROVE  /\ tPeriod \in Nat \ {0} /\ wPeriod \in Nat \ {0} /\ tPeriod <= wPeriod
         /\ tPeriod <= MaxPeriod /\ wPeriod <= MaxPeriod
         /\ until \in Int /\ until >= -MaxLate /\ until <= MaxPeriod
         /\ since \in Nat /\ backlog \in Nat /\ base \in Nat
         /\ behind \in Nat /\ underway \in Nat /\ late \in Nat
         /\ Missing = behind + underway /\ Missing \in Nat /\ Missing <= late
         /\ writer \in {"device", "thread"} /\ route \in {"direct", "forwarded"}
         /\ (writer = "thread" => since < wPeriod) /\ (writer = "device" => behind = 0)
         /\ (route = "direct" => underway = 0)
         /\ phase \in Nat /\ phase < tPeriod /\ owed \in Nat
         /\ One(tpc \in {"job", "work"}) \in {0, 1} /\ One(tpc = "job") \in {0, 1}
         /\ One(wpc = "send") \in {0, 1} /\ One(since <= phase) \in {0, 1}
         /\ MaxLate \in Nat /\ MaxPeriod \in Nat \ {0}
BY MaxPeriodAssumption, MaxLateAssumption DEF TypeOK, One, Missing

LEMMA Larger ==
  ASSUME NEW l \in Nat, NEW b \in Nat, NEW u \in Nat, NEW m,
         m = IF b + u > l THEN b + u ELSE l
  PROVE  m \in Nat /\ m >= l /\ b + u <= m
OBVIOUS

(* What Record makes of `late`. *)
LEMMA Recorded ==
  ASSUME late \in Nat, behind' \in Nat, underway' \in Nat, Record
  PROVE  late' \in Nat /\ late' >= late /\ Missing' <= late'
         /\ Missing' = behind' + underway'
<1>1. Missing' = behind' + underway'
  BY DEF Missing
<1>2. late' = IF behind' + underway' > late THEN behind' + underway' ELSE late
  BY <1>1 DEF Record
<1> QED
  BY <1>1, <1>2, Larger

LEMMA GridInit == Init => Grid
<1> SUFFICES ASSUME Init PROVE Grid
  OBVIOUS
<1>1. TypeOK
  BY MaxPeriodAssumption, MaxLateAssumption DEF Init, TypeOK, Missing
<1> QED
  BY <1>1 DEF Init, Grid, NotBegun, OnGrid

(* The part of the type invariant that the writer's clock is about. *)
TypeOfWriter ==
  /\ since \in 0 .. (wPeriod + MaxLate)
  /\ behind \in Nat /\ underway \in Nat /\ late \in Nat
  /\ Missing <= late
  /\ writer = "thread" => since < wPeriod
  /\ writer = "device" => behind = 0
  /\ route = "direct" => underway = 0

LEMMA GridTick ==
  ASSUME Grid, Tick
  PROVE  Grid'
<1>0. writer' = writer /\ wPeriod' = wPeriod /\ TypeOfWriter'
  <2>1. writer' = writer /\ route' = route /\ wPeriod' = wPeriod /\ wpc' = wpc
        /\ underway' = underway /\ Record
    BY DEF Tick, config
  <2>2. CASE writer = "thread"
    <3>1. since' \in 0 .. (wPeriod + MaxLate) /\ since' < wPeriod /\ behind' \in Nat
      BY <2>1, <2>2, Numbers DEF Grid, Tick, Pass
    <3> QED
      BY <2>1, <2>2, <3>1, Numbers, Recorded DEF Grid, TypeOfWriter
  <2>3. CASE writer = "device"
    <3>1. since' \in 0 .. (wPeriod + MaxLate) /\ behind' = 0
      <4>1. since' = since + 1 /\ behind' = behind /\ behind = 0
        BY <2>3, Numbers DEF Grid, Tick, Pass
      <4>2. since + 0 * wPeriod < wPeriod + MaxLate
        BY <4>1 DEF Tick
      <4> QED
        BY <4>1, <4>2, Numbers DEF Grid
    <3> QED
      BY <2>1, <2>3, <3>1, Numbers, Recorded DEF Grid, TypeOfWriter
  <2> QED
    BY <2>1, <2>2, <2>3, Numbers DEF Grid
<1>1. CASE tpc = "new"
  <2>1. TypeOK'
    BY <1>0, <1>1, Numbers DEF Grid, Tick, TypeOK, TypeOfWriter, config
  <2> QED
    BY <1>1, <2>1, Numbers DEF Grid, Tick, NotBegun, OnGrid
<1>2. CASE tpc # "new" /\ phase + 1 = tPeriod
  <2>1. TypeOK'
    BY <1>0, <1>2, Numbers DEF Grid, Tick, TypeOK, TypeOfWriter, config
  <2>2. Pending \in Nat /\ Pending' = Pending + 1
    BY <1>2, Numbers DEF Grid, Tick, Pending, One
  <2>3. tPeriod * (Pending + 1) = tPeriod * Pending + tPeriod /\ tPeriod * Pending \in Nat
    BY <2>2, Numbers, Product DEF Grid
  <2>4. until' = until - 1 /\ phase' = 0 /\ tPeriod' = tPeriod /\ tpc' = tpc
    BY <1>2 DEF Tick, config
  <2>5. until = tPeriod - phase - tPeriod * Pending
    BY <1>2 DEF Grid, OnGrid
  <2>6. until' = tPeriod' - phase' - tPeriod' * Pending'
    BY <1>2, <2>2, <2>3, <2>4, <2>5, Numbers DEF Grid
  <2> QED
    BY <1>2, <2>1, <2>4, <2>6 DEF Grid, NotBegun, OnGrid
<1>3. CASE tpc # "new" /\ phase + 1 # tPeriod
  <2>1. TypeOK'
    BY <1>0, <1>3, Numbers DEF Grid, Tick, TypeOK, TypeOfWriter, config
  <2>2. Pending \in Nat /\ Pending' = Pending
    BY <1>3, Numbers DEF Grid, Tick, Pending, One
  <2>3. tPeriod * Pending \in Nat
    BY <2>2, Numbers, Product DEF Grid
  <2>4. until' = until - 1 /\ phase' = phase + 1 /\ tPeriod' = tPeriod /\ tpc' = tpc
    BY <1>3 DEF Tick, config
  <2>5. until = tPeriod - phase - tPeriod * Pending
    BY <1>3 DEF Grid, OnGrid
  <2>6. until' = tPeriod' - phase' - tPeriod' * Pending'
    BY <2>2, <2>3, <2>4, <2>5, Numbers DEF Grid
  <2> QED
    BY <1>3, <2>1, <2>4, <2>6 DEF Grid, NotBegun, OnGrid
<1> QED
  BY <1>1, <1>2, <1>3

LEMMA GridThread ==
  ASSUME Grid, ThreadStep
  PROVE  Grid'
<1>1. CASE ThreadBegins
  <2>1. TypeOK'
    BY <1>1, Numbers DEF Grid, ThreadBegins, TypeOK, config, source, Missing
  <2>2. Pending' = 0 /\ until' = tPeriod /\ phase' = 0 /\ tpc' = "wait"
        /\ tPeriod' = tPeriod
    BY <1>1, Numbers DEF Grid, NotBegun, ThreadBegins, Pending, One, config
  <2>3. tPeriod * 0 = 0
    BY Numbers, Product DEF Grid
  <2>4. tPeriod = tPeriod - 0 - tPeriod * 0
    BY <2>3, Numbers DEF Grid
  <2> QED
    BY <2>1, <2>2, <2>4 DEF Grid, NotBegun, OnGrid
<1>2. CASE Release
  <2>1. Pending = owed /\ tpc = "wait" /\ owed \in Nat
    BY <1>2, Numbers DEF Grid, Release, Pending, One
  <2>2. owed >= 1
    <3>1. until = tPeriod - phase - tPeriod * owed /\ until <= 0
      BY <1>2, <2>1 DEF Grid, OnGrid, Release
    <3>2. owed = 0 => tPeriod * owed = 0
      BY <2>1, Numbers, Product DEF Grid
    <3> QED
      BY <2>1, <3>1, <3>2, Numbers DEF Grid
  <2>3. TypeOK'
    BY <1>2, <2>1, <2>2, Numbers DEF Grid, Release, TypeOK, config, source, Missing
  <2>4. Pending' = Pending
    BY <1>2, <2>1, <2>2 DEF Release, Pending, One
  <2> QED
    BY <1>2, <2>3, <2>4 DEF Grid, NotBegun, OnGrid, Release, config
<1>3. CASE Receive
  <2>1. TypeOK'
    BY <1>3, Numbers DEF Grid, Receive, TypeOK, config, source, Missing, history
  <2>2. Pending' = Pending
    BY <1>3 DEF Receive, Pending, One, history
  <2> QED
    BY <1>3, <2>1, <2>2 DEF Grid, NotBegun, OnGrid, Receive, config, history
<1>4. CASE EndOfJob
  <2>1. owed \in Nat /\ Pending = owed + 1 /\ Pending' = owed
    BY <1>4, Numbers DEF Grid, EndOfJob, Pending, One, history
  <2>2. tPeriod * Pending = tPeriod * Pending' + tPeriod /\ tPeriod * Pending' \in Nat
    BY <2>1, Numbers, Product DEF Grid
  <2>3. until = tPeriod - phase - tPeriod * Pending
    BY <1>4 DEF Grid, OnGrid, EndOfJob
  <2>4. until' = tPeriod - phase - tPeriod * Pending' /\ until' <= tPeriod
        /\ until' >= -MaxLate /\ until' \in Int
    BY <1>4, <2>2, <2>3, Numbers DEF Grid, EndOfJob
  <2>5. TypeOK'
    BY <1>4, <2>4, Numbers DEF Grid, EndOfJob, TypeOK, config, source, Missing, history
  <2> QED
    BY <1>4, <2>4, <2>5 DEF Grid, NotBegun, OnGrid, EndOfJob, config, history
<1> QED
  BY <1>1, <1>2, <1>3, <1>4 DEF ThreadStep

LEMMA GridWriter ==
  ASSUME Grid, WriterStep \/ Forward
  PROVE  Grid'
<1>1. UNCHANGED <<writer, route, tPeriod, wPeriod, tpc, until, phase, owed, base>>
  BY DEF WriterStep, WriterSends, DeviceWakes, WriterReleased, Forward, config, thread, history
<1>2. TypeOfWriter' /\ wpc' \in {"send", "sleep"} /\ backlog' \in Nat
  <2>1. CASE WriterSends
    <3>1. UNCHANGED <<since, behind>> /\ underway' \in Nat /\ backlog' \in Nat
          /\ (route = "direct" => underway' = underway) /\ wpc' = "sleep" /\ Record
      BY <2>1, Numbers DEF Grid, WriterSends
    <3> QED
      BY <1>1, <3>1, Numbers, Recorded DEF Grid, TypeOK, TypeOfWriter
  <2>2. CASE DeviceWakes
    BY <1>1, <2>2, Numbers DEF Grid, DeviceWakes, TypeOfWriter, Missing
  <2>3. CASE WriterReleased
    BY <1>1, <2>3, Numbers DEF Grid, TypeOK, WriterReleased, TypeOfWriter, Missing
  <2>4. CASE Forward
    BY <1>1, <2>4, Numbers DEF Grid, TypeOK, Forward, TypeOfWriter, Missing
  <2> QED
    BY <2>1, <2>2, <2>3, <2>4 DEF WriterStep
<1>3. TypeOK'
  BY <1>1, <1>2 DEF Grid, TypeOK, TypeOfWriter
<1> QED
  BY <1>1, <1>3 DEF Grid, NotBegun, OnGrid, Pending

LEMMA GridStutter ==
  ASSUME Grid, UNCHANGED vars
  PROVE  Grid'
BY DEF Grid, TypeOK, NotBegun, OnGrid, Pending, Missing, vars, config, thread, source, history

(* Types, and the grid: each release begins one job, never before its      *)
(* time, and delays do not accumulate in next_release.                     *)
THEOREM GridHolds == Spec => []Grid
<1>1. Grid /\ [Next]_vars => Grid'
  BY GridTick, GridThread, GridWriter, GridStutter DEF Next
<1> QED
  BY GridInit, <1>1, PTL DEF Spec

(* The variables of the two loops keep their types (periodic threads and   *)
(* device run()).                                                          *)
THEOREM TypeCorrect == Spec => []TypeOK
<1>1. Grid => TypeOK
  BY DEF Grid
<1> QED
  BY GridHolds, <1>1, PTL

(* The periodic loop executes one job per period, on the grid.             *)
THEOREM ReleasesOnGrid == Spec => []OnGrid
<1>1. Grid => OnGrid
  BY DEF Grid
<1> QED
  BY GridHolds, <1>1, PTL

-----------------------------------------------------------------------------
(* The writer may send one more message now when it has not sent since it  *)
(* woke, and one for each release it is behind, forwarders what they hold; *)
(* the writer may wake, or be due, again before the reader's next release  *)
(* only when it was not in the current period of the reader.  A reader     *)
(* that polls in vain finds nothing but what is missing.                   *)
BacklogTight ==
  tpc # "new" =>
    backlog + One(wpc = "send") + Missing
      <= base + 1 + Unread + late + One(since <= phase)

LEMMA TightInit == Init => BacklogTight
BY DEF Init, BacklogTight

LEMMA TightTick ==
  ASSUME Grid, BacklogTight, Tick
  PROVE  BacklogTight'
<1> SUFFICES ASSUME tpc # "new"
             PROVE  BacklogTight'
  BY DEF BacklogTight, Tick
<1>1. /\ One(wpc = "send")' = One(wpc = "send") /\ One(tpc = "job")' = One(tpc = "job")
      /\ backlog' = backlog /\ base' = base /\ underway' = underway
  BY DEF Tick, One
<1>2. CASE writer = "thread" /\ since + 1 = wPeriod
  <2>0. since' = 0 /\ behind' = behind + 1 /\ phase' \in Nat
    BY <1>2, Numbers DEF Grid, Tick, Pass
  <2>1. since' = 0 /\ Missing' = Missing + 1 /\ late' >= late /\ late' \in Nat
        /\ phase' \in Nat
    BY <1>1, <2>0, Numbers, Recorded DEF Grid, Tick
  <2>2. One(since <= phase)' = 1
    BY <2>1 DEF One
  <2>3. CASE phase + 1 = tPeriod
    <3>1. Unread' = Unread + 1
      BY <1>1, <2>3, Numbers DEF Grid, Tick, Unread
    <3> QED
      BY <1>1, <2>1, <2>2, <3>1, Numbers DEF Grid, BacklogTight, Unread
  <2>4. CASE phase + 1 # tPeriod
    <3>1. Unread' = Unread
      BY <1>1, <2>4 DEF Tick, Unread
    <3>2. One(since <= phase) = 0
      BY <1>2, <2>4, Numbers DEF Grid, One
    <3> QED
      BY <1>1, <2>1, <2>2, <3>1, <3>2, Numbers DEF Grid, BacklogTight, Unread
  <2> QED
    BY <2>3, <2>4
<1>3. CASE ~(writer = "thread" /\ since + 1 = wPeriod)
  <2>0. since' = since + 1 /\ behind' = behind
    BY <1>3 DEF Tick, Pass
  <2>1. since' = since + 1 /\ Missing' = Missing /\ late' >= late /\ late' \in Nat
    BY <1>1, <2>0, Numbers, Recorded DEF Grid, Tick
  <2>2. CASE phase + 1 = tPeriod
    <3>1. Unread' = Unread + 1 /\ One(since <= phase)' = 0
      BY <1>1, <2>1, <2>2, Numbers DEF Grid, Tick, Unread, One
    <3> QED
      BY <1>1, <2>1, <3>1, Numbers DEF Grid, BacklogTight, Unread
  <2>3. CASE phase + 1 # tPeriod
    <3>1. Unread' = Unread /\ One(since <= phase)' = One(since <= phase)
      BY <1>1, <2>1, <2>3, Numbers DEF Grid, Tick, Unread, One
    <3> QED
      BY <1>1, <2>1, <3>1, Numbers DEF Grid, BacklogTight, Unread
  <2> QED
    BY <2>2, <2>3
<1> QED
  BY <1>2, <1>3

LEMMA TightThread ==
  ASSUME Grid, BacklogTight, ThreadStep
  PROVE  BacklogTight'
<1>1. One(wpc = "send")' = One(wpc = "send") /\ Missing' = Missing /\ late' = late
  BY DEF ThreadStep, ThreadBegins, Release, Receive, EndOfJob, source, One, Missing
<1>2. One(since <= phase)' = One(since <= phase)
  BY DEF ThreadStep, ThreadBegins, Release, Receive, EndOfJob, source, history, One
<1>3. CASE ThreadBegins
  <2>1. Unread' = owed /\ base' = backlog /\ backlog' = backlog
    BY <1>3, Numbers DEF Grid, ThreadBegins, Unread, One
  <2> QED
    BY <1>1, <1>2, <2>1, Numbers DEF Grid, BacklogTight
<1>4. CASE Release
  <2>1. Unread' = Unread /\ base' = base /\ backlog' = backlog /\ tpc # "new"
    BY <1>4, Numbers DEF Grid, Release, Unread, One
  <2> QED
    BY <1>1, <1>2, <2>1, Numbers DEF Grid, BacklogTight
<1>5. CASE Receive
  <2>1. Unread = owed + 1 /\ Unread' = owed /\ base' = base /\ tpc # "new"
        /\ backlog' = IF backlog > 0 THEN backlog - 1 ELSE 0
    BY <1>5, Numbers DEF Grid, Receive, Unread, One, history
  <2> QED
    BY <1>1, <1>2, <2>1, Numbers DEF Grid, BacklogTight
<1>6. CASE EndOfJob
  <2>1. Unread' = Unread /\ base' = base /\ backlog' = backlog /\ tpc # "new"
    BY <1>6, Numbers DEF Grid, EndOfJob, Unread, One, history
  <2> QED
    BY <1>1, <1>2, <2>1, Numbers DEF Grid, BacklogTight
<1> QED
  BY <1>3, <1>4, <1>5, <1>6 DEF ThreadStep

LEMMA TightWriter ==
  ASSUME Grid, BacklogTight, WriterStep \/ Forward
  PROVE  BacklogTight'
<1>1. Unread' = Unread /\ base' = base /\ tpc' = tpc /\ phase' = phase
  BY DEF WriterStep, WriterSends, DeviceWakes, WriterReleased, Forward, thread, history,
         Unread, One
<1>2. CASE WriterSends
  <2>1. One(wpc = "send") = 1 /\ One(wpc = "send")' = 0
        /\ One(since <= phase)' = One(since <= phase) /\ behind' = behind /\ Record
        /\ backlog' + underway' = backlog + underway + 1 /\ underway' \in Nat
        /\ backlog' \in Nat
    BY <1>2, Numbers DEF Grid, WriterSends, history, One
  <2>2. late' >= late /\ late' \in Nat /\ Missing' = behind' + underway'
    BY <2>1, Numbers, Recorded DEF Grid
  <2>3. backlog' + One(wpc = "send")' + Missing' = backlog + One(wpc = "send") + Missing
    BY <2>1, <2>2, Numbers DEF Grid
  <2> QED
    BY <1>1, <2>1, <2>2, <2>3, Numbers DEF Grid, BacklogTight, Unread
<1>3. CASE DeviceWakes
  <2>1. One(wpc = "send") = 0 /\ One(wpc = "send")' = 1 /\ backlog' = backlog
        /\ Missing' = Missing /\ late' = late
    BY <1>3 DEF DeviceWakes, One, Missing
  <2>2. One(since <= phase) = 0 /\ One(since <= phase)' = 1
    BY <1>1, <1>3, Numbers DEF Grid, DeviceWakes, One
  <2> QED
    BY <1>1, <2>1, <2>2, Numbers DEF Grid, BacklogTight, Unread
<1>4. CASE WriterReleased
  <2>1. One(wpc = "send") = 0 /\ One(wpc = "send")' = 1 /\ backlog' = backlog
        /\ Missing' = Missing - 1 /\ One(since <= phase)' = One(since <= phase)
        /\ late' = late
    BY <1>4, Numbers DEF Grid, WriterReleased, One, history, Missing
  <2> QED
    BY <1>1, <2>1, Numbers DEF Grid, BacklogTight, Unread
<1>5. CASE Forward
  <2>1. One(wpc = "send")' = One(wpc = "send") /\ backlog' = backlog + 1
        /\ Missing' = Missing - 1 /\ One(since <= phase)' = One(since <= phase)
        /\ late' = late
    BY <1>5, Numbers DEF Grid, Forward, One, history, Missing
  <2> QED
    BY <1>1, <2>1, Numbers DEF Grid, BacklogTight, Unread
<1> QED
  BY <1>2, <1>3, <1>4, <1>5 DEF WriterStep

(* The channel of a thread that a device or a periodic thread feeds, with  *)
(* forwarders between them or without, and that is at least as fast never  *)
(* holds more than the start left in it, two messages, one for each        *)
(* release of the reader that is due, and as many as have been missing at  *)
(* once, behind a writing thread or with the forwarders (both run() loops  *)
(* and the forwarding threads of processes together).                      *)
THEOREM BacklogIsBounded == Spec => []BacklogBounded
<1>1. Grid /\ BacklogTight /\ [Next]_vars => BacklogTight'
  <2>1. ASSUME BacklogTight, UNCHANGED vars PROVE BacklogTight'
    BY <2>1 DEF BacklogTight, Unread, One, Missing, vars, config, thread, source, history
  <2> QED
    BY <2>1, TightTick, TightThread, TightWriter DEF Next
<1>2. Grid /\ BacklogTight => BacklogBounded
  <2> SUFFICES ASSUME Grid, BacklogTight, tpc # "new"
               PROVE  backlog <= base + 2 + Unread + late
    BY DEF BacklogBounded
  <2> QED
    BY Numbers DEF Grid, BacklogTight, Unread
<1> QED
  BY GridHolds, TightInit, <1>1, <1>2, PTL DEF Spec

-----------------------------------------------------------------------------
(* An annex is in one of its states.                                       *)
AnnexTypeOK == ba \in Automata /\ state \in ba.states /\ steps \in Nat

(* Steps between transient states descend: what TransientAcyclic asks for. *)
Descending(rank) ==
  \A i \in DOMAIN Transitions :
    LET t == Transitions[i]
    IN {t.src, t.dst} \subseteq Transient => rank[t.src] > rank[t.dst]

Above(rank) == {s \in Transient : rank[s] > rank[state]}

(* Every transition so far has left another one of the transient states    *)
(* above this one, but for the first, which may leave a complete state.    *)
StepsCounted ==
  \A rank \in [ba.states -> 0 .. Cardinality(ba.states)] :
    Descending(rank) /\ pc = "match" =>
      IF state \in Transient THEN steps <= Cardinality(Above(rank)) + 1 ELSE steps = 0

AnnexInv == AnnexTypeOK /\ StepsCounted /\ MacroStepBounded

LEMMA AnnexFacts ==
  ASSUME AnnexTypeOK
  PROVE  /\ IsFiniteSet(Transient) /\ Cardinality(Transient) \in Nat
         /\ \A rank : Above(rank) \in SUBSET Transient /\ IsFiniteSet(Above(rank))
                      /\ Cardinality(Above(rank)) \in Nat
                      /\ Cardinality(Above(rank)) <= Cardinality(Transient)
         /\ \A i \in DOMAIN Transitions :
              Transitions[i].src \in ba.states /\ Transitions[i].dst \in ba.states
<1>1. Automaton(ba)
  BY AutomataAssumption DEF AnnexTypeOK
<1>2. IsFiniteSet(Transient)
  BY <1>1, FS_Subset DEF Automaton, Transient
<1>3. ASSUME NEW rank
      PROVE  /\ Above(rank) \in SUBSET Transient /\ IsFiniteSet(Above(rank))
             /\ Cardinality(Above(rank)) <= Cardinality(Transient)
  <2>1. Above(rank) \in SUBSET Transient
    BY DEF Above
  <2> QED
    BY <1>2, <2>1, FS_Subset
<1>4. \A i \in DOMAIN Transitions :
        Transitions[i].src \in ba.states /\ Transitions[i].dst \in ba.states
  BY <1>1 DEF Automaton, Transitions
<1> QED
  BY <1>2, <1>3, <1>4, FS_CardinalityType

LEMMA AnnexStarts == AnnexInit => AnnexInv
<1> SUFFICES ASSUME AnnexInit
             PROVE  AnnexInv
  OBVIOUS
<1>1. AnnexTypeOK
  BY AutomataAssumption DEF AnnexInit, AnnexTypeOK, Automaton
<1>2. StepsCounted
  BY DEF AnnexInit, StepsCounted
<1>3. MacroStepBounded
  BY <1>1, AnnexFacts DEF AnnexInit, MacroStepBounded
<1> QED
  BY <1>1, <1>2, <1>3 DEF AnnexInv

(* A transition leaves a state that is not above it any more: one more     *)
(* transient state is above the next one.                                  *)
LEMMA AnnexMoves ==
  ASSUME AnnexInv, NEW i \in DOMAIN Transitions, Arm(i)
  PROVE  AnnexInv'
<1>1. /\ pc = "match" /\ Transitions[i].src = state /\ state' = Transitions[i].dst
      /\ pc' = IF state' \notin ba.complete THEN "match" ELSE "dispatch"
      /\ ba' = ba /\ state' \in ba.states
      /\ steps \in Nat /\ steps' \in Nat /\ steps' <= steps + 1
  BY AnnexFacts DEF AnnexInv, AnnexTypeOK, Arm, FirstArm, Enabled, Continues
<1>2. /\ Transient' = Transient /\ Transitions' = Transitions
      /\ \A rank : Descending(rank)' <=> Descending(rank)
  BY <1>1 DEF Transient, Transitions, Descending
<1> DEFINE above(rank, s) == {q \in Transient : rank[q] > rank[s]}
<1>3. \A rank : Above(rank)' = above(rank, state')
  BY <1>2 DEF Above
<1>4. ASSUME NEW rank \in [ba.states -> 0 .. Cardinality(ba.states)], Descending(rank)
      PROVE  /\ steps' <= Cardinality(Transient) + 1
             /\ state' \in Transient => steps' <= Cardinality(above(rank, state')) + 1
  <2>1. CASE state \in Transient
    <3>1. steps <= Cardinality(Above(rank)) + 1
      BY <1>1, <1>4, <2>1 DEF AnnexInv, StepsCounted
    <3>2. /\ IsFiniteSet(Above(rank) \cup {state})
          /\ Cardinality(Above(rank) \cup {state}) = Cardinality(Above(rank)) + 1
      <4>1. rank[state] \in Nat
        BY <1>4 DEF AnnexInv, AnnexTypeOK
      <4>2. state \notin Above(rank)
        BY <4>1 DEF Above
      <4> QED
        BY <4>2, AnnexFacts, FS_AddElement DEF AnnexInv
    <3>3. Cardinality(Above(rank)) + 1 <= Cardinality(Transient)
      <4>1. Above(rank) \cup {state} \in SUBSET Transient
        BY <2>1 DEF Above
      <4> QED
        BY <3>2, <4>1, AnnexFacts, FS_Subset DEF AnnexInv
    <3>4. ASSUME state' \in Transient
          PROVE  Cardinality(Above(rank)) + 1 <= Cardinality(above(rank, state'))
      <4>1. rank[state] > rank[state']
        BY <1>1, <1>4, <2>1, <3>4 DEF Descending
      <4>2. \A q \in Transient : rank[q] \in Nat
        BY <1>4 DEF Transient
      <4>3. Above(rank) \cup {state} \in SUBSET above(rank, state')
        BY <2>1, <3>4, <4>1, <4>2 DEF Above
      <4>4. IsFiniteSet(above(rank, state'))
        <5>1. above(rank, state') \in SUBSET Transient
          OBVIOUS
        <5> HIDE DEF above
        <5> QED
          BY <5>1, AnnexFacts, FS_Subset DEF AnnexInv
      <4> HIDE DEF above
      <4> QED
        BY <3>2, <4>3, <4>4, FS_Subset
    <3>5. ASSUME state' \in Transient
          PROVE  Cardinality(above(rank, state')) \in Nat
      <4>1. above(rank, state') \in SUBSET Transient
        OBVIOUS
      <4> HIDE DEF above
      <4> QED
        BY <4>1, AnnexFacts, FS_Subset, FS_CardinalityType DEF AnnexInv
    <3> HIDE DEF above
    <3> QED
      BY <1>1, <3>1, <3>3, <3>4, <3>5, AnnexFacts DEF AnnexInv
  <2>2. CASE state \notin Transient
    <3>1. steps = 0
      BY <1>1, <1>4, <2>2 DEF AnnexInv, StepsCounted
    <3>2. Cardinality(above(rank, state')) \in Nat
      <4>1. above(rank, state') \in SUBSET Transient
        OBVIOUS
      <4> HIDE DEF above
      <4> QED
        BY <4>1, AnnexFacts, FS_Subset, FS_CardinalityType DEF AnnexInv
    <3> HIDE DEF above
    <3> QED
      BY <1>1, <3>1, <3>2, AnnexFacts DEF AnnexInv
  <2> QED
    BY <2>1, <2>2
<1>5. AnnexTypeOK'
  BY <1>1 DEF AnnexInv, AnnexTypeOK
<1>6. MacroStepBounded'
  BY <1>1, <1>2, <1>4 DEF MacroStepBounded, TransientAcyclic, Descending
<1>7. StepsCounted'
  <2>1. pc' = "match" => state' \in Transient
    BY <1>1 DEF Transient
  <2> QED
    BY <1>1, <1>2, <1>3, <1>4, <2>1 DEF StepsCounted
<1> QED
  BY <1>5, <1>6, <1>7 DEF AnnexInv

(* In one release an annex whose transient states do not form a cycle takes*)
(* at most one transition per transient state, and one more: the `continue`*)
(* of generate_state_match_arm cannot loop for ever.                       *)
THEOREM MacroStepsEnd == AnnexSpec => []MacroStepBounded
<1>1. AnnexInv /\ [AnnexNext]_annexVars => AnnexInv'
  <2> SUFFICES ASSUME AnnexInv, [AnnexNext]_annexVars
               PROVE  AnnexInv'
    OBVIOUS
  <2>1. CASE \E i \in DOMAIN Transitions : Arm(i)
    BY <2>1, AnnexMoves
  <2>2. CASE Dispatch
    <3>1. ba' = ba /\ state' = state /\ steps' = 0
      BY <2>2 DEF Dispatch
    <3>2. AnnexTypeOK' /\ Transient' = Transient
      BY <3>1 DEF AnnexInv, AnnexTypeOK, Transient
    <3>3. \A rank : Above(rank)' = Above(rank)
      BY <3>1, <3>2 DEF Above
    <3> QED
      BY <3>1, <3>2, <3>3, AnnexFacts DEF AnnexInv, StepsCounted, MacroStepBounded
  <2>3. CASE Default \/ (\E p \in Ports, v \in BOOLEAN : Send(p, v)) \/ UNCHANGED annexVars
    <3>1. UNCHANGED <<ba, state, steps>> /\ (pc' = "match" => pc = "match")
      BY <2>3 DEF Default, Send, annexVars
    <3>2. /\ Transient' = Transient /\ Transitions' = Transitions
          /\ TransientAcyclic' = TransientAcyclic
          /\ \A rank : (Descending(rank)' <=> Descending(rank)) /\ Above(rank)' = Above(rank)
      BY <3>1 DEF Transient, Transitions, Descending, Above, TransientAcyclic
    <3> QED
      BY <3>1, <3>2 DEF AnnexInv, AnnexTypeOK, StepsCounted, MacroStepBounded
  <2> QED
    BY <2>1, <2>2, <2>3 DEF AnnexNext
<1> QED
  BY <1>1, AnnexStarts, PTL DEF AnnexSpec, AnnexInv

(* A macro-step ends in a complete or final state, or in one that waits    *)
(* for other inputs.                                                       *)
THEOREM MacroStepsComplete == AnnexSpec => RunsToCompletion
<1> DEFINE ends == pc = "match" /\ pc' = "dispatch" =>
                     state' \in ba.complete \/ \A i \in DOMAIN Transitions : ~Enabled(i)'
<1>1. [AnnexNext]_annexVars => [ends]_annexVars
  <2> SUFFICES ASSUME AnnexNext, pc = "match", pc' = "dispatch"
               PROVE  state' \in ba.complete \/ \A i \in DOMAIN Transitions : ~Enabled(i)'
    OBVIOUS
  <2>1. CASE \E i \in DOMAIN Transitions : Arm(i)
    BY <2>1 DEF Arm, Continues
  <2>2. CASE Default
    BY <2>2 DEF Default, Enabled, Holds, Transitions
  <2> QED
    BY <2>1, <2>2 DEF AnnexNext, Send, Dispatch
<1> QED
  BY <1>1, PTL DEF AnnexSpec, RunsToCompletion

-----------------------------------------------------------------------------
(* The annexes of a model, actions in order.  They never change. *)
ActsOf(c) == Opened(model.comps[c].acts)

(* Component c has been transformed, and converted. *)
InTree(c) ==
  \/ status \in {"convert", "accepted", "refused"}
  \/ status = "transform" /\ \E x \in 1 .. pos :
                              model.decls[x].k = "impl" /\ model.decls[x].c = c

InCode(c) == status \in {"accepted", "refused"} \/ (status = "convert" /\ c <= pos)

(* What the transformer may make of action a. *)
Stands(a, t) ==
  /\ a.k # "signal"
  /\ a.k = "assign" => \E k \in {"toPort", "toLocal"} : t = [k |-> k, n |-> a.n, tree |-> Tree(a)]
  /\ a.k = "output" => t = [k |-> "output", n |-> a.n, tree |-> Tree(a)]

Trees ==
  \A c \in Components : InTree(c) =>
    /\ IsSeq(ast[c]) /\ DOMAIN ast[c] = DOMAIN ActsOf(c)
    /\ \A i \in DOMAIN ActsOf(c) : Stands(ActsOf(c)[i], ast[c][i])

(* The code of a component: its variables, then its actions. *)
Codes ==
  \A c \in Components : InCode(c) =>
    LET vs == model.comps[c].vars
    IN  /\ DOMAIN code[c] = 1 .. (Len(vs) + Len(ast[c]))
        /\ \A i \in DOMAIN vs : code[c][i] = Let(vs[i])
        /\ \A i \in DOMAIN ast[c] : code[c][Len(vs) + i] = Statement(ast[c][i])

AllReadable == \A c \in Components : \A i \in DOMAIN ActsOf(c) : Readable(ActsOf(c)[i])

AllAccepted == \A c \in Components : \A i \in DOMAIN code[c] : Accepts(model.comps[c], code[c][i])

Phases ==
  /\ model \in Models
  /\ status \in {"parse", "transform", "convert", "accepted", "refused", "rejected", "panicked"}
  /\ status = "parse" => pos = 0
  /\ status = "transform" => pos \in 0 .. Len(model.decls)
  /\ status = "convert" => pos \in 0 .. Len(model.comps)
  /\ DOMAIN ast = Components /\ DOMAIN code = Components

TranslationInv ==
  /\ Phases /\ Trees /\ Codes
  /\ status \notin {"parse", "rejected"} => AllReadable
  /\ status = "accepted" => AllAccepted

LEMMA SeqFacts ==
  ASSUME NEW s, IsSeq(s)
  PROVE  Len(s) \in Nat /\ DOMAIN s = 1 .. Len(s)
BY DEF IsSeq

LEMMA JoinFacts ==
  ASSUME NEW s, NEW t, IsSeq(s), IsSeq(t)
  PROVE  /\ DOMAIN (s \o t) = 1 .. (Len(s) + Len(t))
         /\ \A i \in 1 .. Len(s) : (s \o t)[i] = s[i]
         /\ \A i \in 1 .. Len(t) : (s \o t)[Len(s) + i] = t[i]
<1> DEFINE S == {s[i] : i \in DOMAIN s} \cup {t[i] : i \in DOMAIN t}
<1>1. s \in Seq(S) /\ t \in Seq(S)
  BY DEF IsSeq
<1> HIDE DEF S
<1> QED
  BY <1>1

LEMMA JoinIsSeq ==
  ASSUME NEW s, NEW t, IsSeq(s), IsSeq(t)
  PROVE  IsSeq(s \o t)
<1> DEFINE S == {s[i] : i \in DOMAIN s} \cup {t[i] : i \in DOMAIN t}
           u == s \o t
<1>1. s \in Seq(S) /\ t \in Seq(S)
  BY DEF IsSeq
<1> HIDE DEF S
<1>2. u \in Seq(S)
  BY <1>1
<1> HIDE DEF u
<1>3. Len(u) \in Nat /\ DOMAIN u = 1 .. Len(u) /\ u = [i \in 1 .. Len(u) |-> u[i]]
  BY <1>2
<1> DEFINE T == {u[i] : i \in DOMAIN u}
<1>4. \A i \in 1 .. Len(u) : u[i] \in T
  BY <1>3
<1> HIDE DEF T
<1>5. [i \in 1 .. Len(u) |-> u[i]] \in Seq(T)
  BY <1>3, <1>4
<1>6. u \in Seq(T)
  BY <1>3, <1>5, Zenon
<1>7. IsSeq(u)
  BY <1>6 DEF IsSeq, T
<1> QED
  BY <1>7 DEF u

LEMMA ModelFacts ==
  ASSUME Phases
  PROVE  /\ Len(model.decls) \in Nat /\ DOMAIN model.decls = 1 .. Len(model.decls)
         /\ Len(model.comps) \in Nat /\ Components = DOMAIN model.comps
         /\ Components = 1 .. Len(model.comps)
         /\ \A x \in DOMAIN model.decls :
              /\ model.decls[x].k \in {"type", "impl"} /\ model.decls[x].c \in Components
              /\ model.decls[x].k = "impl" =>
                   \E y \in 1 .. (x - 1) : model.decls[y].k = "type"
                                             /\ model.decls[y].c = model.decls[x].c
         /\ \A c \in Components :
              /\ LegalComponent(model.comps[c])
              /\ \E x \in DOMAIN model.decls : model.decls[x].k = "impl" /\ model.decls[x].c = c
<1>1. LegalAnnexes(model)
  BY AnnexesAssumption DEF Phases
<1>2. IsSeq(model.comps) /\ IsSeq(model.decls)
  BY <1>1 DEF LegalAnnexes
<1>3. /\ Len(model.decls) \in Nat /\ DOMAIN model.decls = 1 .. Len(model.decls)
      /\ Len(model.comps) \in Nat /\ DOMAIN model.comps = 1 .. Len(model.comps)
  BY <1>2 DEF IsSeq
<1>4. Components = DOMAIN model.comps /\ Components = 1 .. Len(model.comps)
  BY <1>3 DEF Components
<1>5. \A x \in DOMAIN model.decls :
              /\ model.decls[x].k \in {"type", "impl"} /\ model.decls[x].c \in Components
              /\ model.decls[x].k = "impl" =>
                   \E y \in 1 .. (x - 1) : model.decls[y].k = "type"
                                             /\ model.decls[y].c = model.decls[x].c
  BY <1>1, <1>4 DEF LegalAnnexes
<1>6. \A c \in Components :
              /\ LegalComponent(model.comps[c])
              /\ \E x \in DOMAIN model.decls : model.decls[x].k = "impl" /\ model.decls[x].c = c
  BY <1>1, <1>4 DEF LegalAnnexes
<1> QED
  BY <1>3, <1>4, <1>5, <1>6

LEMMA ComponentFacts ==
  ASSUME NEW c, LegalComponent(c)
  PROVE  /\ Len(c.ports) \in Nat /\ DOMAIN c.ports = 1 .. Len(c.ports)
         /\ Len(c.vars) \in Nat /\ DOMAIN c.vars = 1 .. Len(c.vars)
         /\ Len(Opened(c.acts)) \in Nat /\ DOMAIN Opened(c.acts) = 1 .. Len(Opened(c.acts))
<1>1. IsSeq(c.ports) /\ IsSeq(c.vars) /\ IsSeq(Opened(c.acts))
  BY Zenon DEF LegalComponent
<1> QED
  BY <1>1, SeqFacts, Zenon

LEMMA TranslationStarts == TranslationInit => TranslationInv
<1> SUFFICES ASSUME TranslationInit PROVE TranslationInv
  OBVIOUS
<1>1. Phases
  BY DEF TranslationInit, Phases
<1>2. \A c : ~InTree(c) /\ ~InCode(c)
  BY DEF TranslationInit, InTree, InCode
<1>3. Trees /\ Codes
  BY <1>2 DEF Trees, Codes
<1> QED
  BY <1>1, <1>3 DEF TranslationInit, TranslationInv

(* What depends on the model alone does not change. *)
LEMMA SameModel ==
  ASSUME UNCHANGED model
  PROVE  /\ Components' = Components
         /\ \A c : ActsOf(c)' = ActsOf(c)
BY DEF Components, ActsOf

LEMMA ReadableStays ==
  ASSUME UNCHANGED model
  PROVE  AllReadable' = AllReadable
BY SameModel DEF AllReadable

LEMMA ParsingMoves ==
  ASSUME TranslationInv, Parsing
  PROVE  TranslationInv'
<1>1. UNCHANGED <<model, pos, managed, ast, code>> /\ status = "parse" /\ pos = 0
  BY DEF TranslationInv, Phases, Parsing
<1>2. status' = IF AllReadable THEN "transform" ELSE "rejected"
  BY DEF Parsing, AllReadable, ActsOf
<1>3. Phases'
  BY <1>1, <1>2, ModelFacts DEF TranslationInv, Phases, Components
<1>4. \A c : ~InTree(c)' /\ ~InCode(c)'
  BY <1>1, <1>2 DEF InTree, InCode
<1>5. Trees' /\ Codes'
  BY <1>4 DEF Trees, Codes
<1>6. status' \notin {"parse", "rejected"} => AllReadable'
  BY <1>1, <1>2, ReadableStays
<1> QED
  BY <1>2, <1>3, <1>5, <1>6 DEF TranslationInv

LEMMA TypeMoves ==
  ASSUME TranslationInv, TransformType
  PROVE  TranslationInv'
<1>1. /\ UNCHANGED <<model, status, ast, code>> /\ status = "transform" /\ pos' = pos + 1
      /\ pos < Len(model.decls) /\ pos \in 0 .. Len(model.decls)
      /\ model.decls[pos + 1].k = "type"
  BY DEF TranslationInv, Phases, TransformType
<1>2. Phases'
  BY <1>1, ModelFacts DEF TranslationInv, Phases, Components
<1>3. \A c : InTree(c)' => InTree(c)
  <2> SUFFICES ASSUME NEW c, InTree(c)' PROVE InTree(c)
    OBVIOUS
  <2>1. PICK x \in 1 .. pos' : model.decls[x].k = "impl" /\ model.decls[x].c = c
    BY <1>1 DEF InTree
  <2>2. x # pos + 1
    BY <1>1, <2>1
  <2> QED
    BY <1>1, <2>1, <2>2 DEF InTree
<1>4. \A c : ~InCode(c)'
  BY <1>1 DEF InCode
<1>5. Trees'
  BY <1>1, <1>3, SameModel DEF TranslationInv, Trees
<1>6. Codes'
  BY <1>4 DEF Codes
<1> QED
  BY <1>1, <1>2, <1>5, <1>6, ReadableStays DEF TranslationInv

(* The transformer makes of each action what stands for it. *)
LEMMA ActionStands ==
  ASSUME NEW a, a.k # "signal"
  PROVE  Stands(a, Action(a))
<1>1. CASE a.k = "assign"
  BY <1>1, Zenon DEF Stands, Action
<1>2. CASE a.k = "output"
  BY <1>2, Zenon DEF Stands, Action
<1>3. CASE a.k \notin {"assign", "output"}
  BY <1>3 DEF Stands
<1> QED
  BY <1>1, <1>2, <1>3
LEMMA ImplMoves ==
  ASSUME TranslationInv, TransformImpl
  PROVE  TranslationInv'
<1> DEFINE d == model.decls[pos + 1]
           acts == ActsOf(d.c)
<1>1. /\ UNCHANGED <<model, managed, code>> /\ status = "transform"
      /\ pos < Len(model.decls) /\ pos \in 0 .. Len(model.decls) /\ d.k = "impl"
      /\ \/ Panics(acts) /\ status' = "panicked" /\ UNCHANGED <<pos, ast>>
         \/ /\ ~Panics(acts) /\ pos' = pos + 1 /\ UNCHANGED status
            /\ ast' = [ast EXCEPT ![d.c] = [i \in DOMAIN acts |-> Action(acts[i])]]
  BY DEF TranslationInv, Phases, TransformImpl, ActsOf
<1>2. status' \in {"panicked", "transform"}
  BY <1>1
<1>3. Phases'
  BY <1>1, ModelFacts DEF TranslationInv, Phases, Components
<1>4. Codes'
  BY <1>2 DEF Codes, InCode
<1>5. Trees'
  <2>1. CASE status' = "panicked"
    BY <2>1 DEF Trees, InTree
  <2>2. CASE status' = "transform"
    <3> SUFFICES ASSUME NEW c \in Components, InTree(c)'
                 PROVE  /\ IsSeq(ast'[c]) /\ DOMAIN ast'[c] = DOMAIN ActsOf(c)
                        /\ \A i \in DOMAIN ActsOf(c) : Stands(ActsOf(c)[i], ast'[c][i])
      BY <1>1, SameModel DEF Trees
    <3>1. /\ ~Panics(acts) /\ pos' = pos + 1
          /\ ast' = [ast EXCEPT ![d.c] = [i \in DOMAIN acts |-> Action(acts[i])]]
      BY <1>1, <2>2
    <3>2. CASE c = d.c
      <4> DEFINE made == [i \in DOMAIN acts |-> Action(acts[i])]
      <4>1. ast'[c] = made
        BY <3>1, <3>2 DEF TranslationInv, Phases
      <4>2. Len(acts) \in Nat /\ DOMAIN acts = 1 .. Len(acts)
        BY <3>2, ModelFacts, ComponentFacts DEF TranslationInv, ActsOf
      <4>3. IsSeq(made)
        BY <4>2 DEF IsSeq
      <4>4. \A i \in DOMAIN acts : Stands(acts[i], made[i])
        BY <3>1, ActionStands DEF Panics
      <4> QED
        BY <3>2, <4>1, <4>3, <4>4
    <3>3. CASE c # d.c
      <4>1. ast'[c] = ast[c]
        BY <3>1, <3>3 DEF TranslationInv, Phases
      <4>2. InTree(c)
        <5>1. PICK x \in 1 .. pos' : model.decls[x].k = "impl" /\ model.decls[x].c = c
          BY <1>1, <2>2 DEF InTree
        <5>2. x # pos + 1
          BY <3>3, <5>1
        <5> QED
          BY <1>1, <3>1, <5>1, <5>2 DEF InTree
      <4> QED
        BY <4>1, <4>2 DEF TranslationInv, Trees
    <3> QED
      BY <3>2, <3>3
  <2> QED
    BY <1>2, <2>1, <2>2
<1> QED
  BY <1>1, <1>2, <1>3, <1>4, <1>5, ReadableStays DEF TranslationInv

LEMMA TransformedMoves ==
  ASSUME TranslationInv, Transformed
  PROVE  TranslationInv'
<1>1. /\ UNCHANGED <<model, managed, ast, code>> /\ status = "transform"
      /\ pos = Len(model.decls) /\ status' = "convert" /\ pos' = 0
  BY DEF Transformed
<1>2. Phases'
  BY <1>1, ModelFacts DEF TranslationInv, Phases, Components
<1>3. \A c \in Components : InTree(c)
  BY <1>1, ModelFacts DEF TranslationInv, InTree
<1>4. Trees'
  BY <1>1, <1>3, SameModel DEF TranslationInv, Trees
<1>5. \A c \in Components : ~InCode(c)'
  BY <1>1 DEF InCode, Components
<1>6. Codes'
  BY <1>1, <1>5, SameModel DEF Codes
<1> QED
  BY <1>1, <1>2, <1>4, <1>6, ReadableStays DEF TranslationInv

LEMMA TreesStay ==
  ASSUME TranslationInv, UNCHANGED <<model, ast>>, status = "convert"
  PROVE  Trees'
<1>1. \A c \in Components : InTree(c)
  BY DEF InTree
<1> QED
  BY <1>1, SameModel DEF TranslationInv, Trees

LEMMA ConvertMoves ==
  ASSUME TranslationInv, ConvertAnnex
  PROVE  TranslationInv'
<1> DEFINE c0 == pos + 1
           vs == model.comps[c0].vars
           lets == [i \in DOMAIN vs |-> Let(vs[i])]
           made == [i \in DOMAIN ast[c0] |-> Statement(ast[c0][i])]
<1>1. /\ UNCHANGED <<model, status, managed, ast>> /\ status = "convert" /\ pos' = pos + 1
      /\ pos < Len(model.comps) /\ pos \in 0 .. Len(model.comps)
      /\ code' = [code EXCEPT ![c0] = lets \o made]
  BY DEF TranslationInv, Phases, ConvertAnnex
<1>2. Phases'
  BY <1>1, ModelFacts DEF TranslationInv, Phases, Components
<1>3. Trees'
  BY <1>1, TreesStay
<1>4. Codes'
  <2> SUFFICES ASSUME NEW c \in Components, InCode(c)'
               PROVE  LET ws == model.comps[c].vars
                      IN  /\ DOMAIN code'[c] = 1 .. (Len(ws) + Len(ast[c]))
                          /\ \A i \in DOMAIN ws : code'[c][i] = Let(ws[i])
                          /\ \A i \in DOMAIN ast[c] : code'[c][Len(ws) + i] = Statement(ast[c][i])
    BY <1>1, SameModel DEF Codes
  <2>1. c <= pos + 1
    BY <1>1 DEF InCode
  <2>2. CASE c = c0
    <3>1. code'[c] = lets \o made
      BY <1>1, <2>2 DEF TranslationInv, Phases
    <3>2. Len(vs) \in Nat /\ DOMAIN vs = 1 .. Len(vs)
      BY <2>2, ModelFacts, ComponentFacts DEF TranslationInv
    <3>3. Len(ast[c]) \in Nat /\ DOMAIN ast[c] = 1 .. Len(ast[c])
      BY <1>1, SeqFacts DEF TranslationInv, Trees, InTree
    <3>4. /\ IsSeq(lets) /\ Len(lets) = Len(vs)
          /\ IsSeq(made) /\ Len(made) = Len(ast[c])
      <4>1. IsSeq(made) /\ Len(made) = Len(ast[c])
        BY <2>2, <3>3 DEF IsSeq
      <4> DEFINE L == Len(vs)
      <4>2. /\ DOMAIN lets = 1 .. L /\ L \in Nat
            /\ lets = [i \in 1 .. L |-> lets[i]]
        BY <3>2
      <4> HIDE DEF lets, L
      <4>3. lets \in Seq({lets[i] : i \in DOMAIN lets}) /\ Len(lets) = L
        BY <4>2
      <4> QED
        BY <4>1, <4>3 DEF IsSeq, L
    <3> HIDE DEF lets, made
    <3>5. /\ DOMAIN (lets \o made) = 1 .. (Len(vs) + Len(ast[c]))
          /\ \A i \in 1 .. Len(vs) : (lets \o made)[i] = lets[i]
          /\ \A i \in 1 .. Len(ast[c]) : (lets \o made)[Len(vs) + i] = made[i]
      <4>1. /\ DOMAIN (lets \o made) = 1 .. (Len(lets) + Len(made))
            /\ \A i \in 1 .. Len(lets) : (lets \o made)[i] = lets[i]
            /\ \A i \in 1 .. Len(made) : (lets \o made)[Len(lets) + i] = made[i]
        <5>1. IsSeq(lets) /\ IsSeq(made)
          BY <3>4
        <5> QED
          BY <5>1, JoinFacts
      <4> QED
        BY <3>4, <4>1, Zenon
    <3> USE DEF lets, made
    <3> QED
      BY <2>2, <3>1, <3>2, <3>3, <3>5
  <2>3. CASE c # c0
    <3>1. code'[c] = code[c]
      BY <1>1, <2>3 DEF TranslationInv, Phases
    <3>2. InCode(c)
      BY <1>1, <2>1, <2>3 DEF InCode, Components
    <3> QED
      BY <3>1, <3>2 DEF TranslationInv, Codes
  <2> QED
    BY <2>2, <2>3
<1> QED
  BY <1>1, <1>2, <1>3, <1>4, ReadableStays DEF TranslationInv

LEMMA BuildMoves ==
  ASSUME TranslationInv, Build
  PROVE  TranslationInv'
<1>1. /\ UNCHANGED <<model, pos, managed, ast, code>> /\ status = "convert"
      /\ pos = Len(model.comps)
      /\ status' = IF AllAccepted THEN "accepted" ELSE "refused"
  BY DEF Build, AllAccepted
<1>2. Phases'
  BY <1>1 DEF TranslationInv, Phases, Components
<1>3. Trees'
  BY <1>1, TreesStay
<1>4. \A c \in Components : InCode(c)
  BY <1>1, ModelFacts DEF TranslationInv, InCode, Components
<1>5. Codes'
  BY <1>1, <1>4, SameModel DEF TranslationInv, Codes
<1>6. AllAccepted' = AllAccepted
  BY <1>1, SameModel DEF AllAccepted, Accepts
<1> QED
  BY <1>1, <1>2, <1>3, <1>5, <1>6, ReadableStays DEF TranslationInv

LEMMA TranslationStays ==
  ASSUME TranslationInv, UNCHANGED translationVars
  PROVE  TranslationInv'
<1>1. UNCHANGED <<model, status, pos, managed, ast, code>>
  BY DEF translationVars
<1>2. /\ Phases' /\ Components' = Components
      /\ \A c : ActsOf(c)' = ActsOf(c) /\ InTree(c)' = InTree(c) /\ InCode(c)' = InCode(c)
  BY <1>1, SameModel DEF TranslationInv, Phases, Components, InTree, InCode
<1>3. Trees' /\ Codes'
  BY <1>1, <1>2 DEF TranslationInv, Trees, Codes
<1>4. AllAccepted' = AllAccepted
  BY <1>1, <1>2 DEF AllAccepted
<1> QED
  BY <1>1, <1>2, <1>3, <1>4, ReadableStays DEF TranslationInv

(* From the grammar to rustc, every phase of the translation keeps the     *)
(* order of the actions of an annex, and gives each its own statement.     *)
THEOREM TranslationKeeps == TranslationSpec => []TranslationInv
<1>1. TranslationInv /\ [TranslationNext]_translationVars => TranslationInv'
  BY TranslationStays, ParsingMoves, TypeMoves, ImplMoves, TransformedMoves, ConvertMoves, BuildMoves
  DEF TranslationNext, Done
<1> QED
  BY <1>1, TranslationStarts, PTL DEF TranslationSpec

(* Each value by itself: an expression that is read, is none of the known  *)
(* losses and that rustc gives a type has the value that the author wrote. *)
ExpressionsKept ==
  \A c \in Components : \A i \in DOMAIN ActsOf(c) :
    LET a == ActsOf(c)[i]
    IN  Valued(a) /\ Reads(a) /\ ~Loses(a.e) /\ Typing(Rust(Tree(a))) \in {"int", "bool"} =>
          Same(a.e, Rust(Tree(a)))

LEMMA AssignStatement ==
  ASSUME NEW a, NEW t, Stands(a, t), a.k = "assign"
  PROVE  \E k \in {"set", "send"} :
           /\ Statement(t) = [k |-> k, n |-> a.n, e |-> Rust(Tree(a))]
           /\ k = "send" <=> t.k = "toPort"
<1>1. PICK k \in {"toPort", "toLocal"} : t = [k |-> k, n |-> a.n, tree |-> Tree(a)]
  BY DEF Stands
<1>2. t.k = k /\ t.n = a.n /\ t.tree = Tree(a)
  BY <1>1
<1>3. CASE k = "toPort"
  BY <1>2, <1>3, Zenon DEF Statement
<1>4. CASE k = "toLocal"
  BY <1>2, <1>4, Zenon DEF Statement
<1> QED
  BY <1>3, <1>4

LEMMA OutputStatement ==
  ASSUME NEW a, NEW t, Stands(a, t), a.k = "output"
  PROVE  Statement(t) = [k |-> "send", n |-> Lower(a.n), e |-> Rust(Tree(a))]
<1>1. t = [k |-> "output", n |-> a.n, tree |-> Tree(a)]
  BY DEF Stands
<1>2. t.k = "output" /\ t.n = a.n /\ t.tree = Tree(a)
  BY <1>1
<1> QED
  BY <1>2, Zenon DEF Statement

(* The type of what rustc accepts, and what takes it. *)
LEMMA AcceptedFacts ==
  ASSUME NEW c, LegalComponent(c), NEW k \in {"set", "send"}, NEW n, NEW e,
         Accepts(c, [k |-> k, n |-> n, e |-> e])
  PROVE  /\ Typing(e) \in {"int", "bool"}
         /\ k = "set" => \E i \in DOMAIN c.vars : c.vars[i].n = n
         /\ k = "send" => \E i \in DOMAIN c.ports : Lower(c.ports[i].n) = n /\ c.ports[i].dir # "in"
<1> DEFINE st == [k |-> k, n |-> n, e |-> e]
<1>1. st.k = k /\ st.n = n /\ st.e = e /\ Typing(e) # "error"
  BY DEF Accepts
<1>2. CASE k = "set"
  <2>1. PICK i \in DOMAIN c.vars : c.vars[i].n = n /\ Typing(Id(n)) = Typing(e)
    BY <1>1, <1>2 DEF Accepts
  <2>2. LegalVariable(c.vars[i])
    BY DEF LegalComponent
  <2> QED
    BY <1>1, <1>2, <2>1, <2>2 DEF LegalVariable
<1>3. CASE k = "send"
  <2>1. PICK i \in DOMAIN Features(c) :
          /\ Lower(Features(c)[i].n) = n /\ Features(c)[i].dir # "in"
          /\ Features(c)[i].type = Typing(e)
    BY <1>1, <1>3 DEF Accepts
  <2>2. Features(c) = c.ports
    BY <2>1 DEF Features
  <2> QED
    BY <1>3, <2>1, <2>2 DEF LegalComponent
<1> QED
  BY <1>2, <1>3

(* A literal of a listed type stays, but for Unsigned_16. *)
LEMMA InitialKept ==
  ASSUME NEW v, LegalVariable(v)
  PROVE  v.init.k = "nothing" \/ v.init = InitialValue(v) \/ KnownInitialLoss(v)
<1>1. CASE RustType(v.type) = "bool" /\ v.init.k = "bool"
  <2>1. v.init \in {Bool(TRUE), Bool(FALSE)}
    BY <1>1 DEF LegalVariable
  <2>2. Bool(TRUE) # Bool(FALSE)
    BY DEF Bool
  <2>3. InitialValue(v) = Bool(v.init = Bool(TRUE))
    BY <1>1 DEF InitialValue
  <2>4. CASE v.init = Bool(TRUE)
    BY <2>3, <2>4, Zenon DEF Bool
  <2>5. CASE v.init = Bool(FALSE)
    <3>1. (v.init = Bool(TRUE)) = FALSE
      BY <2>2, <2>5
    <3> QED
      BY <2>3, <2>5, <3>1, Zenon
  <2> QED
    BY <2>1, <2>4, <2>5
<1>2. CASE RustType(v.type) = "i32" /\ v.init.k = "num"
  BY <1>2 DEF InitialValue
<1>3. CASE RustType(v.type) = "f64" /\ v.init.k \in {"num", "real"}
  BY <1>3 DEF InitialValue
<1> QED
  BY <1>1, <1>2, <1>3 DEF LegalVariable, KnownInitialLoss

LEMMA LossesKnown == TranslationInv /\ ExpressionsKept => LostOnlyWhereKnown
<1> SUFFICES ASSUME TranslationInv, ExpressionsKept, status = "accepted", NEW c \in Components
             PROVE  LET comp == model.comps[c]
                        acts == ActsOf(c)
                        n    == Len(comp.vars)
                    IN  /\ \A i \in DOMAIN acts :
                             KnownActionLoss(acts[i]) \/ Does(comp, acts[i], code[c][n + i])
                        /\ \A i \in DOMAIN comp.vars :
                             \/ comp.vars[i].init.k = "nothing" \/ comp.vars[i].init = code[c][i].e
                             \/ KnownInitialLoss(comp.vars[i])
  BY DEF LostOnlyWhereKnown, ActsOf
<1> DEFINE comp == model.comps[c]
           acts == ActsOf(c)
           n == Len(comp.vars)
<1>1. /\ LegalComponent(comp) /\ Phases /\ AllReadable /\ AllAccepted
      /\ IsSeq(ast[c]) /\ DOMAIN ast[c] = DOMAIN acts
      /\ \A i \in DOMAIN acts : Stands(acts[i], ast[c][i])
      /\ DOMAIN code[c] = 1 .. (n + Len(ast[c]))
      /\ \A i \in DOMAIN comp.vars :
           code[c][i] = Let(comp.vars[i])
      /\ \A i \in DOMAIN ast[c] : code[c][n + i] = Statement(ast[c][i])
  BY ModelFacts DEF TranslationInv, Trees, Codes, InTree, InCode
<1>2. /\ n \in Nat /\ DOMAIN comp.vars = 1 .. n
      /\ Len(ast[c]) \in Nat /\ DOMAIN ast[c] = 1 .. Len(ast[c])
  BY <1>1, ComponentFacts, SeqFacts
<1>3. ASSUME NEW i \in DOMAIN acts
      PROVE  KnownActionLoss(acts[i]) \/ Does(comp, acts[i], code[c][n + i])
  <2> DEFINE a == acts[i]
             st == code[c][n + i]
  <2>1. /\ Readable(a) /\ Stands(a, ast[c][i]) /\ st = Statement(ast[c][i])
        /\ Accepts(comp, st) /\ a.k \in Kinds
    <3>1. n + i \in DOMAIN code[c]
      <4>1. i \in 1 .. Len(ast[c]) /\ DOMAIN code[c] = 1 .. (n + Len(ast[c]))
        BY <1>1, <1>2, Zenon
      <4> HIDE DEF n
      <4> QED
        BY <1>2, <4>1
    <3> QED
      BY <1>1, <3>1 DEF AllReadable, AllAccepted, LegalComponent, ActsOf
  <2>2. CASE ~Valued(a)
    <3>1. a.k \in {"control", "computation", "broadcast"}
      BY <2>1, <2>2 DEF Readable, Stands, Kinds, Valued
    <3> QED
      BY <2>2, <3>1 DEF KnownActionLoss
  <2>3. CASE Valued(a) /\ Loses(a.e)
    BY <2>3 DEF KnownActionLoss
  <2>4. ASSUME Valued(a), ~Loses(a.e), Typing(Rust(Tree(a))) \in {"int", "bool"}
        PROVE  Same(a.e, Rust(Tree(a)))
    BY <2>1, <2>4 DEF ExpressionsKept, Readable
  <2>5. CASE ~Loses(a.e) /\ a.k = "assign"
    <3>1. PICK k \in {"set", "send"} : st = [k |-> k, n |-> a.n, e |-> Rust(Tree(a))]
      BY <2>1, <2>5, AssignStatement
    <3>2. /\ Typing(Rust(Tree(a))) \in {"int", "bool"}
          /\ k = "set" => \E j \in DOMAIN comp.vars : comp.vars[j].n = a.n
          /\ k = "send" => \E j \in DOMAIN comp.ports :
                              Lower(comp.ports[j].n) = a.n /\ comp.ports[j].dir # "in"
      BY <1>1, <2>1, <3>1, AcceptedFacts
    <3>3. k = "send" <=> \E m \in OutPorts(comp) : Lower(m) = Lower(a.n)
      <4>1. /\ \A j \in DOMAIN comp.ports : Lower(Lower(comp.ports[j].n)) = Lower(comp.ports[j].n)
            /\ \A j \in DOMAIN comp.ports, l \in DOMAIN comp.vars :
                 Lower(comp.ports[j].n) # Lower(comp.vars[l].n)
        BY <1>1, Zenon DEF LegalComponent
      <4>2. \A m : m \in OutPorts(comp) <=>
                    \E j \in DOMAIN comp.ports : comp.ports[j].n = m /\ comp.ports[j].dir # "in"
        BY Zenon DEF OutPorts
      <4>3. CASE k = "send"
        BY <3>2, <4>1, <4>2, <4>3, Zenon
      <4>4. CASE k = "set"
        <5>1. PICK l \in DOMAIN comp.vars : comp.vars[l].n = a.n
          BY <3>2, <4>4
        <5> QED
          BY <4>1, <4>2, <4>4, <5>1
      <4> QED
        BY <4>3, <4>4
    <3>4. st.k = k /\ st.n = a.n /\ st.e = Rust(Tree(a)) /\ Valued(a)
      BY <2>5, <3>1 DEF Valued
    <3> QED
      BY <2>4, <2>5, <3>2, <3>3, <3>4 DEF Does
  <2>6. CASE ~Loses(a.e) /\ a.k = "output"
    <3>1. st = [k |-> "send", n |-> Lower(a.n), e |-> Rust(Tree(a))]
      BY <2>1, <2>6, OutputStatement
    <3>2. Typing(Rust(Tree(a))) \in {"int", "bool"}
      BY <1>1, <2>1, <3>1, AcceptedFacts
    <3>3. st.k = "send" /\ st.n = Lower(a.n) /\ st.e = Rust(Tree(a)) /\ Valued(a)
      BY <2>6, <3>1 DEF Valued
    <3> QED
      BY <2>4, <2>6, <3>2, <3>3 DEF Does
  <2> QED
    BY <2>2, <2>3, <2>5, <2>6 DEF Valued
<1>4. ASSUME NEW i \in DOMAIN comp.vars
      PROVE  \/ comp.vars[i].init.k = "nothing" \/ comp.vars[i].init = code[c][i].e
             \/ KnownInitialLoss(comp.vars[i])
  <2>1. LegalVariable(comp.vars[i])
    BY <1>1, Zenon DEF LegalComponent
  <2>2. code[c][i] = Let(comp.vars[i])
    BY <1>1, Zenon
  <2>3. code[c][i].e = InitialValue(comp.vars[i])
    BY <2>2 DEF Let
  <2> QED
    BY <2>1, <2>3, InitialKept
<1> QED
  BY <1>3, <1>4

(* Of any model, provided that each value by itself is translated well: in *)
(* a project that rustc accepts each action of an annex is the statement   *)
(* in its place and goes to its own port or variable, whichever port       *)
(* is_outgoing_port took its name for.                                     *)
THEOREM ActionsKept == TranslationSpec => [](ExpressionsKept => LostOnlyWhereKnown)
<1>1. TranslationInv => (ExpressionsKept => LostOnlyWhereKnown)
  BY LossesKnown
<1> QED
  BY <1>1, TranslationKeeps, PTL

-----------------------------------------------------------------------------
(* Each value by itself: of a supported expression with a type the text is *)
(* read, and its type and its names reach rustc.                           *)
SupportedKept ==
  \A c \in Components : \A i \in DOMAIN ActsOf(c) :
    LET a == ActsOf(c)[i]
        e == Rust(Tree(a))
    IN  Valued(a) /\ Covers(a.e) /\ Typing(a.e) # "error" =>
          /\ Reads(a) /\ Typing(e) = Typing(a.e)
          /\ \A x \in Within(e) : x.k # "field" /\ (x.k = "id" => x \in Within(a.e))

(* The features that declaration x brings. *)
Brought(x) == IF model.decls[x].k = "type" THEN Features(model.comps[model.decls[x].c]) ELSE <<>>

PortsOfModel ==
  \A i \in DOMAIN managed : \E d \in Components :
    \E j \in DOMAIN model.comps[d].ports : managed[i] = model.comps[d].ports[j]

BroughtSoFar ==
  \A x \in 1 .. pos : \A j \in DOMAIN Brought(x) :
    \E i \in DOMAIN managed : managed[i] = Brought(x)[j]

(* GLOBAL_PORT_MANAGER holds ports of the model, and all those of the      *)
(* types that have been dealt with.                                        *)
Managed == IsSeq(managed) /\ PortsOfModel /\ (status = "transform" => BroughtSoFar)

(* An assignment goes to a port exactly if the component has an out port   *)
(* of that name.                                                           *)
Directed ==
  \A c \in Components : InTree(c) =>
    \A i \in DOMAIN ActsOf(c) : ActsOf(c)[i].k = "assign" =>
      (ast[c][i].k = "toPort" <=> ActsOf(c)[i].n \in OutPorts(model.comps[c]))

SupportedInv ==
  /\ TranslationInv /\ Managed
  /\ Supportable /\ SupportedKept => Directed /\ status \notin {"rejected", "panicked", "refused"}

(* Every set of natural numbers has a least one. *)
LEMMA LeastOf ==
  ASSUME NEW S \in SUBSET Nat, S # {}
  PROVE  \E m \in S : \A k \in S : m <= k
<1> DEFINE R == OpToRel(<, Nat)
<1>1. IsWellFoundedOn(R, Nat)
  BY NatLessThanWellFounded, Zenon
<1>2. R = {ss \in Nat \X Nat : ss[1] < ss[2]}
  BY DEF OpToRel
<1> HIDE DEF R
<1>3. PICK m \in S : \A k \in S : <<k, m>> \notin R
  BY <1>1, WFMin
<1>4. \A k \in S : ~(k < m)
  BY <1>2, <1>3
<1> QED
  BY <1>4

LEMMA OutPortFacts ==
  ASSUME NEW c, LegalComponent(c)
  PROVE  /\ \A n : n \in OutPorts(c) <=> \E j \in DOMAIN c.ports : c.ports[j].n = n /\ c.ports[j].dir # "in"
         /\ \A i, j \in DOMAIN c.ports : c.ports[i].n = c.ports[j].n => i = j
         /\ \A j \in DOMAIN c.ports : c.ports[j].dir \in {"in", "out", "in out"}
         /\ \A j \in DOMAIN c.ports : c.ports[j].n \in PortNames(c)
         /\ \A j \in DOMAIN c.ports, l \in DOMAIN c.vars : c.ports[j].n # c.vars[l].n
<1>1. \A n : n \in OutPorts(c) <=> \E j \in DOMAIN c.ports : c.ports[j].n = n /\ c.ports[j].dir # "in"
  BY Zenon DEF OutPorts
<1>2. /\ \A i, j \in DOMAIN c.ports : c.ports[i].n = c.ports[j].n => i = j
      /\ \A j \in DOMAIN c.ports : c.ports[j].dir \in {"in", "out", "in out"}
      /\ \A j \in DOMAIN c.ports, l \in DOMAIN c.vars : c.ports[j].n # c.vars[l].n
  BY Zenon DEF LegalComponent
<1>3. \A j \in DOMAIN c.ports : c.ports[j].n \in PortNames(c)
  BY Zenon DEF PortNames
<1> QED
  BY <1>1, <1>2, <1>3

LEMMA OutgoingFound ==
  ASSUME TranslationInv, Managed, Supportable, status = "transform", pos < Len(model.decls),
         NEW c \in Components, model.decls[pos + 1].k = "impl", model.decls[pos + 1].c = c,
         NEW k \in DOMAIN ActsOf(c), ActsOf(c)[k].k = "assign"
  PROVE  IsOutgoing(ActsOf(c)[k].n) <=> ActsOf(c)[k].n \in OutPorts(model.comps[c])
<1> DEFINE n == ActsOf(c)[k].n
           comp == model.comps[c]
<1>1. \A d \in Components : LegalComponent(model.comps[d])
  BY ModelFacts DEF TranslationInv
<1>2. \A d \in Components : n \in PortNames(model.comps[d]) =>
        (n \in OutPorts(comp) <=> n \in OutPorts(model.comps[d]))
  BY DEF Supportable, NamesApart, ActsOf
<1>3. \A i \in DOMAIN managed : managed[i].n = n =>
        (managed[i].dir \in {"out", "in out"} <=> n \in OutPorts(comp))
  <2> SUFFICES ASSUME NEW i \in DOMAIN managed, managed[i].n = n
               PROVE  managed[i].dir \in {"out", "in out"} <=> n \in OutPorts(comp)
    OBVIOUS
  <2>1. PICK d \in Components : \E j \in DOMAIN model.comps[d].ports : managed[i] = model.comps[d].ports[j]
    BY DEF Managed, PortsOfModel
  <2>2. PICK j \in DOMAIN model.comps[d].ports : managed[i] = model.comps[d].ports[j]
    BY <2>1
  <2>3. LegalComponent(model.comps[d])
    BY <1>1
  <2> DEFINE D == model.comps[d]
  <2>7. /\ n \in OutPorts(D) <=> \E l \in DOMAIN D.ports : D.ports[l].n = n /\ D.ports[l].dir # "in"
        /\ \A l \in DOMAIN D.ports : D.ports[l].n = D.ports[j].n => l = j
        /\ D.ports[j].n \in PortNames(D)
    BY <2>2, <2>3, OutPortFacts, Zenon
  <2>4. n \in PortNames(D)
    BY <2>2, <2>7
  <2>5. n \in OutPorts(D) <=> managed[i].dir # "in"
    BY <2>2, <2>7
  <2>6. managed[i].dir \in {"in", "out", "in out"}
    BY <2>2, <2>3, OutPortFacts
  <2> QED
    BY <1>2, <2>4, <2>5, <2>6
<1>4. ASSUME n \in OutPorts(comp) PROVE \E i \in DOMAIN managed : managed[i].n = n
  <2>1. PICK j \in DOMAIN comp.ports : comp.ports[j].n = n
    <3>1. \A m : m \in OutPorts(comp) =>
                    \E j \in DOMAIN comp.ports : comp.ports[j].n = m /\ comp.ports[j].dir # "in"
      <4>1. LegalComponent(comp)
        BY <1>1
      <4>2. \A m : m \in OutPorts(comp) <=>
                    \E j \in DOMAIN comp.ports : comp.ports[j].n = m /\ comp.ports[j].dir # "in"
        BY <4>1, OutPortFacts
      <4> QED
        BY <4>2
    <3> QED
      BY <1>4, <3>1
  <2>2. PICK y \in 1 .. pos : model.decls[y].k = "type" /\ model.decls[y].c = c
    <3>1. pos + 1 \in DOMAIN model.decls /\ (pos + 1) - 1 = pos
      BY ModelFacts DEF TranslationInv, Phases
    <3> QED
      BY <3>1, ModelFacts DEF TranslationInv
  <2>3. Features(comp) = comp.ports
    BY DEF Supportable, Features
  <2> QED
    BY <2>1, <2>2, <2>3 DEF Managed, BroughtSoFar, Brought
<1>5. ASSUME n \in OutPorts(comp) PROVE IsOutgoing(n)
  <2> DEFINE S == {i \in DOMAIN managed : managed[i].n = n}
  <2>1. DOMAIN managed = 1 .. Len(managed) /\ Len(managed) \in Nat
    BY SeqFacts DEF Managed
  <2>2. S \in SUBSET Nat /\ S # {}
    BY <1>4, <1>5, <2>1
  <2> HIDE DEF S
  <2>3. PICK m \in S : \A i \in S : m <= i
    BY <2>2, LeastOf
  <2> USE DEF S
  <2>4. m \in DOMAIN managed /\ managed[m].n = n /\ managed[m].dir \in {"out", "in out"}
    BY <1>3, <1>5, <2>3
  <2>5. \A j \in 1 .. (m - 1) : managed[j].n # n
    <3> SUFFICES ASSUME NEW j \in 1 .. (m - 1), managed[j].n = n PROVE FALSE
      OBVIOUS
    <3>1. j \in DOMAIN managed /\ j < m
      <4>1. m \in 1 .. Len(managed)
        BY <2>1, <2>4
      <4> QED
        BY <2>1, <4>1
    <3> QED
      BY <2>2, <2>3, <3>1
  <2> QED
    BY <2>4, <2>5 DEF IsOutgoing
<1>6. ASSUME IsOutgoing(n) PROVE n \in OutPorts(comp)
  BY <1>3, <1>6 DEF IsOutgoing
<1> QED
  BY <1>5, <1>6

LEMMA SupportedStarts == TranslationInit => SupportedInv
<1> SUFFICES ASSUME TranslationInit PROVE SupportedInv
  OBVIOUS
<1>1. status = "parse" /\ managed = <<>>
  BY DEF TranslationInit
<1>2. Managed
  <2>1. IsSeq(<<>>) /\ DOMAIN <<>> = {}
    BY DEF IsSeq
  <2> QED
    BY <1>1, <2>1 DEF Managed, PortsOfModel
<1>3. Directed
  BY <1>1 DEF Directed, InTree
<1> QED
  BY <1>1, <1>2, <1>3, TranslationStarts DEF SupportedInv

LEMMA HypothesesStay ==
  ASSUME UNCHANGED model
  PROVE  Supportable' = Supportable /\ SupportedKept' = SupportedKept
<1>1. Components' = Components
  BY SameModel
<1>2. SupportedKept' = SupportedKept
  BY <1>1, SameModel DEF SupportedKept
<1>3. NamesApart' = NamesApart
  BY <1>1 DEF NamesApart
<1> QED
  BY <1>1, <1>2, <1>3 DEF Supportable

(* What stays where neither the trees nor the managed ports change. *)
LEMMA DirectedStays ==
  ASSUME Directed, UNCHANGED <<model, ast>>,
         \A c \in Components : InTree(c)' => InTree(c)
  PROVE  Directed'
BY SameModel DEF Directed

LEMMA BroughtStays ==
  ASSUME UNCHANGED model
  PROVE  \A x : Brought(x)' = Brought(x)
BY DEF Brought, Features, PortNames

LEMMA ManagedStays ==
  ASSUME Managed, UNCHANGED <<model, managed>>,
         status' = "transform" => pos' = 0 \/ (UNCHANGED pos /\ status = "transform")
  PROVE  Managed'
<1>1. IsSeq(managed)'
  BY DEF Managed, IsSeq
<1>2. PortsOfModel'
  BY SameModel DEF Managed, PortsOfModel
<1>3. CASE pos' = 0
  BY <1>1, <1>2, <1>3 DEF Managed, BroughtSoFar
<1>4. CASE UNCHANGED pos /\ status = "transform"
  BY <1>1, <1>2, <1>4, BroughtStays DEF Managed, BroughtSoFar
<1>5. CASE status' # "transform"
  BY <1>1, <1>2, <1>5 DEF Managed
<1> QED
  BY <1>3, <1>4, <1>5

(* Supported actions are read, and none panics. *)
LEMMA SupportedReadable ==
  ASSUME Supportable, SupportedKept
  PROVE  AllReadable /\ \A c \in Components : ~Panics(ActsOf(c))
<1>1. \A c \in Components : \A i \in DOMAIN ActsOf(c) : SupportedAction(model.comps[c], ActsOf(c)[i])
  BY DEF Supportable, ActsOf
<1>2. \A c \in Components : \A i \in DOMAIN ActsOf(c) :
        LET a == ActsOf(c)[i] IN Valued(a) /\ Covers(a.e) /\ Typing(a.e) # "error"
  BY <1>1 DEF SupportedAction
<1>3. \A c \in Components : \A i \in DOMAIN ActsOf(c) : Readable(ActsOf(c)[i])
  BY <1>2 DEF SupportedKept, Readable, Valued
<1> QED
  BY <1>2, <1>3 DEF AllReadable, Panics, Valued

LEMMA ParsingSupported ==
  ASSUME SupportedInv, Parsing
  PROVE  SupportedInv'
<1>1. /\ UNCHANGED <<model, pos, managed, ast, code>> /\ status = "parse" /\ pos = 0
      /\ status' = IF AllReadable THEN "transform" ELSE "rejected"
  BY DEF SupportedInv, TranslationInv, Phases, Parsing, AllReadable, ActsOf
<1>2. Managed'
  BY <1>1, ManagedStays DEF SupportedInv
<1>3. Directed'
  BY <1>1 DEF Directed, InTree
<1> QED
  BY <1>1, <1>2, <1>3, ParsingMoves, HypothesesStay, SupportedReadable DEF SupportedInv

LEMMA TypeSupported ==
  ASSUME SupportedInv, TransformType
  PROVE  SupportedInv'
<1> DEFINE c0 == model.decls[pos + 1].c
           feats == Features(model.comps[c0])
<1>1. /\ UNCHANGED <<model, status, ast, code>> /\ status = "transform" /\ pos' = pos + 1
      /\ pos < Len(model.decls) /\ pos \in 0 .. Len(model.decls)
      /\ model.decls[pos + 1].k = "type" /\ managed' = managed \o feats
  BY DEF SupportedInv, TranslationInv, Phases, TransformType
<1>2. c0 \in Components /\ LegalComponent(model.comps[c0])
  BY <1>1, ModelFacts DEF SupportedInv, TranslationInv
<1>3. /\ IsSeq(feats)
      /\ \A j \in DOMAIN feats : j \in DOMAIN model.comps[c0].ports /\ feats[j] = model.comps[c0].ports[j]
  <2>1. CASE feats = <<>>
    BY <2>1 DEF IsSeq
  <2>2. CASE feats = model.comps[c0].ports
    BY <1>2, <2>2 DEF LegalComponent
  <2> QED
    BY <2>1, <2>2 DEF Features
<1> HIDE DEF feats
<1>4. /\ DOMAIN managed' = 1 .. (Len(managed) + Len(feats))
      /\ \A i \in 1 .. Len(managed) : managed'[i] = managed[i]
      /\ \A i \in 1 .. Len(feats) : managed'[Len(managed) + i] = feats[i]
  <2>1. IsSeq(managed) /\ IsSeq(feats)
    BY <1>3 DEF SupportedInv, Managed
  <2> QED
    BY <1>1, <2>1, JoinFacts
<1>5. /\ Len(managed) \in Nat /\ DOMAIN managed = 1 .. Len(managed)
      /\ Len(feats) \in Nat /\ DOMAIN feats = 1 .. Len(feats)
  BY <1>3, SeqFacts DEF SupportedInv, Managed
<1>6. IsSeq(managed)'
  <2>1. IsSeq(managed) /\ IsSeq(feats)
    BY <1>3 DEF SupportedInv, Managed
  <2>2. IsSeq(managed')
    BY <1>1, <2>1, JoinIsSeq
  <2> QED
    BY <2>2 DEF IsSeq
<1>7. \A i \in DOMAIN managed' : \E d \in Components :
        \E j \in DOMAIN model.comps[d].ports : managed'[i] = model.comps[d].ports[j]
  <2> SUFFICES ASSUME NEW i \in DOMAIN managed'
               PROVE  \E d \in Components : \E j \in DOMAIN model.comps[d].ports :
                        managed'[i] = model.comps[d].ports[j]
    OBVIOUS
  <2>1. CASE i \in 1 .. Len(managed)
    BY <1>4, <1>5, <2>1 DEF SupportedInv, Managed, PortsOfModel
  <2>2. CASE i \notin 1 .. Len(managed)
    <3>1. PICK l \in 1 .. Len(feats) : i = Len(managed) + l
      <4>1. i - Len(managed) \in 1 .. Len(feats) /\ i = Len(managed) + (i - Len(managed))
        BY <1>4, <1>5, <2>2
      <4> QED
        BY <4>1
    <3>2. managed'[i] = feats[l] /\ l \in DOMAIN feats
      BY <1>4, <1>5, <3>1
    <3> QED
      BY <1>2, <1>3, <3>2
  <2> QED
    BY <2>1, <2>2
<1>8. ASSUME NEW x \in 1 .. pos', NEW j \in DOMAIN Brought(x)
      PROVE  \E i \in DOMAIN managed' : managed'[i] = Brought(x)[j]
  <2>1. CASE x = pos + 1
    <3>1. Brought(x) = feats
      BY <1>1, <2>1 DEF Brought, feats
    <3>2. Len(managed) + j \in DOMAIN managed' /\ managed'[Len(managed) + j] = feats[j]
      BY <1>4, <1>5, <3>1
    <3> QED
      BY <3>1, <3>2
  <2>2. CASE x # pos + 1
    <3>1. x \in 1 .. pos
      BY <1>1, <2>2
    <3>2. PICK i \in DOMAIN managed : managed[i] = Brought(x)[j]
      BY <1>1, <3>1 DEF SupportedInv, Managed, BroughtSoFar
    <3>3. i \in DOMAIN managed' /\ managed'[i] = managed[i]
      BY <1>4, <1>5
    <3> QED
      BY <3>2, <3>3
  <2> QED
    BY <2>1, <2>2
<1>9. Managed'
  <2>1. PortsOfModel'
    BY <1>1, <1>7, SameModel DEF PortsOfModel
  <2>2. BroughtSoFar'
    BY <1>1, <1>8, BroughtStays DEF BroughtSoFar
  <2> QED
    BY <1>6, <2>1, <2>2 DEF Managed
<1>10. \A c \in Components : InTree(c)' => InTree(c)
  <2> SUFFICES ASSUME NEW c \in Components, InTree(c)' PROVE InTree(c)
    OBVIOUS
  <2>1. PICK x \in 1 .. pos' : model.decls[x].k = "impl" /\ model.decls[x].c = c
    BY <1>1 DEF InTree
  <2>2. x # pos + 1
    BY <1>1, <2>1
  <2> QED
    BY <1>1, <2>1, <2>2 DEF InTree
<1>11. Directed => Directed'
  BY <1>1, <1>10, DirectedStays
<1> QED
  BY <1>1, <1>9, <1>11, TypeMoves, HypothesesStay DEF SupportedInv

LEMMA ImplSupported ==
  ASSUME SupportedInv, TransformImpl
  PROVE  SupportedInv'
<1> DEFINE d == model.decls[pos + 1]
           acts == ActsOf(d.c)
<1>1. /\ UNCHANGED <<model, managed, code>> /\ status = "transform"
      /\ pos < Len(model.decls) /\ pos \in 0 .. Len(model.decls) /\ d.k = "impl"
      /\ \/ Panics(acts) /\ status' = "panicked" /\ UNCHANGED <<pos, ast>>
         \/ /\ ~Panics(acts) /\ pos' = pos + 1 /\ UNCHANGED status
            /\ ast' = [ast EXCEPT ![d.c] = [i \in DOMAIN acts |-> Action(acts[i])]]
  BY DEF SupportedInv, TranslationInv, Phases, TransformImpl, ActsOf
<1>2. d.c \in Components
  BY <1>1, ModelFacts DEF SupportedInv, TranslationInv
<1>3. Managed'
  <2>1. CASE status' = "panicked"
    BY <1>1, <2>1, ManagedStays DEF SupportedInv
  <2>2. CASE pos' = pos + 1 /\ UNCHANGED status
    <3>1. IsSeq(managed)'
      BY <1>1 DEF SupportedInv, Managed, IsSeq
    <3>2. PortsOfModel'
      BY <1>1, SameModel DEF SupportedInv, Managed, PortsOfModel
    <3>3. Brought(pos + 1) = <<>>
      BY <1>1 DEF Brought
    <3>4. BroughtSoFar'
      <4> SUFFICES ASSUME NEW x \in 1 .. (pos + 1), NEW j \in DOMAIN Brought(x)
                   PROVE  \E i \in DOMAIN managed : managed[i] = Brought(x)[j]
        BY <1>1, <2>2, BroughtStays DEF BroughtSoFar
      <4>1. x \in 1 .. pos
        BY <1>1, <3>3
      <4> QED
        BY <1>1, <4>1 DEF SupportedInv, Managed, BroughtSoFar
    <3> QED
      BY <3>1, <3>2, <3>4 DEF Managed
  <2> QED
    BY <1>1, <2>1, <2>2
<1>4. ASSUME Supportable, SupportedKept, Directed
      PROVE  Directed' /\ status' = "transform"
  <2>1. /\ ~Panics(acts) /\ pos' = pos + 1 /\ status' = "transform"
        /\ ast' = [ast EXCEPT ![d.c] = [i \in DOMAIN acts |-> Action(acts[i])]]
    BY <1>1, <1>2, <1>4, SupportedReadable
  <2>4. model' = model /\ Components' = Components /\ \A c : ActsOf(c)' = ActsOf(c)
    BY <1>1, SameModel
  <2> SUFFICES ASSUME NEW c \in Components, InTree(c)', NEW i \in DOMAIN ActsOf(c),
                      ActsOf(c)[i].k = "assign"
               PROVE  ast'[c][i].k = "toPort" <=> ActsOf(c)[i].n \in OutPorts(model.comps[c])
    BY <2>1, <2>4 DEF Directed
  <2>2. CASE c = d.c
    <3>1. ast'[c][i] = Action(acts[i])
      BY <2>1, <2>2 DEF SupportedInv, TranslationInv, Phases
    <3>2. Action(acts[i]).k = IF IsOutgoing(acts[i].n) THEN "toPort" ELSE "toLocal"
      BY <2>2 DEF Action
    <3>3. IsOutgoing(ActsOf(c)[i].n) <=> ActsOf(c)[i].n \in OutPorts(model.comps[c])
      BY <1>1, <1>4, <2>2, OutgoingFound DEF SupportedInv
    <3> QED
      BY <2>2, <3>1, <3>2, <3>3
  <2>3. CASE c # d.c
    <3>1. ast'[c] = ast[c]
      BY <2>1, <2>3 DEF SupportedInv, TranslationInv, Phases
    <3>2. PICK x \in 1 .. pos' : model.decls[x].k = "impl" /\ model.decls[x].c = c
      BY <1>1, <2>1 DEF InTree
    <3>3. x # pos + 1
      BY <2>3, <3>2
    <3>4. InTree(c)
      BY <1>1, <2>1, <3>2, <3>3 DEF InTree
    <3> QED
      BY <1>4, <3>1, <3>4 DEF Directed
  <2> QED
    BY <2>2, <2>3
<1> QED
  BY <1>1, <1>3, <1>4, ImplMoves, HypothesesStay DEF SupportedInv

LEMMA TransformedSupported ==
  ASSUME SupportedInv, Transformed
  PROVE  SupportedInv'
<1>1. /\ UNCHANGED <<model, managed, ast, code>> /\ status = "transform"
      /\ pos = Len(model.decls) /\ status' = "convert"
  BY DEF Transformed
<1>2. Managed'
  BY <1>1, ManagedStays DEF SupportedInv
<1>3. \A c \in Components : InTree(c)
  BY <1>1, ModelFacts DEF SupportedInv, TranslationInv, InTree
<1>4. Directed => Directed'
  BY <1>1, <1>3, DirectedStays
<1> QED
  BY <1>1, <1>2, <1>4, TransformedMoves, HypothesesStay DEF SupportedInv

LEMMA ConvertSupported ==
  ASSUME SupportedInv, ConvertAnnex
  PROVE  SupportedInv'
<1>1. UNCHANGED <<model, status, managed, ast>> /\ status = "convert"
  BY DEF ConvertAnnex
<1>2. Managed'
  BY <1>1, ManagedStays DEF SupportedInv
<1>3. Directed => Directed'
  BY <1>1, DirectedStays DEF InTree
<1> QED
  BY <1>1, <1>2, <1>3, ConvertMoves, HypothesesStay DEF SupportedInv

(* What is generated for a supported action is accepted. *)
LEMMA SupportedStatement ==
  ASSUME Supportable, SupportedKept, NEW c \in Components, LegalComponent(model.comps[c]),
         NEW i \in DOMAIN ActsOf(c), NEW t, Stands(ActsOf(c)[i], t),
         ActsOf(c)[i].k = "assign" =>
           (t.k = "toPort" <=> ActsOf(c)[i].n \in OutPorts(model.comps[c]))
  PROVE  Accepts(model.comps[c], Statement(t))
<1> DEFINE comp == model.comps[c]
           a == ActsOf(c)[i]
           e == Rust(Tree(a))
           locals == {comp.vars[l].n : l \in DOMAIN comp.vars}
<1>1. SupportedAction(comp, a) /\ Features(comp) = comp.ports
  BY DEF Supportable, ActsOf, Features
<1>2. /\ Valued(a) /\ Covers(a.e) /\ Typing(a.e) # "error"
      /\ \A x \in Within(a.e) : x.k = "id" => x.n \in locals \cup comp.reads
  BY <1>1 DEF SupportedAction
<1>3. /\ Typing(e) = Typing(a.e)
      /\ \A x \in Within(e) : x.k # "field" /\ (x.k = "id" => x \in Within(a.e))
  BY <1>2 DEF SupportedKept
<1>4. \A x \in Within(e) : x.k # "field" /\ (x.k = "id" => x.n \in locals \cup comp.reads)
  BY <1>2, <1>3
<1>5. /\ \A n : n \in OutPorts(comp) <=>
                  \E j \in DOMAIN comp.ports : comp.ports[j].n = n /\ comp.ports[j].dir # "in"
      /\ \A l, j \in DOMAIN comp.ports : comp.ports[l].n = comp.ports[j].n => l = j
      /\ \A j \in DOMAIN comp.ports, l \in DOMAIN comp.vars : comp.ports[j].n # comp.vars[l].n
  BY OutPortFacts
<1>6. ASSUME a.n \in OutPorts(comp)
      PROVE  /\ a.k = "assign" => Lower(a.n) = a.n
             /\ \E j \in DOMAIN comp.ports : /\ comp.ports[j].n = a.n /\ comp.ports[j].dir # "in"
                                              /\ comp.ports[j].type = Typing(e)
  <2>1. a.n \notin locals
    BY <1>5, <1>6
  <2>2. /\ [n |-> a.n, t |-> Typing(a.e)]
             \in {[n |-> p.n, t |-> p.type] : p \in {comp.ports[j] : j \in DOMAIN comp.ports}}
        /\ a.k = "assign" => Lower(a.n) = a.n
    BY <1>1, <2>1 DEF SupportedAction
  <2>3. PICK j \in DOMAIN comp.ports :
          [n |-> a.n, t |-> Typing(a.e)] = [n |-> comp.ports[j].n, t |-> comp.ports[j].type]
    BY <2>2
  <2>4. a.n = comp.ports[j].n /\ Typing(a.e) = comp.ports[j].type
    BY <2>3
  <2>5. comp.ports[j].dir # "in"
    BY <1>5, <1>6, <2>4
  <2> QED
    BY <1>3, <2>2, <2>4, <2>5
<1>7. ASSUME NEW n, a.n \in OutPorts(comp), n = Lower(a.n)
      PROVE  Accepts(comp, [k |-> "send", n |-> n, e |-> e])
  <2> DEFINE st == [k |-> "send", n |-> n, e |-> e]
  <2>1. st.k = "send" /\ st.n = n /\ st.e = e
    OBVIOUS
  <2>2. \E j \in DOMAIN comp.ports :
          /\ Lower(comp.ports[j].n) = n /\ comp.ports[j].dir # "in"
          /\ comp.ports[j].type = Typing(e)
    BY <1>6, <1>7
  <2> HIDE DEF st, e
  <2> QED
    BY <1>1, <1>2, <1>3, <1>4, <2>1, <2>2 DEF Accepts
<1>8. CASE a.k = "output"
  <2>1. a.n \in OutPorts(comp)
    BY <1>1, <1>8 DEF SupportedAction
  <2>2. Statement(t) = [k |-> "send", n |-> Lower(a.n), e |-> e]
    BY <1>8, OutputStatement
  <2> QED
    BY <1>7, <2>1, <2>2
<1>9. CASE a.k = "assign"
  <2>1. PICK k \in {"set", "send"} :
          /\ Statement(t) = [k |-> k, n |-> a.n, e |-> e]
          /\ k = "send" <=> t.k = "toPort"
    BY <1>9, AssignStatement
  <2>2. CASE k = "send"
    BY <1>6, <1>7, <1>9, <2>1, <2>2
  <2>3. CASE k = "set"
    <3> DEFINE st == [k |-> "set", n |-> a.n, e |-> e]
    <3>1. st.k = "set" /\ st.n = a.n /\ st.e = e
      OBVIOUS
    <3>2. a.n \notin OutPorts(comp)
      BY <1>9, <2>1, <2>3
    <3>3. a.n \in locals /\ Typing(Id(a.n)) = Typing(e)
      BY <1>1, <1>3, <3>2 DEF SupportedAction
    <3>4. \E l \in DOMAIN comp.vars : comp.vars[l].n = a.n
      BY <3>3
    <3> HIDE DEF st, e
    <3>5. Accepts(comp, st)
      BY <1>2, <1>3, <1>4, <3>1, <3>3, <3>4 DEF Accepts
    <3> QED
      BY <2>1, <2>3, <3>5 DEF st
  <2> QED
    BY <2>2, <2>3
<1> QED
  BY <1>2, <1>8, <1>9 DEF Valued

(* A supported variable starts with a literal of its type. *)
LEMMA SupportedFits ==
  ASSUME NEW v, LegalVariable(v), SupportedVariable(v)
  PROVE  Fits(Resolved(v), InitialValue(v))
<1>1. RustType(v.type) \in RustNames /\ Resolved(v) = RustType(v.type)
  BY DeclaredAssumption DEF SupportedVariable, Resolved, RustNames
<1>2. CASE RustType(v.type) = "bool"
  BY <1>1, <1>2 DEF InitialValue, Fits, Bool
<1>3. CASE RustType(v.type) = "i32" /\ v.init.k = "num"
  BY <1>1, <1>3 DEF InitialValue, Fits
<1>4. CASE RustType(v.type) = "u16" \/ (RustType(v.type) = "i32" /\ v.init.k # "num")
  <2>1. InitialValue(v) = Num(0)
    BY <1>4 DEF InitialValue
  <2> QED
    BY <1>1, <1>4, <2>1 DEF Fits, Num
<1>5. CASE RustType(v.type) = "f64" /\ v.init.k = "real"
  BY <1>1, <1>5 DEF InitialValue, Fits
<1> QED
  BY <1>2, <1>3, <1>4, <1>5 DEF SupportedVariable

LEMMA BuildSupported ==
  ASSUME SupportedInv, Build
  PROVE  SupportedInv'
<1>1. /\ UNCHANGED <<model, pos, managed, ast, code>> /\ status = "convert"
      /\ pos = Len(model.comps)
      /\ status' = IF AllAccepted THEN "accepted" ELSE "refused"
  BY DEF Build, AllAccepted
<1>2. Managed'
  BY <1>1, ManagedStays DEF SupportedInv
<1>3. Directed => Directed'
  BY <1>1, DirectedStays DEF InTree
<1>4. ASSUME Supportable, SupportedKept PROVE AllAccepted
  <2> SUFFICES ASSUME NEW c \in Components, NEW x \in DOMAIN code[c]
               PROVE  Accepts(model.comps[c], code[c][x])
    BY DEF AllAccepted
  <2> DEFINE vs == model.comps[c].vars
             n == Len(vs)
  <2>1. InTree(c) /\ InCode(c) /\ LegalComponent(model.comps[c])
    BY <1>1, ModelFacts DEF SupportedInv, TranslationInv, InTree, InCode
  <2>2. /\ IsSeq(ast[c]) /\ DOMAIN ast[c] = DOMAIN ActsOf(c)
        /\ \A i \in DOMAIN ActsOf(c) : Stands(ActsOf(c)[i], ast[c][i])
    BY <2>1 DEF SupportedInv, TranslationInv, Trees
  <2>3. /\ DOMAIN code[c] = 1 .. (n + Len(ast[c]))
        /\ \A i \in DOMAIN vs : code[c][i] = Let(vs[i])
        /\ \A i \in DOMAIN ast[c] : code[c][n + i] = Statement(ast[c][i])
    BY <2>1 DEF SupportedInv, TranslationInv, Codes
  <2>4. /\ n \in Nat /\ DOMAIN vs = 1 .. n
        /\ Len(ast[c]) \in Nat /\ DOMAIN ast[c] = 1 .. Len(ast[c])
    BY <2>1, <2>2, ComponentFacts, SeqFacts
  <2> HIDE DEF n
  <2>5. CASE x \in 1 .. n
    <3>1. code[c][x] = Let(vs[x])
      BY <2>3, <2>4, <2>5, Zenon
    <3>2. LegalVariable(vs[x]) /\ SupportedVariable(vs[x])
      BY <1>4, <2>1, <2>4, <2>5, Zenon DEF LegalComponent, Supportable
    <3>3. Fits(Resolved(vs[x]), InitialValue(vs[x]))
      BY <3>2, SupportedFits
    <3>4. /\ code[c][x].k = "let"
          /\ code[c][x].t = Resolved(vs[x]) /\ code[c][x].e = InitialValue(vs[x])
      BY <3>1 DEF Let
    <3> QED
      BY <3>3, <3>4 DEF Accepts
  <2>6. CASE x \notin 1 .. n
    <3>1. x - n \in 1 .. Len(ast[c]) /\ n + (x - n) = x
      BY <2>3, <2>4, <2>6
    <3>2. PICK i \in DOMAIN ast[c] : n + i = x
      BY <2>4, <3>1
    <3>3. i \in DOMAIN ActsOf(c) /\ code[c][x] = Statement(ast[c][i])
      BY <2>2, <2>3, <3>2
    <3>4. Stands(ActsOf(c)[i], ast[c][i])
      BY <2>2, <3>3
    <3>5. ActsOf(c)[i].k = "assign" =>
            (ast[c][i].k = "toPort" <=> ActsOf(c)[i].n \in OutPorts(model.comps[c]))
      BY <1>4, <2>1, <3>3 DEF SupportedInv, Directed
    <3>6. Accepts(model.comps[c], Statement(ast[c][i]))
      BY <1>4, <2>1, <3>3, <3>4, <3>5, SupportedStatement
    <3> QED
      BY <3>3, <3>6
  <2> QED
    BY <2>5, <2>6
<1> QED
  BY <1>1, <1>2, <1>3, <1>4, BuildMoves, HypothesesStay DEF SupportedInv

(* Of any model whose annexes keep to the supported part, provided that    *)
(* each value by itself is translated well: rustc accepts it, in whatever  *)
(* order its types and implementations fill GLOBAL_PORT_MANAGER.           *)
THEOREM SupportedGoesThrough == TranslationSpec => [](SupportedKept => SupportedAccepted)
<1>1. SupportedInv /\ UNCHANGED translationVars => SupportedInv'
  <2> SUFFICES ASSUME SupportedInv, UNCHANGED translationVars
               PROVE  SupportedInv'
    OBVIOUS
  <2>1. UNCHANGED <<model, status, pos, managed, ast, code>>
    BY DEF translationVars
  <2>2. TranslationInv'
    BY TranslationStays DEF SupportedInv
  <2>3. Managed'
    BY <2>1, ManagedStays DEF SupportedInv
  <2>4. Directed => Directed'
    BY <2>1, DirectedStays DEF InTree
  <2> QED
    BY <2>1, <2>2, <2>3, <2>4, HypothesesStay DEF SupportedInv
<1>2. SupportedInv /\ [TranslationNext]_translationVars => SupportedInv'
  BY <1>1, ParsingSupported, TypeSupported, ImplSupported, TransformedSupported,
     ConvertSupported, BuildSupported
  DEF TranslationNext, Done
<1>3. SupportedInv => (SupportedKept => SupportedAccepted)
  BY DEF SupportedInv, SupportedAccepted
<1> QED
  BY <1>2, <1>3, SupportedStarts, PTL DEF TranslationSpec
=============================================================================
