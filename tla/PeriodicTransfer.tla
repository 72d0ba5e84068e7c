-------------------------- MODULE PeriodicTransfer --------------------------
(***************************************************************************)
(* A device or a periodic thread, the writer, that feeds a periodic        *)
(* thread.                                                                 *)
(*                                                                         *)
(* Both are paced by sleeping.  A thread keeps an absolute `next_release`, *)
(* sleeps until then and adds `period` to it after each job: a late job is *)
(* followed at once by those that are due                                  *)
(* (create_periodic_execution_logic).  A device notes `start` at the top   *)
(* of its loop and sleeps for what is left of its period                   *)
(* (create_device_run_method): after a delay the whole schedule is late.   *)
(* A job of the writer sends one message, one of the reader takes at most  *)
(* one out of its channel.                                                 *)
(*                                                                         *)
(* Only a thread of the same process sends into that channel itself.       *)
(* Between the reader and a device, or a thread of another process, there  *)
(* are forwarding threads of the processes, which poll a channel each and  *)
(* give what they take to the next.  When they lag, the reader polls in    *)
(* vain and then finds many messages at once; `underway` counts what they  *)
(* have not given to the reader's channel, in their hands or before them   *)
(* (PortPipeline is about one chain of them message by message).           *)
(*                                                                         *)
(* The writer may be up before the reader: processes and devices are       *)
(* started one after the other.  Clocks count ticks and are relative, so   *)
(* that time is unbounded.  The reader is at least as fast as the writer;  *)
(* a slower one lets the channel grow for ever.                            *)
(***************************************************************************)
EXTENDS Integers

CONSTANTS MaxPeriod,   \* longest period, in ticks
          MaxLate,     \* bound: ticks an actor may lag behind its sleep
          MaxUnderway  \* bound: messages with the forwarders as time goes on

ASSUME MaxPeriodAssumption == MaxPeriod \in Nat \ {0}
ASSUME MaxLateAssumption == MaxLate \in Nat
ASSUME MaxUnderwayAssumption == MaxUnderway \in Nat

VARIABLES writer,    \* "device" or "thread"; never changes
          route,     \* "direct" or "forwarded" to the reader; never changes
          tPeriod,   \* period of the reader; never changes
          wPeriod,   \* period or period_ms of the writer; never changes
          tpc,       \* "new", "wait", "job" until the port is read, "work"
          until,     \* next_release - now of the reader
          wpc,       \* of the writer: "send" until it has sent, "sleep"
          since,     \* now - start of a device; of a thread, the time since
                     \* its last release: the grid that OnGrid is about
          behind,    \* releases of a writing thread whose jobs have not begun
          underway,  \* messages that forwarders have not yet given on
          backlog,   \* messages in the channel of the reader
          phase,     \* history: time since the reader began, modulo tPeriod
          owed,      \* history: releases that are due and have not begun
          base,      \* history: messages waiting when the reader began
          late       \* history: the most that has been missing at once

config == <<writer, route, tPeriod, wPeriod>>
thread == <<tpc, until>>
source == <<wpc, since, behind, underway, late>>
history == <<phase, owed, base>>
vars == <<config, thread, source, backlog, history>>

Init ==
  /\ writer \in {"device", "thread"}
  /\ route \in IF writer = "device" THEN {"forwarded"} ELSE {"direct", "forwarded"}
  /\ tPeriod \in 1 .. MaxPeriod
  /\ wPeriod \in tPeriod .. MaxPeriod
  /\ tpc = "new"
  /\ until = 0
  /\ wpc = IF writer = "device" THEN "send" ELSE "sleep"
  /\ since = 0
  /\ behind = 0
  /\ underway = 0
  /\ backlog = 0
  /\ phase = 0
  /\ owed = 0
  /\ base = 0
  /\ late = 0

-----------------------------------------------------------------------------
(* What the reader misses: releases of a writing thread that have come and *)
(* messages that have been sent, none of them in the reader's channel.     *)
Missing == behind + underway

Record == late' = IF Missing' > late THEN Missing' ELSE late

(* The clock of the writer: a device counts on until it wakes, a thread is *)
(* due again at every multiple of its period.                              *)
Pass ==
  IF writer = "thread" /\ since + 1 = wPeriod
  THEN since' = 0 /\ behind' = behind + 1
  ELSE since' = since + 1 /\ UNCHANGED behind

(* One tick.  An actor that may run does so within MaxLate ticks, the      *)
(* reader begins at most MaxLate ticks after the writer, and forwarders    *)
(* are at most MaxUnderway messages behind.                                *)
Tick ==
  /\ until > -MaxLate
  /\ since + behind * wPeriod < wPeriod + MaxLate
  /\ underway <= MaxUnderway
  /\ until' = until - 1
  /\ Pass
  /\ IF tpc = "new"
     THEN UNCHANGED <<phase, owed>>
     ELSE IF phase + 1 = tPeriod
     THEN phase' = 0 /\ owed' = owed + 1
     ELSE phase' = phase + 1 /\ UNCHANGED owed
  /\ UNCHANGED <<config, tpc, wpc, underway, backlog, base>>
  /\ Record

(* `let mut next_release = Instant::now() + period`. *)
ThreadBegins ==
  /\ tpc = "new"
  /\ tpc' = "wait"
  /\ until' = tPeriod
  /\ base' = backlog
  /\ UNCHANGED <<config, source, backlog, phase, owed>>

(* `if now < next_release { sleep(next_release - now) }` is over. *)
Release ==
  /\ tpc = "wait"
  /\ until <= 0
  /\ tpc' = "job"
  /\ owed' = owed - 1
  /\ UNCHANGED <<config, until, source, backlog, phase, base>>

(* Defect: the result of try_recv is not tested for Ok. *)
ReceiveUntested ==
  /\ tpc = "job"
  /\ tpc' = "work"
  /\ backlog' = backlog - 1
  /\ UNCHANGED <<config, until, source, history>>

(* Defect: the last message stays, as the current value of the port. *)
ReceiveKeepingLast ==
  /\ tpc = "job"
  /\ tpc' = "work"
  /\ backlog' = IF backlog > 1 THEN backlog - 1 ELSE backlog
  /\ UNCHANGED <<config, until, source, history>>

(* `if let Ok(val) = receiver.try_recv()` of the job. *)
Receive ==
  /\ tpc = "job"
  /\ tpc' = "work"
  /\ backlog' = IF backlog > 0 THEN backlog - 1 ELSE 0
  /\ UNCHANGED <<config, until, source, history>>

(* Defect: the next release is one period after the end of the job. *)
EndOfJobDrifting ==
  /\ tpc = "work"
  /\ tpc' = "wait"
  /\ until' = tPeriod
  /\ UNCHANGED <<config, source, backlog, history>>

(* `next_release += period`. *)
EndOfJob ==
  /\ tpc = "work"
  /\ tpc' = "wait"
  /\ until' = until + tPeriod
  /\ UNCHANGED <<config, source, backlog, history>>

(* `let _ = tx.send(val)` of a device, `sender.send(val)` of a thread. *)
WriterSends ==
  /\ wpc = "send"
  /\ wpc' = "sleep"
  /\ IF route = "direct"
     THEN backlog' = backlog + 1 /\ UNCHANGED underway
     ELSE underway' = underway + 1 /\ UNCHANGED backlog
  /\ UNCHANGED <<config, thread, since, behind, history>>
  /\ Record

(* `if let Ok(msg) = rx.try_recv() { if let Some(tx) = &dst { tx.send(msg) } }` *)
(* of the last forwarder: its turns come when they come.                   *)
Forward ==
  /\ underway > 0
  /\ underway' = underway - 1
  /\ backlog' = backlog + 1
  /\ UNCHANGED <<config, thread, wpc, since, behind, late, history>>

(* Defect: the device sleeps one tick less than the rest of its period. *)
DeviceWakesEarly ==
  /\ writer = "device" /\ wpc = "sleep"
  /\ since >= wPeriod - 1
  /\ wpc' = "send"
  /\ since' = 0
  /\ UNCHANGED <<config, thread, behind, underway, late, backlog, history>>

(* The sleep for the rest of the period, if any is left, is over. *)
DeviceWakes ==
  /\ writer = "device" /\ wpc = "sleep"
  /\ since >= wPeriod
  /\ wpc' = "send"
  /\ since' = 0
  /\ UNCHANGED <<config, thread, behind, underway, late, backlog, history>>

(* The sleep of a writing thread, if `next_release` is not past, is over. *)
WriterReleased ==
  /\ writer = "thread" /\ wpc = "sleep"
  /\ behind > 0
  /\ wpc' = "send"
  /\ behind' = behind - 1
  /\ UNCHANGED <<config, thread, since, underway, late, backlog, history>>

ThreadStep == ThreadBegins \/ Release \/ Receive \/ EndOfJob

WriterStep == WriterSends \/ DeviceWakes \/ WriterReleased

Next == Tick \/ ThreadStep \/ WriterStep \/ Forward

Spec == Init /\ [][Next]_vars

(* The threads of the operating system all run, and time goes on. *)
FairSpec ==
  /\ Spec
  /\ WF_vars(Tick) /\ WF_vars(ThreadStep) /\ WF_vars(WriterStep) /\ WF_vars(Forward)

-----------------------------------------------------------------------------
TypeOK ==
  /\ writer \in {"device", "thread"}
  /\ route \in {"direct", "forwarded"}
  /\ tPeriod \in 1 .. MaxPeriod
  /\ wPeriod \in tPeriod .. MaxPeriod
  /\ tpc \in {"new", "wait", "job", "work"}
  /\ until \in -MaxLate .. MaxPeriod
  /\ wpc \in {"send", "sleep"}
  /\ since \in 0 .. (wPeriod + MaxLate)
  /\ behind \in Nat
  /\ underway \in Nat
  /\ late \in Nat
  /\ Missing <= late
  /\ writer = "thread" => since < wPeriod
  /\ writer = "device" => behind = 0
  /\ route = "direct" => underway = 0
  /\ backlog \in Nat
  /\ phase \in 0 .. (tPeriod - 1)
  /\ owed \in Nat
  /\ base \in Nat

One(b) == IF b THEN 1 ELSE 0

(* Releases that have come and whose job is not over. *)
Pending == owed + One(tpc \in {"job", "work"})

(* Every multiple of the period since the thread began releases exactly    *)
(* one job, never before its time, however late the jobs before it were:   *)
(* next_release stays on the grid.                                         *)
OnGrid == tpc # "new" => until = tPeriod - phase - tPeriod * Pending

(* Releases that have come and whose job has not read the port. *)
Unread == owed + One(tpc = "job")

(* The channel holds no more than what had piled up before the reader      *)
(* began, two messages, one for each release of the reader that is due, and*)
(* as many as have been missing at once, behind a writing thread or with   *)
(* the forwarders: delays of the reader are made up for, delays of a       *)
(* device's own loop do not bunch up, and the bursts that follow delays of *)
(* a writing thread or of a forwarder, each of which finds a reader that   *)
(* has polled in vain meanwhile, do not add up.                            *)
BacklogBounded == tpc # "new" => backlog <= base + 2 + Unread + late

(* A reader faster than the writer catches up, also with what piled up     *)
(* before it began, and finds the channel empty again and again.           *)
Drains == tPeriod < wPeriod => []<>(backlog = 0)
=============================================================================
