---------------------------- MODULE PeriodicRunner ----------------------------
(***************************************************************************)
(* One run of the periodic runner, rtems/periodic/init.c: the coordinator  *)
(* (task Init) and one worker per active task, which meet through RTEMS    *)
(* event sets and one automatic-release barrier, and release their jobs    *)
(* with rate-monotonic periods.                                            *)
(*                                                                         *)
(* Threads interleave freely between RTEMS calls, whatever their core or   *)
(* priority, and any number of ticks may pass between two of their steps:  *)
(* every schedule EDF can produce, and preemption by it, is among these    *)
(* behaviours.  A step is one call, or one clock reading, together with    *)
(* the thread-local code around it.  An instant is the tick it falls into, *)
(* so "completion > deadline" reads "the deadline's tick has begun".       *)
(***************************************************************************)
EXTENDS RateMonotonic, FiniteSets

CONSTANTS
  Tasks,        \* TASK_COUNT tasks
  Coordinator,  \* the Init task
  Everyone,     \* chaser_mode 0: no single task was selected
  ChaserMode,   \* Everyone, or the one task to run alone
  PeriodOf,     \* periods[i], ticks
  OffsetOf,     \* offsets[i], ticks; 0 releases at t0
  JobCount,     \* job_counts[i]
  Soft,         \* CHASER_CONTINUE_AFTER_MISS: a miss does not stop the worker
  Lead,         \* ticks from the ready handshake to the planned epoch (20)
  Checksums,    \* outcomes of a job: subset of {"expected", "wrong"}
  Horizon       \* BOUND: ticks end here

ASSUME TasksAssumption ==
  /\ IsFiniteSet(Tasks)
  /\ Coordinator \notin Tasks
  /\ Everyone \notin Tasks
  /\ ChaserMode \in Tasks \cup {Everyone}

\* schedule_plan: a positive period, an offset below it, and a common horizon
\* with a warmup and a measured part, so at least two jobs of every task.
ASSUME PlanAssumption ==
  /\ PeriodOf \in [Tasks -> Nat \ {0}]
  /\ OffsetOf \in [Tasks -> Nat]
  /\ \A i \in Tasks : OffsetOf[i] < PeriodOf[i]
  /\ JobCount \in [Tasks -> Nat \ {0, 1}]
  /\ \A i, k \in Tasks : JobCount[i] * PeriodOf[i] = JobCount[k] * PeriodOf[k]
  /\ Soft \in BOOLEAN
  /\ Lead \in Nat \ {0}
  /\ Checksums \subseteq {"expected", "wrong"}
  /\ Horizon \in Nat

VARIABLES
  now,      \* ticks since boot
  cpc,      \* where the coordinator is
  t0,       \* t0_tick
  wake,     \* tick the coordinator's wake_after ends at
  sent,     \* tasks already sent ARM
  pc,       \* where each worker is
  armed,    \* ARM pending at each worker
  events,   \* event bits pending at the coordinator
  gate,     \* threads blocked at the barrier
  period,   \* each worker's period object
  anchor,   \* history: tick its period was activated at
  arm,      \* arm_before_tick and arm_after_tick
  job,      \* j, the worker's job index
  rec,      \* the record of the job being measured
  count     \* placement[i].count, records written

clockVars  == <<now, wake>>
coordVars  == <<cpc, t0, sent>>
eventVars  == <<armed, events>>
workerVars == <<period, anchor, arm, job, rec, count>>
vars == <<clockVars, coordVars, pc, eventVars, gate, workerVars>>

Active == IF ChaserMode = Everyone THEN Tasks ELSE {ChaserMode}

\* The barrier releases its waiters when this many threads have arrived.
BarrierCount == IF ChaserMode = Everyone THEN Cardinality(Tasks) + 1 ELSE 2

\* Release and deadline of task i's j-th job, counted from epoch e.
Release(i, j, e)  == e + OffsetOf[i] + j * PeriodOf[i]
Deadline(i, j, e) == Release(i, j + 1, e)

NoRecord ==
  [status |-> "none", start |-> 0, before |-> NoPeriod, beforeEnd |-> 0,
   checksum |-> "expected", after |-> NoPeriod, completion |-> 0]

Init ==
  /\ now = 0
  /\ cpc = "ready"
  /\ t0 = 0
  /\ wake = 0
  /\ sent = {}
  /\ pc = [i \in Active |-> "create"]
  /\ armed = {}
  /\ events = {}
  /\ gate = {}
  /\ period = [i \in Active |-> NoPeriod]
  /\ anchor = [i \in Active |-> 0]
  /\ arm = [i \in Active |-> [before |-> 0, after |-> 0]]
  /\ job = [i \in Active |-> 0]
  /\ rec = [i \in Active |-> NoRecord]
  /\ count = [i \in Active |-> 0]

(***************************************************************************)
(* The RTEMS calls the threads meet through.                               *)
(***************************************************************************)
Goto(i, label) == pc' = [pc EXCEPT ![i] = label]

\* rtems_event_send(coordinator, 1U << i): bits are set, not counted.
Signal(i) == events' = events \cup {i}

\* Mutant: RTEMS_EVENT_ANY instead of RTEMS_EVENT_ALL.
CollectAll_Any ==
  /\ events # {}
  /\ events' = {}
  /\ UNCHANGED armed

\* rtems_event_receive(all, RTEMS_EVENT_ALL | RTEMS_WAIT) by the coordinator.
CollectAll ==
  /\ Active \subseteq events
  /\ events' = events \ Active
  /\ UNCHANGED armed

\* Mutant: job 0 waits for the end of the period that was armed for it.
WorkerPast_WaitsAPeriod(i) == IF pc[i] = "finish" THEN "delete" ELSE "period"

\* Where a thread goes on when the barrier lets it pass.
WorkerPast(i) == IF pc[i] = "finish" THEN "delete"
                 ELSE IF OffsetOf[i] > 0 THEN "period" ELSE "job"
CoordinatorPast == IF cpc = "gate" THEN "run" ELSE "deleted"

\* rtems_barrier_wait(start_barrier): the last of BarrierCount threads to come
\* passes with all the others.
Arrive(x) ==
  LET here == gate \cup {x}
  IN  IF Cardinality(here) = BarrierCount
        THEN /\ gate' = {}
             /\ pc' = [i \in Active |-> IF i \in here THEN WorkerPast(i) ELSE pc[i]]
             /\ cpc' = IF Coordinator \in here THEN CoordinatorPast ELSE cpc
        ELSE /\ gate' = here
             /\ UNCHANGED <<pc, cpc>>

(***************************************************************************)
(* The coordinator, Init(): after creating and starting the workers.       *)
(***************************************************************************)
CoordinatorGoes(from, to) == cpc = from /\ cpc' = to

\* All workers are ready: plan the epoch Lead ticks ahead.
PlanEpoch ==
  /\ CoordinatorGoes("ready", "plan")
  /\ CollectAll
  /\ t0' = now + Lead
  /\ UNCHANGED <<clockVars, sent, pc, gate, workerVars>>

\* wake_after(t0_tick - now): a tick may pass between the clock reading and the
\* insertion of the watchdog, which then ends a tick after the plan.
SleepToEpoch ==
  /\ CoordinatorGoes("plan", "sleep")
  /\ \E slip \in {0, 1} : wake' = t0 + slip
  /\ UNCHANGED <<now, t0, sent, pc, eventVars, gate, workerVars>>

\* Awake: the epoch is the tick the coordinator really woke at.
ReadEpoch ==
  /\ CoordinatorGoes("sleep", "send")
  /\ now >= wake
  /\ t0' = now
  /\ UNCHANGED <<clockVars, sent, pc, eventVars, gate, workerVars>>

\* Mutant: the coordinator does not collect the workers' armed bits.
SendArm_SkipsArmed(i) ==
  /\ cpc = "send"
  /\ i \notin sent
  /\ sent' = sent \cup {i}
  /\ armed' = armed \cup {i}
  /\ cpc' = IF sent' = Active THEN "gate" ELSE "send"
  /\ UNCHANGED <<clockVars, t0, pc, events, gate, workerVars>>

SendArm(i) ==
  /\ cpc = "send"
  /\ i \notin sent
  /\ sent' = sent \cup {i}
  /\ armed' = armed \cup {i}
  /\ cpc' = IF sent' = Active THEN "armed" ELSE "send"
  /\ UNCHANGED <<clockVars, t0, pc, events, gate, workerVars>>

\* Three more times the coordinator waits for a bit of every worker: all armed,
\* all done (then the trace is stopped), all periods deleted.
Collect ==
  /\ \/ CoordinatorGoes("armed", "gate")
     \/ CoordinatorGoes("run", "finish")
     \/ CoordinatorGoes("deleted", "print")
  /\ CollectAll
  /\ UNCHANGED <<clockVars, t0, sent, pc, gate, workerVars>>

CoordinatorArrives ==
  /\ cpc \in {"gate", "finish"}
  /\ Coordinator \notin gate
  /\ Arrive(Coordinator)
  /\ UNCHANGED <<clockVars, t0, sent, eventVars, workerVars>>

\* print_results(), exit(0).
PrintResults ==
  /\ CoordinatorGoes("print", "exited")
  /\ UNCHANGED <<clockVars, t0, sent, pc, eventVars, gate, workerVars>>

(***************************************************************************)
(* A worker: create the period, arm it at t0, run the jobs, tear down.     *)
(***************************************************************************)
CreatePeriod(i) ==
  /\ pc[i] = "create"
  /\ Signal(i)
  /\ Goto(i, "arm")
  /\ UNCHANGED <<clockVars, coordVars, armed, gate, workerVars>>

\* event_receive(ARM), then arm_before_tick is read.
ReceiveArm(i) ==
  /\ pc[i] = "arm"
  /\ i \in armed
  /\ armed' = armed \ {i}
  /\ arm' = [arm EXCEPT ![i].before = now]
  /\ Goto(i, "activate")
  /\ UNCHANGED <<clockVars, coordVars, events, gate, period, anchor, job, rec, count>>

\* The first period() call: the offset's empty phase period, or job 0 itself.
ActivatePeriod(i) ==
  /\ pc[i] = "activate"
  /\ LET length == IF OffsetOf[i] > 0 THEN OffsetOf[i] ELSE PeriodOf[i]
     IN  period' = [period EXCEPT ![i] = Activated(length, now)]
  /\ anchor' = [anchor EXCEPT ![i] = now]
  /\ rec' = IF OffsetOf[i] > 0 THEN rec
            ELSE [rec EXCEPT ![i].status = "successful"]
  /\ Goto(i, "after")
  /\ UNCHANGED <<clockVars, coordVars, eventVars, gate, arm, job, count>>

\* Mutant: the armed worker does not wait for the others.
ReportArmed_SkipsGate(i) ==
  /\ pc[i] = "after"
  /\ arm' = [arm EXCEPT ![i].after = now]
  /\ Signal(i)
  /\ Goto(i, "job")
  /\ UNCHANGED <<clockVars, coordVars, armed, gate, period, anchor, job, rec, count>>

\* arm_after_tick is read, the coordinator is told.
ReportArmed(i) ==
  /\ pc[i] = "after"
  /\ arm' = [arm EXCEPT ![i].after = now]
  /\ Signal(i)
  /\ Goto(i, "gate")
  /\ UNCHANGED <<clockVars, coordVars, armed, gate, period, anchor, job, rec, count>>

WorkerArrives(i) ==
  /\ pc[i] \in {"gate", "finish"}
  /\ i \notin gate
  /\ Arrive(i)
  /\ UNCHANGED <<clockVars, t0, sent, eventVars, workerVars>>

\* Mutant: the period is a tick short.
CallPeriod_Short(i) ==
  /\ pc[i] = "period"
  /\ IF Blocks(period[i])
       THEN /\ period' = [period EXCEPT ![i] = Concluded(@, PeriodOf[i] - 1)]
            /\ rec' = [rec EXCEPT ![i].status = "successful"]
            /\ Goto(i, "blocked")
       ELSE /\ period' = [period EXCEPT ![i] = ReleasedLate(@, PeriodOf[i] - 1)]
            /\ rec' = [rec EXCEPT ![i].status = "timeout"]
            /\ Goto(i, "job")
  /\ UNCHANGED <<clockVars, coordVars, eventVars, gate, anchor, arm, job, count>>

\* Mutant: the first period after an offset is counted from the epoch.
CallPeriod_FromEpoch(i) ==
  LET length == IF job[i] = 0 THEN PeriodOf[i] - OffsetOf[i] ELSE PeriodOf[i]
  IN  /\ pc[i] = "period"
      /\ IF Blocks(period[i])
           THEN /\ period' = [period EXCEPT ![i] = Concluded(@, length)]
                /\ rec' = [rec EXCEPT ![i].status = "successful"]
                /\ Goto(i, "blocked")
           ELSE /\ period' = [period EXCEPT ![i] = ReleasedLate(@, length)]
                /\ rec' = [rec EXCEPT ![i].status = "timeout"]
                /\ Goto(i, "job")
      /\ UNCHANGED <<clockVars, coordVars, eventVars, gate, anchor, arm, job, count>>

\* period(periods[i]) at the top of the loop.
CallPeriod(i) ==
  /\ pc[i] = "period"
  /\ IF Blocks(period[i])
       THEN /\ period' = [period EXCEPT ![i] = Concluded(@, PeriodOf[i])]
            /\ rec' = [rec EXCEPT ![i].status = "successful"]
            /\ Goto(i, "blocked")
       ELSE /\ period' = [period EXCEPT ![i] = ReleasedLate(@, PeriodOf[i])]
            /\ rec' = [rec EXCEPT ![i].status = "timeout"]
            /\ Goto(i, "job")
  /\ UNCHANGED <<clockVars, coordVars, eventVars, gate, anchor, arm, job, count>>

\* Six steps of a job: its start is read, the first status, its end; the job,
\* its suspended segments with it, is run and status_after_start read; the
\* second status is read, then the completion.  Status_after_start is not kept:
\* see Doubts in PeriodicMeasurement.
Recorded(i, from, to, r) ==
  /\ pc[i] = from
  /\ rec' = [rec EXCEPT ![i] = r]
  /\ Goto(i, to)
  /\ UNCHANGED <<clockVars, coordVars, eventVars, gate, period, anchor, arm, job, count>>

StartJob(i)     == Recorded(i, "job", "opened", [rec[i] EXCEPT !.start = now])
StatusBefore(i) == Recorded(i, "opened", "sampled", [rec[i] EXCEPT !.before = period[i]])
BeginExec(i)    == Recorded(i, "sampled", "exec", [rec[i] EXCEPT !.beforeEnd = now])
EndJob(i)       == \E sum \in Checksums :
                     Recorded(i, "exec", "closing", [rec[i] EXCEPT !.checksum = sum])
StatusAfter(i)  == Recorded(i, "closing", "complete", [rec[i] EXCEPT !.after = period[i]])

MeasureStep(i) ==
  StartJob(i) \/ StatusBefore(i) \/ BeginExec(i) \/ EndJob(i) \/ StatusAfter(i)

\* Mutant: a late completion alone does not stop a hard-deadline worker.
StopsAfter_IgnoresDeadline(i, j, r) ==
  \/ r.checksum # "expected"
  \/ /\ ~Soft
     /\ \/ r.status # "successful"
        \/ r.after.state # "active"
        \/ r.after.postponed > 0

\* Whether the worker stops after record r of its j-th job.
StopsAfter(i, j, r) ==
  \/ r.checksum # "expected"
  \/ /\ ~Soft
     /\ \/ r.status # "successful"
        \/ r.after.state # "active"
        \/ r.after.postponed > 0
        \/ r.completion >= Deadline(i, j, t0)

\* The record as it stands when the completion time is read.
Closed(i) == [rec[i] EXCEPT !.completion = now]

\* Mutant: one job too many.
CompleteJob_OneMore(i) ==
  /\ pc[i] = "complete"
  /\ count' = [count EXCEPT ![i] = @ + 1]
  /\ LET last == job[i] = JobCount[i] \/ StopsAfter(i, job[i], Closed(i))
     IN  /\ Goto(i, IF last THEN "cancel" ELSE "period")
         /\ job' = [job EXCEPT ![i] = IF last THEN @ ELSE @ + 1]
  /\ rec' = [rec EXCEPT ![i] = NoRecord]
  /\ UNCHANGED <<clockVars, coordVars, eventVars, gate, period, anchor, arm>>

\* The completion time closes the record.  No worker reads a record again, so
\* it is dropped here; PeriodicMeasurement judges it in the same step.
CompleteJob(i) ==
  /\ pc[i] = "complete"
  /\ count' = [count EXCEPT ![i] = @ + 1]
  /\ LET last == job[i] + 1 = JobCount[i] \/ StopsAfter(i, job[i], Closed(i))
     IN  /\ Goto(i, IF last THEN "cancel" ELSE "period")
         /\ job' = [job EXCEPT ![i] = IF last THEN @ ELSE @ + 1]
  /\ rec' = [rec EXCEPT ![i] = NoRecord]
  /\ UNCHANGED <<clockVars, coordVars, eventVars, gate, period, anchor, arm>>

\* Mutant: a worker that stops leaves at once.
CancelPeriod_Silent(i) ==
  /\ pc[i] = "cancel"
  /\ period' = [period EXCEPT ![i] = NoPeriod]
  /\ Goto(i, "finish")
  /\ UNCHANGED <<clockVars, coordVars, eventVars, gate, anchor, arm, job, rec, count>>

CancelPeriod(i) ==
  /\ pc[i] = "cancel"
  /\ period' = [period EXCEPT ![i] = NoPeriod]
  /\ Signal(i)
  /\ Goto(i, "finish")
  /\ UNCHANGED <<clockVars, coordVars, armed, gate, anchor, arm, job, rec, count>>

DeletePeriod(i) ==
  /\ pc[i] = "delete"
  /\ Signal(i)
  /\ Goto(i, "gone")
  /\ UNCHANGED <<clockVars, coordVars, armed, gate, workerVars>>

(***************************************************************************)
(* The clock.  Every period timer due at the new tick fires in its ISR.    *)
(***************************************************************************)
Due(i) == period[i].state # "inactive" /\ period[i].timer = now + 1

Tick ==
  /\ now < Horizon
  \* While the epoch is planned all workers wait for ARM: nothing delays the
  \* coordinator for Lead ticks.
  /\ cpc = "plan" => now + 1 < t0
  /\ now' = now + 1
  /\ period' = [i \in Active |->
                 IF ~Due(i) THEN period[i]
                 ELSE IF pc[i] = "blocked" THEN Restarted(period[i], now + 1)
                 ELSE Expired(period[i], now + 1)]
  /\ pc' = [i \in Active |-> IF Due(i) /\ pc[i] = "blocked" THEN "job" ELSE pc[i]]
  /\ UNCHANGED <<wake, coordVars, eventVars, gate, anchor, arm, job, rec, count>>

(***************************************************************************)
(* The specification.                                                      *)
(***************************************************************************)
CoordinatorStep ==
  \/ PlanEpoch \/ SleepToEpoch \/ ReadEpoch
  \/ \E i \in Active : SendArm(i)
  \/ Collect \/ CoordinatorArrives \/ PrintResults

WorkerStep(i) ==
  \/ CreatePeriod(i) \/ ReceiveArm(i) \/ ActivatePeriod(i) \/ ReportArmed(i)
  \/ WorkerArrives(i) \/ CallPeriod(i) \/ MeasureStep(i) \/ CompleteJob(i)
  \/ CancelPeriod(i) \/ DeletePeriod(i)

\* The Horizon leaves somebody waiting for a tick that does not come.
OutOfTime ==
  /\ now = Horizon
  /\ \/ \E i \in Active : pc[i] = "blocked"
     \/ cpc = "sleep" /\ now < wake

\* The run is over, or stands still where the model's time ends.
Stopped == (cpc = "exited" \/ OutOfTime) /\ UNCHANGED vars

Next == CoordinatorStep \/ (\E i \in Active : WorkerStep(i)) \/ Tick \/ Stopped

Spec == Init /\ [][Next]_vars

\* Every thread that can run is dispatched in the end, and time passes.
Fairness ==
  /\ WF_vars(CoordinatorStep)
  /\ \A i \in Active : WF_vars(WorkerStep(i))
  /\ WF_vars(Tick)

FairSpec == Spec /\ Fairness

(***************************************************************************)
(* Properties.                                                             *)
(***************************************************************************)
JobLabels == {"job", "opened", "sampled", "exec", "closing", "complete"}
WorkerLabels == JobLabels \cup
  {"create", "arm", "activate", "after", "gate", "period", "blocked",
   "cancel", "finish", "delete", "gone"}
CoordinatorLabels == {"ready", "plan", "sleep", "send", "armed", "gate", "run",
                      "finish", "deleted", "print", "exited"}
Records == [status : {"none", "successful", "timeout"},
            start : Nat, before : Periods, beforeEnd : Nat,
            checksum : {"expected", "wrong"}, after : Periods, completion : Nat]

ThreadsTyped ==
  /\ cpc \in CoordinatorLabels
  /\ sent \in SUBSET Active
  /\ pc \in [Active -> WorkerLabels]
  /\ armed \in SUBSET Active
  /\ events \in SUBSET Active
  /\ gate \in SUBSET (Active \cup {Coordinator})

TimesTyped ==
  /\ now \in Nat /\ t0 \in Nat /\ wake \in Nat
  /\ period \in [Active -> Periods]
  /\ anchor \in [Active -> Nat]
  /\ arm \in [Active -> [before : Nat, after : Nat]]

JobsTyped ==
  /\ job \in [Active -> Nat]
  /\ count \in [Active -> Nat]
  /\ rec \in [Active -> Records]
  /\ \A i \in Active : job[i] < JobCount[i] /\ count[i] <= JobCount[i]

\* Every variable has its type, and no worker leaves its row of jobs[][].
TypeOK == ThreadsTyped /\ TimesTyped /\ JobsTyped

\* Event bits do not count: a worker that signals while its previous bit is
\* still pending loses a signal, and the coordinator waits for ever.  Four
\* signals of a worker meet four collections of the coordinator.
NoSignalLost ==
  /\ \A i \in Active : pc[i] \in {"create", "after", "cancel", "delete"} => i \notin events
  /\ \A i \in Active : cpc = "send" /\ i \notin sent => i \notin armed

\* The one barrier object serves two meetings; threads of both never mix in it.
GateUnmixed ==
  \A i \in Active \cap gate, x \in gate :
    IF x = Coordinator THEN cpc = pc[i] ELSE pc[x] = pc[i]

InJob(i) == pc[i] \in JobLabels

\* Every timer expiry since the epoch is accounted for as a job that ran, the
\* job running, or a postponed release, however late the worker is: the period
\* timer stands exactly `postponed' periods after the running job's deadline.
OnSchedule(i) ==
  InJob(i) => period[i].timer = Deadline(i, job[i] + period[i].postponed, anchor[i])

\* init.c on the epoch and phases of releases: the first job is released at
\* t0 + offset and every later job a period after the previous one.
ReleasesPeriodic == \A i \in Active : OnSchedule(i)

\* No job runs before its nominal release, not even one that catches up after
\* a postponed release.
NeverEarly == \A i \in Active : InJob(i) => now >= Release(i, job[i], anchor[i])

\* The handshake keeps the phases of the run apart: PhasedRun.
PhaseOf(label) ==
  CASE label = "create" -> "starting"
    [] label \in {"arm", "activate"} -> "created"
    [] label \in {"after", "gate"} -> "armed"
    [] label \in JobLabels \cup {"period", "blocked", "cancel"} -> "running"
    [] label = "finish" -> "stopped"
    [] label = "delete" -> "teardown"
    [] label = "gone" -> "deleted"

Phased == INSTANCE PhasedRun WITH phase <- [i \in Active |-> PhaseOf(pc[i])],
                                  printed <- cpc = "exited"

PhasedSpec == Phased!Spec

\* The run prints its results and exits, unless the Horizon leaves somebody
\* waiting for a tick: no handshake, event or barrier can block for ever.
RunEnds == <>(cpc = "exited" \/ OutOfTime)

(***************************************************************************)
(* The inductive invariants behind these properties (proved in             *)
(* PeriodicRunnerProofs).                                                  *)
(***************************************************************************)
\* Where a worker may be while the coordinator is at its label.
MeetInv == \A i \in Active :
  /\ cpc = "ready" => pc[i] \in {"create", "arm"}
  /\ cpc \in {"plan", "sleep"} => pc[i] = "arm"
  /\ cpc \in {"send", "armed"} => pc[i] \in {"arm", "activate", "after", "gate"}
  /\ cpc = "gate" => pc[i] = "gate"
  /\ cpc = "run" =>
       pc[i] \in JobLabels \cup {"period", "blocked", "cancel", "finish"}
  /\ cpc = "finish" => pc[i] = "finish"
  /\ cpc = "deleted" => pc[i] \in {"delete", "gone"}
  /\ cpc \in {"print", "exited"} => pc[i] = "gone"

\* A bit is pending exactly between a worker's signal and the collection of it.
EventsInv == \A i \in Active :
  i \in events <=> \/ cpc = "ready" /\ pc[i] = "arm"
                   \/ cpc \in {"send", "armed"} /\ pc[i] = "gate"
                   \/ cpc = "run" /\ pc[i] = "finish"
                   \/ cpc = "deleted" /\ pc[i] = "gone"

ArmInv ==
  /\ cpc \in {"ready", "plan", "sleep"} => sent = {}
  /\ \A i \in Active : /\ i \in armed <=> i \in sent /\ pc[i] = "arm"
                       /\ i \notin sent => pc[i] \in {"create", "arm"}

GateInv ==
  /\ \A i \in Active : i \in gate => pc[i] \in {"gate", "finish"}
  /\ Coordinator \in gate => cpc \in {"gate", "finish"}

HandshakeInv == ThreadsTyped /\ MeetInv /\ EventsInv /\ ArmInv /\ GateInv

\* Labels at which a worker's period runs.
Armed == JobLabels \cup {"after", "gate", "period", "blocked", "cancel"}

\* A worker has one record for each job before the present one, until it
\* stops, and none before it passed the start gate.
CountInv == \A i \in Active :
  /\ pc[i] \notin {"cancel", "finish", "delete", "gone"} => count[i] = job[i]
  /\ pc[i] \in {"create", "arm", "activate", "after", "gate"} => job[i] = 0

\* A period in use is not inactive; it is expired only while a release is
\* postponed, and a blocked worker has none.
PeriodInv == \A i \in Active :
  /\ pc[i] \in Armed => period[i].state # "inactive"
  /\ period[i].state = "expired" => period[i].postponed > 0
  /\ pc[i] = "blocked" => period[i].state = "active" /\ period[i].postponed = 0

\* The job the next expiry of the timer of task i would release.
NextJob(i) == job[i] + period[i].postponed + (IF pc[i] \in {"period", "blocked"} THEN 0 ELSE 1)

\* Task i, which has no offset, keeps its timer on the nominal schedule, and
\* the last expiry is past.
ScheduleInv(i) ==
  pc[i] \in Armed \ {"cancel"} =>
    /\ period[i].next = PeriodOf[i]
    /\ period[i].timer = anchor[i] + NextJob(i) * PeriodOf[i]
    /\ period[i].timer <= now + PeriodOf[i]
    /\ anchor[i] <= now
    /\ InJob(i) => now >= anchor[i] + job[i] * PeriodOf[i]

RunnerInv ==
  /\ HandshakeInv
  /\ TimesTyped
  /\ JobsTyped
  /\ CountInv
  /\ PeriodInv
  /\ \A i \in Active : OffsetOf[i] = 0 => ScheduleInv(i)
=============================================================================
