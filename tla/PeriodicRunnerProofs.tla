------------------------- MODULE PeriodicRunnerProofs -------------------------
(***************************************************************************)
(* RunnerInv is an inductive invariant of PeriodicRunner for any task set, *)
(* periods, offsets and job counts.  It yields the handshake's properties  *)
(* and, for tasks without offset, the exactness of the release schedule.   *)
(* MeasuredInv is one of the run judged by the host: it yields that what   *)
(* the host accepts ran on its schedule, and that target and host agree on *)
(* what ends a hard task.                                                  *)
(***************************************************************************)
EXTENDS PeriodicMeasurement, FiniteSetTheorems, TLAPS

\* The tasks that take part are tasks of the plan; the coordinator is none.
LEMMA ActiveTasks == Active \subseteq Tasks /\ Coordinator \notin Active /\ IsFiniteSet(Active)
BY TasksAssumption, FS_Singleton, FS_Subset DEF Active

\* The barrier opens exactly when all workers and the coordinator have come.
LEMMA BarrierFull ==
  ASSUME NEW here \in SUBSET (Active \cup {Coordinator}),
         Cardinality(here) = BarrierCount
  PROVE  here = Active \cup {Coordinator}
<1>1. IsFiniteSet(Active \cup {Coordinator})
  BY ActiveTasks, FS_AddElement
<1>2. Cardinality(Active \cup {Coordinator}) = BarrierCount
  <2>1. Cardinality(Active \cup {Coordinator}) = Cardinality(Active) + 1
    BY ActiveTasks, FS_AddElement
  <2>2. CASE ChaserMode = Everyone
    BY <2>1, <2>2 DEF Active, BarrierCount
  <2>3. CASE ChaserMode # Everyone
    <3>1. Active = {ChaserMode} /\ BarrierCount = 2
      BY <2>3 DEF Active, BarrierCount
    <3>2. Cardinality({ChaserMode}) = 1
      BY FS_Singleton
    <3> QED BY <2>1, <3>1, <3>2
  <2> QED BY <2>2, <2>3
<1> QED BY <1>1, <1>2, FS_Subset

\* What a thread's arrival at the barrier does: it waits, or all pass.
LEMMA ArriveCases ==
  ASSUME HandshakeInv, NEW x \in Active \cup {Coordinator}, Arrive(x)
  PROVE  \/ /\ gate' = gate \cup {x}
            /\ UNCHANGED <<pc, cpc>>
         \/ /\ gate \cup {x} = Active \cup {Coordinator}
            /\ gate' = {}
            /\ pc' = [i \in Active |-> WorkerPast(i)]
            /\ cpc' = CoordinatorPast
<1>1. CASE Cardinality(gate \cup {x}) = BarrierCount
  <2>1. gate \cup {x} = Active \cup {Coordinator}
    BY <1>1, BarrierFull DEF HandshakeInv, ThreadsTyped
  <2> QED BY <1>1, <2>1 DEF Arrive
<1>2. CASE Cardinality(gate \cup {x}) # BarrierCount
  BY <1>2 DEF Arrive
<1> QED BY <1>1, <1>2

\* A step of a measured job moves the worker among the labels of a job and
\* touches nothing but its record.
LEMMA MeasureMoves ==
  ASSUME NEW i \in Active, MeasureStep(i)
  PROVE  /\ \E to \in JobLabels : pc[i] \in JobLabels \ {"complete"} /\ Goto(i, to)
         /\ UNCHANGED <<clockVars, coordVars, eventVars, gate, period, anchor, arm, job, count>>
BY DEF MeasureStep, StartJob, StatusBefore, BeginExec, EndJob, StatusAfter, Recorded, JobLabels

\* The invariant of the handshake: every step of every thread, and the clock.
LEMMA HandshakeStep ==
  ASSUME HandshakeInv, Next
  PROVE  HandshakeInv'
<1> USE ActiveTasks DEF ThreadsTyped, WorkerLabels, JobLabels, CoordinatorLabels
<1>1. CASE PlanEpoch
  BY <1>1 DEF HandshakeInv, MeetInv, EventsInv, ArmInv, GateInv, PlanEpoch, CoordinatorGoes, CollectAll
<1>2. CASE SleepToEpoch
  BY <1>2 DEF HandshakeInv, MeetInv, EventsInv, ArmInv, GateInv, SleepToEpoch, CoordinatorGoes, eventVars
<1>3. CASE ReadEpoch
  BY <1>3 DEF HandshakeInv, MeetInv, EventsInv, ArmInv, GateInv, ReadEpoch, CoordinatorGoes, eventVars
<1>4. ASSUME NEW i \in Active, SendArm(i) PROVE HandshakeInv'
  BY <1>4 DEF HandshakeInv, MeetInv, EventsInv, ArmInv, GateInv, SendArm
<1>5. CASE Collect
  BY <1>5 DEF HandshakeInv, MeetInv, EventsInv, ArmInv, GateInv, Collect, CoordinatorGoes, CollectAll
<1>6. CASE PrintResults
  BY <1>6 DEF HandshakeInv, MeetInv, EventsInv, ArmInv, GateInv, PrintResults, CoordinatorGoes, eventVars
<1>7. ASSUME NEW x \in Active \cup {Coordinator}, Arrive(x),
             x = Coordinator => cpc \in {"gate", "finish"},
             \A i \in Active : x = i => pc[i] \in {"gate", "finish"},
             UNCHANGED <<sent, armed, events>>
      PROVE  HandshakeInv'
  <2>1. CASE gate' = gate \cup {x} /\ UNCHANGED <<pc, cpc>>
    BY <1>7, <2>1 DEF HandshakeInv, MeetInv, EventsInv, ArmInv, GateInv
  <2>2. CASE /\ gate \cup {x} = Active \cup {Coordinator}
             /\ gate' = {}
             /\ pc' = [i \in Active |-> WorkerPast(i)]
             /\ cpc' = CoordinatorPast
    <3>1. cpc \in {"gate", "finish"}
      BY <1>7, <2>2 DEF HandshakeInv, GateInv
    <3>2. CASE cpc = "gate"
      <4>1. \A i \in Active : pc[i] = "gate" /\ pc'[i] \in {"period", "job"}
        BY <2>2, <3>2 DEF HandshakeInv, MeetInv, WorkerPast
      <4> QED
        BY <1>7, <2>2, <3>2, <4>1
           DEF HandshakeInv, MeetInv, EventsInv, ArmInv, GateInv, CoordinatorPast, WorkerPast
    <3>3. CASE cpc = "finish"
      <4>1. \A i \in Active : pc[i] = "finish" /\ pc'[i] = "delete"
        BY <2>2, <3>3 DEF HandshakeInv, MeetInv, WorkerPast
      <4> QED
        BY <1>7, <2>2, <3>3, <4>1
           DEF HandshakeInv, MeetInv, EventsInv, ArmInv, GateInv, CoordinatorPast, WorkerPast
    <3> QED BY <3>1, <3>2, <3>3
  <2> QED BY <1>7, <2>1, <2>2, ArriveCases
<1>8. CASE CoordinatorArrives
  BY <1>7, <1>8 DEF CoordinatorArrives, eventVars
<1>9. ASSUME NEW i \in Active, WorkerStep(i) PROVE HandshakeInv'
  <2>1. CASE CreatePeriod(i)
    BY <1>9, <2>1 DEF HandshakeInv, MeetInv, EventsInv, ArmInv, GateInv, CreatePeriod, Goto, Signal, coordVars, eventVars
  <2>2. CASE ReceiveArm(i)
    BY <1>9, <2>2 DEF HandshakeInv, MeetInv, EventsInv, ArmInv, GateInv, ReceiveArm, Goto, Signal, coordVars, eventVars
  <2>3. CASE ActivatePeriod(i)
    BY <1>9, <2>3 DEF HandshakeInv, MeetInv, EventsInv, ArmInv, GateInv, ActivatePeriod, Goto, Signal, coordVars, eventVars
  <2>4. CASE ReportArmed(i)
    BY <1>9, <2>4 DEF HandshakeInv, MeetInv, EventsInv, ArmInv, GateInv, ReportArmed, Goto, Signal, coordVars, eventVars
  <2>5. CASE CallPeriod(i)
    BY <1>9, <2>5 DEF HandshakeInv, MeetInv, EventsInv, ArmInv, GateInv, CallPeriod, Goto, Signal, coordVars, eventVars
  <2>6. CASE MeasureStep(i)
    <3>1. /\ UNCHANGED <<cpc, sent, armed, events, gate>>
          /\ \E to \in JobLabels : pc[i] \in JobLabels /\ Goto(i, to)
      BY <2>6, MeasureMoves DEF coordVars, eventVars
    <3> QED BY <3>1 DEF HandshakeInv, MeetInv, EventsInv, ArmInv, GateInv, Goto
  <2>8. CASE CompleteJob(i)
    BY <1>9, <2>8 DEF HandshakeInv, MeetInv, EventsInv, ArmInv, GateInv, CompleteJob, Goto, Signal, coordVars, eventVars
  <2>9. CASE CancelPeriod(i)
    BY <1>9, <2>9 DEF HandshakeInv, MeetInv, EventsInv, ArmInv, GateInv, CancelPeriod, Goto, Signal, coordVars, eventVars
  <2>10. CASE DeletePeriod(i)
    BY <1>9, <2>10 DEF HandshakeInv, MeetInv, EventsInv, ArmInv, GateInv, DeletePeriod, Goto, Signal, coordVars, eventVars
  <2>11. CASE WorkerArrives(i)
    BY <1>7, <1>9, <2>11 DEF WorkerArrives, eventVars
  <2> QED BY <1>9, <2>1, <2>2, <2>3, <2>4, <2>5, <2>6, <2>8, <2>9, <2>10, <2>11 DEF WorkerStep
<1>10. CASE Tick
  <2>1. \A i \in Active : pc'[i] = pc[i] \/ (pc[i] = "blocked" /\ pc'[i] = "job")
    BY <1>10 DEF HandshakeInv, Tick
  <2>2. pc' \in [Active -> WorkerLabels]
    BY <1>10 DEF HandshakeInv, Tick
  <2>3. UNCHANGED <<cpc, sent, armed, events, gate>>
    BY <1>10 DEF Tick, coordVars, eventVars
  <2> QED
    BY <2>1, <2>2, <2>3 DEF HandshakeInv, MeetInv, EventsInv, ArmInv, GateInv
<1>11. CASE Stopped
  BY <1>11 DEF HandshakeInv, MeetInv, EventsInv, ArmInv, GateInv, Stopped, vars, coordVars, eventVars
<1> QED
  BY <1>1, <1>2, <1>3, <1>4, <1>5, <1>6, <1>8, <1>9, <1>10, <1>11 DEF Next, CoordinatorStep

\* The handshake starts with every worker creating its period.
LEMMA HandshakeInit == ASSUME Init PROVE HandshakeInv
BY DEF Init, HandshakeInv, ThreadsTyped, CoordinatorLabels, WorkerLabels, JobLabels,
       MeetInv, EventsInv, ArmInv, GateInv

\* The handshake's invariant holds in every reachable state.
THEOREM Handshake == Spec => []HandshakeInv
<1>1. HandshakeInv /\ UNCHANGED vars => HandshakeInv'
  BY DEF vars, coordVars, eventVars, HandshakeInv, ThreadsTyped, MeetInv, EventsInv, ArmInv, GateInv
<1> QED BY <1>1, HandshakeInit, HandshakeStep, PTL DEF Spec

\* No signal of a worker or of the coordinator meets a bit that is still
\* pending: none of them is lost.
THEOREM SignalsArrive == Spec => []NoSignalLost
<1>1. HandshakeInv => NoSignalLost
  BY DEF HandshakeInv, MeetInv, EventsInv, ArmInv, ThreadsTyped, CoordinatorLabels, NoSignalLost
<1> QED BY <1>1, Handshake, PTL

\* Threads of the start and of the teardown never meet at the barrier.
THEOREM MeetingsApart == Spec => []GateUnmixed
<1>1. HandshakeInv => GateUnmixed
  BY DEF HandshakeInv, MeetInv, GateInv, ThreadsTyped, CoordinatorLabels, GateUnmixed, JobLabels
<1> QED BY <1>1, Handshake, PTL

(***************************************************************************)
(* The handshake implements PhasedRun.                                     *)
(***************************************************************************)
\* A step that moves worker i from label to label shows as the move of its
\* phase, or not at all when the phase stays the same.
LEMMA PhaseMove ==
  ASSUME ThreadsTyped, NEW i \in Active, NEW to \in WorkerLabels, Goto(i, to)
  PROVE  [k \in Active |-> PhaseOf(pc[k])]' =
           [[k \in Active |-> PhaseOf(pc[k])] EXCEPT ![i] = PhaseOf(to)]
BY DEF ThreadsTyped, Goto

\* Every step of the runner is a step of PhasedRun or invisible to it.
LEMMA PhasedStep ==
  ASSUME HandshakeInv, [Next]_vars
  PROVE  [Phased!Next]_Phased!vars
<1> DEFINE phases == [i \in Active |-> PhaseOf(pc[i])]
           printed == cpc = "exited"
<1>0. ThreadsTyped
  BY DEF HandshakeInv
<1>1. CASE UNCHANGED <<pc, cpc>>
  BY <1>1 DEF Phased!vars
<1>2. CASE UNCHANGED pc /\ cpc # "exited" /\ cpc' # "exited"
  BY <1>2 DEF Phased!vars
<1>3. CASE PrintResults
  <2>1. \A i \in Active : pc[i] = "gone"
    BY <1>3 DEF HandshakeInv, MeetInv, PrintResults, CoordinatorGoes
  <2>2. Phased!All("deleted") /\ ~printed /\ printed' /\ phases' = phases
    BY <1>3, <2>1 DEF Phased!All, PhaseOf, PrintResults, CoordinatorGoes
  <2> QED BY <2>2 DEF Phased!Next, Phased!PrintResults
<1>4. ASSUME NEW x \in Active \cup {Coordinator}, Arrive(x),
             x = Coordinator => cpc \in {"gate", "finish"}
      PROVE  [Phased!Next]_Phased!vars
  <2>1. CASE UNCHANGED <<pc, cpc>>
    BY <1>1, <2>1
  <2>2. CASE /\ gate \cup {x} = Active \cup {Coordinator}
             /\ pc' = [i \in Active |-> WorkerPast(i)]
             /\ cpc' = CoordinatorPast
    <3>1. cpc \in {"gate", "finish"} /\ cpc' # "exited"
      BY <1>4, <2>2 DEF HandshakeInv, GateInv, CoordinatorPast
    <3>2. CASE cpc = "gate"
      <4>1. \A i \in Active : pc[i] = "gate" /\ pc'[i] \in {"period", "job"}
        BY <2>2, <3>2 DEF HandshakeInv, MeetInv, WorkerPast
      <4>2. Phased!All("armed") /\ phases' = [i \in Active |-> "running"]
        BY <4>1 DEF Phased!All, PhaseOf, JobLabels
      <4> QED BY <3>1, <3>2, <4>2 DEF Phased!Next, Phased!Go, Phased!MoveAll
    <3>3. CASE cpc = "finish"
      <4>1. \A i \in Active : pc[i] = "finish" /\ pc'[i] = "delete"
        BY <2>2, <3>3 DEF HandshakeInv, MeetInv, WorkerPast
      <4>2. Phased!All("stopped") /\ phases' = [i \in Active |-> "teardown"]
        BY <4>1 DEF Phased!All, PhaseOf
      <4> QED BY <3>1, <3>3, <4>2 DEF Phased!Next, Phased!Teardown, Phased!MoveAll
    <3> QED BY <3>1, <3>2, <3>3
  <2> QED BY <1>4, <2>1, <2>2, ArriveCases
<1>5. CASE CoordinatorStep
  <2>1. CASE CoordinatorArrives
    BY <1>4, <2>1 DEF CoordinatorArrives
  <2>2. CASE PrintResults
    BY <1>3, <2>2
  <2>3. CASE \/ PlanEpoch \/ SleepToEpoch \/ ReadEpoch \/ Collect
             \/ \E i \in Active : SendArm(i)
    BY <1>2, <2>3
       DEF PlanEpoch, SleepToEpoch, ReadEpoch, Collect, SendArm, CoordinatorGoes
  <2> QED BY <1>5, <2>1, <2>2, <2>3 DEF CoordinatorStep
<1>6. ASSUME NEW i \in Active, NEW to \in WorkerLabels, Goto(i, to),
             PhaseOf(to) = PhaseOf(pc[i]), UNCHANGED cpc
      PROVE  [Phased!Next]_Phased!vars
  <2>1. phases' = phases
    BY <1>0, <1>6, PhaseMove
  <2> QED BY <1>6, <2>1 DEF Phased!vars
<1>7. ASSUME NEW i \in Active, NEW to \in WorkerLabels, Goto(i, to),
             NEW from, PhaseOf(pc[i]) = from, UNCHANGED cpc
      PROVE  Phased!Move(i, from, PhaseOf(to))
  BY <1>0, <1>7, PhaseMove DEF Phased!Move
<1>8. ASSUME NEW i \in Active, WorkerStep(i) PROVE [Phased!Next]_Phased!vars
  <2> USE DEF WorkerLabels, JobLabels
  <2>1. CASE CreatePeriod(i)
    <3>1. Phased!Create(i)
      BY <1>7, <2>1 DEF CreatePeriod, coordVars, PhaseOf, Phased!Create
    <3> QED BY <3>1 DEF Phased!Next
  <2>2. CASE ActivatePeriod(i)
    <3>1. \A k \in Active : PhaseOf(pc[k]) # "starting"
      BY <1>0, <2>2 DEF HandshakeInv, MeetInv, ThreadsTyped, CoordinatorLabels, ActivatePeriod, PhaseOf
    <3>2. Phased!Arm(i)
      BY <1>7, <2>2, <3>1 DEF ActivatePeriod, coordVars, PhaseOf, Phased!Arm
    <3> QED BY <3>2 DEF Phased!Next
  <2>3. CASE CancelPeriod(i)
    <3>1. Phased!Stop(i)
      BY <1>7, <2>3 DEF CancelPeriod, coordVars, PhaseOf, Phased!Stop
    <3> QED BY <3>1 DEF Phased!Next
  <2>4. CASE DeletePeriod(i)
    <3>1. Phased!Delete(i)
      BY <1>7, <2>4 DEF DeletePeriod, coordVars, PhaseOf, Phased!Delete
    <3> QED BY <3>1 DEF Phased!Next
  <2>5. CASE WorkerArrives(i)
    BY <1>4, <2>5, ActiveTasks DEF WorkerArrives
  <2>6. CASE ReceiveArm(i) \/ ReportArmed(i)
    BY <1>6, <2>6 DEF ReceiveArm, ReportArmed, coordVars, PhaseOf
  <2>7. CASE CallPeriod(i)
    BY <1>6, <2>7 DEF CallPeriod, coordVars, PhaseOf
  <2>9. CASE MeasureStep(i)
    BY <1>6, <2>9, MeasureMoves DEF coordVars, PhaseOf
  <2>8. CASE CompleteJob(i)
    BY <1>6, <2>8 DEF CompleteJob, coordVars, PhaseOf
  <2> QED BY <1>8, <2>1, <2>2, <2>3, <2>4, <2>5, <2>6, <2>7, <2>8, <2>9 DEF WorkerStep
<1>9. CASE Tick
  <2>1. \A i \in Active : pc'[i] = pc[i] \/ (pc[i] = "blocked" /\ pc'[i] = "job")
    BY <1>0, <1>9 DEF ThreadsTyped, Tick
  <2>2. \A i \in Active : PhaseOf(pc'[i]) = PhaseOf(pc[i])
    BY <2>1 DEF PhaseOf, JobLabels
  <2>3. phases' = phases
    BY <2>2
  <2> QED BY <1>9, <2>3 DEF Tick, coordVars, Phased!vars
<1>10. CASE UNCHANGED vars
  BY <1>1, <1>10 DEF vars, coordVars
<1> QED BY <1>5, <1>8, <1>9, <1>10 DEF Next, Stopped

\* PhasedRun starts where the runner does.
LEMMA PhasedInit == ASSUME Init PROVE Phased!Init
BY DEF Init, Phased!Init, PhaseOf, JobLabels

\* No period is armed before every period exists, no job runs before every
\* period is armed, and nothing is deleted or printed before all have stopped.
THEOREM ImplementsPhases == Spec => PhasedSpec
BY PhasedInit, PhasedStep, Handshake, PTL DEF Spec, PhasedSpec, Phased!Spec

(***************************************************************************)
(* Types, and the state of the periods.                                    *)
(***************************************************************************)
\* The outcomes of the period's operations are periods; a postponed release
\* can only be taken when there is one.
LEMMA PeriodTypes ==
  ASSUME NEW per \in Periods, NEW length \in Nat, NEW tick \in Nat
  PROVE  /\ NoPeriod \in Periods
         /\ Activated(length, tick) \in Periods
         /\ Concluded(per, length) \in Periods
         /\ per.postponed > 0 => ReleasedLate(per, length) \in Periods
         /\ Restarted(per, tick) \in Periods
         /\ Expired(per, tick) \in Periods
<1> USE DEF Periods, States
<1>1. NoPeriod \in Periods
  BY DEF NoPeriod
<1>2. Activated(length, tick) \in Periods
  BY DEF Activated
<1>3. Concluded(per, length) \in Periods
  BY DEF Concluded
<1>4. ASSUME per.postponed > 0 PROVE ReleasedLate(per, length) \in Periods
  <2>1. per.postponed - 1 \in Nat
    BY <1>4
  <2> QED BY <2>1 DEF ReleasedLate
<1>5. Restarted(per, tick) \in Periods
  <2>1. tick + per.next \in Nat
    OBVIOUS
  <2> QED BY <2>1 DEF Restarted
<1>6. Expired(per, tick) \in Periods
  <2>1. tick + per.next \in Nat /\ per.postponed + 1 \in Nat
    OBVIOUS
  <2> QED BY <2>1 DEF Expired
<1> QED BY <1>1, <1>2, <1>3, <1>4, <1>5, <1>6

\* A call that does not block finds a release postponed.
LEMMA LateCall ==
  ASSUME RunnerInv, NEW i \in Active, pc[i] = "period", ~Blocks(period[i])
  PROVE  period[i].postponed > 0
BY DEF RunnerInv, TimesTyped, PeriodInv, Armed, Blocks, Periods, States

\* Plans have natural lengths.
LEMMA PlanTypes == 
  \A i \in Active : PeriodOf[i] \in Nat \ {0} /\ OffsetOf[i] \in Nat /\ JobCount[i] \in Nat
BY ActiveTasks, PlanAssumption

\* The clock's step in the terms of one worker.
LEMMA TickCases ==
  ASSUME RunnerInv, Tick, NEW i \in Active
  PROVE  \/ /\ Due(i) /\ pc[i] = "blocked" /\ pc'[i] = "job"
            /\ period'[i] = Restarted(period[i], now + 1)
         \/ /\ Due(i) /\ pc[i] # "blocked" /\ pc'[i] = pc[i]
            /\ period'[i] = Expired(period[i], now + 1)
         \/ /\ ~Due(i) /\ pc'[i] = pc[i] /\ period'[i] = period[i]
BY DEF Tick

\* Every clock reading, tick and period keeps its type.
LEMMA TimesStep ==
  ASSUME RunnerInv, Next
  PROVE  TimesTyped'
<1> USE PlanTypes
<1>0. TimesTyped
  BY DEF RunnerInv
<1>1. CASE CoordinatorStep
  BY <1>0, <1>1, PlanAssumption
     DEF CoordinatorStep, PlanEpoch, SleepToEpoch, ReadEpoch, SendArm, Collect,
         CoordinatorArrives, PrintResults, TimesTyped, clockVars, workerVars
<1>2. ASSUME NEW i \in Active, WorkerStep(i) PROVE TimesTyped'
  <2>1. CASE UNCHANGED <<now, t0, wake, period, anchor, arm>>
    BY <1>0, <2>1 DEF TimesTyped
  <2>2. CASE ReceiveArm(i) \/ ReportArmed(i)
    BY <1>0, <2>2 DEF ReceiveArm, ReportArmed, TimesTyped, clockVars, coordVars
  <2>3. CASE ActivatePeriod(i)
    BY <1>0, <2>3, PeriodTypes DEF ActivatePeriod, TimesTyped, clockVars, coordVars
  <2>4. CASE CallPeriod(i)
    <3>1. period[i] \in Periods /\ PeriodOf[i] \in Nat
      BY <1>0 DEF TimesTyped
    <3>2. CASE Blocks(period[i])
      <4>1. Concluded(period[i], PeriodOf[i]) \in Periods
        BY <3>1, PeriodTypes
      <4> QED BY <1>0, <2>4, <3>2, <4>1 DEF CallPeriod, TimesTyped, clockVars, coordVars
    <3>3. CASE ~Blocks(period[i])
      <4>1. period[i].postponed > 0
        BY <2>4, <3>3, LateCall DEF CallPeriod
      <4>2. ReleasedLate(period[i], PeriodOf[i]) \in Periods
        BY <3>1, <4>1, PeriodTypes
      <4> QED BY <1>0, <2>4, <3>3, <4>2 DEF CallPeriod, TimesTyped, clockVars, coordVars
    <3> QED BY <3>2, <3>3
  <2>5. CASE CancelPeriod(i)
    BY <1>0, <2>5, PeriodTypes DEF CancelPeriod, TimesTyped, clockVars, coordVars
  <2>6. CASE MeasureStep(i)
    BY <2>1, <2>6, MeasureMoves DEF clockVars, coordVars
  <2> QED
    BY <1>2, <2>1, <2>2, <2>3, <2>4, <2>5, <2>6
       DEF WorkerStep, CreatePeriod, WorkerArrives, CompleteJob, DeletePeriod,
           clockVars, coordVars, workerVars
<1>3. CASE Tick
  <2>1. now' \in Nat /\ UNCHANGED <<t0, wake, anchor, arm>>
    BY <1>0, <1>3 DEF Tick, TimesTyped, coordVars
  <2>2. \A i \in Active : period'[i] \in Periods
    BY <1>0, <1>3, TickCases, PeriodTypes DEF TimesTyped
  <2>3. period' = [i \in Active |-> period'[i]]
    BY <1>3 DEF Tick
  <2> QED BY <1>0, <2>1, <2>2, <2>3 DEF TimesTyped
<1>4. CASE Stopped
  BY <1>0, <1>4 DEF Stopped, vars, clockVars, coordVars, workerVars, TimesTyped
<1> QED BY <1>1, <1>2, <1>3, <1>4 DEF Next

\* A step of a measured job writes one reading into the record.
LEMMA MeasuredRecords ==
  ASSUME NEW i \in Active, MeasureStep(i),
         rec[i] \in Records, period[i] \in Periods, now \in Nat
  PROVE  \E r \in Records : rec' = [rec EXCEPT ![i] = r]
<1>1. /\ [rec[i] EXCEPT !.start = now] \in Records
      /\ [rec[i] EXCEPT !.beforeEnd = now] \in Records
      /\ [rec[i] EXCEPT !.before = period[i]] \in Records
      /\ [rec[i] EXCEPT !.after = period[i]] \in Records
      /\ \A sum \in Checksums : [rec[i] EXCEPT !.checksum = sum] \in Records
  BY PlanAssumption DEF Records
<1> QED
  BY <1>1 DEF MeasureStep, StartJob, StatusBefore, BeginExec, EndJob, StatusAfter, Recorded

\* A worker's record keeps its type, and its job index and record count stay in
\* its row: the record count follows the job index while it runs.
LEMMA JobsStep ==
  ASSUME RunnerInv, Next
  PROVE  JobsTyped'
<1> USE PlanTypes
<1>0. JobsTyped /\ TimesTyped /\ CountInv
  BY DEF RunnerInv
<1>1. CASE UNCHANGED <<job, rec, count>>
  BY <1>0, <1>1 DEF JobsTyped
<1>2. ASSUME NEW i \in Active, WorkerStep(i) PROVE JobsTyped'
  <2>0. rec[i] \in Records /\ period[i] \in Periods /\ now \in Nat
    BY <1>0 DEF JobsTyped, TimesTyped
  <2>1. ASSUME NEW r \in Records, rec' = [rec EXCEPT ![i] = r], UNCHANGED <<job, count>>
        PROVE  JobsTyped'
    BY <1>0, <2>1 DEF JobsTyped
  <2>2. CASE ActivatePeriod(i)
    <3>1. [rec[i] EXCEPT !.status = "successful"] \in Records
      BY <2>0 DEF Records
    <3> QED BY <1>1, <2>1, <2>2, <3>1 DEF ActivatePeriod
  <2>3. CASE CallPeriod(i)
    <3>1. ASSUME NEW outcome \in {"successful", "timeout"}
          PROVE  [rec[i] EXCEPT !.status = outcome] \in Records
      BY <2>0 DEF Records
    <3> QED BY <2>1, <2>3, <3>1 DEF CallPeriod
  <2>4. CASE MeasureStep(i)
    <3>1. PICK r \in Records : rec' = [rec EXCEPT ![i] = r]
      BY <2>0, <2>4, MeasuredRecords
    <3> QED BY <2>1, <2>4, <3>1, MeasureMoves
  <2>6. CASE CompleteJob(i)
    <3>1. NoRecord \in Records
      BY PeriodTypes DEF NoRecord, Records, Periods, States, NoPeriod
    <3>2. rec' \in [Active -> Records]
      BY <1>0, <2>6, <3>1 DEF CompleteJob, JobsTyped
    <3>3. /\ count[i] = job[i] /\ job[i] \in Nat /\ job[i] < JobCount[i]
          /\ count' = [count EXCEPT ![i] = job[i] + 1]
      BY <1>0, <2>6 DEF CompleteJob, CountInv, JobsTyped
    <3>4. \/ job' = [job EXCEPT ![i] = job[i] + 1] /\ job[i] + 1 # JobCount[i]
          \/ job' = [job EXCEPT ![i] = job[i]]
      BY <2>6 DEF CompleteJob
    <3>5. job' \in [Active -> Nat] /\ count' \in [Active -> Nat]
      BY <1>0, <3>3, <3>4 DEF JobsTyped
    <3>6. \A k \in Active : job'[k] < JobCount[k] /\ count'[k] <= JobCount[k]
      BY <1>0, <3>3, <3>4 DEF JobsTyped
    <3> QED BY <3>2, <3>5, <3>6 DEF JobsTyped
  <2> QED
    BY <1>1, <1>2, <2>2, <2>3, <2>4, <2>6
       DEF WorkerStep, CreatePeriod, ReceiveArm, ReportArmed, WorkerArrives, CancelPeriod,
           DeletePeriod, workerVars
<1>3. CASE CoordinatorStep
  BY <1>1, <1>3
     DEF CoordinatorStep, PlanEpoch, SleepToEpoch, ReadEpoch, SendArm, Collect,
         CoordinatorArrives, PrintResults, workerVars
<1> QED BY <1>1, <1>2, <1>3 DEF Next, Tick, Stopped, vars, workerVars

(***************************************************************************)
(* The run as one worker sees it.                                          *)
(***************************************************************************)
\* Worker k's period and job index stand still, and so does the clock.
Still(k) ==
  /\ now' = now
  /\ period'[k] = period[k]
  /\ anchor'[k] = anchor[k]
  /\ job'[k] = job[k]
  /\ count'[k] = count[k]

\* Moves of worker k that leave all these as they are.
Walks(k) ==
  \/ pc'[k] = pc[k]
  \/ pc[k] = "create" /\ pc'[k] = "arm"
  \/ pc[k] = "arm" /\ pc'[k] = "activate"
  \/ pc[k] = "after" /\ pc'[k] = "gate"
  \/ pc[k] = "gate" /\ pc'[k] = IF OffsetOf[k] > 0 THEN "period" ELSE "job"
  \/ pc[k] \in JobLabels /\ pc'[k] \in JobLabels
  \/ pc[k] = "finish" /\ pc'[k] = "delete"
  \/ pc[k] = "delete" /\ pc'[k] = "gone"

\* An arrival at the barrier keeps a worker where it is or passes it on.
LEMMA ArrivalWalks ==
  ASSUME HandshakeInv, NEW x \in Active \cup {Coordinator}, Arrive(x),
         x = Coordinator => cpc \in {"gate", "finish"},
         NEW k \in Active
  PROVE  Walks(k)
<1>1. CASE UNCHANGED pc
  BY <1>1 DEF Walks
<1>2. CASE gate \cup {x} = Active \cup {Coordinator} /\ pc' = [i \in Active |-> WorkerPast(i)]
  <2>1. cpc \in {"gate", "finish"}
    BY <1>2 DEF HandshakeInv, GateInv
  <2>2. pc[k] = "gate" \/ pc[k] = "finish"
    BY <2>1 DEF HandshakeInv, MeetInv
  <2> QED BY <1>2, <2>2 DEF WorkerPast, Walks
<1> QED BY <1>1, <1>2, ArriveCases

\* Whatever step is taken, worker k is passed by, walks on, takes one of the
\* four steps that touch its period or job index, or sees a tick.
LEMMA OneWorker ==
  ASSUME RunnerInv, Next, NEW k \in Active
  PROVE  \/ Still(k) /\ Walks(k)
         \/ ActivatePeriod(k) \/ CallPeriod(k) \/ CompleteJob(k) \/ CancelPeriod(k)
         \/ Tick
<1>0. HandshakeInv /\ pc \in [Active -> WorkerLabels] /\ TimesTyped /\ JobsTyped
  BY DEF RunnerInv, HandshakeInv, ThreadsTyped
<1>1. CASE CoordinatorStep
  <2>1. Still(k)
    BY <1>1 DEF CoordinatorStep, PlanEpoch, SleepToEpoch, ReadEpoch, SendArm, Collect,
                CoordinatorArrives, PrintResults, clockVars, workerVars, Still
  <2>2. CASE CoordinatorArrives
    BY <1>0, <2>1, <2>2, ArrivalWalks DEF CoordinatorArrives
  <2>3. CASE ~CoordinatorArrives
    BY <1>1, <2>1, <2>3 DEF CoordinatorStep, PlanEpoch, SleepToEpoch, ReadEpoch, SendArm,
                            Collect, PrintResults, Walks
  <2> QED BY <2>2, <2>3
<1>2. ASSUME NEW i \in Active, WorkerStep(i), i # k PROVE Still(k) /\ Walks(k)
  <2>1. CASE WorkerArrives(i)
    BY <1>0, <2>1, ArrivalWalks, ActiveTasks DEF WorkerArrives, clockVars, workerVars, Still
  <2>2. CASE CreatePeriod(i) \/ ReceiveArm(i) \/ ReportArmed(i) \/ DeletePeriod(i)
    BY <1>0, <1>2, <2>2 DEF CreatePeriod, ReceiveArm, ReportArmed, DeletePeriod, Goto,
                            clockVars, workerVars, Still, Walks
  <2>3. CASE ActivatePeriod(i)
    BY <1>0, <1>2, <2>3 DEF ActivatePeriod, Goto, clockVars, Still, Walks, TimesTyped
  <2>4. CASE CallPeriod(i)
    BY <1>0, <1>2, <2>4 DEF CallPeriod, Goto, clockVars, Still, Walks, TimesTyped
  <2>5. CASE MeasureStep(i)
    BY <1>0, <1>2, <2>5, MeasureMoves DEF Goto, clockVars, Still, Walks
  <2>6. CASE CompleteJob(i)
    BY <1>0, <1>2, <2>6 DEF CompleteJob, Goto, clockVars, Still, Walks, JobsTyped
  <2>7. CASE CancelPeriod(i)
    BY <1>0, <1>2, <2>7 DEF CancelPeriod, Goto, clockVars, Still, Walks, TimesTyped
  <2> QED BY <1>2, <2>1, <2>2, <2>3, <2>4, <2>5, <2>6, <2>7 DEF WorkerStep
<1>3. CASE WorkerStep(k)
  <2>1. CASE WorkerArrives(k)
    BY <1>0, <2>1, ArrivalWalks, ActiveTasks DEF WorkerArrives, clockVars, workerVars, Still
  <2>2. CASE CreatePeriod(k) \/ ReceiveArm(k) \/ ReportArmed(k) \/ DeletePeriod(k)
    BY <1>0, <2>2 DEF CreatePeriod, ReceiveArm, ReportArmed, DeletePeriod, Goto,
                      clockVars, workerVars, Still, Walks
  <2>3. CASE MeasureStep(k)
    BY <1>0, <2>3, MeasureMoves DEF Goto, clockVars, Still, Walks
  <2> QED BY <1>3, <2>1, <2>2, <2>3 DEF WorkerStep
<1>4. CASE Stopped
  BY <1>4 DEF Stopped, vars, clockVars, workerVars, Still, Walks
<1> QED BY <1>1, <1>2, <1>3, <1>4 DEF Next

\* The count of records follows the job index until the worker stops.
LEMMA CountStep ==
  ASSUME RunnerInv, Next
  PROVE  CountInv'
<1> SUFFICES ASSUME NEW k \in Active
             PROVE  /\ pc'[k] \notin {"cancel", "finish", "delete", "gone"} => count'[k] = job'[k]
                    /\ pc'[k] \in {"create", "arm", "activate", "after", "gate"} => job'[k] = 0
  BY DEF CountInv
<1>0. /\ pc \in [Active -> WorkerLabels] /\ JobsTyped
      /\ pc[k] \notin {"cancel", "finish", "delete", "gone"} => count[k] = job[k]
      /\ pc[k] \in {"create", "arm", "activate", "after", "gate"} => job[k] = 0
  BY DEF RunnerInv, HandshakeInv, ThreadsTyped, CountInv
<1>1. CASE Still(k) /\ Walks(k)
  BY <1>0, <1>1 DEF Still, Walks, JobLabels
<1>2. CASE ActivatePeriod(k)
  BY <1>0, <1>2 DEF ActivatePeriod, Goto
<1>3. CASE CallPeriod(k)
  BY <1>0, <1>3 DEF CallPeriod, Goto
<1>4. CASE CompleteJob(k)
  <2>1. count'[k] = count[k] + 1 /\ (pc'[k] = "cancel" \/ (pc'[k] = "period" /\ job'[k] = job[k] + 1))
    BY <1>0, <1>4 DEF CompleteJob, Goto, JobsTyped
  <2> QED BY <1>0, <1>4, <2>1 DEF CompleteJob
<1>5. CASE CancelPeriod(k)
  BY <1>0, <1>5 DEF CancelPeriod, Goto
<1>6. CASE Tick
  BY <1>0, <1>6, TickCases DEF Tick
<1> QED BY <1>1, <1>2, <1>3, <1>4, <1>5, <1>6, OneWorker

\* A period in use runs; a release that is due and not run is on its account.
LEMMA PeriodStep ==
  ASSUME RunnerInv, Next
  PROVE  PeriodInv'
<1> SUFFICES ASSUME NEW k \in Active
             PROVE  /\ pc'[k] \in Armed => period'[k].state # "inactive"
                    /\ period'[k].state = "expired" => period'[k].postponed > 0
                    /\ pc'[k] = "blocked" =>
                         period'[k].state = "active" /\ period'[k].postponed = 0
  BY DEF PeriodInv
<1>0. /\ pc \in [Active -> WorkerLabels]
      /\ period \in [Active -> Periods] /\ period[k] \in Periods
      /\ pc[k] \in Armed => period[k].state # "inactive"
      /\ period[k].state = "expired" => period[k].postponed > 0
      /\ pc[k] = "blocked" => period[k].state = "active" /\ period[k].postponed = 0
  BY DEF RunnerInv, HandshakeInv, ThreadsTyped, TimesTyped, PeriodInv
<1>1. CASE Still(k) /\ Walks(k)
  BY <1>0, <1>1 DEF Still, Walks, Armed, JobLabels
<1>2. CASE ActivatePeriod(k)
  BY <1>0, <1>2 DEF ActivatePeriod, Activated
<1>3. CASE CallPeriod(k)
  <2>1. CASE Blocks(period[k])
    BY <1>0, <1>3, <2>1 DEF CallPeriod, Goto, Concluded, Blocks, Periods
  <2>2. CASE ~Blocks(period[k])
    <3>1. period'[k] = ReleasedLate(period[k], PeriodOf[k]) /\ pc'[k] = "job"
      BY <1>0, <1>3, <2>2 DEF CallPeriod, Goto
    <3>2. period'[k].state = "active"
      BY <1>0, <3>1 DEF ReleasedLate, Periods
    <3> QED BY <3>1, <3>2
  <2> QED BY <2>1, <2>2
<1>4. CASE CompleteJob(k)
  BY <1>0, <1>4 DEF CompleteJob, Goto, Armed, JobLabels
<1>5. CASE CancelPeriod(k)
  BY <1>0, <1>5 DEF CancelPeriod, Goto, NoPeriod, Armed, JobLabels
<1>6. CASE Tick
  <2>1. now + 1 \in Nat
    BY DEF RunnerInv, TimesTyped
  <2>2. CASE Due(k) /\ pc[k] = "blocked"
    BY <1>0, <1>6, <2>1, <2>2, TickCases DEF Restarted, Periods
  <2>3. CASE Due(k) /\ pc[k] # "blocked"
    <3>1. period'[k] = Expired(period[k], now + 1) /\ pc'[k] = pc[k]
      BY <1>6, <2>3, TickCases
    <3>2. period'[k].state = "expired" /\ period'[k].postponed = period[k].postponed + 1
      BY <1>0, <3>1 DEF Expired, Periods
    <3>3. period'[k].postponed > 0
      BY <1>0, <3>2 DEF Periods
    <3> QED BY <2>3, <3>1, <3>2, <3>3
  <2>4. CASE ~Due(k)
    BY <1>0, <1>6, <2>4, TickCases
  <2> QED BY <2>2, <2>3, <2>4
<1> QED BY <1>1, <1>2, <1>3, <1>4, <1>5, <1>6, OneWorker

(***************************************************************************)
(* The schedule of a task without offset.                                  *)
(***************************************************************************)
\* One more multiple of a period is one period more.
LEMMA NextMultiple == \A n, p \in Nat : n * p \in Nat /\ (n + 1) * p = n * p + p /\ 1 * p = p /\ 0 * p = 0
OBVIOUS

\* A later job's release is at least a period after job j's.
LEMMA LaterMultiple == \A j, n, p \in Nat : n > 0 => (j + n) * p >= j * p + p
OBVIOUS

\* The timer stays on the nominal schedule through every step of the run.
LEMMA ScheduleStep ==
  ASSUME RunnerInv, Next, NEW k \in Active, OffsetOf[k] = 0
  PROVE  ScheduleInv(k)'
<1> DEFINE P == PeriodOf[k]
           per == period[k]
<1>0. /\ pc \in [Active -> WorkerLabels] /\ pc[k] \in WorkerLabels
      /\ period \in [Active -> Periods] /\ anchor \in [Active -> Nat] /\ job \in [Active -> Nat]
      /\ now \in Nat /\ anchor[k] \in Nat /\ job[k] \in Nat /\ P \in Nat
      /\ per \in Periods /\ per.postponed \in Nat /\ per.timer \in Nat /\ per.next \in Nat
      /\ pc[k] \in {"create", "arm", "activate", "after", "gate"} => job[k] = 0
      /\ ScheduleInv(k)
  BY PlanTypes DEF RunnerInv, HandshakeInv, ThreadsTyped, TimesTyped, JobsTyped, CountInv, Periods
<1>1. CASE Still(k) /\ Walks(k)
  <2>1. CASE pc[k] = "gate" /\ pc'[k] = "job"
    <3>1. job[k] * P = 0
      <4>1. job[k] = 0
        BY <1>0, <2>1
      <4>2. 0 * P = 0
        BY <1>0, NextMultiple
      <4> QED BY <4>1, <4>2
    <3> QED BY <1>0, <1>1, <2>1, <3>1 DEF Still, ScheduleInv, NextJob, InJob, Armed
  <2>2. CASE ~(pc[k] = "gate" /\ pc'[k] = "job")
    BY <1>0, <1>1, <2>2 DEF Still, Walks, ScheduleInv, NextJob, InJob, Armed, JobLabels
  <2> QED BY <2>1, <2>2
<1>2. CASE ActivatePeriod(k)
  <2>1. /\ pc'[k] = "after" /\ period'[k] = Activated(P, now)
        /\ anchor'[k] = now /\ job'[k] = 0 /\ now' = now
    BY <1>0, <1>2 DEF ActivatePeriod, Goto, clockVars
  <2>2. NextJob(k)' = 1
    BY <2>1 DEF NextJob, Activated
  <2> QED BY <1>0, <2>1, <2>2, NextMultiple DEF ScheduleInv, InJob, Activated
<1>3. CASE CallPeriod(k)
  <2>0. /\ pc[k] = "period" /\ UNCHANGED <<now, anchor, job>>
    BY <1>3 DEF CallPeriod, clockVars
  <2>1. CASE Blocks(per)
    <3>1. pc'[k] = "blocked" /\ period'[k] = Concluded(per, P)
      BY <1>0, <1>3, <2>1 DEF CallPeriod, Goto
    <3>2. period'[k].next = P /\ period'[k].timer = per.timer /\ period'[k].postponed = per.postponed
      BY <1>0, <3>1 DEF Concluded, Periods
    <3> QED BY <1>0, <2>0, <3>1, <3>2 DEF ScheduleInv, NextJob, InJob, Armed, JobLabels
  <2>2. CASE ~Blocks(per)
    <3>1. pc'[k] = "job" /\ period'[k] = ReleasedLate(per, P)
      BY <1>0, <1>3, <2>2 DEF CallPeriod, Goto
    <3>2. /\ period'[k].next = P /\ period'[k].timer = per.timer
          /\ period'[k].postponed = per.postponed - 1
      BY <1>0, <3>1 DEF ReleasedLate, Periods
    <3>3. per.postponed > 0
      BY <2>0, <2>2, LateCall
    <3>4. /\ per.timer = anchor[k] + (job[k] + per.postponed) * P
          /\ per.timer <= now + P /\ anchor[k] <= now
      BY <1>0, <2>0 DEF ScheduleInv, NextJob, Armed
    <3>5. now >= anchor[k] + job[k] * P
      BY <1>0, <3>3, <3>4, LaterMultiple, NextMultiple
    <3>6. NextJob(k)' = job[k] + per.postponed
      BY <1>0, <2>0, <3>1, <3>2, <3>3 DEF NextJob
    <3> QED BY <1>0, <2>0, <3>1, <3>2, <3>4, <3>5, <3>6 DEF ScheduleInv, InJob
  <2> QED BY <2>1, <2>2
<1>4. CASE CompleteJob(k)
  <2>1. \/ pc'[k] = "cancel"
        \/ pc'[k] = "period" /\ job'[k] = job[k] + 1
    BY <1>0, <1>4 DEF CompleteJob, Goto
  <2>2. pc[k] = "complete" /\ UNCHANGED <<now, period, anchor>>
    BY <1>4 DEF CompleteJob, clockVars
  <2> QED BY <1>0, <2>1, <2>2 DEF ScheduleInv, NextJob, InJob, Armed, JobLabels
<1>5. CASE CancelPeriod(k)
  BY <1>0, <1>5 DEF CancelPeriod, Goto, ScheduleInv, Armed, JobLabels
<1>6. CASE Tick
  <2>0. now' = now + 1 /\ UNCHANGED <<anchor, job>>
    BY <1>6 DEF Tick
  <2>1. CASE Due(k) /\ pc[k] = "blocked"
    <3>1. pc'[k] = "job" /\ period'[k] = Restarted(per, now + 1)
      BY <1>6, <2>1, TickCases
    <3>2. /\ per.postponed = 0 /\ per.next = P
          /\ per.timer = now + 1 /\ per.timer = anchor[k] + job[k] * P /\ anchor[k] <= now
      BY <1>0, <2>1 DEF RunnerInv, PeriodInv, ScheduleInv, NextJob, Armed, Due
    <3>3. /\ period'[k].next = P /\ period'[k].timer = now + 1 + P
          /\ period'[k].postponed = 0
      BY <1>0, <3>1, <3>2 DEF Restarted, Periods
    <3>4. NextJob(k)' = job[k] + 1
      BY <1>0, <2>0, <3>1, <3>3 DEF NextJob
    <3>5. (job[k] + 1) * P = job[k] * P + P /\ job[k] * P \in Nat
      BY <1>0, NextMultiple
    <3> QED BY <1>0, <2>0, <3>1, <3>2, <3>3, <3>4, <3>5 DEF ScheduleInv, InJob
  <2>2. CASE Due(k) /\ pc[k] # "blocked" /\ pc[k] \in Armed \ {"cancel"}
    <3>1. pc'[k] = pc[k] /\ period'[k] = Expired(per, now + 1)
      BY <1>6, <2>2, TickCases
    <3>2. /\ per.next = P /\ per.timer = now + 1 /\ per.timer = anchor[k] + NextJob(k) * P
          /\ anchor[k] <= now
      BY <1>0, <2>2 DEF ScheduleInv, Due
    <3>3. /\ period'[k].next = P /\ period'[k].timer = now + 1 + P
          /\ period'[k].postponed = per.postponed + 1
      BY <1>0, <3>1, <3>2 DEF Expired, Periods
    <3>4. NextJob(k) \in Nat /\ NextJob(k)' = NextJob(k) + 1
      BY <1>0, <2>0, <3>1, <3>3 DEF NextJob
    <3>5. NextJob(k)' * P = NextJob(k) * P + P /\ NextJob(k) * P \in Nat
      BY <1>0, <3>4, NextMultiple
    <3>6. InJob(k) => now >= anchor[k] + job[k] * P /\ job[k] * P \in Nat
      BY <1>0, <2>2, NextMultiple DEF ScheduleInv
    <3> QED BY <1>0, <2>0, <3>1, <3>2, <3>3, <3>4, <3>5, <3>6 DEF ScheduleInv, InJob
  <2>3. CASE ~Due(k)
    <3>1. pc'[k] = pc[k] /\ period'[k] = per
      BY <1>6, <2>3, TickCases
    <3>2. job[k] * P \in Nat /\ NextJob(k)' = NextJob(k)
      BY <1>0, <2>0, <3>1, NextMultiple DEF NextJob
    <3> QED BY <1>0, <2>0, <3>1, <3>2 DEF ScheduleInv, InJob
  <2>4. CASE pc[k] \notin Armed \ {"cancel"}
    <3>1. pc'[k] = pc[k]
      BY <1>6, <2>4, TickCases DEF Armed
    <3> QED BY <2>4, <3>1 DEF ScheduleInv
  <2> QED BY <2>1, <2>2, <2>3, <2>4
<1> QED BY <1>1, <1>2, <1>3, <1>4, <1>5, <1>6, OneWorker

(***************************************************************************)
(* The invariant, and what follows from it.                                *)
(***************************************************************************)
\* Before the first step no period is in use and no job has run.
LEMMA RunnerInit == ASSUME Init PROVE RunnerInv
<1>1. NoRecord \in Records /\ NoPeriod \in Periods
  BY PeriodTypes DEF NoRecord, Records, Periods, States, NoPeriod
<1>2. TimesTyped
  BY <1>1 DEF Init, TimesTyped
<1>3. \A i \in Active : JobCount[i] \in Nat /\ 0 < JobCount[i]
  BY ActiveTasks, PlanAssumption
<1>4. JobsTyped
  BY <1>1, <1>3 DEF Init, JobsTyped
<1>5. CountInv /\ PeriodInv /\ \A i \in Active : ScheduleInv(i)
  BY DEF Init, CountInv, PeriodInv, ScheduleInv, Armed, NoPeriod, JobLabels
<1> QED BY <1>2, <1>4, <1>5, HandshakeInit DEF RunnerInv

\* The handshake, the types, the record counts, the states of the periods and
\* the schedule of every task without offset are invariants of the runner.
THEOREM RunnerInvariant == Spec => []RunnerInv
<1>1. RunnerInv /\ Next => RunnerInv'
  <2> SUFFICES ASSUME RunnerInv, Next PROVE RunnerInv'
    OBVIOUS
  <2>1. HandshakeInv'
    BY HandshakeStep DEF RunnerInv
  <2>2. \A i \in Active : OffsetOf[i] = 0 => ScheduleInv(i)'
    BY ScheduleStep
  <2> QED BY <2>1, <2>2, TimesStep, JobsStep, CountStep, PeriodStep DEF RunnerInv
<1>2. RunnerInv /\ UNCHANGED vars => RunnerInv'
  BY DEF vars, clockVars, coordVars, eventVars, workerVars, RunnerInv, HandshakeInv, ThreadsTyped,
         MeetInv, EventsInv, ArmInv, GateInv, TimesTyped, JobsTyped, CountInv, PeriodInv,
         ScheduleInv, NextJob, InJob
<1> QED BY <1>1, <1>2, RunnerInit, PTL DEF Spec

\* Every variable keeps its type: no worker writes past its row of records.
THEOREM TypeCorrect == Spec => []TypeOK
<1>1. RunnerInv => TypeOK
  BY DEF RunnerInv, HandshakeInv, TypeOK
<1> QED BY <1>1, RunnerInvariant, PTL

\* The schedule of a running job, read off the invariant.
LEMMA JobSchedule ==
  ASSUME RunnerInv, NEW i \in Active, OffsetOf[i] = 0, InJob(i)
  PROVE  OnSchedule(i) /\ now >= Release(i, job[i], anchor[i])
<1>1. /\ job[i] \in Nat /\ anchor[i] \in Nat /\ now \in Nat /\ PeriodOf[i] \in Nat
      /\ period[i].postponed \in Nat
  BY PlanTypes DEF RunnerInv, TimesTyped, JobsTyped, Periods
<1>2. /\ period[i].timer = anchor[i] + NextJob(i) * PeriodOf[i]
      /\ now >= anchor[i] + job[i] * PeriodOf[i]
  BY DEF RunnerInv, ScheduleInv, InJob, Armed, JobLabels
<1>3. NextJob(i) = job[i] + period[i].postponed + 1
  BY DEF NextJob, InJob, JobLabels
<1>4. Release(i, job[i], anchor[i]) = anchor[i] + job[i] * PeriodOf[i]
  BY <1>1, NextMultiple DEF Release
<1>5. Deadline(i, job[i] + period[i].postponed, anchor[i]) = anchor[i] + NextJob(i) * PeriodOf[i]
  <2>1. NextJob(i) * PeriodOf[i] \in Nat
    BY <1>1, <1>3, NextMultiple
  <2> QED BY <1>1, <1>3, <2>1 DEF Deadline, Release
<1> QED BY <1>2, <1>4, <1>5 DEF OnSchedule

\* Released at the epoch, the jobs of every task keep a period between their
\* nominal releases, however late they run: no release is lost or added.
THEOREM PeriodicReleases ==
  ASSUME \A i \in Active : OffsetOf[i] = 0
  PROVE  Spec => []ReleasesPeriodic
<1>1. RunnerInv => ReleasesPeriodic
  BY JobSchedule DEF ReleasesPeriodic, OnSchedule
<1> QED BY <1>1, RunnerInvariant, PTL

\* Released at the epoch, no job of any task runs before its nominal release.
THEOREM NoEarlyJob ==
  ASSUME \A i \in Active : OffsetOf[i] = 0
  PROVE  Spec => []NeverEarly
<1>1. RunnerInv => NeverEarly
  BY JobSchedule DEF NeverEarly
<1> QED BY <1>1, RunnerInvariant, PTL

(***************************************************************************)
(* The run with the host's judgement.                                      *)
(***************************************************************************)
\* Releases are natural numbers, a period apart, the first at the offset.
LEMMA ReleaseNext ==
  ASSUME NEW i \in Active, NEW j \in Nat, NEW e \in Nat
  PROVE  /\ Release(i, j, e) \in Nat
         /\ Release(i, j + 1, e) = Release(i, j, e) + PeriodOf[i]
         /\ Release(i, 0, e) = e + OffsetOf[i]
         /\ Deadline(i, j, e) = Release(i, j + 1, e)
<1>1. PeriodOf[i] \in Nat /\ OffsetOf[i] \in Nat
  BY PlanTypes
<1>2. /\ j * PeriodOf[i] \in Nat /\ (j + 1) * PeriodOf[i] = j * PeriodOf[i] + PeriodOf[i]
      /\ 0 * PeriodOf[i] = 0
  BY <1>1, NextMultiple
<1> QED BY <1>1, <1>2 DEF Release, Deadline

\* Nothing of worker k that the host judges changes but its place.
Passed(k) ==
  /\ now' = now
  /\ period'[k] = period[k] /\ anchor'[k] = anchor[k] /\ job'[k] = job[k]
  /\ rec'[k] = rec[k] /\ arm'[k] = arm[k]
  /\ \/ pc'[k] = pc[k]
     \/ pc[k] = "create" /\ pc'[k] = "arm"
     \/ pc[k] = "gate" /\ pc'[k] = IF OffsetOf[k] > 0 THEN "period" ELSE "job"
     \/ pc[k] = "finish" /\ pc'[k] = "delete"
     \/ pc[k] = "delete" /\ pc'[k] = "gone"

\* What the host holds against worker k stays as it is.
Unjudged(k) == errors'[k] = errors[k] /\ (k \in drifted' <=> k \in drifted)

\* At the barrier a worker stays or goes on.
LEMMA ArrivalPasses ==
  ASSUME HandshakeInv, NEW x \in Active \cup {Coordinator}, Arrive(x),
         x = Coordinator => cpc \in {"gate", "finish"},
         NEW k \in Active
  PROVE  \/ pc'[k] = pc[k]
         \/ pc[k] = "gate" /\ pc'[k] = IF OffsetOf[k] > 0 THEN "period" ELSE "job"
         \/ pc[k] = "finish" /\ pc'[k] = "delete"
<1>1. CASE UNCHANGED pc
  BY <1>1
<1>2. CASE gate \cup {x} = Active \cup {Coordinator} /\ pc' = [i \in Active |-> WorkerPast(i)]
  <2>1. cpc \in {"gate", "finish"}
    BY <1>2 DEF HandshakeInv, GateInv
  <2>2. pc[k] = "gate" \/ pc[k] = "finish"
    BY <2>1 DEF HandshakeInv, MeetInv
  <2> QED BY <1>2, <2>2 DEF WorkerPast
<1> QED BY <1>1, <1>2, ArriveCases

\* A step of the judged run as worker k sees it.
LEMMA OneTask ==
  ASSUME RunnerInv, MeasuredInv, MNext, NEW k \in Active
  PROVE  \/ Unjudged(k) /\ \/ Passed(k)
                           \/ ReceiveArm(k) \/ ActivatePeriod(k) \/ ReportArmed(k)
                           \/ CallPeriod(k) \/ MeasureStep(k) \/ CancelPeriod(k)
                           \/ Tick
         \/ CompleteJob(k) /\ Judge(k)
<1>0. /\ HandshakeInv /\ pc \in [Active -> WorkerLabels] /\ TimesTyped /\ JobsTyped
      /\ errors \in [Active -> SUBSET ErrorNames]
  BY DEF RunnerInv, HandshakeInv, ThreadsTyped, MeasuredInv
<1>1. ASSUME NEW i \in Active, CompleteJob(i), Judge(i), i # k
      PROVE  Unjudged(k) /\ Passed(k)
  BY <1>0, <1>1 DEF CompleteJob, Judge, Goto, clockVars, JobsTyped, TimesTyped, Unjudged, Passed
<1>2. ASSUME Next, count' = count, UNCHANGED judged
      PROVE  \/ Passed(k)
             \/ ReceiveArm(k) \/ ActivatePeriod(k) \/ ReportArmed(k)
             \/ CallPeriod(k) \/ MeasureStep(k) \/ CancelPeriod(k)
             \/ Tick
  <2>1. CASE CoordinatorStep
    <3>1. CASE CoordinatorArrives
      BY <1>0, <3>1, ArrivalPasses DEF CoordinatorArrives, clockVars, workerVars, Passed
    <3>2. CASE ~CoordinatorArrives
      BY <2>1, <3>2 DEF CoordinatorStep, PlanEpoch, SleepToEpoch, ReadEpoch, SendArm, Collect,
                        PrintResults, clockVars, workerVars, Passed
    <3> QED BY <3>1, <3>2
  <2>2. ASSUME NEW i \in Active, WorkerStep(i), i # k PROVE Passed(k)
    <3>1. CASE WorkerArrives(i)
      BY <1>0, <3>1, ArrivalPasses, ActiveTasks DEF WorkerArrives, clockVars, workerVars, Passed
    <3>2. CASE CreatePeriod(i) \/ ReceiveArm(i) \/ ReportArmed(i) \/ DeletePeriod(i)
      BY <1>0, <2>2, <3>2 DEF CreatePeriod, ReceiveArm, ReportArmed, DeletePeriod, Goto,
                              clockVars, workerVars, Passed, TimesTyped
    <3>3. CASE ActivatePeriod(i)
      BY <1>0, <2>2, <3>3 DEF ActivatePeriod, Goto, clockVars, Passed, TimesTyped, JobsTyped
    <3>4. CASE CallPeriod(i)
      BY <1>0, <2>2, <3>4 DEF CallPeriod, Goto, clockVars, Passed, TimesTyped, JobsTyped
    <3>5. CASE MeasureStep(i)
      <4>1. PICK r : rec' = [rec EXCEPT ![i] = r]
        BY <3>5 DEF MeasureStep, StartJob, StatusBefore, BeginExec, EndJob, StatusAfter, Recorded
      <4> QED BY <1>0, <2>2, <3>5, <4>1, MeasureMoves DEF Goto, clockVars, Passed, JobsTyped
    <3>6. CASE CompleteJob(i)
      BY <1>0, <1>2, <3>6 DEF CompleteJob, JobsTyped
    <3>7. CASE CancelPeriod(i)
      BY <1>0, <2>2, <3>7 DEF CancelPeriod, Goto, clockVars, Passed, TimesTyped
    <3> QED BY <2>2, <3>1, <3>2, <3>3, <3>4, <3>5, <3>6, <3>7 DEF WorkerStep
  <2>3. CASE WorkerStep(k)
    <3>1. CASE WorkerArrives(k)
      BY <1>0, <3>1, ArrivalPasses, ActiveTasks DEF WorkerArrives, clockVars, workerVars, Passed
    <3>2. CASE CreatePeriod(k) \/ DeletePeriod(k)
      BY <1>0, <3>2 DEF CreatePeriod, DeletePeriod, Goto, clockVars, workerVars, Passed
    <3>3. CASE CompleteJob(k)
      BY <1>0, <1>2, <3>3 DEF CompleteJob, JobsTyped
    <3> QED BY <2>3, <3>1, <3>2, <3>3 DEF WorkerStep
  <2>4. CASE Stopped
    BY <2>4 DEF Stopped, vars, clockVars, workerVars, Passed
  <2> QED BY <1>2, <2>1, <2>2, <2>3, <2>4 DEF Next
<1>3. UNCHANGED judged => Unjudged(k)
  BY DEF judged, Unjudged
<1> QED BY <1>1, <1>2, <1>3 DEF MNext

\* The epoch is fixed before the first worker is armed.
LEMMA EpochKept ==
  ASSUME RunnerInv, MNext
  PROVE  t0' = t0 \/ \A k \in Active : pc[k] \in {"create", "arm"} /\ pc'[k] = pc[k]
<1>1. ASSUME NEW i \in Active, CompleteJob(i) PROVE t0' = t0
  BY <1>1 DEF CompleteJob, coordVars
<1>2. CASE PlanEpoch \/ ReadEpoch
  BY <1>2 DEF PlanEpoch, ReadEpoch, CoordinatorGoes, RunnerInv, HandshakeInv, MeetInv
<1>3. CASE Next /\ ~PlanEpoch /\ ~ReadEpoch
  BY <1>3, MeasureMoves DEF Next, CoordinatorStep, SleepToEpoch, SendArm, Collect, CoordinatorArrives,
              PrintResults, WorkerStep, CreatePeriod, ReceiveArm, ActivatePeriod, ReportArmed,
              WorkerArrives, CallPeriod, CompleteJob, CancelPeriod, DeletePeriod,
              Tick, Stopped, vars, coordVars
<1> QED BY <1>1, <1>2, <1>3 DEF MNext

\* The activation stays between the readings around it.
LEMMA BracketStep ==
  ASSUME RunnerInv, MeasuredInv, MNext, NEW k \in Active
  PROVE  BracketInv(k)'
<1>0. /\ pc \in [Active -> WorkerLabels] /\ BracketInv(k)
      /\ now \in Nat /\ anchor \in [Active -> Nat] /\ arm \in [Active -> [before : Nat, after : Nat]]
  BY DEF RunnerInv, HandshakeInv, ThreadsTyped, MeasuredInv, TimesTyped
<1>1. CASE Passed(k)
  BY <1>0, <1>1 DEF Passed, BracketInv
<1>2. CASE ReceiveArm(k)
  BY <1>0, <1>2 DEF ReceiveArm, Goto, clockVars, BracketInv
<1>3. CASE ActivatePeriod(k)
  BY <1>0, <1>3 DEF ActivatePeriod, Goto, clockVars, BracketInv
<1>4. CASE ReportArmed(k)
  BY <1>0, <1>4 DEF ReportArmed, Goto, clockVars, BracketInv
<1>5. CASE CallPeriod(k)
  BY <1>0, <1>5 DEF CallPeriod, Goto, clockVars, BracketInv
<1>6. CASE CompleteJob(k) \/ CancelPeriod(k)
  BY <1>0, <1>6 DEF CompleteJob, CancelPeriod, Goto, clockVars, BracketInv
<1>8. CASE MeasureStep(k)
  BY <1>0, <1>8, MeasureMoves DEF Goto, clockVars, BracketInv, JobLabels
<1>7. CASE Tick
  <2>1. now' = now + 1 /\ UNCHANGED <<anchor, arm>>
    BY <1>7 DEF Tick
  <2>2. pc'[k] = pc[k] \/ (pc[k] = "blocked" /\ pc'[k] = "job")
    BY <1>7, TickCases
  <2>3. arm[k].before \in Nat
    BY <1>0
  <2> QED BY <1>0, <2>1, <2>2, <2>3 DEF BracketInv
<1> QED BY <1>1, <1>2, <1>3, <1>4, <1>5, <1>6, <1>7, <1>8, OneTask

\* Where a worker's period and record stand, in the invariant's terms.
LEMMA TaskFacts ==
  ASSUME RunnerInv, MeasuredInv, NEW k \in Active
  PROVE  /\ pc \in [Active -> WorkerLabels] /\ period \in [Active -> Periods]
         /\ anchor \in [Active -> Nat] /\ job \in [Active -> Nat] /\ rec \in [Active -> Records]
         /\ now \in Nat /\ anchor[k] \in Nat /\ job[k] \in Nat /\ t0 \in Nat
         /\ PeriodOf[k] \in Nat /\ OffsetOf[k] \in Nat
         /\ period[k] \in Periods /\ period[k].postponed \in Nat /\ period[k].timer \in Nat
         /\ period[k].epoch \in Nat /\ rec[k] \in Records
         /\ pc[k] \in Armed => period[k].state # "inactive"
         /\ period[k].state = "expired" => period[k].postponed > 0
         /\ pc[k] = "blocked" => period[k].state = "active" /\ period[k].postponed = 0
         /\ pc[k] \in {"create", "arm", "activate", "after", "gate"} => job[k] = 0
         /\ BracketInv(k) /\ VerdictInv(k)
         /\ Timed(k) => TimerInv(k) /\ RecordInv(k)
BY PlanTypes
   DEF RunnerInv, HandshakeInv, ThreadsTyped, TimesTyped, JobsTyped, CountInv, PeriodInv,
       MeasuredInv, Periods

\* A step of a measured job leaves the status of its period() call alone.
LEMMA MeasuredStatus ==
  ASSUME NEW k \in Active, MeasureStep(k), rec \in [Active -> Records]
  PROVE  rec'[k].status = rec[k].status
BY DEF MeasureStep, StartJob, StatusBefore, BeginExec, EndJob, StatusAfter, Recorded, Records

\* The timer keeps to the schedule unless the first job was an offence.
LEMMA TimerStep ==
  ASSUME RunnerInv, MeasuredInv, MNext, NEW k \in Active, Timed(k)
  PROVE  TimerInv(k)'
<1> DEFINE per == period[k]
<1>0. TimerInv(k)
  BY TaskFacts
<1>a. /\ pc[k] = "blocked" => ~InPhase(k) /\ ~Slipped(k)
      /\ InJob(k) => ~InPhase(k)
  BY DEF InPhase, Slipped, InJob, JobLabels
<1>1. CASE Passed(k)
  <2>1. CASE pc[k] = "gate" /\ pc'[k] = "period"
    BY <1>0, <1>1, <2>1, TaskFacts DEF Passed, TimerInv, InPhase, Slipped, InJob, JobLabels
  <2>2. CASE pc[k] = "gate" /\ pc'[k] = "job"
    <3>1. OffsetOf[k] = 0
      BY <1>1, <2>2, TaskFacts DEF Passed
    <3>2. NextJob(k)' = NextJob(k)
      BY <1>1, <2>2 DEF Passed, NextJob
    <3> QED BY <1>0, <1>1, <2>2, <3>1, <3>2 DEF Passed, TimerInv, InPhase, Slipped, InJob, Armed
  <2>3. CASE pc'[k] = pc[k]
    <3>1. NextJob(k)' = NextJob(k)
      BY <1>1, <2>3 DEF Passed, NextJob
    <3> QED BY <1>0, <1>1, <2>3, <3>1 DEF Passed, TimerInv, InPhase, Slipped, InJob
  <2>4. CASE pc'[k] \in {"arm", "delete", "gone"}
    BY <2>4 DEF TimerInv, InPhase, InJob, Armed, JobLabels
  <2> QED BY <1>1, <2>1, <2>2, <2>3, <2>4 DEF Passed
<1>2. CASE ReceiveArm(k)
  BY <1>2, TaskFacts DEF ReceiveArm, Goto, TimerInv, InPhase, InJob, Armed, JobLabels
<1>3. CASE ActivatePeriod(k)
  <2>1. /\ pc'[k] = "after" /\ anchor'[k] = now /\ job'[k] = 0 /\ now' = now
        /\ period'[k] = Activated(IF OffsetOf[k] > 0 THEN OffsetOf[k] ELSE PeriodOf[k], now)
    BY <1>3, TaskFacts DEF ActivatePeriod, Goto, clockVars
  <2>2. Release(k, 0, now) = now + OffsetOf[k] /\ Release(k, 1, now) = now + OffsetOf[k] + PeriodOf[k]
    <3>1. Release(k, 0 + 1, now) = Release(k, 0, now) + PeriodOf[k] /\ Release(k, 0, now) = now + OffsetOf[k]
      BY ReleaseNext, TaskFacts
    <3> QED BY <3>1
  <2>3. CASE OffsetOf[k] > 0
    BY <2>1, <2>2, <2>3 DEF TimerInv, InPhase, InJob, Activated, JobLabels
  <2>4. CASE OffsetOf[k] = 0
    <3>1. NextJob(k)' = 1
      BY <2>1 DEF NextJob, Activated
    <3> QED BY <2>1, <2>2, <2>4, <3>1, TaskFacts DEF TimerInv, InPhase, InJob, Activated
  <2> QED BY <2>3, <2>4, TaskFacts
<1>4. CASE ReportArmed(k)
  <2>1. /\ pc[k] = "after" /\ pc'[k] = "gate"
        /\ UNCHANGED <<now, period, anchor, job, rec>>
    BY <1>4, TaskFacts DEF ReportArmed, Goto, clockVars
  <2>2. NextJob(k)' = NextJob(k)
    BY <2>1 DEF NextJob
  <2> QED BY <1>0, <2>1, <2>2 DEF TimerInv, InPhase, Slipped, InJob, Armed, JobLabels
<1>5. CASE CallPeriod(k)
  <2>0. pc[k] = "period" /\ UNCHANGED <<now, anchor, job>>
    BY <1>5 DEF CallPeriod, clockVars
  <2>1. CASE Blocks(per)
    <3>1. pc'[k] = "blocked" /\ period'[k] = Concluded(per, PeriodOf[k])
      BY <1>5, <2>1, TaskFacts DEF CallPeriod, Goto
    <3>2. /\ period'[k].next = PeriodOf[k] /\ period'[k].timer = per.timer
          /\ period'[k].postponed = 0 /\ per.postponed = 0 /\ per.state = "active"
      BY <2>1, <3>1, TaskFacts DEF Concluded, Blocks, Periods
    <3>3. NextJob(k)' = job[k] /\ NextJob(k) = job[k]
      BY <2>0, <3>1, <3>2, TaskFacts DEF NextJob
    <3>4. per.timer = Release(k, job[k], anchor[k])
      <4>1. CASE InPhase(k)
        <5>1. job[k] = 0
          BY <2>0, <4>1 DEF InPhase
        <5> QED BY <1>0, <3>2, <4>1, <5>1 DEF TimerInv
      <4>2. CASE ~InPhase(k)
        BY <1>0, <2>0, <3>3, <4>2 DEF TimerInv, Slipped, InJob, Armed, JobLabels
      <4> QED BY <4>1, <4>2
    <3> QED BY <2>0, <3>1, <3>2, <3>3, <3>4 DEF TimerInv, InPhase, InJob, JobLabels
  <2>2. CASE ~Blocks(per)
    <3>1. /\ pc'[k] = "job" /\ period'[k] = ReleasedLate(per, PeriodOf[k])
          /\ rec'[k].status = "timeout"
      BY <1>5, <2>2, TaskFacts DEF CallPeriod, Goto, Records
    <3>2. /\ period'[k].next = PeriodOf[k] /\ period'[k].timer = per.timer
          /\ period'[k].postponed = per.postponed - 1
      BY <3>1, TaskFacts DEF ReleasedLate, Periods
    <3>3. per.postponed > 0
      BY <2>0, <2>2, LateCall
    <3>4. NextJob(k)' = job[k] + per.postponed /\ NextJob(k) = job[k] + per.postponed
      BY <2>0, <3>1, <3>2, <3>3, TaskFacts DEF NextJob
    <3>5. ~Slipped(k)' => ~InPhase(k)
      BY <2>0, <3>1 DEF Slipped, InPhase, InJob, JobLabels
    <3>6. ~Slipped(k)' => per.timer = Release(k, job[k] + per.postponed, anchor[k])
      BY <1>0, <2>0, <3>4, <3>5 DEF TimerInv, Slipped, InJob, Armed, JobLabels
    <3> QED BY <2>0, <3>1, <3>2, <3>4, <3>6 DEF TimerInv, InPhase
  <2> QED BY <2>1, <2>2
<1>6. CASE MeasureStep(k)
  <2>1. /\ InJob(k) /\ InJob(k)' /\ UNCHANGED <<now, period, anchor, job>>
        /\ rec'[k].status = rec[k].status
    BY <1>6, MeasureMoves, MeasuredStatus, TaskFacts DEF Goto, clockVars, InJob
  <2>2. NextJob(k)' = NextJob(k) /\ ~InPhase(k)' /\ ~InPhase(k)
    BY <2>1 DEF NextJob, InPhase, InJob, JobLabels
  <2>3. pc[k] \in Armed \ {"cancel"} /\ pc'[k] \in Armed \ {"cancel"}
        /\ (Slipped(k)' <=> Slipped(k))
    BY <2>1 DEF Slipped, InJob, Armed, JobLabels
  <2> QED BY <1>0, <2>1, <2>2, <2>3 DEF TimerInv, InJob, JobLabels
<1>8. CASE CompleteJob(k)
  <2>1. /\ pc[k] = "complete" /\ UNCHANGED <<now, period, anchor>>
        /\ \/ pc'[k] = "cancel"
           \/ /\ pc'[k] = "period" /\ job'[k] = job[k] + 1
              /\ ~StopsAfter(k, job[k], Closed(k))
    BY <1>8, TaskFacts DEF CompleteJob, Goto, clockVars
  <2>2. CASE pc'[k] = "cancel"
    BY <2>2 DEF TimerInv, InPhase, InJob, JobLabels
  <2>3. CASE pc'[k] = "period"
    <3>1. ~Slipped(k)
      <4>1. OffsetOf[k] > 0 => Closed(k).status = "successful"
        BY <2>1, <2>3, TaskFacts DEF StopsAfter, Timed
      <4> QED BY <4>1, TaskFacts DEF Slipped, Closed, Records
    <3>2. NextJob(k)' = NextJob(k) /\ job'[k] > 0
      BY <2>1, <2>3, TaskFacts DEF NextJob
    <3> QED BY <1>0, <2>1, <2>3, <3>1, <3>2 DEF TimerInv, InPhase, InJob, Armed, JobLabels
  <2> QED BY <2>1, <2>2, <2>3
<1>9. CASE CancelPeriod(k)
  BY <1>9, TaskFacts DEF CancelPeriod, Goto, TimerInv, InPhase, InJob, Armed, JobLabels
<1>10. CASE Tick
  <2>0. now' = now + 1 /\ UNCHANGED <<anchor, job, rec>>
    BY <1>10 DEF Tick
  <2>1. CASE Due(k) /\ pc[k] = "blocked"
    <3>1. pc'[k] = "job" /\ period'[k] = Restarted(per, now + 1)
      BY <1>10, <2>1, TickCases
    <3>2. NextJob(k) = job[k] /\ per.postponed = 0
      BY <2>1, TaskFacts DEF NextJob
    <3>3. per.next = PeriodOf[k] /\ now + 1 = Release(k, job[k], anchor[k])
      BY <1>0, <1>a, <2>1, <3>2 DEF TimerInv, Due, Armed
    <3>4. /\ period'[k].next = PeriodOf[k] /\ period'[k].timer = now + 1 + PeriodOf[k]
          /\ period'[k].postponed = 0 /\ period'[k].epoch = now + 1
      BY <3>1, <3>2, <3>3, TaskFacts DEF Restarted, Periods
    <3>5. NextJob(k)' = job[k] + 1
      BY <2>0, <3>1, <3>4, TaskFacts DEF NextJob
    <3>6. Release(k, job[k] + 1, anchor[k]) = Release(k, job[k], anchor[k]) + PeriodOf[k]
      BY ReleaseNext, TaskFacts
    <3>7. now + 1 <= now + 1
      BY TaskFacts
    <3> QED BY <2>0, <3>1, <3>3, <3>4, <3>5, <3>6, <3>7 DEF TimerInv, InPhase
  <2>2. CASE Due(k) /\ pc[k] # "blocked"
    <3>1. pc'[k] = pc[k] /\ period'[k] = Expired(per, now + 1)
      BY <1>10, <2>2, TickCases
    <3>2. /\ period'[k].next = per.next /\ period'[k].timer = now + 1 + per.next
          /\ period'[k].postponed = per.postponed + 1 /\ period'[k].epoch = per.epoch
          /\ period'[k].state = "expired"
      BY <3>1, TaskFacts DEF Expired, Periods
    <3>3. /\ InPhase(k)' <=> InPhase(k)
          /\ Slipped(k)' <=> Slipped(k)
          /\ InJob(k)' <=> InJob(k)
      BY <2>0, <3>1 DEF InPhase, Slipped, InJob
    <3>4. ASSUME pc[k] \in Armed \ {"cancel"}, ~InPhase(k), ~Slipped(k)
          PROVE  per.next = PeriodOf[k] /\ period'[k].timer = Release(k, NextJob(k)', anchor[k])
      <4>1. per.next = PeriodOf[k] /\ now + 1 = Release(k, NextJob(k), anchor[k])
        BY <1>0, <2>2, <3>4 DEF TimerInv, Due
      <4>2. NextJob(k) \in Nat /\ NextJob(k)' = NextJob(k) + 1
        BY <2>0, <3>1, <3>2, TaskFacts DEF NextJob
      <4>3. Release(k, NextJob(k) + 1, anchor[k]) = Release(k, NextJob(k), anchor[k]) + PeriodOf[k]
        BY <4>2, ReleaseNext, TaskFacts
      <4> QED BY <3>2, <4>1, <4>2, <4>3
    <3>5. InPhase(k) /\ period'[k].state = "active" => FALSE
      BY <3>2
    <3>6. per.epoch <= now => per.epoch <= now + 1
      BY TaskFacts
    <3> QED BY <1>0, <2>0, <3>1, <3>2, <3>3, <3>4, <3>5, <3>6 DEF TimerInv
  <2>3. CASE ~Due(k)
    <3>1. pc'[k] = pc[k] /\ period'[k] = per
      BY <1>10, <2>3, TickCases
    <3>2. /\ NextJob(k)' = NextJob(k)
          /\ InPhase(k)' <=> InPhase(k)
          /\ Slipped(k)' <=> Slipped(k)
          /\ InJob(k)' <=> InJob(k)
      BY <2>0, <3>1 DEF NextJob, InPhase, Slipped, InJob
    <3>3. per.epoch <= now => per.epoch <= now + 1
      BY TaskFacts
    <3> QED BY <1>0, <2>0, <3>1, <3>2, <3>3 DEF TimerInv
  <2> QED BY <2>1, <2>2, <2>3
<1> QED BY <1>1, <1>2, <1>3, <1>4, <1>5, <1>6, <1>8, <1>9, <1>10, OneTask

\* The readings in a record agree with the schedule it is judged by.
LEMMA RecordStep ==
  ASSUME RunnerInv, MeasuredInv, MNext, NEW k \in Active, Timed(k)
  PROVE  RecordInv(k)'
<1> DEFINE per == period[k]
<1>0. TimerInv(k) /\ RecordInv(k)
  BY TaskFacts
<1>1. CASE pc'[k] \notin {"opened"} \cup Sampled
  BY <1>1 DEF RecordInv, Sampled
<1>2. CASE Passed(k) /\ pc'[k] \in {"opened"} \cup Sampled
  <2>1. pc'[k] = pc[k] /\ UNCHANGED <<now, period[k], anchor[k], job[k], rec[k]>>
    BY <1>2 DEF Passed, Sampled
  <2> QED BY <1>0, <2>1 DEF RecordInv, Slipped, InJob
<1>3. CASE StartJob(k)
  <2>1. /\ pc[k] = "job" /\ pc'[k] = "opened" /\ UNCHANGED <<now, period, anchor, job>>
        /\ rec'[k].start = now /\ rec'[k].status = rec[k].status
    BY <1>3, TaskFacts DEF StartJob, Recorded, Goto, clockVars, Records
  <2>2. InJob(k)
    BY <2>1 DEF InJob, JobLabels
  <2>3. rec[k].status = "successful" => Release(k, job[k], anchor[k]) <= now
    BY <1>0, <2>2 DEF TimerInv
  <2> QED BY <2>1, <2>3 DEF RecordInv, Sampled
<1>4. CASE StatusBefore(k)
  <2>1. /\ pc[k] = "opened" /\ pc'[k] = "sampled" /\ UNCHANGED <<now, period, anchor, job>>
        /\ rec'[k].before = per /\ rec'[k].start = rec[k].start
        /\ rec'[k].status = rec[k].status
    BY <1>4, TaskFacts DEF StatusBefore, Recorded, Goto, clockVars, Records
  <2>2. ~InPhase(k) /\ InJob(k) /\ (Slipped(k)' <=> Slipped(k))
    BY <2>1 DEF InPhase, InJob, JobLabels, Slipped
  <2>3. NextJob(k) = job[k] + per.postponed + 1
    BY <2>1 DEF NextJob
  <2>4. per.state # "inactive" /\ (per.state = "expired" => per.postponed > 0) /\ per.postponed <= per.postponed
    BY <2>1, TaskFacts DEF Armed, JobLabels
  <2>5. ~Slipped(k) => per.timer = Release(k, job[k] + per.postponed + 1, anchor[k])
    BY <1>0, <2>1, <2>2, <2>3 DEF TimerInv, Armed, JobLabels
  <2>6. rec[k].status = "successful" => per.epoch = Release(k, job[k], anchor[k])
    BY <1>0, <2>2 DEF TimerInv
  <2> QED BY <1>0, <2>1, <2>2, <2>4, <2>5, <2>6 DEF RecordInv, Sampled
<1>5. ASSUME pc[k] \in Sampled, pc'[k] \in Sampled, UNCHANGED <<anchor, job>>,
             rec'[k].status = rec[k].status, rec'[k].before = rec[k].before,
             rec'[k].start = rec[k].start,
             period'[k].postponed = per.postponed \/ period'[k].postponed = per.postponed + 1,
             pc[k] = "complete" => pc'[k] = "complete",
             pc'[k] = "complete" => \/ pc[k] = "complete" /\ rec'[k].after = rec[k].after
                                    \/ pc[k] # "complete" /\ rec'[k].after = per
      PROVE  RecordInv(k)'
  <2>1. InJob(k) /\ InJob(k)' /\ (Slipped(k)' <=> Slipped(k))
    BY <1>5 DEF InJob, JobLabels, Sampled, Slipped
  <2>2. rec[k].status = "successful" => per.epoch = Release(k, job[k], anchor[k])
    BY <1>0, <2>1 DEF TimerInv
  <2>3. rec[k].before.postponed \in Nat
    BY TaskFacts DEF Records, Periods
  <2>4. pc'[k] \in Sampled \ {"complete"} => rec[k].before.postponed <= period'[k].postponed
    BY <1>0, <1>5, <2>3, TaskFacts DEF RecordInv
  <2>5. pc'[k] = "complete" => /\ rec[k].before.postponed <= rec'[k].after.postponed
                               /\ rec[k].status = "successful" =>
                                    rec'[k].after.epoch = Release(k, job[k], anchor[k])
    BY <1>0, <1>5, <2>2 DEF RecordInv
  <2>6. /\ rec[k].status = "successful" => Release(k, job[k], anchor[k]) <= rec[k].start
        /\ rec[k].before.state # "inactive"
        /\ rec[k].before.state = "expired" => rec[k].before.postponed > 0
        /\ ~Slipped(k) =>
             rec[k].before.timer = Release(k, job[k] + rec[k].before.postponed + 1, anchor[k])
        /\ rec[k].status = "successful" => rec[k].before.epoch = Release(k, job[k], anchor[k])
    BY <1>0, <1>5 DEF RecordInv
  <2> QED BY <1>5, <2>1, <2>4, <2>5, <2>6 DEF RecordInv
<1>6. CASE BeginExec(k) \/ EndJob(k) \/ StatusAfter(k)
  <2>1. /\ pc[k] \in Sampled \ {"complete"} /\ pc'[k] \in Sampled
        /\ UNCHANGED <<now, period, anchor, job>>
        /\ pc'[k] = "complete" => rec'[k].after = per
    BY <1>6, TaskFacts
       DEF BeginExec, EndJob, StatusAfter, Recorded, Goto, clockVars, Records, Sampled
  <2>2. /\ rec'[k].status = rec[k].status /\ rec'[k].before = rec[k].before
        /\ rec'[k].start = rec[k].start
    BY <1>6, TaskFacts DEF BeginExec, EndJob, StatusAfter, Recorded, Records
  <2> QED BY <1>5, <2>1, <2>2
<1>7. CASE Tick /\ pc'[k] \in {"opened"} \cup Sampled
  <2>1. /\ pc'[k] = pc[k] /\ UNCHANGED <<anchor, job, rec>>
        /\ period'[k] = per \/ period'[k] = Expired(per, now + 1)
    BY <1>7, TickCases DEF Tick, Sampled
  <2>2. period'[k].postponed = per.postponed \/ period'[k].postponed = per.postponed + 1
    BY <2>1, TaskFacts DEF Expired, Periods
  <2>3. CASE pc[k] \in Sampled
    BY <1>5, <2>1, <2>2, <2>3
  <2>4. CASE pc[k] = "opened"
    BY <1>0, <2>1, <2>4 DEF RecordInv, Sampled
  <2> QED BY <1>7, <2>1, <2>3, <2>4
<1>8. ReceiveArm(k) \/ ActivatePeriod(k) \/ ReportArmed(k) \/ CallPeriod(k) \/ CompleteJob(k)
        \/ CancelPeriod(k) => pc'[k] \notin {"opened"} \cup Sampled
  BY TaskFacts
     DEF ReceiveArm, ActivatePeriod, ReportArmed, CallPeriod, CompleteJob, CancelPeriod, Goto, Sampled
<1> QED BY <1>1, <1>2, <1>3, <1>4, <1>6, <1>7, <1>8, OneTask DEF MeasureStep

\* With hard deadlines a record the target goes on after, of a task that armed
\* at the epoch, has no certain error, and no doubt but of its resolution.
LEMMA SoundRecord ==
  ASSUME RunnerInv, MeasuredInv, NEW k \in Active, ~Soft,
         pc[k] = "complete", ArmedAtEpoch(k), ~StopsAfter(k, job[k], Closed(k))
  PROVE  /\ JobErrors(k, job[k], Closed(k)) = {}
         /\ Doubts(k, job[k], Closed(k)) \subseteq {"unresolved_epoch"}
<1> DEFINE r == Closed(k)
           release == Release(k, job[k], t0)
<1>1. /\ r.before = rec[k].before /\ r.after = rec[k].after /\ r.start = rec[k].start
      /\ r.status = rec[k].status /\ r.checksum = rec[k].checksum
      /\ r.before \in Periods /\ r.after \in Periods /\ r.start \in Nat
  BY TaskFacts DEF Closed, Records
<1>2. /\ r.checksum = "expected" /\ r.status = "successful"
      /\ r.after.state = "active" /\ ~(r.after.postponed > 0)
      /\ ~(r.completion >= Deadline(k, job[k], t0))
  BY DEF StopsAfter
<1>3. anchor[k] = t0
  <2>1. arm[k].before <= anchor[k] /\ anchor[k] <= arm[k].after
    BY TaskFacts DEF BracketInv
  <2> QED BY <2>1, TaskFacts DEF ArmedAtEpoch
<1>4. RecordInv(k)
  BY TaskFacts DEF Timed
<1>5. /\ r.before.state # "inactive" /\ (r.before.state = "expired" => r.before.postponed > 0)
      /\ r.before.epoch = release /\ release <= r.start
      /\ r.before.postponed <= r.after.postponed /\ r.after.epoch = release
  BY <1>1, <1>2, <1>3, <1>4 DEF RecordInv, Sampled
<1>6. r.before.postponed = 0 /\ r.after.postponed = 0 /\ release \in Nat
  <2>1. r.before.postponed \in Nat /\ r.after.postponed \in Nat
    BY <1>1 DEF Periods
  <2>2. release \in Nat
    BY ReleaseNext, TaskFacts
  <2> HIDE DEF r, release
  <2> QED BY <1>2, <1>5, <2>1, <2>2
<1>7. EpochFits(k, release, r)
  <2>1. release + 0 * PeriodOf[k] = release /\ release >= release - 1 /\ release <= release
    BY <1>6, NextMultiple, TaskFacts
  <2>2. 0 \in IF Soft THEN 0 .. release ELSE {0}
    BY <1>6
  <2> HIDE DEF r, release
  <2> QED BY <1>5, <2>1, <2>2 DEF EpochFits
<1>8. ~(r.start < release)
  BY <1>1, <1>5, <1>6
<1>9. Doubts(k, job[k], r) \subseteq {"unresolved_epoch"}
  BY <1>5 DEF Doubts
<1> HIDE DEF r, release
<1>10. JobErrors(k, job[k], r) = {}
  BY <1>2, <1>5, <1>6, <1>7, <1>8 DEF JobErrors, release
<1> QED BY <1>9, <1>10 DEF r

\* A job that ran with its timer off the nominal one, of a task that armed at
\* the epoch, leaves a record the host rejects.
LEMMA OffTimerRejected ==
  ASSUME RunnerInv, MeasuredInv, NEW k \in Active, Timed(k),
         pc[k] = "complete", ArmedAtEpoch(k), ~TimerNominal(k, job[k], rec[k].before)
  PROVE  JobErrors(k, job[k], Closed(k)) # {}
<1>1. anchor[k] = t0
  <2>1. arm[k].before <= anchor[k] /\ anchor[k] <= arm[k].after
    BY TaskFacts DEF BracketInv
  <2> QED BY <2>1, TaskFacts DEF ArmedAtEpoch
<1>2. Slipped(k)
  <2>1. rec[k].before.postponed \in Nat
    BY TaskFacts DEF Records, Periods
  <2>2. job[k] + rec[k].before.postponed \in Nat
    BY <2>1, TaskFacts
  <2>3. Deadline(k, job[k] + rec[k].before.postponed, t0)
          = Release(k, job[k] + rec[k].before.postponed + 1, t0)
    BY <2>2, ReleaseNext, TaskFacts
  <2> QED BY <1>1, <2>3, TaskFacts DEF RecordInv, Sampled, TimerNominal
<1>3. ~Soft /\ Closed(k).status # "successful"
  BY <1>2, TaskFacts DEF Slipped, Timed, Closed, Records
<1>4. "period_status" \in JobErrors(k, job[k], Closed(k))
  BY <1>3 DEF JobErrors, ErrorNames
<1> QED BY <1>4

\* Where a task stands when the host holds something against it.
LEMMA VerdictStep ==
  ASSUME RunnerInv, MeasuredInv, MNext, NEW k \in Active
  PROVE  VerdictInv(k)'
<1>0. VerdictInv(k) /\ errors \in [Active -> SUBSET ErrorNames]
  BY TaskFacts DEF MeasuredInv
<1> DEFINE Early == {"create", "arm", "activate", "after", "gate"}
<1>1. CASE CompleteJob(k) /\ Judge(k)
  <2>1. /\ pc[k] = "complete" /\ arm' = arm /\ t0' = t0
        /\ pc'[k] = "cancel" \/ (pc'[k] = "period" /\ ~StopsAfter(k, job[k], Closed(k)))
        /\ k \in drifted' => k \in drifted \/ ~TimerNominal(k, job[k], rec[k].before)
    BY <1>0, <1>1, TaskFacts DEF CompleteJob, Judge, Goto, coordVars
  <2>2. PICK doubts \in SUBSET Doubts(k, job[k], Closed(k)) :
          errors'[k] = errors[k] \cup JobErrors(k, job[k], Closed(k)) \cup doubts
    BY <1>0, <1>1 DEF Judge
  <2>3. ArmedAtEpoch(k)' <=> ArmedAtEpoch(k)
    BY <2>1 DEF ArmedAtEpoch
  <2>4. k \in drifted' /\ Timed(k) /\ ArmedAtEpoch(k) => errors'[k] # {}
    BY <1>0, <2>1, <2>2, OffTimerRejected DEF VerdictInv
  <2>5. ASSUME ~Soft, ArmedAtEpoch(k), pc'[k] # "cancel", errors'[k] # {}
        PROVE  errors'[k] = {"unresolved_epoch"} /\ k \notin drifted'
    <3>1. JobErrors(k, job[k], Closed(k)) = {} /\ doubts \subseteq {"unresolved_epoch"}
      BY <2>1, <2>5, SoundRecord
    <3>2. TimerNominal(k, job[k], rec[k].before)
      BY <2>1, <2>5, <3>1, OffTimerRejected DEF Timed
    <3>3. errors[k] \subseteq {"unresolved_epoch"} /\ k \notin drifted
      BY <1>0, <2>1, <2>5 DEF VerdictInv, Over, Timed
    <3> QED BY <2>1, <2>2, <2>5, <3>1, <3>2, <3>3
  <2>6. pc'[k] = "cancel" => Over(k)'
    BY DEF Over
  <2>7. pc'[k] \notin {"create", "arm", "activate", "after", "gate"}
    BY <2>1
  <2>8. Timed(k)' <=> Timed(k)
    BY DEF Timed
  <2> QED BY <2>3, <2>4, <2>5, <2>6, <2>7, <2>8 DEF VerdictInv
<1>2. ASSUME Unjudged(k), pc[k] \notin Early, pc'[k] \notin Early,
             Over(k) => Over(k)',
             arm'[k] = arm[k]
      PROVE  VerdictInv(k)'
  <2>1. t0' = t0
    BY <1>2, EpochKept
  <2>2. ArmedAtEpoch(k)' <=> ArmedAtEpoch(k)
    BY <1>2, <2>1 DEF ArmedAtEpoch
  <2> QED BY <1>0, <1>2, <2>2 DEF VerdictInv, Unjudged, Timed
<1>3. CASE Unjudged(k) /\ pc[k] \notin Early
  <2>1. CASE Passed(k)
    BY <1>2, <1>3, <2>1 DEF Passed, Over
  <2>2. CASE CallPeriod(k) \/ CancelPeriod(k)
    BY <1>2, <1>3, <2>2, TaskFacts DEF CallPeriod, CancelPeriod, Goto, Over
  <2>5. CASE MeasureStep(k)
    BY <1>2, <1>3, <2>5, MeasureMoves, TaskFacts DEF Goto, Over, JobLabels
  <2>3. CASE Tick
    <3>1. arm' = arm /\ (pc'[k] = pc[k] \/ (pc[k] = "blocked" /\ pc'[k] = "job"))
      BY <2>3, TickCases DEF Tick
    <3> QED BY <1>2, <1>3, <3>1 DEF Over
  <2>4. ReceiveArm(k) \/ ActivatePeriod(k) \/ ReportArmed(k) => pc[k] \in Early
    BY DEF ReceiveArm, ActivatePeriod, ReportArmed
  <2> QED BY <1>1, <1>3, <2>1, <2>2, <2>3, <2>4, <2>5, OneTask
<1>4. ASSUME Unjudged(k), pc[k] \in Early PROVE VerdictInv(k)'
  <2>1. errors'[k] = {} /\ k \notin drifted'
    BY <1>0, <1>4 DEF VerdictInv, Unjudged
  <2> QED BY <2>1 DEF VerdictInv
<1> QED BY <1>1, <1>3, <1>4, OneTask

\* MeasuredInv is kept by every step of the judged run.
LEMMA MeasuredStep ==
  ASSUME RunnerInv, MeasuredInv, MNext
  PROVE  MeasuredInv'
<1>0. errors \in [Active -> SUBSET ErrorNames] /\ drifted \in SUBSET Active
  BY DEF MeasuredInv
<1>1. errors' \in [Active -> SUBSET ErrorNames] /\ drifted' \in SUBSET Active
  <2>1. ASSUME NEW i \in Active, Judge(i)
        PROVE  errors' \in [Active -> SUBSET ErrorNames] /\ drifted' \in SUBSET Active
    <3>1. /\ JobErrors(i, job[i], Closed(i)) \in SUBSET ErrorNames
          /\ Doubts(i, job[i], Closed(i)) \in SUBSET ErrorNames
      BY DEF JobErrors, Doubts, ErrorNames
    <3>2. \A doubts \in SUBSET Doubts(i, job[i], Closed(i)) :
            errors[i] \cup JobErrors(i, job[i], Closed(i)) \cup doubts \in SUBSET ErrorNames
      BY <1>0, <3>1
    <3> QED BY <1>0, <2>1, <3>2 DEF Judge
  <2> QED BY <1>0, <2>1 DEF MNext, judged
<1>2. ASSUME NEW k \in Active
      PROVE  BracketInv(k)' /\ (Timed(k)' => TimerInv(k)' /\ RecordInv(k)') /\ VerdictInv(k)'
  <2>1. Timed(k)' <=> Timed(k)
    BY DEF Timed
  <2> QED BY <2>1, BracketStep, TimerStep, RecordStep, VerdictStep
<1> QED BY <1>1, <1>2 DEF MeasuredInv

\* The judged run is a run: judging changes nothing of it.
LEMMA JudgedRuns == MSpec => Spec
<1>1. MInit => Init
  BY DEF MInit
<1>2. [MNext]_<<vars, judged>> => [Next]_vars
  BY DEF MNext, Next, WorkerStep
<1> QED BY <1>1, <1>2, PTL DEF MSpec, Spec

\* The invariant of the judged run: the activation lies between its readings,
\* every task is on schedule until an offence, and an offence ends a hard task.
THEOREM MeasuredInvariant == MSpec => []MeasuredInv
<1>1. MInit => MeasuredInv
  BY DEF MInit, Init, MeasuredInv, BracketInv, TimerInv, RecordInv, VerdictInv, InPhase, InJob,
         JobLabels, Sampled, Armed, NoPeriod
<1>2. RunnerInv /\ MeasuredInv /\ [MNext]_<<vars, judged>> => MeasuredInv'
  <2>1. MeasuredInv /\ UNCHANGED <<vars, judged>> => MeasuredInv'
    BY DEF vars, judged, clockVars, coordVars, eventVars, workerVars, MeasuredInv, Timed,
           BracketInv, TimerInv, RecordInv, VerdictInv, InPhase, Slipped, InJob, NextJob,
           ArmedAtEpoch, Over
  <2> QED BY <2>1, MeasuredStep
<1>3. MSpec => []RunnerInv
  BY JudgedRuns, RunnerInvariant, PTL
<1> QED BY <1>1, <1>2, <1>3, PTL DEF MSpec

\* A run the host accepts ran every job on its nominal timer, for any plan,
\* however late its jobs and handshakes, if no soft task has an offset.
THEOREM AcceptedIsOnSchedule ==
  ASSUME Soft => \A i \in Active : OffsetOf[i] = 0
  PROVE  MSpec => []AcceptedOnSchedule
<1>1. MeasuredInv => AcceptedOnSchedule
  BY DEF MeasuredInv, VerdictInv, AcceptedOnSchedule, Accepted, Timed
<1> QED BY <1>1, MeasuredInvariant, PTL

\* With hard deadlines no task runs a job after a record the host rejects, for
\* any plan and any offsets, unless all it holds against the task is that its
\* readings leave an epoch open; and such a task is on its schedule.
THEOREM OffenceEndsTask == MSpec => []OffenceIsLast
<1>1. MeasuredInv => OffenceIsLast
  BY DEF MeasuredInv, VerdictInv, OffenceIsLast
<1> QED BY <1>1, MeasuredInvariant, PTL
=============================================================================
