--------------------------- MODULE InterferenceProofs -------------------------
(***************************************************************************)
(* Theorems about the measurement programs, for every number of cores,     *)
(* tasks and jobs, every period and placement and any number of ticks.     *)
(***************************************************************************)
EXTENDS InterferenceScenarios, FiniteSetTheorems, TLAPS

Statuses == {"created", "starting", "job", "blocked", "done", "deleted"}
Args == [runs : Nat, misses : Nat, averaged : BOOLEAN]

Typed ==
  /\ prog \in Programs
  /\ scen \in 1 .. Len(prog.scenarios)
  /\ main \in {"start", "wait", "printed", "exited"}
  /\ now \in Nat /\ sem \in Nat /\ taken \in Nat
  /\ status \in [Members -> Statuses]
  /\ begun \in [Members -> BOOLEAN]
  /\ due \in [Members -> Nat]
  /\ per \in [Members -> Periods]
  /\ args \in [Members -> Args]
  /\ anchor \in [Members -> Nat]
  /\ late \in [Members -> Nat]

\* A task has run what its status says.
TaskInv(i) ==
  /\ status[i] \in {"created", "starting"} =>
       args[i] = NoArgs /\ late[i] = 0 /\ per[i] = NoPeriod /\ due[i] = 0
  /\ status[i] \in {"job", "blocked"} => args[i].runs < prog.jobs[i]
  /\ status[i] \in {"done", "deleted"} =>
       args[i].runs = prog.jobs[i] /\ args[i].averaged /\ per[i] = NoPeriod
  /\ status[i] = "deleted" <=> main = "printed"
  /\ begun[i] => status[i] = "job"

\* The timer is on the nominal schedule of the first call of period().
ScheduleInv(i) ==
  LET P == prog.period[i]
  IN  /\ status[i] \in {"job", "blocked"} =>
           /\ per[i].state # "inactive" /\ per[i].next = P
           /\ now < per[i].timer /\ per[i].timer <= now + P
      /\ status[i] = "job" =>
           /\ main # "exited" =>
                per[i].timer = anchor[i] + (args[i].runs + 1 + per[i].postponed) * P
           /\ per[i].state = "expired" => per[i].postponed > 0
           /\ 0 < due[i] /\ due[i] <= now + P
      /\ status[i] = "blocked" =>
           /\ per[i].timer = anchor[i] + args[i].runs * P
           /\ per[i].state = "active" /\ per[i].postponed = 0

\* The misses are the late jobs; a strict program counts none and exits.
MissInv(i) ==
  IF prog.strict THEN args[i].misses = 0 /\ (main # "exited" => late[i] = 0)
                 ELSE args[i].misses = late[i]

\* The cores are used as the scheduler orders the ready tasks.
CoresInv ==
  /\ main \in {"printed", "exited"} => running = {}
  /\ running \subseteq Ready
  /\ Fits(running)
  /\ \A i \in running, k \in Ready \ running :
       CoresOf(i) = CoresOf(k) => ~Before(k, i)

ScenarioInv ==
  /\ Typed
  /\ \A i \in Members : TaskInv(i) /\ ScheduleInv(i) /\ MissInv(i)
  /\ NoReleaseLost
  /\ CoresInv
  /\ NeverPreempted

-----------------------------------------------------------------------------
\* What a scenario is made of, and it stays the same until the next one.
LEMMA ScenarioFacts ==
  ASSUME Typed
  PROVE  /\ IsFiniteSet(Members) /\ Members \subseteq prog.tasks
         /\ Cardinality(Members) \in Nat /\ Limit \in Nat
         /\ Cardinality(Members) <= Limit
         /\ prog.strict \in BOOLEAN
         /\ \A i \in Members : /\ prog.period[i] \in Nat \ {0}
                               /\ prog.jobs[i] \in Nat \ {0}
                               /\ Cardinality(CoresOf(i)) \in Nat
<1>1. WellFormed(prog) /\ scen \in 1 .. Len(prog.scenarios)
  BY ProgramsAssumption DEF Typed
<1>2. /\ IsFiniteSet(Members) /\ Members \subseteq prog.tasks
      /\ Limit \in Nat /\ Cardinality(Members) <= Limit
      /\ \A i \in Members : IsFiniteSet(CoresOf(i))
  BY <1>1 DEF WellFormed, Members, Limit, CoresOf
<1> QED BY <1>1, <1>2, FS_CardinalityType DEF WellFormed

\* Members, cores and what fits depend on the scenario alone.
LEMMA SameScenario ==
  ASSUME UNCHANGED <<prog, scen>>
  PROVE  /\ Members' = Members /\ Limit' = Limit
         /\ \A i : CoresOf(i)' = CoresOf(i)
         /\ \A R : Fits(R)' <=> Fits(R)
BY DEF Members, Limit, CoresOf, Fits

\* Every step but the preparation of a scenario leaves the scenario alone.
LEMMA ScenarioStays == Next => Prepare \/ UNCHANGED <<prog, scen>>
BY DEF Next, Obtain, PrintResults, Tick, Start, FirstPeriod, BeginJob, CallPeriod,
       CountMiss, ExitOnMiss, Finish

\* One more multiple of a period is one period more.
LEMMA NextMultiple ==
  \A n, p \in Nat : n * p \in Nat /\ (n + 1) * p = n * p + p /\ 1 * p = p
OBVIOUS

\* A later job's release is at least a period after job j's.
LEMMA LaterMultiple ==
  \A j, n, p \in Nat : n > 0 => (j + n) * p >= j * p + p
OBVIOUS

\* What the calls and the timer leave behind is a period object.
LEMMA PeriodTypes ==
  /\ NoPeriod \in Periods
  /\ \A l, n \in Nat : Activated(l, n) \in Periods
  /\ \A r \in Periods, l, n \in Nat :
       /\ Concluded(r, l) \in Periods
       /\ Restarted(r, n) \in Periods
       /\ Expired(r, n) \in Periods
       /\ r.postponed > 0 => ReleasedLate(r, l) \in Periods
<1>1. NoPeriod \in Periods /\ \A l, n \in Nat : Activated(l, n) \in Periods
  BY DEF NoPeriod, Periods, States, Activated
<1>2. ASSUME NEW r \in Periods, NEW l \in Nat
      PROVE  Concluded(r, l) \in Periods
  BY DEF Periods, Concluded
<1>3. ASSUME NEW r \in Periods, NEW n \in Nat
      PROVE  Restarted(r, n) \in Periods /\ Expired(r, n) \in Periods
  <2>1. n + r.next \in Nat /\ r.postponed + 1 \in Nat
    BY DEF Periods
  <2>2. Restarted(r, n) \in Periods
    BY <2>1 DEF Periods, States, Restarted
  <2>3. Expired(r, n) \in Periods
    BY <2>1 DEF Periods, States, Expired
  <2> QED BY <2>2, <2>3
<1>4. ASSUME NEW r \in Periods, NEW l \in Nat, r.postponed > 0
      PROVE  ReleasedLate(r, l) \in Periods
  <2>1. r.postponed - 1 \in Nat
    BY <1>4 DEF Periods
  <2> QED BY <2>1 DEF Periods, States, ReleasedLate
<1> QED BY <1>1, <1>2, <1>3, <1>4

\* A call that does not block has a release on its account.
LEMMA LateCall ==
  ASSUME NEW r \in Periods, ~Blocks(r), r.state # "inactive",
         r.state = "expired" => r.postponed > 0
  PROVE  r.postponed > 0
BY DEF Blocks, Periods, States

\* The steps by which a task becomes another's concern: all others stay.
LEMMA OthersStay ==
  ASSUME Typed, NEW i \in Members,
         \/ Start(i) \/ FirstPeriod(i) \/ BeginJob(i) \/ CallPeriod(i)
         \/ CountMiss(i) \/ ExitOnMiss(i) \/ Finish(i)
  PROVE  /\ UNCHANGED <<prog, scen, now, taken>>
         /\ \A k \in Members \ {i} :
              /\ status'[k] = status[k] /\ per'[k] = per[k] /\ due'[k] = due[k]
              /\ args'[k] = args[k] /\ anchor'[k] = anchor[k]
              /\ late'[k] = late[k] /\ begun'[k] = begun[k]
BY DEF Typed, Start, FirstPeriod, BeginJob, CallPeriod, CountMiss, ExitOnMiss, Finish,
       EndsJob, Called

-----------------------------------------------------------------------------
(***************************************************************************)
(* Types.                                                                  *)
(***************************************************************************)
\* Every step leaves values of the types.
LEMMA TypedStep ==
  ASSUME Typed, Next, \A i \in Members : ScheduleInv(i)
  PROVE  Typed'
<1>0. /\ \A i \in Members : prog.period[i] \in Nat /\ prog.jobs[i] \in Nat
      /\ Limit \in Nat
  BY ScenarioFacts
<1>1. CASE Prepare
  <2>1. prog' = prog /\ scen' = scen + 1 /\ scen' \in 1 .. Len(prog'.scenarios)
    <3>1. Len(prog.scenarios) \in Nat
      BY ProgramsAssumption DEF Typed, WellFormed
    <3> QED BY <1>1, <3>1 DEF Prepare, Typed
  <2>2. NoArgs \in Args
    BY DEF NoArgs, Args
  <2> QED BY <1>1, <2>1, <2>2, PeriodTypes DEF Prepare, Typed, Statuses
<1>2. CASE UNCHANGED <<prog, scen>>
  <2>0. Members' = Members
    BY <1>2, SameScenario
  <2>1. CASE Obtain
    BY <2>0, <2>1 DEF Obtain, Typed
  <2>2. CASE PrintResults
    BY <2>0, <2>2 DEF PrintResults, Typed, Statuses
  <2>3. CASE Tick
    <3>1. per' \in [Members -> Periods]
      <4>1. now + 1 \in Nat /\ \A i \in Members : per[i] \in Periods
        BY DEF Typed
      <4>2. \A i \in Members : /\ Restarted(per[i], now + 1) \in Periods
                               /\ Expired(per[i], now + 1) \in Periods
        BY <4>1, PeriodTypes
      <4> QED BY <2>3, <4>1, <4>2 DEF Tick
    <3>2. status' \in [Members -> Statuses] /\ due' \in [Members -> Nat]
      BY <2>3, <1>0 DEF Tick, Typed, Statuses
    <3> QED BY <2>0, <2>3, <3>1, <3>2 DEF Tick, Typed
  <2>4. ASSUME NEW i \in Members, Start(i) PROVE Typed'
    BY <2>0, <2>4 DEF Start, Typed, Statuses
  <2>5. ASSUME NEW i \in Members, FirstPeriod(i) PROVE Typed'
    <3>1. Activated(prog.period[i], now) \in Periods
      BY <1>0, PeriodTypes DEF Typed
    <3> QED BY <1>0, <2>0, <2>5, <3>1 DEF FirstPeriod, Typed, Statuses
  <2>6. ASSUME NEW i \in Members, BeginJob(i) PROVE Typed'
    BY <2>0, <2>6 DEF BeginJob, Typed
  <2>7. ASSUME NEW i \in Members
        PROVE  /\ AfterRun(i) \in Args /\ Missed(AfterRun(i)) \in Args
               /\ [AfterRun(i) EXCEPT !.averaged = TRUE] \in Args
    <3>1. args[i] \in Args
      BY DEF Typed
    <3>2. AfterRun(i) \in Args
      BY <3>1 DEF AfterRun, Args
    <3>3. AfterRun(i).misses + 1 \in Nat
      BY <3>2 DEF Args
    <3>4. Missed(AfterRun(i)) \in Args
      BY <3>2, <3>3 DEF Missed, Args
    <3>5. [AfterRun(i) EXCEPT !.averaged = TRUE] \in Args
      BY <3>2 DEF Args
    <3> QED BY <3>2, <3>4, <3>5
  <2>8. ASSUME NEW i \in Members, Called(i)
        PROVE  late' \in [Members -> Nat] /\ anchor' \in [Members -> Nat]
    BY <2>8 DEF Called, Typed
  <2>9. ASSUME NEW i \in Members, CallPeriod(i) PROVE Typed'
    <3>1. Concluded(per[i], prog.period[i]) \in Periods
      BY <1>0, PeriodTypes DEF Typed
    <3> QED BY <2>0, <2>7, <2>8, <2>9, <3>1 DEF CallPeriod, EndsJob, Typed, Statuses
  <2>10. ASSUME NEW i \in Members, CountMiss(i) PROVE Typed'
    <3>1. per[i].postponed > 0
      BY <2>10, LateCall DEF CountMiss, EndsJob, ScheduleInv, Typed
    <3>2. ReleasedLate(per[i], prog.period[i]) \in Periods /\ per[i].timer \in Nat
      BY <1>0, <3>1, PeriodTypes DEF Typed, Periods
    <3> QED BY <2>0, <2>7, <2>8, <2>10, <3>2 DEF CountMiss, EndsJob, Typed
  <2>11. ASSUME NEW i \in Members, ExitOnMiss(i) PROVE Typed'
    BY <2>0, <2>7, <2>8, <2>11 DEF ExitOnMiss, EndsJob, Typed
  <2>12. ASSUME NEW i \in Members, Finish(i) PROVE Typed'
    <3>1. [AfterRun(i) EXCEPT !.averaged = TRUE] \in Args
      BY <2>7
    <3>2. sem' \in Nat
      BY <2>12 DEF Finish, Typed
    <3> QED BY <2>0, <2>12, <3>1, <3>2, PeriodTypes DEF Finish, EndsJob, Typed, Statuses
  <2> QED BY <2>1, <2>2, <2>3, <2>4, <2>5, <2>6, <2>9, <2>10, <2>11, <2>12, <1>2
        DEF Next, Prepare, Typed
<1> QED BY <1>1, <1>2, ScenarioStays

-----------------------------------------------------------------------------
(***************************************************************************)
(* One task: what it has run, its schedule and its misses.                 *)
(***************************************************************************)
TaskFacts(i) == TaskInv(i) /\ ScheduleInv(i) /\ MissInv(i)

\* A new scenario begins with nothing of the last one.
LEMMA PreparedTasks ==
  ASSUME Typed, Prepare
  PROVE  \A i \in Members' : TaskFacts(i)'
<1> SUFFICES ASSUME NEW i \in Members' PROVE TaskFacts(i)'
  OBVIOUS
<1>1. /\ main' = "start" /\ status'[i] = "created" /\ args'[i] = NoArgs /\ late'[i] = 0
      /\ per'[i] = NoPeriod /\ due'[i] = 0 /\ begun'[i] = FALSE
  BY DEF Prepare
<1> QED BY <1>1 DEF TaskFacts, TaskInv, ScheduleInv, MissInv, NoArgs

\* The steps of one task leave the others, as far as Init goes on.
LEMMA OtherTasks ==
  ASSUME Typed, CoresInv, NEW i \in Members, NEW k \in Members, i # k, TaskFacts(k),
         \/ Start(i) \/ FirstPeriod(i) \/ BeginJob(i) \/ CallPeriod(i)
         \/ CountMiss(i) \/ ExitOnMiss(i) \/ Finish(i)
  PROVE  TaskFacts(k)'
<1>1. /\ UNCHANGED <<prog, scen, now, taken>>
      /\ status'[k] = status[k] /\ per'[k] = per[k] /\ due'[k] = due[k]
      /\ args'[k] = args[k] /\ anchor'[k] = anchor[k]
      /\ late'[k] = late[k] /\ begun'[k] = begun[k]
  BY OthersStay
<1>2. main' = main \/ (main \in {"start", "wait"} /\ main' \in {"start", "wait", "exited"})
  <2>1. i \in running => main \in {"start", "wait"}
    BY DEF CoresInv, Typed
  <2> QED BY <2>1 DEF Start, FirstPeriod, BeginJob, CallPeriod, CountMiss, ExitOnMiss,
                      EndsJob, Finish
<1> QED BY <1>1, <1>2 DEF TaskFacts, TaskInv, ScheduleInv, MissInv


\* A clock tick at one task, as its timer stands.
LEMMA TickCases ==
  ASSUME Typed, Tick, NEW i \in Members
  PROVE  /\ now' = now + 1 /\ main \in {"start", "wait"}
         /\ UNCHANGED <<prog, scen, main, sem, taken, begun, args, anchor, late>>
         /\ Wakes(i) => /\ per'[i] = Restarted(per[i], now + 1) /\ status'[i] = "job"
                        /\ due'[i] = now + 1 + prog.period[i]
         /\ ~Wakes(i) => status'[i] = status[i] /\ due'[i] = due[i]
         /\ Fires(i) /\ ~Wakes(i) => per'[i] = Expired(per[i], now + 1)
         /\ ~Fires(i) => per'[i] = per[i]
BY DEF Tick, Wakes

\* A tick keeps what holds of a task: a release or a postponed one is on time.
LEMMA TickTask ==
  ASSUME Typed, Tick, NEW i \in Members, TaskFacts(i)
  PROVE  TaskFacts(i)'
<1> DEFINE P == prog.period[i]
           R == args[i].runs
<1>0. /\ P \in Nat \ {0} /\ R \in Nat /\ now \in Nat /\ anchor[i] \in Nat /\ per[i] \in Periods
      /\ due[i] \in Nat
  BY ScenarioFacts DEF Typed, Args
<1>1. CASE Wakes(i)
  <2>0. status[i] = "blocked" /\ per[i].timer = now + 1
    BY <1>1 DEF Wakes, Fires
  <2>1. /\ per[i].next = P /\ per[i].postponed = 0 /\ per[i].timer = anchor[i] + R * P
        /\ R < prog.jobs[i]
    BY <2>0 DEF TaskFacts, TaskInv, ScheduleInv
  <2>2. /\ per'[i] = Restarted(per[i], now + 1) /\ status'[i] = "job"
        /\ due'[i] = now + 1 + P /\ now' = now + 1
        /\ UNCHANGED <<prog, main, begun, args, anchor, late>>
    BY <1>1, TickCases
  <2>3. /\ per'[i].state = "active" /\ per'[i].next = P /\ per'[i].postponed = 0
        /\ per'[i].timer = now + 1 + P
    BY <1>0, <2>1, <2>2 DEF Restarted, Periods
  <2>4. per'[i].timer = anchor[i] + (R + 1 + 0) * P
    BY <1>0, <2>0, <2>1, <2>3, NextMultiple
  <2> QED BY <1>0, <2>0, <2>1, <2>2, <2>3, <2>4, TickCases
        DEF TaskFacts, TaskInv, ScheduleInv, MissInv
<1>2. CASE Fires(i) /\ ~Wakes(i)
  <2>0. /\ per[i].timer = now + 1 /\ status[i] # "blocked" /\ per[i].state # "inactive"
        /\ main \in {"start", "wait"}
    BY <1>2, TickCases DEF Wakes, Fires
  <2>1. status[i] = "job"
    BY <2>0 DEF TaskFacts, TaskInv, NoPeriod, Typed, Statuses
  <2>2. /\ per[i].next = P /\ R < prog.jobs[i] /\ per[i].postponed \in Nat
        /\ per[i].timer = anchor[i] + (R + 1 + per[i].postponed) * P
    BY <1>0, <2>0, <2>1 DEF TaskFacts, TaskInv, ScheduleInv, Periods
  <2>3. /\ per'[i] = Expired(per[i], now + 1) /\ status'[i] = "job" /\ due'[i] = due[i]
        /\ now' = now + 1
        /\ UNCHANGED <<prog, main, begun, args, anchor, late>>
    BY <1>2, <2>1, TickCases
  <2>4. /\ per'[i].state = "expired" /\ per'[i].next = P
        /\ per'[i].postponed = per[i].postponed + 1
        /\ per'[i].timer = now + 1 + P
    BY <1>0, <2>2, <2>3 DEF Expired, Periods
  <2>5. (R + 1 + (per[i].postponed + 1)) * P = (R + 1 + per[i].postponed) * P + P
    <3>1. R + 1 + per[i].postponed \in Nat
      BY <1>0, <2>2
    <3> QED BY <1>0, <2>2, <3>1, NextMultiple
  <2>6. per'[i].timer = anchor[i] + (R + 1 + per'[i].postponed) * P
    BY <1>0, <2>0, <2>2, <2>4, <2>5
  <2> QED BY <1>0, <2>0, <2>1, <2>2, <2>3, <2>4, <2>6
        DEF TaskFacts, TaskInv, ScheduleInv, MissInv
<1>3. CASE ~Fires(i)
  <2>1. /\ per'[i] = per[i] /\ status'[i] = status[i] /\ due'[i] = due[i]
        /\ now' = now + 1
        /\ UNCHANGED <<prog, main, begun, args, anchor, late>>
    BY <1>3, TickCases DEF Wakes
  <2>2. status[i] \in {"job", "blocked"} => now + 1 < per[i].timer /\ per[i].timer <= now + P
    <3>1. per[i].timer \in Nat
      BY <1>0 DEF Periods
    <3> QED BY <1>0, <1>3, <3>1 DEF TaskFacts, ScheduleInv, Fires
  <2>3. TaskInv(i)' /\ MissInv(i)'
    BY <2>1 DEF TaskFacts, TaskInv, MissInv
  <2>4. ScheduleInv(i)'
    <3>1. /\ prog'.period[i] = P /\ args'[i].runs = R /\ main' = main
          /\ anchor'[i] = anchor[i] /\ now' = now + 1
      BY <2>1
    <3>2. status[i] \in {"job", "blocked"} =>
            /\ per[i].state # "inactive" /\ per[i].next = P
            /\ now' < per[i].timer /\ per[i].timer <= now' + P
      BY <1>0, <2>1, <2>2 DEF TaskFacts, ScheduleInv, Periods
    <3>3. status[i] = "job" =>
            /\ main # "exited" =>
                 per[i].timer = anchor[i] + (R + 1 + per[i].postponed) * P
            /\ per[i].state = "expired" => per[i].postponed > 0
            /\ 0 < due[i] /\ due[i] <= now' + P
      BY <1>0, <2>1 DEF TaskFacts, ScheduleInv
    <3>4. status[i] = "blocked" =>
            /\ per[i].timer = anchor[i] + R * P
            /\ per[i].state = "active" /\ per[i].postponed = 0
      BY DEF TaskFacts, ScheduleInv
    <3> QED BY <2>1, <3>1, <3>2, <3>3, <3>4 DEF ScheduleInv
  <2> QED BY <2>3, <2>4 DEF TaskFacts
<1> QED BY <1>1, <1>2, <1>3 DEF Wakes

\* A job on the schedule is on time exactly if the next call blocks.
LEMMA LateOrOnTime ==
  ASSUME Typed, NEW i \in Members, TaskFacts(i), status[i] = "job", main # "exited"
  PROVE  (now >= anchor[i] + (args[i].runs + 1) * prog.period[i]) <=> ~Blocks(per[i])
<1> DEFINE P == prog.period[i]
           R == args[i].runs
           Q == per[i].postponed
<1>0. /\ P \in Nat \ {0} /\ R \in Nat /\ now \in Nat /\ anchor[i] \in Nat
      /\ per[i] \in Periods /\ Q \in Nat /\ per[i].timer \in Nat
  BY ScenarioFacts DEF Typed, Args, Periods
<1>1. /\ per[i].timer = anchor[i] + (R + 1 + Q) * P
      /\ now < per[i].timer /\ per[i].timer <= now + P
      /\ per[i].state = "expired" => Q > 0
      /\ per[i].state # "inactive"
  BY DEF TaskFacts, ScheduleInv
<1>2. (R + 1) * P \in Nat
  BY <1>0, NextMultiple
<1>3. CASE Blocks(per[i])
  <2>1. Q = 0
    BY <1>3 DEF Blocks
  <2>2. per[i].timer = anchor[i] + (R + 1) * P
    BY <1>0, <1>1, <2>1
  <2> QED BY <1>0, <1>1, <1>2, <1>3, <2>2
<1>4. CASE ~Blocks(per[i])
  <2>1. Q > 0
    BY <1>0, <1>1, <1>4, LateCall
  <2>2. (R + 1 + Q) * P >= (R + 1) * P + P /\ (R + 1 + Q) * P \in Nat
    <3>1. R + 1 \in Nat /\ R + 1 + Q \in Nat
      BY <1>0
    <3> QED BY <1>0, <2>1, <3>1, LaterMultiple, NextMultiple
  <2> QED BY <1>0, <1>1, <1>2, <1>4, <2>2
<1> QED BY <1>3, <1>4

\* The step of a task keeps what holds of it.
LEMMA OwnTask ==
  ASSUME Typed, CoresInv, NEW i \in Members, TaskFacts(i),
         \/ Start(i) \/ FirstPeriod(i) \/ BeginJob(i) \/ CallPeriod(i)
         \/ CountMiss(i) \/ ExitOnMiss(i) \/ Finish(i)
  PROVE  TaskFacts(i)'
<1> DEFINE P == prog.period[i]
           R == args[i].runs
<1>0. /\ P \in Nat \ {0} /\ R \in Nat /\ now \in Nat /\ anchor[i] \in Nat
      /\ per[i] \in Periods /\ args[i] \in Args /\ late[i] \in Nat /\ prog.jobs[i] \in Nat \ {0}
      /\ prog.strict \in BOOLEAN
      /\ i \in running => main \in {"start", "wait"}
      /\ main \in {"start", "wait"} => status[i] # "deleted"
  BY ScenarioFacts DEF Typed, Args, CoresInv, TaskFacts, TaskInv
<1>1. CASE Start(i)
  <2>1. /\ status[i] = "created" /\ status'[i] = "starting" /\ main \in {"start", "wait"}
        /\ main' \in {"start", "wait"}
        /\ UNCHANGED <<prog, now, due, per, begun, args, anchor, late>>
    BY <1>1 DEF Start, Created, Typed
  <2> QED BY <2>1 DEF TaskFacts, TaskInv, ScheduleInv, MissInv
<1>2. CASE FirstPeriod(i)
  <2>1. /\ status[i] = "starting" /\ status'[i] = "job" /\ per'[i] = Activated(P, now)
        /\ due'[i] = now + P /\ anchor'[i] = now /\ main \in {"start", "wait"}
        /\ UNCHANGED <<prog, main, now, begun, args, late>>
    BY <1>0, <1>2 DEF FirstPeriod, Typed
  <2>2. R = 0 /\ (0 + 1 + 0) * P = P
    BY <1>0, <2>1 DEF TaskFacts, TaskInv, NoArgs
  <2> QED BY <1>0, <2>1, <2>2 DEF TaskFacts, TaskInv, ScheduleInv, MissInv, Activated
<1>3. CASE BeginJob(i)
  <2>1. /\ status[i] = "job"
        /\ UNCHANGED <<prog, main, now, status, due, per, args, anchor, late>>
    BY <1>3 DEF BeginJob
  <2> QED BY <2>1 DEF TaskFacts, TaskInv, ScheduleInv, MissInv
<1>4. CASE CallPeriod(i)
  <2>0. /\ status[i] = "job" /\ main \in {"start", "wait"} /\ R + 1 # prog.jobs[i]
        /\ Blocks(per[i]) /\ ~(now >= anchor[i] + (R + 1) * P)
    BY <1>0, <1>4, LateOrOnTime DEF CallPeriod, EndsJob, IsLast
  <2>1. /\ status'[i] = "blocked" /\ per'[i] = Concluded(per[i], P)
        /\ args'[i] = AfterRun(i) /\ ~begun'[i]
        /\ UNCHANGED <<prog, main, now, anchor, due>>
    BY <1>4 DEF CallPeriod, EndsJob, Called, Typed
  <2>2. late' = late
    BY <1>4, <2>0 DEF CallPeriod, Called
  <2>3. /\ args'[i].runs = R + 1 /\ args'[i].misses = args[i].misses
    BY <1>0, <2>1 DEF AfterRun, Args
  <2>4. /\ per'[i].next = P /\ per'[i].timer = per[i].timer /\ per'[i].postponed = 0
        /\ per'[i].state = "active" /\ per[i].postponed = 0
    BY <1>0, <2>0, <2>1 DEF Concluded, Blocks, Periods
  <2>5. per[i].timer = anchor[i] + (R + 1) * P /\ R < prog.jobs[i]
    BY <1>0, <2>0, <2>4 DEF TaskFacts, TaskInv, ScheduleInv
  <2>6. TaskInv(i)'
    BY <1>0, <2>0, <2>1, <2>3, <2>5 DEF TaskInv
  <2>7. ScheduleInv(i)'
    BY <1>0, <2>0, <2>1, <2>3, <2>4, <2>5 DEF TaskFacts, ScheduleInv
  <2>8. MissInv(i)'
    BY <2>1, <2>2, <2>3 DEF TaskFacts, MissInv
  <2> QED BY <2>6, <2>7, <2>8 DEF TaskFacts
<1>5. CASE CountMiss(i)
  <2>0. /\ status[i] = "job" /\ main \in {"start", "wait"} /\ R + 1 # prog.jobs[i]
        /\ ~Blocks(per[i]) /\ now >= anchor[i] + (R + 1) * P /\ ~prog.strict
    BY <1>0, <1>5, LateOrOnTime DEF CountMiss, EndsJob, IsLast
  <2>1. /\ status'[i] = "job" /\ per'[i] = ReleasedLate(per[i], P)
        /\ args'[i] = Missed(AfterRun(i)) /\ ~begun'[i] /\ due'[i] = per[i].timer
        /\ UNCHANGED <<prog, main, now, anchor>>
    BY <1>5, <2>0 DEF CountMiss, EndsJob, Called, Typed
  <2>2. late'[i] = late[i] + 1
    BY <1>5, <2>0 DEF CountMiss, Called, Typed
  <2>3. /\ args'[i].runs = R + 1 /\ args'[i].misses = args[i].misses + 1
    BY <1>0, <2>1 DEF AfterRun, Missed, Args
  <2>4. /\ per[i].next = P /\ R < prog.jobs[i] /\ per[i].timer \in Nat
        /\ now < per[i].timer /\ per[i].timer <= now + P
        /\ per[i].timer = anchor[i] + (R + 1 + per[i].postponed) * P
        /\ per[i].postponed > 0 /\ per[i].postponed \in Nat
    BY <1>0, <2>0, LateCall DEF TaskFacts, TaskInv, ScheduleInv, Periods
  <2>5. /\ per'[i].state = "active" /\ per'[i].next = P /\ per'[i].timer = per[i].timer
        /\ per'[i].postponed = per[i].postponed - 1
    BY <1>0, <2>1 DEF ReleasedLate, Periods
  <2>6. R + 1 + per[i].postponed = (R + 1) + 1 + per'[i].postponed
    BY <1>0, <2>4, <2>5
  <2>7. per'[i].timer = anchor'[i] + (args'[i].runs + 1 + per'[i].postponed) * P
    BY <2>1, <2>3, <2>4, <2>5, <2>6
  <2>8. TaskInv(i)'
    BY <1>0, <2>0, <2>1, <2>3, <2>4 DEF TaskInv
  <2>9. ScheduleInv(i)'
    BY <1>0, <2>1, <2>4, <2>5, <2>7 DEF ScheduleInv
  <2>10. MissInv(i)'
    BY <2>0, <2>1, <2>2, <2>3 DEF TaskFacts, MissInv
  <2> QED BY <2>8, <2>9, <2>10 DEF TaskFacts
<1>6. CASE ExitOnMiss(i)
  <2>0. /\ status[i] = "job" /\ main \in {"start", "wait"} /\ R + 1 # prog.jobs[i]
        /\ prog.strict
    BY <1>0, <1>6 DEF ExitOnMiss, EndsJob, IsLast
  <2>1. /\ args'[i] = AfterRun(i) /\ ~begun'[i] /\ main' = "exited"
        /\ UNCHANGED <<prog, now, anchor, status, due, per>>
    BY <1>6 DEF ExitOnMiss, EndsJob, Called, Typed
  <2>2. /\ args'[i].runs = R + 1 /\ args'[i].misses = args[i].misses
    BY <1>0, <2>1 DEF AfterRun, Args
  <2>3. R < prog.jobs[i]
    BY <2>0 DEF TaskFacts, TaskInv
  <2>4. TaskInv(i)'
    BY <1>0, <2>0, <2>1, <2>2, <2>3 DEF TaskInv
  <2>5. ScheduleInv(i)'
    BY <2>0, <2>1 DEF TaskFacts, ScheduleInv
  <2>6. MissInv(i)'
    BY <2>0, <2>1, <2>2 DEF TaskFacts, MissInv
  <2> QED BY <2>4, <2>5, <2>6 DEF TaskFacts
<1>7. CASE Finish(i)
  <2>0. /\ status[i] = "job" /\ main \in {"start", "wait"} /\ R + 1 = prog.jobs[i]
    BY <1>0, <1>7 DEF Finish, EndsJob, IsLast
  <2>1. /\ status'[i] = "done" /\ per'[i] = NoPeriod
        /\ args'[i] = [AfterRun(i) EXCEPT !.averaged = TRUE] /\ ~begun'[i]
        /\ UNCHANGED <<prog, main, now, late>>
    BY <1>7 DEF Finish, EndsJob, Typed
  <2>2. /\ args'[i].runs = R + 1 /\ args'[i].misses = args[i].misses /\ args'[i].averaged
    BY <1>0, <2>1 DEF AfterRun, Args
  <2>3. TaskInv(i)'
    BY <2>0, <2>1, <2>2 DEF TaskInv
  <2>4. ScheduleInv(i)'
    BY <2>1 DEF ScheduleInv
  <2>5. MissInv(i)'
    BY <2>0, <2>1, <2>2 DEF TaskFacts, MissInv
  <2> QED BY <2>3, <2>4, <2>5 DEF TaskFacts
<1> QED BY <1>1, <1>2, <1>3, <1>4, <1>5, <1>6, <1>7

\* When Init has obtained as many releases as tasks, all tasks are done.
LEMMA AllDone ==
  ASSUME Typed, NoReleaseLost, main = "wait", Awaited
  PROVE  \A i \in Members : status[i] = "done"
<1>1. IsFiniteSet(Active) /\ Cardinality(Active) \in Nat
  <2>1. Active \subseteq Members
    BY DEF Active
  <2> QED BY <2>1, ScenarioFacts, FS_Subset, FS_CardinalityType
<1>2. Cardinality(Active) = 0
  BY <1>1, ScenarioFacts DEF NoReleaseLost, Awaited, Typed
<1>3. Active = {}
  BY <1>1, <1>2, FS_EmptySet
<1> QED BY <1>3 DEF Active

\* What holds of the tasks holds after every step.
LEMMA TasksStep ==
  ASSUME Typed, CoresInv, NoReleaseLost, \A i \in Members : TaskFacts(i), Next
  PROVE  \A i \in Members' : TaskFacts(i)'
<1>1. CASE Prepare
  BY <1>1, PreparedTasks
<1>2. CASE UNCHANGED <<prog, scen>>
  <2>0. Members' = Members
    BY <1>2, SameScenario
  <2> SUFFICES ASSUME NEW k \in Members PROVE TaskFacts(k)'
    BY <2>0
  <2>1. CASE Prepare
    BY <1>2, <2>1 DEF Prepare, Typed
  <2>2. CASE Obtain
    BY <2>2 DEF Obtain, TaskFacts, TaskInv, ScheduleInv, MissInv
  <2>3. CASE PrintResults
    <3>1. status[k] = "done" /\ main = "wait"
      BY <2>3, AllDone DEF PrintResults
    <3>2. /\ status'[k] = "deleted" /\ main' = "printed"
          /\ UNCHANGED <<prog, begun, per, args, late>>
      BY <2>3 DEF PrintResults
    <3> QED BY <3>1, <3>2 DEF TaskFacts, TaskInv, ScheduleInv, MissInv
  <2>4. CASE Tick
    BY <2>4, TickTask
  <2>5. ASSUME NEW i \in Members,
               \/ Start(i) \/ FirstPeriod(i) \/ BeginJob(i) \/ CallPeriod(i)
               \/ CountMiss(i) \/ ExitOnMiss(i) \/ Finish(i)
        PROVE  TaskFacts(k)'
    BY <2>5, OwnTask, OtherTasks
  <2> QED BY <2>1, <2>2, <2>3, <2>4, <2>5 DEF Next
<1> QED BY <1>1, <1>2, ScenarioStays

-----------------------------------------------------------------------------
(***************************************************************************)
(* The completion semaphore.                                               *)
(***************************************************************************)
\* A release is made, and obtained, once.
LEMMA ReleasesStep ==
  ASSUME Typed, Typed', CoresInv, NoReleaseLost, \A i \in Members : TaskFacts(i), Next
  PROVE  NoReleaseLost'
<1>0. /\ IsFiniteSet(Members) /\ Cardinality(Members) \in Nat /\ Cardinality(Members) <= Limit
      /\ Limit \in Nat /\ sem \in Nat /\ taken \in Nat
      /\ IsFiniteSet(Active) /\ Cardinality(Active) \in Nat
  <2>1. Active \subseteq Members
    BY DEF Active
  <2> QED BY <2>1, ScenarioFacts, FS_Subset, FS_CardinalityType DEF Typed
<1>1. CASE Prepare
  <2>1. \A i \in Members' : status'[i] = "created"
    BY <1>1 DEF Prepare
  <2>2. Active' = Members'
    BY <2>1 DEF Active
  <2>3. Cardinality(Members') \in Nat
    <3>1. WellFormed(prog') /\ scen' \in 1 .. Len(prog'.scenarios)
      BY ProgramsAssumption DEF Typed
    <3>2. IsFiniteSet(Members')
      BY <3>1 DEF WellFormed, Members
    <3> QED BY <3>2, FS_CardinalityType
  <2> QED BY <1>1, <2>2, <2>3 DEF Prepare, NoReleaseLost
<1>2. CASE UNCHANGED <<prog, scen>>
  <2>0. Members' = Members
    BY <1>2, SameScenario
  <2>1. CASE Prepare
    BY <1>2, <2>1 DEF Prepare, Typed
  <2>2. CASE Obtain
    <3>1. Active' = Active
      BY <2>0, <2>2 DEF Obtain, Active
    <3> QED BY <1>0, <2>0, <2>2, <3>1 DEF Obtain, NoReleaseLost
  <2>3. CASE PrintResults
    BY <2>3 DEF PrintResults, NoReleaseLost
  <2>4. CASE Tick
    <3>1. \A i \in Members : status'[i] = "done" <=> status[i] = "done"
      BY <2>4, TickCases DEF Wakes
    <3>2. Active' = Active
      BY <2>0, <3>1 DEF Active
    <3> QED BY <2>0, <2>4, <3>2 DEF Tick, NoReleaseLost
  <2>5. ASSUME NEW i \in Members,
               \/ Start(i) \/ FirstPeriod(i) \/ BeginJob(i) \/ CallPeriod(i)
               \/ CountMiss(i) \/ ExitOnMiss(i)
        PROVE  NoReleaseLost'
    <3>1. status[i] # "done" /\ status'[i] # "done"
      BY <2>5 DEF Start, Created, FirstPeriod, BeginJob, CallPeriod, CountMiss, ExitOnMiss,
                  EndsJob, Typed
    <3>2. Active' = Active
      BY <2>0, <2>5, <3>1, OthersStay DEF Active
    <3>3. sem' = sem /\ taken' = taken /\ (main' \in {"start", "wait"} => main \in {"start", "wait"})
      BY <2>5 DEF Start, FirstPeriod, BeginJob, CallPeriod, CountMiss, ExitOnMiss
    <3> QED BY <2>0, <3>2, <3>3 DEF NoReleaseLost
  <2>6. ASSUME NEW i \in Members, Finish(i) PROVE NoReleaseLost'
    <3>1. status[i] = "job" /\ status'[i] = "done" /\ main' = main /\ taken' = taken
      BY <2>6 DEF Finish, EndsJob, Typed
    <3>2. Active' = Active \ {i} /\ i \in Active
      BY <2>0, <2>6, <3>1, OthersStay DEF Active
    <3>3. Cardinality(Active') = Cardinality(Active) - 1 /\ Cardinality(Active) > 0
      <4>1. Cardinality(Active \ {i}) = Cardinality(Active) - 1
        BY <1>0, <3>2, FS_RemoveElement
      <4>2. Cardinality(Active) # 0
        BY <1>0, <3>2, FS_EmptySet
      <4> QED BY <1>0, <3>2, <4>1, <4>2
    <3>4. main \in {"start", "wait"} => sem < Limit
      BY <1>0, <3>3 DEF NoReleaseLost
    <3>5. main \in {"start", "wait"} => sem' = sem + 1
      BY <2>6, <3>4 DEF Finish, SemLimit
    <3> QED BY <1>0, <2>0, <3>1, <3>3, <3>5 DEF NoReleaseLost
  <2> QED BY <2>1, <2>2, <2>3, <2>4, <2>5, <2>6 DEF Next
<1> QED BY <1>1, <1>2, ScenarioStays

-----------------------------------------------------------------------------
(***************************************************************************)
(* The scheduler.                                                          *)
(***************************************************************************)
SameCores(i, R) == {k \in R : CoresOf(k) = CoresOf(i)}

\* What the scheduler leaves behind: tasks that fit and none to be ousted.
LEMMA DispatchSettles ==
  ASSUME UNCHANGED <<prog, scen>>, Dispatch
  PROVE  /\ running' \subseteq Ready' /\ Fits(running)'
         /\ \A i \in running', k \in Ready' \ running' :
              CoresOf(i)' = CoresOf(k)' => ~Before(k, i)'
<1>1. PICK R \in SUBSET Ready' :
        /\ Fits(R)
        /\ \A i \in Ready' \ R : ~Fits(R \cup {i}) /\ \A k \in R : ~Ousts(i, k)
        /\ running' = R
  BY DEF Dispatch
<1>2. \A i : CoresOf(i)' = CoresOf(i)
  BY SameScenario
<1>3. Fits(running)'
  BY <1>1, <1>2 DEF Fits
<1>4. ASSUME NEW i \in running', NEW k \in Ready' \ running', CoresOf(i)' = CoresOf(k)'
      PROVE  ~Before(k, i)'
  <2>1. ~Ousts(k, i)
    BY <1>1, <1>4
  <2>2. CoresOf(i) = CoresOf(k)
    BY <1>2, <1>4
  <2> QED BY <2>1, <2>2 DEF Ousts
<1> QED BY <1>1, <1>3, <1>4

\* A task loses its core only to one that comes before it and did not run.
LEMMA KeepsCore ==
  ASSUME Typed, CoresInv, UNCHANGED <<prog, scen>>, Dispatch,
         NEW i \in running, i \in Ready',
         \A k \in Ready' \ running : CoresOf(i) = CoresOf(k) => ~Before(k, i)'
  PROVE  i \in running'
<1> SUFFICES ASSUME i \notin running' PROVE FALSE
  OBVIOUS
<1>1. PICK R \in SUBSET Ready' :
        /\ Fits(R)
        /\ \A j \in Ready' \ R : ~Fits(R \cup {j}) /\ \A k \in R : ~Ousts(j, k)
        /\ running' = R
  BY DEF Dispatch
<1>2. i \notin R /\ ~Fits(R \cup {i}) /\ \A k \in R : ~Ousts(i, k)
  BY <1>1
<1>3. Members' = Members /\ running \subseteq Members /\ R \subseteq Members
  BY <1>1, SameScenario DEF CoresInv, Ready
<1>4. /\ IsFiniteSet(R \cup {i}) /\ IsFiniteSet(running)
      /\ Cardinality(CoresOf(i)) \in Nat
  BY <1>3, ScenarioFacts, FS_Subset
\* The cores of task i are taken by others.
<1>5. ~(Cardinality(SameCores(i, R \cup {i})) <= Cardinality(CoresOf(i)))
  <2>1. PICK j \in R \cup {i} :
          ~(Cardinality(SameCores(j, R \cup {i})) <= Cardinality(CoresOf(j)))
    BY <1>2 DEF Fits, SameCores
  <2>2. CASE CoresOf(j) = CoresOf(i)
    <3>1. SameCores(j, R \cup {i}) = SameCores(i, R \cup {i})
      BY <2>2 DEF SameCores
    <3> QED BY <2>1, <2>2, <3>1
  <2>3. CASE CoresOf(j) # CoresOf(i)
    <3>1. j \in R /\ SameCores(j, R \cup {i}) = SameCores(j, R)
      BY <2>3 DEF SameCores
    <3> QED BY <1>1, <2>1, <3>1 DEF Fits, SameCores
  <2> QED BY <2>2, <2>3
\* One of them had none before.
<1>6. PICK k \in R : CoresOf(k) = CoresOf(i) /\ k \notin running
  <2> SUFFICES ASSUME \A k \in R : CoresOf(k) = CoresOf(i) => k \in running
               PROVE  FALSE
    OBVIOUS
  <2>1. SameCores(i, R \cup {i}) \subseteq SameCores(i, running)
    BY DEF SameCores
  <2>2. Cardinality(SameCores(i, running)) <= Cardinality(CoresOf(i))
    BY DEF CoresInv, Fits, SameCores
  <2>3. IsFiniteSet(SameCores(i, running))
    <3>1. SameCores(i, running) \subseteq running
      BY DEF SameCores
    <3> QED BY <1>4, <3>1, FS_Subset
  <2>4. /\ Cardinality(SameCores(i, R \cup {i})) <= Cardinality(SameCores(i, running))
        /\ Cardinality(SameCores(i, R \cup {i})) \in Nat
        /\ Cardinality(SameCores(i, running)) \in Nat
    BY <2>1, <2>3, FS_Subset, FS_CardinalityType
  <2> QED BY <1>4, <1>5, <2>2, <2>4
<1>7. ~Before(k, i)'
  BY <1>1, <1>6
<1>8. ~Ousts(i, k)
  BY <1>2, <1>6
<1> QED BY <1>6, <1>7, <1>8 DEF Ousts

\* The steps after which the scheduler chooses, made while Init goes on.
Chooses ==
  /\ UNCHANGED <<prog, scen>> /\ Dispatch
  /\ main \in {"start", "wait"} /\ main' \in {"start", "wait"}
  /\ \/ Tick
     \/ \E i \in Members : Start(i)
     \/ \E i \in running : FirstPeriod(i) \/ CallPeriod(i) \/ CountMiss(i) \/ Finish(i)

\* Every step prepares, prints, exits, dispatches or touches no core.
LEMMA StepKinds ==
  ASSUME Typed, CoresInv, Next
  PROVE  \/ Prepare \/ PrintResults
         \/ Chooses
         \/ \E i \in Members : ExitOnMiss(i)
         \/ /\ UNCHANGED <<prog, scen, main, status, running, due>>
            /\ Obtain \/ \E i \in Members : BeginJob(i)
<1>1. \A i \in running : main \in {"start", "wait"}
  BY DEF CoresInv, Typed
<1>2. CASE Obtain
  BY <1>2 DEF Obtain
<1>3. CASE Tick
  BY <1>3 DEF Tick, Chooses
<1>4. ASSUME NEW i \in Members, Start(i) PROVE Chooses
  BY <1>4 DEF Start, Chooses
<1>5. ASSUME NEW i \in Members, BeginJob(i)
      PROVE  UNCHANGED <<prog, scen, main, status, running, due>>
  BY <1>5 DEF BeginJob
<1>6. ASSUME NEW i \in Members, FirstPeriod(i) PROVE Chooses
  BY <1>1, <1>6 DEF FirstPeriod, Chooses
<1>7. ASSUME NEW i \in Members, CallPeriod(i) PROVE Chooses
  BY <1>1, <1>7 DEF CallPeriod, EndsJob, Chooses
<1>8. ASSUME NEW i \in Members, CountMiss(i) PROVE Chooses
  BY <1>1, <1>8 DEF CountMiss, EndsJob, Chooses
<1>9. ASSUME NEW i \in Members, Finish(i) PROVE Chooses
  BY <1>1, <1>9 DEF Finish, EndsJob, Chooses
<1> QED BY <1>2, <1>3, <1>4, <1>5, <1>6, <1>7, <1>8, <1>9 DEF Next

\* The cores stay used as the scheduler orders the tasks.
LEMMA CoresStep ==
  ASSUME Typed, CoresInv, Next
  PROVE  CoresInv'
<1>1. CASE running' = {}
  BY <1>1 DEF CoresInv, Fits
<1>2. CASE Chooses
  <2>1. main' \notin {"printed", "exited"}
    BY <1>2 DEF Chooses
  <2> QED BY <1>2, <2>1, DispatchSettles DEF Chooses, CoresInv
<1>3. CASE UNCHANGED <<prog, scen, main, status, running, due>>
  BY <1>3 DEF CoresInv, Ready, Fits, Before, Members, CoresOf
<1> QED BY <1>1, <1>2, <1>3, StepKinds DEF Prepare, PrintResults, ExitOnMiss

\* With one period for all, a job that has begun comes before whatever could
\* have become ready since: the deadlines of later releases are later.
LEMMA NothingBefore ==
  ASSUME Typed, CoresInv, \A i \in Members : TaskFacts(i), Chooses,
         \A i, k \in prog.tasks : prog.period[i] = prog.period[k],
         NEW i \in running, begun[i], due'[i] = due[i],
         NEW k \in Ready' \ running, CoresOf(i) = CoresOf(k)
  PROVE  ~Before(k, i)'
<1>0. /\ i \in Members /\ k \in Members /\ prog.period[i] = prog.period[k]
      /\ status[i] = "job" /\ 0 < due[i] /\ due[i] <= now + prog.period[i]
      /\ due[i] \in Nat /\ now \in Nat /\ prog.period[i] \in Nat
      /\ Members' = Members
  <2>1. Members' = Members
    BY SameScenario DEF Chooses
  <2>2. i \in Members /\ k \in Members
    BY <2>1 DEF CoresInv, Ready
  <2>3. prog.period[i] = prog.period[k] /\ prog.period[i] \in Nat
    BY <2>2, ScenarioFacts
  <2>4. status[i] = "job" /\ 0 < due[i] /\ due[i] <= now + prog.period[i]
    BY <2>2 DEF TaskFacts, TaskInv, ScheduleInv
  <2>5. due[i] \in Nat /\ now \in Nat
    BY <2>2 DEF Typed
  <2> QED BY <2>1, <2>2, <2>3, <2>4, <2>5
<1>1. due'[k] = 0 \/ (due'[k] \in Nat /\ due'[k] >= due[i]) => ~Before(k, i)'
  BY <1>0 DEF Before
<1>2. CASE k \in Ready /\ due'[k] = due[k]
  <2>1. ~Before(k, i)
    BY <1>2 DEF CoresInv
  <2> QED BY <1>0, <1>2, <2>1 DEF Before, Chooses
<1>3. CASE Tick
  <2>1. CASE Wakes(k)
    <3>1. due'[k] = now + 1 + prog.period[k]
      BY <1>0, <1>3, <2>1, TickCases
    <3> QED BY <1>0, <1>1, <3>1
  <2>2. CASE ~Wakes(k)
    BY <1>0, <1>2, <1>3, <2>2, TickCases DEF Ready
  <2> QED BY <2>1, <2>2
<1>4. ASSUME NEW j \in Members, Start(j) PROVE ~Before(k, i)'
  <2>1. due' = due /\ (k # j => status'[k] = status[k]) /\ status[j] = "created"
    BY <1>4 DEF Start, Created, Typed
  <2>2. CASE k = j
    BY <1>0, <1>1, <2>1, <2>2 DEF TaskFacts, TaskInv
  <2>3. CASE k # j
    BY <1>0, <1>2, <2>1, <2>3 DEF Ready
  <2> QED BY <2>2, <2>3
<1>5. ASSUME NEW j \in running, FirstPeriod(j) \/ CallPeriod(j) \/ CountMiss(j) \/ Finish(j)
      PROVE  ~Before(k, i)'
  <2>1. j \in Members /\ k # j
    BY DEF CoresInv, Ready
  <2>2. status'[k] = status[k] /\ due'[k] = due[k]
    BY <1>0, <1>5, <2>1, OthersStay
  <2> QED BY <1>0, <1>2, <2>2 DEF Ready
<1> QED BY <1>3, <1>4, <1>5 DEF Chooses

\* So the job keeps its core.
LEMMA PreemptStep ==
  ASSUME Typed, CoresInv, NeverPreempted, NoReleaseLost,
         \A i \in Members : TaskFacts(i), Next
  PROVE  NeverPreempted'
<1>1. CASE Prepare
  BY <1>1 DEF Prepare, NeverPreempted
<1>2. CASE PrintResults
  <2>1. \A i \in Members : status[i] = "done"
    BY <1>2, AllDone DEF PrintResults
  <2>2. \A i \in Members : ~begun[i]
    BY <2>1 DEF TaskFacts, TaskInv
  <2>3. begun' = begun /\ Members' = Members
    BY <1>2, SameScenario DEF PrintResults
  <2> QED BY <2>2, <2>3 DEF NeverPreempted
<1>3. CASE \E i \in Members : ExitOnMiss(i)
  BY <1>3 DEF ExitOnMiss, NeverPreempted
<1>4. CASE /\ UNCHANGED <<prog, scen, main, status, running, due>>
           /\ Obtain \/ \E i \in Members : BeginJob(i)
  <2>1. Members' = Members
    BY <1>4, SameScenario
  <2>2. CASE Obtain
    BY <1>4, <2>1, <2>2 DEF Obtain, NeverPreempted
  <2>3. ASSUME NEW i \in Members, BeginJob(i) PROVE NeverPreempted'
    BY <1>4, <2>1, <2>3 DEF BeginJob, NeverPreempted, Typed
  <2> QED BY <1>4, <2>2, <2>3
<1>5. CASE Chooses
  <2>0. UNCHANGED <<prog, scen>> /\ Members' = Members /\ Dispatch /\ main # "exited"
    BY <1>5, SameScenario DEF Chooses
  <2> SUFFICES ASSUME \A i, k \in prog.tasks : prog.period[i] = prog.period[k],
                      NEW i \in Members, begun'[i]
               PROVE  i \in running'
    BY <2>0 DEF NeverPreempted
  <2>1. begun[i] /\ status'[i] = "job" /\ due'[i] = due[i] /\ status[i] = "job"
    <3>1. CASE Tick
      <4>1. begun[i]
        BY <3>1, TickCases
      <4>2. status[i] = "job"
        BY <4>1 DEF TaskFacts, TaskInv
      <4> QED BY <3>1, <4>1, <4>2, TickCases DEF Wakes
    <3>2. ASSUME NEW j \in Members, Start(j)
          PROVE  begun[i] /\ status'[i] = status[i] /\ due'[i] = due[i]
      <4>1. begun[i] /\ due' = due /\ status[j] = "created"
        BY <3>2 DEF Start, Created
      <4>2. i # j
        BY <4>1 DEF TaskFacts, TaskInv
      <4> QED BY <3>2, <4>1, <4>2 DEF Start, Typed
    <3>3. ASSUME NEW j \in running,
                 FirstPeriod(j) \/ CallPeriod(j) \/ CountMiss(j) \/ Finish(j)
          PROVE  begun[i] /\ status'[i] = status[i] /\ due'[i] = due[i]
      <4>1. j \in Members
        BY DEF CoresInv, Ready
      <4>2. i # j
        <5>1. CASE FirstPeriod(j)
          BY <5>1 DEF FirstPeriod, TaskFacts, TaskInv
        <5>2. CASE CallPeriod(j) \/ CountMiss(j) \/ Finish(j)
          BY <4>1, <5>2 DEF CallPeriod, CountMiss, Finish, EndsJob, Typed
        <5> QED BY <3>3, <5>1, <5>2
      <4> QED BY <3>3, <4>1, <4>2, OthersStay
    <3>4. begun[i] => status[i] = "job"
      BY DEF TaskFacts, TaskInv
    <3> QED BY <1>5, <3>1, <3>2, <3>3, <3>4 DEF Chooses
  <2>2. i \in running
    BY <2>0, <2>1 DEF NeverPreempted
  <2>3. i \in Ready'
    BY <2>0, <2>1 DEF Ready
  <2>4. \A k \in Ready' \ running : CoresOf(i) = CoresOf(k) => ~Before(k, i)'
    BY <1>5, <2>1, <2>2, NothingBefore
  <2> QED BY <2>0, <2>2, <2>3, <2>4, KeepsCore
<1> QED BY <1>1, <1>2, <1>3, <1>4, <1>5, StepKinds

-----------------------------------------------------------------------------
(***************************************************************************)
(* The invariant of every program, and what follows from it.               *)
(***************************************************************************)
\* The first scenario begins with nothing run and no core in use.
LEMMA ScenarioInit == ASSUME Init PROVE ScenarioInv
<1>1. /\ NoArgs \in Args /\ NoPeriod \in Periods
      /\ Len(prog.scenarios) \in Nat \ {0}
  BY PeriodTypes, ProgramsAssumption DEF NoArgs, Args, Init, WellFormed
<1>2. Typed
  BY <1>1 DEF Init, Typed, Statuses
<1>3. \A i \in Members : TaskInv(i) /\ ScheduleInv(i) /\ MissInv(i)
  <2>1. \A i \in Members : TaskInv(i) /\ ScheduleInv(i)
    BY DEF Init, TaskInv, ScheduleInv
  <2>2. \A i \in Members : MissInv(i)
    BY DEF Init, MissInv, NoArgs
  <2> QED BY <2>1, <2>2
<1>4. NoReleaseLost
  <2>1. Active = Members
    BY DEF Init, Active
  <2> QED BY <1>2, <2>1, ScenarioFacts DEF Init, NoReleaseLost
<1>5. CoresInv /\ NeverPreempted
  BY DEF Init, CoresInv, Fits, NeverPreempted
<1> QED BY <1>2, <1>3, <1>4, <1>5 DEF ScenarioInv

\* What a task has run, its schedule and misses, the semaphore and the use of
\* the cores are as they should be in every scenario of every program.
THEOREM ScenarioInvariant == Spec => []ScenarioInv
<1>1. ScenarioInv /\ Next => ScenarioInv'
  <2> SUFFICES ASSUME ScenarioInv, Next PROVE ScenarioInv'
    OBVIOUS
  <2>1. /\ Typed /\ CoresInv /\ NoReleaseLost /\ NeverPreempted
        /\ \A i \in Members : TaskFacts(i) /\ ScheduleInv(i)
    BY DEF ScenarioInv, TaskFacts
  <2>2. Typed'
    BY <2>1, TypedStep
  <2>3. \A i \in Members' : TaskFacts(i)'
    BY <2>1, TasksStep
  <2>4. NoReleaseLost' /\ CoresInv' /\ NeverPreempted'
    BY <2>1, <2>2, ReleasesStep, CoresStep, PreemptStep
  <2> QED BY <2>2, <2>3, <2>4 DEF ScenarioInv, TaskFacts
<1>2. ScenarioInv /\ UNCHANGED vars => ScenarioInv'
  <2> SUFFICES ASSUME ScenarioInv, UNCHANGED vars PROVE ScenarioInv'
    OBVIOUS
  <2> USE DEF vars
  <2>1. Members' = Members /\ (\A i : CoresOf(i)' = CoresOf(i)) /\ (Fits(running)' <=> Fits(running))
    BY DEF Members, CoresOf, Fits
  <2>2. Typed'
    BY <2>1 DEF ScenarioInv, Typed
  <2>3. \A i \in Members' : TaskInv(i)' /\ MissInv(i)'
    BY <2>1 DEF ScenarioInv, TaskInv, MissInv
  <2>4. \A i \in Members' : ScheduleInv(i)'
    BY <2>1 DEF ScenarioInv, ScheduleInv
  <2>5. NoReleaseLost' /\ NeverPreempted'
    BY <2>1 DEF ScenarioInv, NoReleaseLost, Active, NeverPreempted
  <2>6. CoresInv'
    BY <2>1 DEF ScenarioInv, CoresInv, Ready, Before
  <2> QED BY <2>2, <2>3, <2>4, <2>5, <2>6 DEF ScenarioInv
<1> QED BY <1>1, <1>2, ScenarioInit, PTL DEF Spec

\* Init waits for exactly the releases that are still to come: it neither
\* waits for ever nor prints too early (the obtains in main()).
THEOREM ReleasesAreCounted == Spec => []NoReleaseLost
<1>1. ScenarioInv => NoReleaseLost
  BY DEF ScenarioInv
<1> QED BY <1>1, ScenarioInvariant, PTL

\* What Init prints for a task is final and belongs to the scenario.
THEOREM PrintsAreComplete == Spec => []ResultsComplete
<1>1. ScenarioInv => ResultsComplete
  BY DEF ScenarioInv, TaskInv, ResultsComplete
<1> QED BY <1>1, ScenarioInvariant, PTL

\* The printed misses are the late jobs before the last, however many releases
\* were overrun and however the next jobs caught up.
THEOREM MissesAreLateJobs == Spec => []MissesCounted
<1>1. ScenarioInv => MissesCounted
  <2> SUFFICES ASSUME ScenarioInv, main = "printed", NEW i \in Members
               PROVE  args[i].misses = late[i] /\ (prog.strict => late[i] = 0)
    BY DEF MissesCounted
  <2>1. MissInv(i)
    BY DEF ScenarioInv
  <2> QED BY <2>1 DEF MissInv
<1> QED BY <1>1, ScenarioInvariant, PTL

\* With one period for all tasks EDF takes no core from a job that has begun,
\* on any number of cores and under any placement (arch_comparison.c 9-13).
THEOREM EqualPeriodsNeverPreempt == Spec => []NeverPreempted
<1>1. ScenarioInv => NeverPreempted
  BY DEF ScenarioInv
<1> QED BY <1>1, ScenarioInvariant, PTL
=============================================================================
