-------------------------- MODULE InterferenceScenarios ------------------------
(***************************************************************************)
(* How the measurement programs run: Init prepares the scenarios one after *)
(* the other, starts their tasks, waits for as many releases of the        *)
(* completion semaphore as there are tasks, and prints what the tasks left *)
(* in args.  The tasks are scheduled by EDF on the cores they may use.     *)
(*                                                                         *)
(* Init runs in the background of the jobs: it is delayed, and delays the  *)
(* tasks without a deadline, for any time.  The clock starts anew in every *)
(* scenario; only differences of ticks matter.                             *)
(***************************************************************************)
EXTENDS InterferencePrograms, RateMonotonic

CONSTANTS
  Programs,  \* programs to check
  Horizon    \* bound of the ticks of a scenario

\* A scenario starts tasks of its program, on some cores each, and its
\* semaphore can hold a release of every one of them.
WellFormed(p) ==
  /\ p.strict \in BOOLEAN
  /\ Len(p.scenarios) \in Nat \ {0}
  /\ \A i \in p.tasks : p.period[i] \in Nat \ {0} /\ p.jobs[i] \in Nat \ {0}
  /\ \A s \in 1 .. Len(p.scenarios) :
       LET cores == p.scenarios[s].cores
       IN  /\ DOMAIN cores \subseteq p.tasks
           /\ IsFiniteSet(DOMAIN cores)
           /\ \A i \in DOMAIN cores : IsFiniteSet(cores[i])
           /\ p.scenarios[s].limit \in Nat
           /\ Cardinality(DOMAIN cores) <= p.scenarios[s].limit

ASSUME ProgramsAssumption == \A p \in Programs : WellFormed(p)

VARIABLES
  prog,     \* the program that runs
  scen,     \* its present scenario
  main,     \* what Init does in it
  nap,      \* tick Init sleeps to between the two rounds of starts
  now,      \* ticks since the scenario began
  sem,      \* count of the completion semaphore
  taken,    \* releases Init has obtained
  status,   \* of each task
  running,  \* tasks that have a core
  begun,    \* whether the clock was read for the job that is running
  due,      \* deadline the scheduler knows a task by, 0 in the background
  per,      \* rate-monotonic period of each task
  args,     \* what each task writes and Init prints
  anchor,   \* tick of each task's first call of period()
  late      \* jobs that were over only when the next had been released

vars == <<prog, scen, main, nap, now, sem, taken, status, running, begun, due,
          per, args, anchor, late>>

Members == DOMAIN prog.scenarios[scen].cores
CoresOf(i) == prog.scenarios[scen].cores[i]
Limit == prog.scenarios[scen].limit

NoArgs == [runs |-> 0, misses |-> 0, averaged |-> FALSE]

-----------------------------------------------------------------------------
(***************************************************************************)
(* The EDF SMP scheduler, which is not part of the repository.  A deadline *)
(* comes before every fixed priority, and between equals a running task    *)
(* stays.                                                                  *)
(***************************************************************************)
Ready == {i \in Members : status[i] \in {"starting", "job"}}

\* Mutant: the scheduler of priorities, without deadlines.
Before_FixedPriority(i, k) == prog.priority[i] < prog.priority[k]

Before(i, k) ==
  IF due[i] = 0 THEN due[k] = 0 /\ prog.priority[i] < prog.priority[k]
                ELSE due[k] = 0 \/ due[i] < due[k]

Fits(R) ==
  \A i \in R : Cardinality({k \in R : CoresOf(k) = CoresOf(i)})
                 <= Cardinality(CoresOf(i))

\* Task i, left without a core, would take the one of task k.
Ousts(i, k) ==
  /\ CoresOf(i) = CoresOf(k)
  /\ \/ Before(i, k)'
     \/ ~Before(k, i)' /\ i \in running /\ k \notin running

Dispatch ==
  \E R \in SUBSET Ready' :
    /\ Fits(R)
    /\ \A i \in Ready' \ R : ~Fits(R \cup {i}) /\ \A k \in R : ~Ousts(i, k)
    /\ running' = R

-----------------------------------------------------------------------------
(***************************************************************************)
(* Init.                                                                   *)
(***************************************************************************)
\* The program begins with its first scenario prepared.
Init ==
  /\ prog \in Programs
  /\ scen = 1
  /\ main = "start" /\ nap = 0 /\ now = 0 /\ sem = 0 /\ taken = 0
  /\ status = [i \in Members |-> "created"]
  /\ running = {}
  /\ begun = [i \in Members |-> FALSE]
  /\ due = [i \in Members |-> 0]
  /\ per = [i \in Members |-> NoPeriod]
  /\ args = [i \in Members |-> NoArgs]
  /\ anchor = [i \in Members |-> 0]
  /\ late = [i \in Members |-> 0]

\* Clears args and creates the semaphore and the tasks of the next scenario.
Prepare ==
  /\ main = "printed"
  /\ scen < Len(prog.scenarios)
  /\ prog' = prog
  /\ scen' = scen + 1
  /\ main' = "start" /\ sem' = 0 /\ taken' = 0
  /\ UNCHANGED <<nap, now>>
  /\ status' = [i \in Members' |-> "created"]
  /\ running' = {}
  /\ begun' = [i \in Members' |-> FALSE]
  /\ due' = [i \in Members' |-> 0]
  /\ per' = [i \in Members' |-> NoPeriod]
  /\ args' = [i \in Members' |-> NoArgs]
  /\ anchor' = [i \in Members' |-> 0]
  /\ late' = [i \in Members' |-> 0]

Created == {i \in Members : status[i] = "created"}

\* rtems_task_start(), in the order of the indices; between the victims and
\* the polluters Init sleeps to the next tick.
Start(i) ==
  /\ main = "start" /\ now >= nap
  /\ i \in Created /\ \A k \in Created : i <= k
  /\ status' = [status EXCEPT ![i] = "starting"]
  /\ nap' = IF i \in prog.first /\ Created \cap prog.first = {i}
            THEN now + 1 ELSE nap
  /\ main' = IF Created = {i} THEN "wait" ELSE "start"
  /\ UNCHANGED <<prog, scen, now, sem, taken, begun, due, per, args, anchor, late>>
  /\ Dispatch

Obtain ==
  /\ main = "wait" /\ taken < Cardinality(Members) /\ sem > 0
  /\ sem' = sem - 1
  /\ taken' = taken + 1
  /\ UNCHANGED <<prog, scen, main, nap, now, status, running, begun, due, per,
                 args, anchor, late>>

\* Mutant: one obtain too few in a group.
Awaited_OneLess == taken + 1 >= Cardinality(Members)
Awaited == taken = Cardinality(Members)

\* Prints args and deletes the tasks and the semaphore.
PrintResults ==
  /\ main = "wait" /\ Awaited
  /\ main' = "printed"
  /\ status' = [i \in Members |-> "deleted"]
  /\ running' = {}
  /\ nap' = 0 /\ now' = 0
  /\ UNCHANGED <<prog, scen, sem, taken, begun, due, per, args, anchor, late>>

-----------------------------------------------------------------------------
(***************************************************************************)
(* worker_task().                                                          *)
(***************************************************************************)
\* After job j, whose successor is nominally released j periods after the first.
Called(i) ==
  LET j == args[i].runs + 1
  IN  /\ late' = IF now >= anchor[i] + j * prog.period[i]
                 THEN [late EXCEPT ![i] = @ + 1] ELSE late
      /\ anchor' = anchor

\* The first call of period() starts the period and returns at once.
FirstPeriod(i) ==
  /\ i \in running /\ status[i] = "starting"
  /\ per' = [per EXCEPT ![i] = Activated(prog.period[i], now)]
  /\ due' = [due EXCEPT ![i] = now + prog.period[i]]
  /\ status' = [status EXCEPT ![i] = "job"]
  /\ anchor' = [anchor EXCEPT ![i] = now]
  /\ UNCHANGED <<prog, scen, main, nap, now, sem, taken, begun, args, late>>
  /\ Dispatch

\* start_ns is read: the measured window opens.
BeginJob(i) ==
  /\ i \in running /\ status[i] = "job" /\ ~begun[i]
  /\ begun' = [begun EXCEPT ![i] = TRUE]
  /\ UNCHANGED <<prog, scen, main, nap, now, sem, taken, status, running, due,
                 per, args, anchor, late>>

EndsJob(i) ==
  /\ i \in running /\ status[i] = "job" /\ begun[i]
  /\ begun' = [begun EXCEPT ![i] = FALSE]

IsLast(i) == args[i].runs + 1 = prog.jobs[i]
AfterRun(i) == [args[i] EXCEPT !.runs = @ + 1]

\* A job ends in time: period() blocks until the next release.
CallPeriod(i) ==
  /\ EndsJob(i) /\ ~IsLast(i) /\ Blocks(per[i])
  /\ args' = [args EXCEPT ![i] = AfterRun(i)]
  /\ per' = [per EXCEPT ![i] = Concluded(@, prog.period[i])]
  /\ status' = [status EXCEPT ![i] = "blocked"]
  /\ Called(i)
  /\ UNCHANGED <<prog, scen, main, nap, now, sem, taken, due>>
  /\ Dispatch

\* Mutant: only the first missed period is counted.
Missed_Once(r) == [r EXCEPT !.misses = 1]
Missed(r) == [r EXCEPT !.misses = @ + 1]

\* A release has passed: period() returns RTEMS_TIMEOUT and the next job
\* starts late, with the deadline of the latest release.
CountMiss(i) ==
  /\ ~prog.strict
  /\ EndsJob(i) /\ ~IsLast(i) /\ ~Blocks(per[i])
  /\ args' = [args EXCEPT ![i] = Missed(AfterRun(i))]
  /\ per' = [per EXCEPT ![i] = ReleasedLate(@, prog.period[i])]
  /\ due' = [due EXCEPT ![i] = per[i].timer]
  /\ Called(i)
  /\ UNCHANGED <<prog, scen, main, nap, now, sem, taken, status>>
  /\ Dispatch

\* The same ends a strict program: exit(1).
ExitOnMiss(i) ==
  /\ prog.strict
  /\ EndsJob(i) /\ ~IsLast(i) /\ ~Blocks(per[i])
  /\ args' = [args EXCEPT ![i] = AfterRun(i)]
  /\ Called(i)
  /\ main' = "exited"
  /\ running' = {}
  /\ UNCHANGED <<prog, scen, nap, now, sem, taken, status, due, per>>

\* Mutant: every completion semaphore is a simple binary one.
SemLimit_Binary == 1
SemLimit == Limit

\* After the last job: the average, no more period, the release.
Finish(i) ==
  /\ EndsJob(i) /\ IsLast(i)
  /\ args' = [args EXCEPT ![i] = [AfterRun(i) EXCEPT !.averaged = TRUE]]
  /\ per' = [per EXCEPT ![i] = NoPeriod]
  /\ due' = [due EXCEPT ![i] = 0]
  /\ sem' = IF sem < SemLimit THEN sem + 1 ELSE sem
  /\ status' = [status EXCEPT ![i] = "done"]
  /\ anchor' = [anchor EXCEPT ![i] = 0]
  /\ UNCHANGED <<prog, scen, main, nap, now, taken, late>>
  /\ Dispatch

-----------------------------------------------------------------------------
Fires(i) == per[i].state # "inactive" /\ per[i].timer = now + 1
Wakes(i) == Fires(i) /\ status[i] = "blocked"

\* A clock tick: period timers fire and release or postpone a job.
Tick ==
  /\ main \in {"start", "wait"}
  /\ now < Horizon
  /\ now' = now + 1
  /\ per' = [i \in Members |->
               IF Wakes(i) THEN Restarted(per[i], now + 1)
               ELSE IF Fires(i) THEN Expired(per[i], now + 1)
               ELSE per[i]]
  /\ status' = [i \in Members |-> IF Wakes(i) THEN "job" ELSE status[i]]
  /\ due' = [i \in Members |->
               IF Wakes(i) THEN now + 1 + prog.period[i] ELSE due[i]]
  /\ UNCHANGED <<prog, scen, main, nap, sem, taken, begun, args, anchor, late>>
  /\ Dispatch

Next ==
  \/ Prepare \/ Obtain \/ PrintResults \/ Tick
  \/ \E i \in Members :
       \/ Start(i) \/ FirstPeriod(i) \/ BeginJob(i)
       \/ CallPeriod(i) \/ CountMiss(i) \/ ExitOnMiss(i) \/ Finish(i)

Spec == Init /\ [][Next]_vars

-----------------------------------------------------------------------------
Active == {i \in Members : status[i] # "done"}

\* No release is lost and none is counted twice: Init is always still to
\* obtain as many releases as the semaphore holds and the tasks will make.
\* Violated, Init waits for ever or prints too early.
NoReleaseLost ==
  main \in {"start", "wait"} =>
    sem + Cardinality(Active) = Cardinality(Members) - taken

\* What is printed for a task is final and belongs to this scenario: all its
\* jobs, none of an earlier scenario, and the average over them.
ResultsComplete ==
  main = "printed" =>
    \A i \in Members : args[i].runs = prog.jobs[i] /\ args[i].averaged

\* However many releases a job overran, and however the next ones caught up,
\* the printed misses are exactly the late jobs before the last; a strict
\* program prints nothing unless there was none.
MissesCounted ==
  main = "printed" =>
    \A i \in Members :
      args[i].misses = late[i] /\ (prog.strict => late[i] = 0)

\* arch_comparison.c 9-13: with one period for all, a job that has begun keeps
\* its core to the end, so the measured window holds nothing but the job,
\* whatever the placement and the fixed priorities.
NeverPreempted ==
  (\A i, k \in prog.tasks : prog.period[i] = prog.period[k]) =>
    \A i \in Members : begun[i] /\ main # "exited" => i \in running

\* exp2-task-interference/README.md 41-44: a polluter, more urgent by its fixed
\* priority and started a tick later, preempts the job of a victim: none has a
\* job released and waits for a core a victim computes on.
PollutersPreempt ==
  \A v \in running, p \in Ready \ running :
    begun[v] /\ status[p] = "job" /\ CoresOf(v) = CoresOf(p)
      => prog.priority[v] <= prog.priority[p]
=============================================================================
