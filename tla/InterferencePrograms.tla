-------------------------- MODULE InterferencePrograms -------------------------
(***************************************************************************)
(* The measurement programs of src/cache-interference and of               *)
(* src/caas-rd-limitations, as the table of what tells them apart.  Every  *)
(* program runs a list of scenarios one after the other; in a scenario     *)
(* Init starts some periodic tasks on some cores and waits for all of      *)
(* them.  What a job does to the caches is left out.                       *)
(*                                                                         *)
(* The sizes are parameters: 4 cores, thousands of jobs and periods of up  *)
(* to 100 ticks in the source.                                             *)
(***************************************************************************)
EXTENDS Naturals, Sequences, FiniteSets

CONSTANTS
  CoreCount,  \* of the GR740
  JobCount,   \* NUM_TASK_ITERATIONS, EXP2_JOBS, EXP5_JOBS
  Period      \* TASK_PERIOD_TICKS, EXP2_TASK_PERIOD_TICKS

ASSUME SizeAssumption ==
  CoreCount \in Nat \ {0, 1} /\ JobCount \in Nat \ {0} /\ Period \in Nat \ {0}

Cores == 0 .. CoreCount - 1

(***************************************************************************)
(* A scenario: the cores each of its tasks may use, and how many releases  *)
(* its completion semaphore can hold.  The cores of two tasks are the same *)
(* or have none in common.                                                 *)
(***************************************************************************)
Solo(i, core, limit) == [cores |-> [k \in {i} |-> {core}], limit |-> limit]
Group(cores) == [cores |-> cores, limit |-> Cardinality(DOMAIN cores)]
Unpinned(tasks) == Group([i \in tasks |-> Cores])
Pair(c0, c1) == Group([i \in {0, 1} |-> IF i = 0 THEN {c0} ELSE {c1}])

(***************************************************************************)
(* A program: whether a missed period ends it, its periods and numbers of  *)
(* jobs, the fixed priorities (a lower number is more urgent), the tasks   *)
(* started a tick before the others, and the scenarios in their order.     *)
(***************************************************************************)
Program(strict, tasks, scenarios) ==
  [strict |-> strict, tasks |-> tasks, scenarios |-> scenarios,
   period |-> [i \in tasks |-> Period], jobs |-> [i \in tasks |-> JobCount],
   priority |-> [i \in tasks |-> 10], first |-> tasks]

(***************************************************************************)
(* src/cache-interference, with every scenario compiled in.  A missed      *)
(* period ends the program.                                                *)
(***************************************************************************)
RunSingleWorker(core) == Solo(0, core, 1)
RunWorkerWithInterferer(worker, interferer) == Pair(worker, interferer)

\* A-1 to A-5 with one interferer.
Baseline ==
  Program(TRUE, {0, 1},
    << RunSingleWorker(1), RunWorkerWithInterferer(1, 1), RunSingleWorker(1),
       RunWorkerWithInterferer(0, 1), RunWorkerWithInterferer(0, 1) >>)

RunTwoTasks(a, b) == Pair(a, b)
RunSoloTask(core) == Solo(0, core, 1)

\* F-1 to F-3.
FalseSharing ==
  Program(TRUE, {0, 1}, << RunTwoTasks(0, 1), RunTwoTasks(0, 1), RunSoloTask(1) >>)

RunConsumerProducer(worker, interferer) == Pair(worker, interferer)
RunSoloConsumer(core) == Solo(0, core, 1)

\* T-1 to T-3.
TrueSharing ==
  Program(TRUE, {0, 1},
    << RunConsumerProducer(0, 1), RunConsumerProducer(0, 1), RunSoloConsumer(1) >>)

RunSingle(core) == Solo(0, core, 1)
RunPair(worker, interferer) == Pair(worker, interferer)

\* W-1 to W-6.
WorkingSet ==
  Program(TRUE, {0, 1},
    << RunSingle(0), RunPair(0, 0), RunPair(0, 1), RunPair(0, 1), RunPair(0, 1),
       RunPair(0, 0) >>)

(***************************************************************************)
(* src/caas-rd-limitations.  Missed periods are counted and printed.       *)
(***************************************************************************)
\* Every task alone on core 0, then all of them under each placement.
Compared(n, placements) ==
  Program(FALSE, 0 .. n - 1,
          [k \in 1 .. n |-> Solo(k - 1, 0, 1)] \o placements)

\* TYPE-A: the cores are dealt out in turn.
TypeA(n) ==
  Compared(n, << Unpinned(0 .. n - 1),
                 Group([i \in 0 .. n - 1 |-> {i % CoreCount}]) >>)

\* The polluters of TYPE-B are the heavier and come first, all to the isolated
\* core; each victim then goes to the core with the largest residual.
TypeBCores(victims, n) ==
  [i \in 0 .. n - 1 |->
     IF i < victims THEN {i % (CoreCount - 1)} ELSE {CoreCount - 1}]

\* TYPE-B: low-priority victims, started a tick before high-priority polluters.
TypeB(victims, n) ==
  [Compared(n, << Unpinned(0 .. n - 1), Group(TypeBCores(victims, n)) >>)
   EXCEPT !.priority = [i \in 0 .. n - 1 |-> IF i < victims THEN 20 ELSE 5],
          !.first = 0 .. victims - 1]

\* Exp5-1: victims share the first half of the cores, polluters the second.
PartitionedCpu(victims, i) ==
  LET half == CoreCount \div 2
  IN  IF i < victims THEN i % half ELSE half + ((i - victims) % half)

ArchComparison(victims, n) ==
  Compared(n, << Unpinned(0 .. n - 1),
                 Group([i \in 0 .. n - 1 |-> {PartitionedCpu(victims, i)}]) >>)

\* Exp5-2: polluters have a multiple of the period (4 by default) and as many
\* jobs less, so every task stops at the same wall time.
PeriodTicksOf(victims, i) == IF i < victims THEN Period ELSE 2 * Period
JobsOf(victims, i) == (JobCount * Period) \div PeriodTicksOf(victims, i)

ClusterTasks(victims, n, program) ==
  [program EXCEPT
     !.period = [i \in 0 .. n - 1 |-> PeriodTicksOf(victims, i)],
     !.jobs = [i \in 0 .. n - 1 |-> JobsOf(victims, i)]]

\* As many victims as cores, on all cores but the last: victims 0 and 1 share a
\* core in PARTITIONED, victims 0 and 2 in PARTITIONED_ALT, up to core numbers.
VictimCore(i, partner) == IF i < partner THEN i ELSE IF i = partner THEN 0 ELSE i - 1

Flat(victims, n) ==
  ClusterTasks(victims, n,
    Compared(n,
      << Unpinned(0 .. n - 1) >> \o
      [k \in 1 .. (IF CoreCount = 2 THEN 1 ELSE 2) |->
         Group([i \in 0 .. n - 1 |->
                  IF i < victims THEN {VictimCore(i, k)} ELSE {CoreCount - 1}])]))

\* The build with a scheduler instance for the victims and one for the polluters.
Clustered(victims, n) ==
  ClusterTasks(victims, n,
    Program(FALSE, 0 .. n - 1,
      << Group([i \in 0 .. n - 1 |->
                  IF i < victims THEN 0 .. CoreCount - 2 ELSE {CoreCount - 1}]) >>))
=============================================================================
