# Verification of chaser-experiments

TLA+ models of the parts of `src/` in which threads, events, timers, failures and
restarts meet, and of the policies those parts serve, with the TLC runs that check
them on small instances and the TLAPS proofs that hold for every value of the
constants. All paths below are relative to `src/`.

The repository measures how real-time task sets behave on a four-core GR740
(RTEMS 6 on a simulator): a host program prepares plans and workloads, a target
program runs them as periodic tasks, the host judges the printed records, and a
second pipeline exports memory-access events of the same workloads, archives
them and derives locality metrics. On top of it are placement policies, their
calibration, a dataset builder, and scripts that drive thousands of runs through
pre-registered experiments. Beside it stand two families of measurement programs
for cache interference.

## 1. Inventory

### Periodic measurement (target and host)

| Component | State | Operations | Talks to |
|---|---|---|---|
| Periodic runner `chaser/rtems/periodic/init.c` | coordinator and worker positions, event sets, one barrier, a period object per worker, `t0_tick`, `placement[]`, `jobs[][]` | ready handshake, epoch, arm, start gate, job loop, teardown, `print_results` | RTEMS events, barrier, rate-monotonic manager; probe; host by its log |
| Dispatch and period probe `chaser/rtems/periodic/probe.c` | per-core switch buffers and counters | start, record at context switch, stop, print | scheduler hooks, runner |
| Host measurement contract `chaser/chaser/periodic/measurement.py` | the set of errors of a run | `schedule_plan`, `parse_log`, `aggregate` | runner's log |
| Batch runner `chaser/tools/rtems_periodic.py` | attempts on disk, results | check inputs, boot, timeout, salvage, check again | simulator process, `parse_log` |
| Measured dataset loader `chaser/chaser/periodic/dataset.py` | none kept | admit the attempts of a directory | results on disk |
| Prepared builds `chaser/chaser/periodic/build.py`, `workload/` | files and hashes | validate, generate, hash | runner's tables |

What must be right: the four meetings of the coordinator with its workers lose no
signal and block nobody; no job runs before everybody armed, no teardown before
everybody stopped; jobs keep their nominal releases however late they run; the
stop test keeps the offending record; what the host accepts really ran on its
schedule.

### Raw event pipeline

| Component | State | Operations | Talks to |
|---|---|---|---|
| Queue `chaser/chaser/periodic/event_compression.py` | `_active`, `_failed`, condition, executor | `reserve`, `submit`, `archive`, `_fail`, `_release`, shutdown | producers, worker threads, disk |
| Storage `periodic/event_storage.py` | `.xz` files | compress, read back, compare | disk |
| Analysis `periodic/analysis.py` | reservations on its `ExitStack`, futures | export, check, submit, await, publish | queue, exporter process |

What must be right: the bound on raw files holds through every failure; the slot of
a file goes back exactly once; a blocked producer is woken; a published manifest
stands for archived evidence only.

### Experiments of the scheduler comparison

`chaser/artifacts/periodic/scheduler-comparison-v1/` holds chained supervisors (shell
scripts that run an experiment's stages and wait for each other's exit file) and the
staged Python runners: `high-load/hl_run.py`, `policy-mix/pm_run.py`,
`cls-bimodal/bi_run.py`, `period-distribution/run.py`, with `deadline_analysis.py`,
`confirm_decide.py` between them.

| State | Operations | Talks to |
|---|---|---|
| `protocol.json`, task-set directories, `decisions.json` and its hash, run directories with `measurements.jsonl`, result tables, exit files | prepare, predict or decide, isolated, pilot, full; resume; set an aborted run aside; wait for a predecessor | batch runner, `load_batch`, thread pool, operator (kill, restart, edit) |

What must be right: predictions are frozen before any predicted run begins and never
replaced; a stopped stage can be resumed and loses no record; changed inputs never
count as a success; a stage passes only on evidence its gate has seen; a successor
starts only after success.

### Placement policies and their calibration

| Component | State | Operations |
|---|---|---|
| Placement `chaser/chaser/policy/pfirst/placement.py`, `decision.py` | assignment being improved, best of the restarts | nominal check, worst fit, grouping, release-aware search, decision |
| Algorithm 1 `chaser/chaser/policy/allocator.py`, `policy-mix/algorithm1.py` | loads of the cores | order by load, fill the group, completion |
| Calibration `chaser/chaser/periodic/calibration.py` | frozen requests, batches, threshold | plan, classify, select; deployment by `algorithm1.py` |
| Features and random forest `policy/pfirst/features.py`, `policy/rf.py` | none kept | floating-point features, prediction |

What must be right: what is accepted fits the cores; infeasible and unknown are not
confused; the search keeps the core groups and ends in a local optimum; a broken run never
counts against a threshold, and thresholds are compared on a common basis.

### Cache interference programs

`cache-interference/` (exp1 to exp4) and `caas-rd-limitations/` (exp2, exp5) are RTEMS
programs: `Init` starts the tasks of one scenario after the other, each runs a number of
jobs under the rate-monotonic manager and the EDF SMP scheduler, releases a counting
semaphore and deletes itself; `Init` obtains one release per task and prints. What must be
right: nothing of one scenario leaks into the next, the printed numbers are complete, the
misses are counted, and jobs interfere with each other as the tables say.

### Locality

`chaser/chaser/locality/cache_reference.py` replays cache lines in a two-level LRU
hierarchy, `estimators.py` derives the same hits from histograms of set reuse distances
that an external analyzer exports, `s1/evaluation.py` requires the two to be equal.
`ca.py`, `cls.py`, `artifacts.py` read analyzer output and compute metrics.

### Dataset builder

| Component | State | Operations | Talks to |
|---|---|---|---|
| `chaser/tools/build_dataset.py`, `chaser/chaser/dataset/builder.py`, `splits.py`, `labeling.py` | the split file, output directories of five tables | freeze or reuse the split, validate it, join and label, create the directory, write | other programs over the same split file, the operator |

What must be right: an input is in one group only, under all its names, in every dataset ever
built against a split file; every group is served from every family; a directory
whose `metadata.json` is all there is one whole dataset (a kill or a full disk can leave that file, the
last one, empty or cut; such a file does not parse, and the directory is no dataset).

### Utilities

`utils/src/locked_print*.c` (printing locks nobody in the repository calls), smoke programs,
plotting and report scripts.

`PROJECT.json` lists every component with its status, and under `hazards` each
place where something is hard to test, with the properties aimed at it.

## 2. Modules

| Module | Models | Role |
|---|---|---|
| `EventCompression` | queue, archive job, and the analyses' use of them | component |
| `RawEventStore` | what the pipeline promises: admit, write, archive, remove, stop | abstract specification of it |
| `RateMonotonic` | the RTEMS period object as functions (external: the kernel is not in the repository) | library |
| `PeriodicRunner` | `init.c`: coordinator, workers, barrier, event sets, clock | component |
| `PhasedRun` | the promise of its handshake: phases do not overlap | abstract specification of it |
| `PeriodicMeasurement` | `aggregate` and `_check_public_status` over the runner's records | composes host and runner |
| `StagedExperiment` | supervisor, stages, thread pool, batch runner, loader, operator, waiting successor | component, composes five programs |
| `PreRegistration` | predictions are frozen, then runs begin, evidence is kept | abstract specification of it |
| `TaskSets`, `Placement` | utilizations, worst fit, grouping, the cost of the release table | pure operators |
| `PlacementDecision` | `decide()` with the search trial by trial | component |
| `Calibration` | plan, batches, classification, selection, Algorithm 1 | component |
| `InterferencePrograms` | the scenario and task tables of the programs | data |
| `InterferenceScenarios` | `Init`, the periodic tasks, EDF on several cores, the semaphore | component |
| `CacheReference` | `simulate()` beside the distances `csrd_counts()` uses | component |
| `FrozenSplit` | `taskset_split`, its validation and the legacy family holdout | pure operators |
| `DatasetBuild` | `build_dataset.py`, run several times over one split file | component |
| `FiniteSums` | sums, products, minima and greedy choices over finite sets | lemmas for the proofs |
| `PolicyProofs` | theorems about `PlacementDecision` and `Calibration` | proofs |
| other `*Proofs` | theorems about the module they are named after (`DatasetProofs`: `DatasetBuild`) | proofs |
| `MC*` | constants for TLC | |

### EventCompression and the code

One action is a stretch of code no other thread can see half-done: a critical
section of `_condition`, one change of the disk, one call of the executor.
`ReserveBlocks`, `ReserveRefused` and `ReserveGranted` are the three ways through
`reserve`; `Export` to `Publish` are the body of `_analyze`; `UnwindFail` and
`UnwindRelease` are one reservation leaving the `ExitStack` (`except` before
`finally`); `Take` to `Settle` are `archive()` on a worker. `submitted` is written in
an action of its own (`MarkSubmitted`): a worker may have finished the job before.
`held` is a history variable: slots handed out and not given back, which the code
only counts.

`Interrupt` is a `KeyboardInterrupt` of the main thread between two of its steps. Left
out are interrupts inside a step, in particular between `_active += 1` and the
`try` of `reserve` (a slot would be lost) and while the stack unwinds.
`export_command`'s size limit and the contents of the files are left out: an
export that fails for whatever reason is `BodyFails`.

### PeriodicRunner and the code

A step is one RTEMS call, or one clock reading, with the local code around it.
`pc[i]` names the call a worker is at, `cpc` that of the coordinator. Threads
interleave freely between calls, whatever their core or priority, and any number
of ticks may pass between two steps: every schedule EDF can produce is included.
An instant is its tick, so `completion > deadline` in nanoseconds is "the deadline's
tick has begun".

- `events`, `armed`: pending event bits; a second send before the receive is lost, as in
  RTEMS. `gate`: threads blocked in `rtems_barrier_wait`; the last of `BarrierCount`
  to come passes with all the others (automatic release).
- `period[i]`: state, postponed count, timer and the length the timer is re-armed with.
  `CallPeriod` is the call at the top of the loop, `Tick` fires every timer due.
- `SleepToEpoch` has the slip of one tick `init.c:310-313` tells of, `ReadEpoch` the
  remedy.
- `ActivatePeriod` is the first `period()` call: job 0's own, or with an offset the empty
  phase period (`init.c:132-138`), after which `WorkerPast` goes to the loop's call.
- A job is measured in six steps, as in the code: `StartJob` (start), `StatusBefore`, `BeginExec`
  (`status_before_end`), `EndJob` (the job itself and its checksum), `StatusAfter`, `CompleteJob` (completion).
  A thread can be kept from running between any two, so both brackets around a status reading can be
  wider than a tick. `status_after_start` is read with the end of the job and not kept: it
  could only narrow the second bracket, and with it what the host doubts.
- `CompleteJob` reads the completion time, counts the record and decides by
  `StopsAfter` (hard or soft build). No worker reads a record again, so it is dropped
  there to keep the state small; `PeriodicMeasurement` judges it in the same step.
- `anchor[i]` is a history variable: the tick of the period's activation, which the code
  does not keep (it prints the bracket `arm_before_tick`, `arm_after_tick`).

Left out: boot checks and task creation (they are the initial state), RTEMS calls
that return an error (`require` exits the run), suspended segments of a job (inside
`EndJob`, the ticks they sleep being ticks of the clock), the trace probe, kernels. `Tick` assumes that the coordinator is not
delayed for `Lead` ticks while it computes the epoch: all workers wait for ARM then,
and the code would otherwise sleep for 2^32 ticks (listed as a hazard).

### PeriodicMeasurement and the code

`ArmedAtEpoch` are the arm brackets, `Accepted` a run without errors, `drifted` is history: what
the diagnostic probe would have seen. The host compares nanoseconds, the model has ticks, so the errors of
a record come in two kinds.

- `JobErrors` are those the ticks make certain: the checks of `aggregate`, and with `EpochFits` the part of
  `_check_public_status` that no position within a tick can change.
- `Doubts` are those that depend on where in their ticks the readings fall, and `Judge` takes any subset
  of them. `unresolved_epoch` stands for `epoch_resolution` (`measurement.py:349`, `360-361`) and for the
  `release_mismatch` of an interval that reaches a tick from the release (`352-353`, `362-363`): possible unless the
  first bracket lies in the tick of its epoch and release (`Resolved`), and with soft deadlines always, where the host also guesses which
  release the epoch belongs to. `accounting_epoch` (`358-359`) is possible when the two readings saw different epochs.

So the model accepts at least what the code accepts, which is the safe side for `AcceptedOnSchedule`, and
it rejects at least what the code rejects, which is the safe side for `OffenceIsLast`. That property has
to make an exception: the target does not look at the brackets, and a task that was kept from running for a
tick around its status readings goes on although the host rejects the record for it. The property says that
this is the only way, and that such a task is on its schedule.

Left out: header, provenance, statistics; CPU times and cores of a job (`cpu_accounting`, `domain`:
both would take a fault of the kernel, since the times are read inside the measured interval and the
cores are those of the thread's affinity); the readings of the probe in a traced run, which the
host compares as well.

### StagedExperiment and the code

The variables are what lies on disk (`caseDir`, `protocol`, `dir`, `aside`, `decisions`,
`seal`, `results`, `exitFile`) and what dies with a process (`sup`, `stage`, `job`,
`infra`, `raised`). `design` is one of the two supervisor scripts: `deadline-confirm-v1.sh`
predicts after `prepare`, `confirm-v1.sh` decides after the isolated runs. The content of a
run directory is one of a dozen names for what a later reader can tell apart (no
file, an empty file, a truncated line, a row with or without header and why).

- `Start(i)` is the operator who runs or resumes the supervisor from stage `i`, no later
  than the first that has not succeeded or was killed since. `Stop` is a kill: of the stage
  alone, or of the supervisor with its process tree; it may cut the line being written.
  `Edit` changes a prepared file, or the simulator under the runs that are in progress.
- `PrepareCase`, `BuildCase` are the two halves of a preparation: `mkdir` without
  `exist_ok`, then the files. A stopped preparation is refused when resumed (`error`).
- `FindRow` to `Finish` are `execute()` of `run.py` around `run()` of `rtems_periodic.py`:
  a row with a header is kept, anything else moved aside as a whole; inputs and simulator
  are checked before and after the simulator runs; `LogKinds` is what its log may hold.
  A truncated line makes `completed()` raise: that directory stays stuck (`torn`).
- `Handle`, `Drained`, `PoolRaises` are `run_specs()` and the exit of its thread pool: results
  are taken as they complete, at `MAX_INFRA_FAILURES` what has not started is cancelled, after
  another exception everything queued still runs.
- `GateIsolated`, `Summarize` are the gates; a free choice stands for the numerical
  tolerances. `Poll` is the waiting supervisor of `deadline-ladder-v1.sh`.

Left out: the stages that only read (`stats`, `rt_metrics`, analysis), edits that are taken back
before the second check, a supervisor killed alone (its orphaned stage would run beside a
restarted one: a hazard, with a note). No program compares `decisions.sha256` again; `seal` says
which prediction it belongs to. A pilot repeated after a crash in `full` fails in `load_batch` on
the empty files of runs it did not begin; the model shows it, no property forbids it.

### Placement, PlacementDecision, Calibration and the code

Utilizations, loads and scalars are integers in units; comparisons of the code that carry a
tolerance (1e-9) become exact. Greedy placements are written as what they yield (`CHOOSE` the
assignment in which every task goes where its turn sends it), not as loops. A step of
`PlacementDecision` is the next trial that lowers the cost, in the order of the code's loops;
`NextPass` restarts them after a pass that took one; a random restart is any start the group
allows; the forest's probability is any number. `Penalty` (1e6 per unit above capacity in the
code) is small here, so that the search's result may really exceed the capacity, as a
finite penalty allows. `artifacts/.../placement_lib.py` holds a copy of the same
functions. `Calibration` goes from the planned mappings to the frozen threshold and its
deployment; no command line of the repository drives it from end to end. A batch is what
`load_batch` returns, or unreadable; means of times are sums over equally many workloads. A batch of an even
number of runs has two middle times and their mean as its median, so the model keeps twice the
median (`TwiceMedian`). `BatchAssumption` is what `load_batch` refuses, `CaseAssumption` what planner and
allocator refuse. The module has names of its own for its behaviour (`calVars`, `CalSpec`), so that it can be
proved about beside `PlacementDecision`.

### InterferenceScenarios and the code

A program is a record of `InterferencePrograms`: its tasks with period, job count and priority,
and per scenario the tasks it starts and the cores each may run on. One model of `Init` and of a
task serves all nine tables; where the sources differ (a miss ends the program in
`cache-interference/exp1` to `exp4`, is counted elsewhere) the program says so (`strict`).
`Dispatch` is the scheduler (external): the waiting jobs with the earliest deadline take the
cores they may run on, a begun job is preempted only by one before it. `Tick` fires the
period timers. A task in `period()` is not ready; its response is measured in ticks.

Left out: the memory accesses a job makes, failing task creation, a failing `rtems_rate_monotonic_create`
(`interference_workload.c:73-77` and its like print -1 misses for the task, or exit; every program
configures at least as many periods as tasks), the response statistics
(the last job's overrun is in neither of them nor in `misses`, since no later `period()`
call sees it). Semaphores of the sources have no limit; the model's is the number of tasks. exp1, exp3 and exp4 of `caas-rd-limitations` start no tasks;
`exp5_caas_limitation.c` uses a constant (`NUM_ITERATIONS`) no header defines.

### CacheReference and the code

`residents[k][s]` is the ordered dictionary of set `s` of level `k`. `Access` expands an access into
its lines (`cache_lines`), `Refer` is one pass of the loop of `simulate()`: `Reaches` is the
`break` at a hit, `MovedToEnd` and `Allocated` are what happens to a dictionary. The same
action records what the analyzer, which is not part of the repository, would: per level the
request's set distance, over the requests that reach the level. `CsrdCounts` and `Conserved` are `csrd_counts()`
with its refusals, evaluated after every reference and not only at the end of a trace.
`global_rd()` is left out: a control the code promises nothing about.

### FrozenSplit, DatasetBuild and the code

`FrozenSplit` is arithmetic: sizes by largest remainders with nobody empty, and the group of an
input by its place in the seeded order of its family. The SHA-256 order is the constant `Rank`: any
order. A workload's input signature is a value; equal values are aliases. The shares of the
code (0.6, 0.2, 0.2 with `round`) are integer arithmetic here, exact halves to even as in Python.

A step of `DatasetBuild` is one access to the file system: `Exists` and `Draw` are the two outcomes
of `path.exists()`, `Create` is `open('x')`, `WriteSplit` the closing of the written file (until
then a reader finds text that is not JSON), `Load` reads and validates, `MakeDirectory` is `mkdir()` without
`exist_ok`, `OpenTable` and `WriteTable` the two halves of `write_text()` for the next file: opened, it is
empty (`Cut`), and a kill or a failing write leaves it so, or part-written, which no reader can tell apart from it here. `Refuse` is every error `main` turns into exit 2; a workload whose
measurements are incomplete is left out of the rows, and an error in the records of the input is a
free choice at `Build`. `Kill` ends a program anywhere, also for a write that fails; `Edit` moves one entry of the frozen file
into another group. A row is the group it carries; features and labels are left out.
`Tables` is 2 in the run (five in the code): the first and the last. A finished dataset is a directory whose
last file is neither absent nor `Cut`. The files are not synchronised to the disk: what a power failure
loses or reorders is not modelled.

## 3. Runs

| Run | Instance | States | Question |
|---|---|---|---|
| `event_compression` | 2 analyses x 2 files, 2 workers, 2 slots, one analysis interruptible | 637 k | disk bound, slot accounting, published evidence, no forgotten archive, refinement of `RawEventStore`, every analysis ends |
| `measured_hard` | 2 tasks of period 2 and 2 jobs, one with an offset, 4 ticks, hard, judged by the host | 472 k | handshake, refinement of `PhasedRun`, the run ends; accepted runs are on schedule, the offending record is the last or leaves only an epoch open |
| `measured_soft` | 1 of 3 tasks (`chaser_mode`), 3 jobs, no offset, soft, wrong checksums, judged | 556 k | exact releases while catching up, accepted runs on schedule |
| `measured_phase` | as `measured_soft`, with an offset | | violation, see 5 |
| `staged_experiment` | 3 task sets, 1 of them a pilot, 1 key, 2 pool threads, limit 2, logs good, failed or cut, 2 starts, 1 kill, 1 edit, both designs | 455 k | predictions first, no record lost, no changed input counts, gates, the successor, refinement of `PreRegistration`, every attempt ends |
| `staged_startup` | the same with 2 task sets | | violation, see 5 |
| `placement_decision` | every set of 4 tasks of 1, 2 or 3 units, 2 cores of 5, penalty 1, 2 descents | 6 k | accepted sets fit, the nominal check is sound, the search keeps the group and ends in an optimum |
| `calibration` | 3 workloads, 2 cores of 4 units, batches of 3 runs: good, missing deadlines, broken, unreadable | 213 k | faults never count, the selected threshold is best, placeable sets fit |
| `interference_scenarios` | nine program tables, 2 cores, 3 jobs, period 2, 6 ticks | 1.2 M | no release lost, complete results, exact misses, no preemption |
| `interference_type_b` | one victim, two polluters | | violation, see 5 |
| `cache_reference` | ten hierarchies of 2 to 4 lines and 1 to 4 ways, five lines, traces of 6 references | 429 k | residency is distance, the estimator is exact |
| `dataset_build` | 2 programs at a time, 3 in all, 2 outputs, 10 command lines over grown, changed, aliased and malformed populations, 1 edit | 200 k | whole datasets, no leak between groups, every group served |

Bounds. Two files per analysis and two slots let an analysis hold one slot and wait for
another while its first file is compressed, and let a failed file stay while a slot goes
back; two workers let archives finish out of order. Two workers of the target are the least in
which one is late for a meeting at which another already waits; two jobs are the least
that have a successor, and `measured_soft` has three so that two releases can be
postponed at once. `Horizon` ends time: behaviours are complete up to it, and
`OutOfTime` marks the states in which it leaves somebody waiting (it is part of
`RunEnds`, so that liveness is never claimed for a run cut short); within
`Horizon` every judged instance can release and complete all its jobs and exit. In `measured_hard` a job can
also be late and a bracket wider than a tick, and the hard build goes no further than the first miss; jobs
late by more than one release are those of `measured_soft` and `measured_phase`. Tasks meet at the gate only, so their
periods are the same there; the theorems are for any. `Lead` is 1 instead of
20: nothing but the coordinator's sleep depends on it. In `staged_experiment` one pilot and two
other task sets give the full stage two runs for two threads and let the limit of two be reached while one
is running; two starts, a kill and an edit are the least that resume after a stop and change an
input under a run. Two cores and four tasks let a swap help where no move does, and loads hit the capacity exactly. Three
workloads let two thresholds fail different ones and still share one. Six ticks let a job overrun two
releases and catch up. Six references over five lines fill and overflow every set of the smaller caches
and let a line return after it was evicted from one level and not from the other. Three dataset
builders are the least in which two race for the split file and a third meets what they left; the
populations have families of 3, 4, 5 and 7 inputs, the sizes at which rounding differs; the entry an
edit may move belongs to an aliased, a grown and a changed population alike.

Fairness. Weak fairness of each analysis, each worker thread and each target thread: the
operating system dispatches a thread that stays runnable. `Tick` is weakly fair: time passes.
In `StagedExperiment` the stage's main thread, its pool and the waiting supervisor's polling are weakly
fair; a simulator ends or `timeout(1)` kills it. An interrupt, a failure, a kill, an edit, a restart
and the queue's shutdown are never forced. Nothing is strongly fair. The sequential components state no
fairness: that a search ends follows from its cost, which every `Improve` lowers.

Deadlock is checked in the runs of the pipeline and of the runner; the end of a run is a
stuttering step of its own (`Finished`, `Stopped`) whose guard spells out that everything came to
rest. The other runs switch it off because their systems really stop: a decision made, a
threshold deployed, a trace at its end, starts or ticks used up, a dataset written.

## 4. Proofs

Every theorem is of the form "for every value of the constants that meets the named `ASSUME`s of
the module"; TLC evaluates those assumptions in each run. They say what the code's constructors and
validators check, and that model values differ. No module with a theorem reaches a `RECURSIVE`
definition.

**EventCompressionProofs**: any finite set of analyses, any workers, files and slots.

- `Invariance`: `Inv` is inductive. `RawBound` alone is not: that a failed file may keep its
  place on disk while its slot goes back is harmless only because the queue has failed
  already, which needs `FailureInv`; that an admitted file owns a slot needs `SlotInv`, which
  needs to know where a file is (`ExecutorInv`, `CurrentInv`, `DiskInv`).
- `DiskBound`, `SlotsCounted`, `PublishedEvidence`, `AcceptedWorkKept` follow from it.
- `SlotsComeBack` has an invariant of its own, `RestInv`, preserved under `Inv`: a slot that is out
  belongs to a file on an analysis's stack whose future does not exist yet, or to one the executor
  has. Interrupts are why it says of the counter only `active <= Cardinality(held)`: an
  interrupted producer may give back a slot the worker gives back as well.
- `ImplementsStore`: the pipeline implements `RawEventStore`.

**PeriodicRunnerProofs**: any finite set of tasks, any plan, either build.

- `RunnerInvariant`: `HandshakeInv` (where each worker may be while the coordinator is at a label,
  which bits are pending, who waits at the barrier) gives `SignalsArrive`, `MeetingsApart` and
  `ImplementsPhases`. `CountInv` ties the number of records to the job index and gives `TypeCorrect`:
  no worker writes past its row. `PeriodInv` knows that an expired period has a postponed release,
  without which a call that does not block could take the postponed count below zero.
- `PeriodicReleases`, `NoEarlyJob`: if no active task has an offset. The argument is `ScheduleInv`:
  the timer stands at `anchor + NextJob x period`, where `NextJob` counts the jobs run, the job
  running and the releases postponed, so that an expiry moves both sides by one period and a late
  call moves neither. The assumption is needed: section 5.
- `AcceptedIsOnSchedule`, `OffenceEndsTask`: with what the host makes of the records, from `MeasuredInv`.
  The activation lies between the two clock readings, so a task whose readings both show the epoch has
  its timer anchored there (`BracketInv`). From then on the timer follows the schedule as above, also for
  a task with an offset and hard deadlines: a phase period that expired before the gate makes the
  status of its first job a timeout, which ends the task and is an offence (`Slipped`). The
  readings of a record agree with that schedule (`RecordInv`), so a job that is off it is rejected
  (`VerdictInv`). What the host's brackets leave open is a free choice in the model; the proof of the second theorem shows
  that a record without another error is one of a task on its schedule. For soft deadlines the first theorem assumes that no task has an offset;
  `measured_phase` shows that it must.

**FiniteSums**: no theorem of the system, but what the next three modules need of finite sets. Sums are
written with the community modules (`SumFunctionOnSet`), which compute them by recursion over a set, and
no prover can use an induction theorem with an operator for a parameter. Two lemmas take its place.
`FiniteGrowth` is induction over a finite set stated with a *set* of good subsets instead of a predicate.
`SumCountsUnits`, proved with it, says that a sum of naturals is the cardinality of a set: that of the pairs
`<<i, k>>` with `k < f[i]`. From there sums are counted: taking an element out, disjoint unions, sums that agree. A product is in the same
way the number of places in a box (`ProductCountsBoxes`), which gives a task set a hyperperiod. `TurnByTurn` is for greedy
placements, which the models write as the assignment in which everybody has what the greedy rule gives after
those before: whatever the rule, such an assignment exists, because a strict order on a finite set has a
last element (`LastOfOrder`).

**PolicyProofs**: any tasks, cores, capacity, task values, workloads and batches.

- `GroupIsKept` (`SearchInv`: the start, the current and the best assignment all keep the group, which a
  move and a swap do by the cores they range over) and `AcceptedAlwaysFits` (`OfferInv`: an accepted offer
  went through the capacity test of its own kind).
- `NominalIsSound`: if no core holds more than its capacity, no task does, and the loads of the cores, which add up
  to the whole demand, do not exceed the capacity of all.
- `ChampionIsOptimal` (`ChampionInv`): a pass that took no trial was at its first trial all the time, hence
  looked at every one; every trial taken lowers the cost. That the greedy grouping exists is `WorstFitExists`, from `TurnByTurn`.
- `FaultsNeverCount` (`EvidenceInv`): every piece of evidence is a batch of a planned request, and a
  threshold is only selected once every request has one that is no infrastructure error.
- `SelectionIsBest` (`BestInv`): means over equally many workloads compare as their sums, and the minimum
  over candidates exists because they are finitely many.
- `PlaceableAlwaysFits` (`DeployInv`): Algorithm 1 places a task only where its group leaves room, step by
  step; the completion adds tasks that are not placed, and moves none.

**StagedExperimentProofs**: any task sets, keys, pool size and limits, any number of starts, kills and
edits. `StagedInv` has a part per place something is kept: `StageInv` (the running stage is the
supervisor's, which never goes beyond what was reached), `PoolInv` and `TakenInv` (who has which run), `PrepareInv` and `ProgressInv` (what each
stage leaves), `CleanEvidence`, `StagesLeaveEvidence`, `ExitInv` (the exit file stands for the evidence
whatever attempt wrote it). The protocol and the task sets are written once; that a predicted run has
begun means the prediction stage was passed, so its seal can only be the frozen one
(`PredictionFirst`). That the number of results without a header is the counter `infra` is what lets
a gate trust a pool that ended normally. `RecordsStay` and `ImplementsRegistration` are
proved step by step from it.

**InterferenceProofs**: any well-formed tables, cores and horizon. `ScenarioInv` ties `Init`'s loop, the
tasks' progress, timers, the misses and the semaphore's count (`ReleasesAreCounted`:
what it holds, plus the tasks not done, is what `Init` has not obtained yet). `PrintsAreComplete`,
`MissesAreLateJobs` follow. `EqualPeriodsNeverPreempt` is a counting argument: with one period for all,
a job released later has a later deadline, and the waiting jobs before a begun one were before it
when it got its core, so a pigeonhole over the cores (`KeepsCore`) leaves it there.

**CacheReferenceProofs**: `StackInvariant` (each set of each level is the list of the most recent of its
lines, longest ago first, cut at the associativity) and `ResidentLinesAreNear`, which counts: the lines
of a set requested since are those behind the line in that list. `CsrdAgrees` adds `CountInv`: at every
level the requests counted at distances below the associativity are the hits of the simulation and
the others its misses; one reference adds one to a single distance of each level it reaches, and residency
says on which side of the associativity.

**DatasetProofs**: any programs, populations, seeds, seeded order, kills and edits. `DatasetInv`: the split
file has one writer, ever; its population and seed are never changed, even by an edit (`FrozenInv`), and
a program that has loaded it holds what it was drawn from (`MemoryInv`); rows follow from frozen
population and seed (`RowsInv`); a directory has one owner, who fills it in order and
leaves at most one file cut (`DirectoryInv`), so if the last one is whole all are.
`NothingLeaks` and `DatasetsAreWhole` follow. `GroupsAreServed` needs to know besides that the file's seed and
population come from some command line (`OriginInv`), and two facts about `FrozenSplit`. `SizesServe`: for
`n = 5q + r` inputs the three sizes follow from `r` alone, they add up to `n`, none is zero,
and each is less than one from its share. `GroupsAreFilled`: places in a total order are a bijection to
`0 .. n - 1` (an injection between sets of one size), so a group has as many inputs as places. `RankAssumption`
is that order's totality: the code sorts by hash and, for equal hashes, by the signature.

Only model-checked: liveness (`EveryAnalysisEnds`, `RunEnds`, `AttemptEnds`), since fairness and
`ENABLED` are beyond the prover. Every invariant and every action property of a passing run is the
statement of a theorem; those about releases (`PeriodicReleases`, for soft deadlines
`AcceptedIsOnSchedule`) assume that no active task has an offset.

## 5. Disagreements with the documentation

Shown by a run that is expected to find a violation:

1. `measured_phase`. `chaser/rtems/periodic/init.c:304-306` and `experiment-guide/INPUTS.md:292-293` say
   that the arm brackets and the elapsed-time bounds check the phase. When the empty phase period
   of a task with an offset expires before the start gate opens, RTEMS re-arms its timer with the
   same length, the offset (`init.c:134`), and job 1 is released off the schedule of `init.c:30-32`.
   With soft deadlines and an offset of one tick the host takes the phase period's start for a release
   and accepts such a run.
2. `staged_startup`. `cls-bimodal/bi_run.py:169-170` says that only runs failed at startup are
   tolerated; `run_state` (237) asks for a subset of the startup errors, which the empty list is, and
   `rtems_periodic.py:111-115` marks a run whose inputs changed as failed without naming an error.
3. `interference_type_b`. The README of `exp2-task-interference` (41-44) says that polluters started a
   tick later preempt the victim on their core by priority; `init.c:33` configures an EDF scheduler,
   all periods are equal, and the earlier release keeps the core (`NeverPreempted`). The README
   of `exp5-2-ca-cluster-mismatch` (121-123) says so of its own late polluters.

Noticed while modelling, with no run:

- `chaser/README.md:364` says `freeze_split` assigns whole families about 70/20/10; the builder's default
  is a split within each family of 60/20/20, the other on request only. Validation of such a
  `legacy` split does not notice an edited family-to-group map.
- `chaser/chaser/periodic/calibration.py:170` says that only target scheduling failures count against a
  threshold. A batch with a real miss counts although another of its runs failed without naming an error.
- `chaser/chaser/s1/trace.py:14-18` says calls and recursion are rejected; a direct
  recursion or a jump to the function's start is accepted.
- `cache-interference/exp1-baseline/exp1_baseline.c:102` says a missed period is ignored; the code exits.
  Its comment at 350-356 tells of round robin; the tasks have the default modes.
- `scheduler-comparison-v1/prepared_builds.py:8-15` knows four states of a prepared directory and stops at
  "other". A `prune` killed between two deletions leaves exactly that state, which neither `prune` nor
  `restore` accepts again; a `prune` in which one directory raises leaves the deletions of its siblings
  out of `pruned-builds.jsonl`.
- `dataset/final_clp.py` and `policy/rf_experiment.py` hash their inputs and read them again afterwards; a
  change between the two is not noticed.

## 6. Not modelled

The map covers about a twentieth of the repository's implementation lines. Most of the rest
keeps no state that a checker could follow:

- plots, reports and statistics (some 9,000 lines that read recorded results and print);
- PolyBench kernels, code generators for kernels and arrays, the Dhrystone port of `kci-smp-test`, task-set
  generators (`*_set.py`): text, C loops and seeded random numbers;
- floating-point metrics (`ca.py`, `cls.py`, features, medians of labels) and the random forest with its
  training and CLP export: TLC has no such numbers, and the models take their outcome as a
  free choice where a decision depends on it;
- parsers and drivers of external tools (S1 suite, cachegrind, the analyzer): sequential, and wrong
  only in the text they read;
- `probe.c`: its hook runs inside a context switch, below the level of `PeriodicRunner`, whose
  steps are calls; the hazard of its full buffer is listed without a property;
- prepared builds, plans and `prepared_builds.py`: sequential hashing and file handling, taken by
  `StagedExperiment` as a task set that is complete, partial or changed;
- locked printing, which no program calls, and smoke programs;
- `global_rd()` and the tolerances of `compare()`; deleting the split file by hand; two stages of one
  experiment running at once, for which the code defines no outcome.

What could be added next, in order: the prune and restore of prepared builds as a component of its own
(a directory's files, a killed prune, the log that forgets); the probe's buffers against dispatches of
other cores; the final training pipeline's checks of what it hashed; the release times of a soft task with
an offset whose phase period did not expire before the gate.
