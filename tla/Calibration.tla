---------------------------- MODULE Calibration ----------------------------
(***************************************************************************)
(* CAAS Algorithm 1 and the calibration of its threshold                   *)
(* (chaser/policy/allocator.py, chaser/periodic/calibration.py), and the   *)
(* use of the frozen threshold on other task sets                          *)
(* (scheduler-comparison-v1/policy-mix/algorithm1.py).                     *)
(*                                                                         *)
(* The mappings every candidate threshold asks for are planned, each is    *)
(* measured by a batch of repeated runs in any order, and when all are     *)
(* there a threshold is selected.                                          *)
(***************************************************************************)
EXTENDS TaskSets

CONSTANTS
    Workloads, TasksOf,      \* the tasks of each calibration workload
    Isolated, NonIsolated,   \* core groups
    Capacity,                \* of a core, in units
    Top,                     \* the scalar 1, in units
    Cases,                   \* what u and locality scalar the tasks may have
    Repeats,                 \* runs of a batch
    Batches                  \* what a batch may leave: sequences of runs

AllCores == Isolated \cup NonIsolated
NoCore == -1

ASSUME CalibrationAssumption ==
    /\ Isolated \cap NonIsolated = {} /\ AllCores # {} /\ AllCores \subseteq Nat /\ IsFiniteSet(AllCores)
    /\ Capacity \in Nat /\ Top \in Nat /\ Repeats \in Nat \ {0}
    /\ IsFiniteSet(Workloads)
    /\ \A v, w \in Workloads : v # w => TasksOf[v] \cap TasksOf[w] = {}

(* Both the planner and the allocator refuse a task without locality, a      *)
(* scalar outside 0 .. 1 and a utilization that is negative or not finite.   *)
ASSUME CaseAssumption ==
    \A k \in Cases :
      /\ IsFiniteSet(DOMAIN k) /\ DOMAIN k \subseteq Nat
      /\ \A w \in Workloads : TasksOf[w] \subseteq DOMAIN k
      /\ \A t \in DOMAIN k : k[t].u \in Nat /\ k[t].scalar \in 0 .. Top

(* load_batch refuses a batch that marks failed evidence successful.        *)
ASSUME BatchAssumption ==
    \A batch \in Batches : batch # <<>> =>
      /\ DOMAIN batch = 1 .. Repeats
      /\ \A i \in DOMAIN batch : ~batch[i].failed =>
           batch[i].errors = {} /\ batch[i].exit = 0 /\ batch[i].tat \in Nat

VARIABLES
    cases,       \* task -> [u, scalar]
    stage,
    plan,        \* theta -> workload -> allocation
    evidence,    \* <<workload, mapping>> -> batch, the requests measured so far
    selection,   \* status, theta and common workloads
    deployed     \* a set placed with the frozen threshold: tasks, cores

calVars == <<cases, stage, plan, evidence, selection, deployed>>

Unselected == [status |-> "none", theta |-> 0, common |-> {}]
-----------------------------------------------------------------------------
(* Algorithm 1: the tasks in order, each to the least loaded core of its    *)
(* group that has room, or nowhere.                                         *)
Group(t, theta) == IF cases[t].scalar <= theta THEN Isolated ELSE NonIsolated

\* Mutant: a task whose group is full spills into the other group.
Allocation_Spills(S, theta) ==
    CHOOSE m \in [S -> AllCores \cup {NoCore}] :
      \A t \in S :
        LET load(c) == U(cases, {s \in On(m, c) : Precedes(cases, s, t)})
            own == {c \in Group(t, theta) : load(c) + cases[t].u <= Capacity}
            room == IF own # {} THEN own ELSE {c \in AllCores : load(c) + cases[t].u <= Capacity}
        IN \/ room = {} /\ m[t] = NoCore
           \/ m[t] \in room /\ \A c \in room \ {m[t]} :
                load(m[t]) < load(c) \/ (load(m[t]) = load(c) /\ m[t] < c)

Allocation(S, theta) ==
    CHOOSE m \in [S -> AllCores \cup {NoCore}] :
      \A t \in S :
        LET load(c) == U(cases, {s \in On(m, c) : Precedes(cases, s, t)})
            room == {c \in Group(t, theta) : load(c) + cases[t].u <= Capacity}
        IN \/ room = {} /\ m[t] = NoCore
           \/ m[t] \in room /\ \A c \in room \ {m[t]} :
                load(m[t]) < load(c) \/ (load(m[t]) = load(c) /\ m[t] < c)

Infeasible(m) == On(m, NoCore)
-----------------------------------------------------------------------------
(* plan_calibration: the endpoints and the scalars seen are candidates.     *)
Thresholds == {0, Top} \cup {cases[t].scalar : t \in DOMAIN cases}

Requests ==
    {r \in {<<w, plan[theta][w]>> : theta \in DOMAIN plan, w \in Workloads} : Infeasible(r[2]) = {}}

(* classify_p_batch: a run is [errors, failed, exit, tat]; it may fail without  *)
(* naming an error (the simulator changed), and a batch may not load.       *)
Unreadable == <<>>
Scheduling == {"deadline_miss", "postponed_job", "period_status"}

(* The middle times of a batch: one, or two when the runs are even.  Twice  *)
(* the median keeps the time whole.                                         *)
Middle(batch) ==
    {x \in {batch[i].tat : i \in DOMAIN batch} :
       /\ 2 * Cardinality({i \in DOMAIN batch : batch[i].tat < x}) <= Repeats
       /\ 2 * Cardinality({i \in DOMAIN batch : batch[i].tat > x}) <= Repeats}

TwiceMedian(batch) == Min(Middle(batch)) + Max(Middle(batch))

\* Mutant: any failed run fails the workload.
Status_AnyFailure(batch) ==
    IF batch = Unreadable THEN "infrastructure_error"
    ELSE IF \E i \in DOMAIN batch : batch[i].failed THEN "workload_failure" ELSE "ok"

Status(batch) ==
    LET failed == {i \in DOMAIN batch : batch[i].failed}
        reasons == UNION {batch[i].errors : i \in failed}
    IN IF batch = Unreadable THEN "infrastructure_error"
       ELSE IF failed = {} THEN "ok"
       ELSE IF /\ reasons \cap Scheduling # {} /\ reasons \subseteq Scheduling \cup {"job_completeness"}
               /\ \A i \in failed : batch[i].exit = 0
       THEN "workload_failure" ELSE "infrastructure_error"

Failures(theta) ==
    {w \in Workloads :
       \/ Infeasible(plan[theta][w]) # {}
       \/ Status(evidence[<<w, plan[theta][w]>>]) = "workload_failure"}

Finalists == {theta \in DOMAIN plan :
                \A eta \in DOMAIN plan : Cardinality(Failures(theta)) <= Cardinality(Failures(eta))}

Score(theta, S) == SumFunction([w \in S |-> TwiceMedian(evidence[<<w, plan[theta][w]>>])])

Winner(S) == CHOOSE theta \in Finalists : \A eta \in Finalists :
    \/ Score(theta, S) < Score(eta, S)
    \/ Score(theta, S) = Score(eta, S) /\ theta <= eta

\* Mutant: each finalist is scored on the workloads it did not fail itself.
Selected_OwnSuccesses ==
    LET common == Workloads \ UNION {Failures(theta) : theta \in Finalists}
        own(theta) == Score(theta, Workloads \ Failures(theta))
    IN IF common = {} THEN [status |-> "calibration_unresolved", theta |-> 0, common |-> {}]
       ELSE [status |-> IF \E theta \in Finalists : Failures(theta) = {} THEN "complete" ELSE "partial_coverage",
             theta |-> CHOOSE theta \in Finalists : \A eta \in Finalists :
                         own(theta) < own(eta) \/ (own(theta) = own(eta) /\ theta <= eta),
             common |-> common]

(* select_threshold: fewest failures, then the least mean time on the       *)
(* workloads no finalist failed, then the smaller threshold.                *)
Selected ==
    LET common == Workloads \ UNION {Failures(theta) : theta \in Finalists}
    IN IF common = {} THEN [status |-> "calibration_unresolved", theta |-> 0, common |-> {}]
       ELSE [status |-> IF \E theta \in Finalists : Failures(theta) = {} THEN "complete" ELSE "partial_coverage",
             theta |-> Winner(common),
             common |-> common]

(* algorithm1.place: what Algorithm 1 leaves over goes, in order, to the    *)
(* least loaded core of all.                                                *)
Completed(m) ==
    CHOOSE a \in [DOMAIN m -> AllCores] :
      \A t \in DOMAIN m :
        LET load(c) == U(cases, On(m, c)) + U(cases, {s \in Infeasible(m) : a[s] = c /\ Precedes(cases, s, t)})
        IN IF m[t] # NoCore THEN a[t] = m[t]
           ELSE \A c \in AllCores \ {a[t]} :
                  load(a[t]) < load(c) \/ (load(a[t]) = load(c) /\ a[t] < c)
-----------------------------------------------------------------------------
CalInit ==
    /\ cases \in Cases
    /\ stage = "plan" /\ plan = <<>> /\ evidence = <<>>
    /\ selection = Unselected /\ deployed = <<>>

Plan ==
    /\ stage = "plan" /\ stage' = "measure"
    /\ plan' = [theta \in Thresholds |-> [w \in Workloads |-> Allocation(TasksOf[w], theta)]]
    /\ UNCHANGED <<cases, evidence, selection, deployed>>

Measure ==
    /\ stage = "measure"
    /\ \E r \in Requests \ DOMAIN evidence, b \in Batches :
         evidence' = [q \in DOMAIN evidence \cup {r} |-> IF q = r THEN b ELSE evidence[q]]
    /\ UNCHANGED <<cases, stage, plan, selection, deployed>>

(* Every exact mapping needs an outcome, and none may be unresolved.        *)
Select ==
    /\ stage = "measure" /\ DOMAIN evidence = Requests
    /\ stage' = "selected"
    /\ selection' = IF \E r \in Requests : Status(evidence[r]) = "infrastructure_error"
                    THEN [Unselected EXCEPT !.status = "refused"] ELSE Selected
    /\ UNCHANGED <<cases, plan, evidence, deployed>>

Deploy ==
    /\ stage = "selected" /\ selection.status \in {"complete", "partial_coverage"}
    /\ stage' = "deployed"
    /\ \E S \in SUBSET DOMAIN cases \ {{}} :
         LET m == Allocation(S, selection.theta)
         IN deployed' = [cores |-> Completed(m), unplaced |-> Infeasible(m)]
    /\ UNCHANGED <<cases, plan, evidence, selection>>

CalNext == Plan \/ Measure \/ Select \/ Deploy

CalSpec == CalInit /\ [][CalNext]_calVars
-----------------------------------------------------------------------------
(* Properties.                                                             *)
Resolved == selection.status \in {"complete", "partial_coverage"}

(* Only target scheduling failures count against a threshold                *)
(* (calibration.py 170): once one is selected, every run of every mapping   *)
(* that any candidate asked for either succeeded or belongs to a batch in   *)
(* which a run missed its schedule; no batch is unreadable, names another   *)
(* reason or holds a run whose simulator was killed.                        *)
NoFaultCounted ==
    Resolved => \A theta \in DOMAIN plan, w \in Workloads :
      Infeasible(plan[theta][w]) = {} =>
        LET batch == evidence[<<w, plan[theta][w]>>]
            named == UNION {batch[i].errors : i \in DOMAIN batch}
        IN /\ batch # Unreadable
           /\ \/ \A i \in DOMAIN batch : ~batch[i].failed
              \/ \E i \in DOMAIN batch : batch[i].errors \cap Scheduling # {}
           /\ named \subseteq Scheduling \cup {"job_completeness"}
           /\ \A i \in DOMAIN batch : batch[i].exit = 0

(* No other threshold fails fewer workloads; of those that fail as few none *)
(* has a lower mean time on the very workloads they are compared on, nor    *)
(* the same at a smaller threshold; and all of them were measured on these. *)
SelectionBest ==
    Resolved => \A eta \in DOMAIN plan :
      LET few(theta) == Cardinality(Failures(theta))
          theta == selection.theta
      IN /\ few(theta) <= few(eta)
         /\ few(theta) = few(eta) =>
              /\ selection.common \cap Failures(eta) = {}
              /\ \/ Score(theta, selection.common) < Score(eta, selection.common)
                 \/ Score(theta, selection.common) = Score(eta, selection.common) /\ theta <= eta

(* A task the frozen policy places is in its own group within the capacity, *)
(* as the calibration measured it, whatever the fallback piles on top: a    *)
(* configuration that is flagged placeable overloads no core.               *)
PlaceableFits ==
    deployed # <<>> =>
      LET placed == DOMAIN deployed.cores \ deployed.unplaced
      IN \A c \in AllCores :
           /\ On(deployed.cores, c) \cap placed
                \subseteq {t \in placed : c \in Group(t, selection.theta)}
           /\ U(cases, On(deployed.cores, c) \cap placed) <= Capacity
=============================================================================
