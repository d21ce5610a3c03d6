------------------------------ MODULE Placement ------------------------------
(***************************************************************************)
(* The placement rules of chaser/policy/pfirst/placement.py: worst-fit     *)
(* decreasing (WFD), the balanced grouping of low-affinity tasks, and the  *)
(* release cost that CHASER's search lowers.                               *)
(*                                                                         *)
(* A task is a record [u, period, low].                                     *)
(***************************************************************************)
EXTENDS TaskSets

CONSTANTS Cores,    \* a prefix of the naturals
          Cap,      \* CORE_CAP in units
          Penalty   \* what one unit above Cap costs: 1e6 times the unit

ASSUME PlacementAssumption ==
    /\ IsFiniteSet(Cores) /\ Cores # {} /\ Cores = 0 .. Cardinality(Cores) - 1
    /\ Cap \in Nat /\ Penalty \in Nat

CoreLoad(tasks, assign, c) == U(tasks, On(assign, c))

Valid(tasks, assign) ==
    /\ assign \in [DOMAIN tasks -> Cores]
    /\ \A c \in Cores : CoreLoad(tasks, assign, c) <= Cap

Nowhere == <<>>

(* _wfd_into: on top of `from`, each task of S goes to the core least       *)
(* loaded when its turn comes, the lowest among equals.                     *)
WfdInto(tasks, S, cores, from) ==
    LET placed == CHOOSE a \in [S -> cores] :
      \A i \in S :
        LET load(c) == U(tasks, On(from, c)) + U(tasks, {j \in On(a, c) : Precedes(tasks, j, i)})
        IN \A d \in cores \ {a[i]} :
             load(a[i]) < load(d) \/ (load(a[i]) = load(d) /\ a[i] < d)
    IN [i \in DOMAIN from \cup S |-> IF i \in S THEN placed[i] ELSE from[i]]

Wfd(tasks) == WfdInto(tasks, DOMAIN tasks, Cores, Nowhere)

Low(tasks) == {i \in DOMAIN tasks : tasks[i].low}
Mixed(tasks) == Low(tasks) \notin {{}, DOMAIN tasks}

(* limit = min(cap, max(mean core load x 1.05, the group's largest task)).  *)
WithinLimit(tasks, x) ==
    /\ x <= Cap
    /\ \/ 20 * Cardinality(Cores) * x <= 21 * U(tasks, DOMAIN tasks)
       \/ \E i \in Low(tasks) : x <= tasks[i].u

(* grouped_balanced: the group on the fewest cores within the limit, or on  *)
(* all of them when none suffices, the rest on any core.                    *)
Grouped(tasks) ==
    IF ~Mixed(tasks) THEN Wfd(tasks)
    ELSE LET first(n) == WfdInto(tasks, Low(tasks), 0 .. n - 1, Nowhere)
             fits == {n \in 1 .. Cardinality(Cores) :
                        \A c \in Cores : WithinLimit(tasks, CoreLoad(tasks, first(n), c))}
             used == IF fits = {} THEN Cardinality(Cores) ELSE Min(fits)
         IN WfdInto(tasks, DOMAIN tasks \ Low(tasks), Cores, first(used))

GroupCores(tasks) == IF Mixed(tasks) THEN {Grouped(tasks)[i] : i \in Low(tasks)} ELSE Cores

(* Where the search may put task i.                                         *)
Allowed(tasks, i) == IF i \in Low(tasks) THEN GroupCores(tasks) ELSE Cores

(* _cost: over the release instants of a hyperperiod, the work released at  *)
(* once on the busiest core; and a penalty above the capacity.              *)
Hyperperiod(tasks) ==
    Min({h \in 1 .. ProductSet({tasks[i].period : i \in DOMAIN tasks}) :
           \A i \in DOMAIN tasks : h % tasks[i].period = 0})

Released(tasks, assign, t, c) ==
    SumFunctionOnSet([i \in DOMAIN tasks |-> tasks[i].u * tasks[i].period],
                     {i \in On(assign, c) : t % tasks[i].period = 0})

Crowding(tasks, assign) ==
    SumFunction([t \in 0 .. Hyperperiod(tasks) - 1 |-> Max({Released(tasks, assign, t, c) : c \in Cores})])

Overload(tasks, assign) ==
    SumFunction([c \in Cores |-> Max({0, CoreLoad(tasks, assign, c) - Cap})])

Cost(tasks, assign) == Crowding(tasks, assign) + Penalty * Overload(tasks, assign)
=============================================================================
