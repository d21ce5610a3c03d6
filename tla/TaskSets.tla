------------------------------ MODULE TaskSets ------------------------------
(***************************************************************************)
(* What the placement policies share: a task set is a function from task   *)
(* numbers to records with a utilization u, a placement a function from    *)
(* tasks to cores.  Utilizations are whole multiples of a unit, so that    *)
(* sums are exact; the tolerances and math.fsum of the code, which absorb  *)
(* rounding, have no counterpart.                                          *)
(***************************************************************************)
EXTENDS Integers, FiniteSets, FiniteSetsExt

U(tasks, S) == SumFunctionOnSet([i \in DOMAIN tasks |-> tasks[i].u], S)
On(assign, c) == {i \in DOMAIN assign : assign[i] = c}

(* The order of placement: descending u, then ascending task.              *)
Precedes(tasks, i, j) == tasks[i].u > tasks[j].u \/ (tasks[i].u = tasks[j].u /\ i < j)
=============================================================================
