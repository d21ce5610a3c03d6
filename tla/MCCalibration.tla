--------------------------- MODULE MCCalibration ---------------------------
(***************************************************************************)
(* Calibration for TLC: a workload of two tasks and two of a single task,  *)
(* an isolated and a non-isolated core, three runs to a batch.             *)
(***************************************************************************)
EXTENDS Calibration, TLC

ThreeWorkloads == {"v", "w", "x"}
Split == [v |-> {1, 2}, w |-> {3}, x |-> {4}]

Of(u, s, r, q) == <<[u |-> u, scalar |-> s], [u |-> 2, scalar |-> r], [u |-> 2, scalar |-> q], [u |-> 1, scalar |-> 1]>>
SomeCases == {Of(3, s, 1, q) : s \in 0 .. 1, q \in 0 .. 1} \cup {Of(2, 1, 2, 0)}

Run(errors, failed, exit, tat) == [errors |-> errors, failed |-> failed, exit |-> exit, tat |-> tat]
Good(tat) == Run({}, FALSE, 0, tat)
Missed == Run({"deadline_miss", "job_completeness"}, TRUE, 0, 0)
SomeBatches ==
    {<<>>, <<Good(1), Good(1), Good(3)>>, <<Good(2), Good(3), Good(2)>>, <<Good(1), Missed, Good(1)>>,
     <<Run({"checksum"}, TRUE, 0, 0), Missed, Good(2)>>, <<Run({}, TRUE, 124, 0), Missed, Good(1)>>}
=============================================================================
