------------------------ MODULE MCPeriodicMeasurement ------------------------
(***************************************************************************)
(* PeriodicMeasurement for TLC.                                            *)
(***************************************************************************)
EXTENDS PeriodicMeasurement

CONSTANTS a, b, c

\* Two tasks of two jobs each.
TwoTasks     == {a, b}
PeriodsOf2   == [i \in TwoTasks |-> 2]
CountsOf2    == [i \in TwoTasks |-> 2]
LateB        == [i \in TwoTasks |-> IF i = b THEN 1 ELSE 0]

\* Three tasks, of which one runs alone.
ThreeTasks   == {a, b, c}
Periods23    == [i \in ThreeTasks |-> IF i = a THEN 2 ELSE 3]
Counts32     == [i \in ThreeTasks |-> IF i = a THEN 3 ELSE 2]

NoOffsets    == [i \in ThreeTasks |-> 0]
OffsetOfB    == [i \in ThreeTasks |-> IF i = b THEN 1 ELSE 0]

ExpectedOnly == {"expected"}
AnyChecksum  == {"expected", "wrong"}
=============================================================================
