------------------------- MODULE MCPlacementDecision -------------------------
(***************************************************************************)
(* PlacementDecision for TLC: four tasks on two cores.                     *)
(***************************************************************************)
EXTENDS PlacementDecision

TwoCores == 0 .. 1
FourTasks == 1 .. 4
SmallTasks == [u : {1}, period : {1}, low : {TRUE}] \cup [u : {3}, period : {2, 3}, low : {FALSE}]
                \cup [u : {2}, period : {3}, low : {TRUE}]
ClustersAndGlobal == <<{{0}, {1}}, {{0, 1}}>>
=============================================================================
