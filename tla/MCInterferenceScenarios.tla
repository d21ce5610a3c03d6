------------------------ MODULE MCInterferenceScenarios -----------------------
(***************************************************************************)
(* InterferenceScenarios for TLC: two cores, and each program with as few  *)
(* tasks as show its placements.                                           *)
(***************************************************************************)
EXTENDS InterferenceScenarios

AllPrograms ==
  {Baseline, FalseSharing, TrueSharing, WorkingSet, TypeA(2), TypeB(1, 3),
   ArchComparison(1, 2), Flat(2, 3), Clustered(2, 3)}

Polluted == {TypeB(1, 3)}
=============================================================================
