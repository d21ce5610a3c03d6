------------------------- MODULE MCStagedExperiment -------------------------
(***************************************************************************)
(* Small staged experiments for TLC: one pilot set, two more, one measured *)
(* run each; two attempts, one kill and one edit.                          *)
(***************************************************************************)
EXTENDS StagedExperiment

=============================================================================
