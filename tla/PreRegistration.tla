--------------------------- MODULE PreRegistration ---------------------------
(***************************************************************************)
(* What a pre-registered experiment promises (EXPERIMENTS.md 27 and 44):   *)
(* the prediction is frozen before the first run it is about begins, and   *)
(* the evidence of a run, once it is there, is neither replaced nor lost.  *)
(* StagedExperiment implements this through stops and resumed stages.      *)
(***************************************************************************)
EXTENDS Naturals

CONSTANTS Predicted,  \* the runs a prediction is about
          Evidence    \* what the record of a run may say

VARIABLES frozen,     \* how often the prediction was written
          begun,      \* the predicted runs that ever had a simulator started
          kept        \* the evidence of every run, or "none"

vars == <<frozen, begun, kept>>

Init == frozen = 0 /\ begun = {} /\ kept = [r \in Predicted |-> "none"]

Freeze == begun = {} /\ frozen' = frozen + 1 /\ UNCHANGED <<begun, kept>>

Begin(r) == frozen > 0 /\ begun' = begun \cup {r} /\ UNCHANGED <<frozen, kept>>

Keep(r) ==
    /\ r \in begun /\ kept[r] = "none"
    /\ \E e \in Evidence : kept' = [kept EXCEPT ![r] = e]
    /\ UNCHANGED <<frozen, begun>>

Next == Freeze \/ \E r \in Predicted : Begin(r) \/ Keep(r)

Spec == Init /\ [][Next]_vars
=============================================================================
