------------------------------- MODULE PhasedRun ------------------------------
(***************************************************************************)
(* What the start and teardown handshake of the periodic runner promises:  *)
(* the phases of a run do not overlap.  No period is armed before every    *)
(* period exists, no job runs before every period is armed, no period is   *)
(* deleted before every worker has stopped measuring, and nothing is       *)
(* printed before every period is gone.                                    *)
(***************************************************************************)
CONSTANT Active   \* the tasks that take part in the run

VARIABLES
  phase,   \* of each task
  printed

vars == <<phase, printed>>

All(p) == \A i \in Active : phase[i] = p

Init ==
  /\ phase = [i \in Active |-> "starting"]
  /\ printed = FALSE

Move(i, from, to) ==
  /\ phase[i] = from
  /\ phase' = [phase EXCEPT ![i] = to]
  /\ UNCHANGED printed

MoveAll(from, to) ==
  /\ All(from)
  /\ phase' = [i \in Active |-> to]
  /\ UNCHANGED printed

Create(i) == Move(i, "starting", "created")

Arm(i) ==
  /\ \A k \in Active : phase[k] # "starting"
  /\ Move(i, "created", "armed")

Go       == MoveAll("armed", "running")
Stop(i)  == Move(i, "running", "stopped")
Teardown == MoveAll("stopped", "teardown")
Delete(i) == Move(i, "teardown", "deleted")

PrintResults ==
  /\ All("deleted")
  /\ ~printed
  /\ printed' = TRUE
  /\ UNCHANGED phase

Next ==
  \/ \E i \in Active : Create(i) \/ Arm(i) \/ Stop(i) \/ Delete(i)
  \/ Go \/ Teardown \/ PrintResults

Spec == Init /\ [][Next]_vars
=============================================================================
