------------------------- MODULE PeriodicMeasurement -------------------------
(***************************************************************************)
(* PeriodicRunner with the host's judgement of what it prints,             *)
(* chaser/periodic/measurement.py: aggregate() and _check_public_status(). *)
(* The host reads a job's record after the run; here it is judged when it  *)
(* is completed, which tells the same, since a record never changes again  *)
(* and the epoch is fixed before the first job.                            *)
(*                                                                         *)
(* The host compares nanoseconds.  JobErrors are the errors that the ticks  *)
(* of the readings make certain.  Where the verdict depends on where in    *)
(* their ticks they fall, the host may or may not object: Doubts, a free   *)
(* choice.  CPU times, cores and the probe of a traced run are left out.   *)
(***************************************************************************)
EXTENDS PeriodicRunner

VARIABLES
  errors,   \* what the host finds in each task's job records
  drifted   \* history: tasks that ran a job with its timer off the nominal one

judged == <<errors, drifted>>

ErrorNames == {"release_mismatch", "timestamps", "deadline_miss", "period_state",
               "postponed_job", "period_status", "checksum",
               "accounting_epoch", "unresolved_epoch"}

\* _check_public_status: each status reading puts the epoch behind its
\* since_last_period between two bounds, and the intersection of the two
\* intervals must lie less than a tick from the nominal release or, with soft
\* deadlines, from an earlier release of the task.  The lower bound is never
\* above the later epoch, the upper one never below the earlier.
EpochFits(i, release, r) ==
  \E m \in IF Soft THEN 0 .. release ELSE {0} :
    LET seen == {e + m * PeriodOf[i] : e \in {r.before.epoch, r.after.epoch}}
    IN  (\E e \in seen : e >= release - 1) /\ (\E e \in seen : e <= release)

\* The certain errors of record r, the j-th of task i.
JobErrors(i, j, r) ==
  LET release == Release(i, j, t0)
      states  == {r.before.state, r.after.state}
  IN  {e \in ErrorNames :
        \/ /\ e = "release_mismatch"
           /\ ~EpochFits(i, release, r)
        \/ e = "timestamps" /\ r.start < release
        \/ e = "deadline_miss" /\ ~Soft /\ r.completion >= Deadline(i, j, t0)
        \/ e = "period_state" /\ "inactive" \in states
        \/ e = "period_state" /\ ~Soft /\ "expired" \in states
        \/ e = "postponed_job" /\ ~Soft /\ r.before.postponed + r.after.postponed > 0
        \/ e = "period_status" /\ ~Soft /\ r.status # "successful"
        \/ e = "checksum" /\ r.checksum # "expected"}

\* A bracket around a status reading can be as wide as its thread was kept from
\* running, and one of about a tick leaves the epoch open: epoch_resolution, or
\* the release_mismatch of an interval that reaches a whole tick from the
\* release, here both "unresolved_epoch".  No doubt is left only if the epoch
\* and the whole first status call lie in the tick of the release: then that
\* bracket is narrow enough, and the second cannot widen the intersection.
\* With soft deadlines the host also guesses the release the epoch belongs to.
Resolved(i, j, r) ==
  ~Soft /\ r.before.epoch = Release(i, j, t0) /\ r.beforeEnd = r.before.epoch

\* Intervals of two epochs may or may not meet.
Doubts(i, j, r) ==
  (IF Resolved(i, j, r) THEN {} ELSE {"unresolved_epoch"})
    \cup (IF r.before.epoch = r.after.epoch THEN {} ELSE {"accounting_epoch"})

\* The tick brackets of the first period() call both show the epoch.
ArmedAtEpoch(i) == arm[i].before = t0 /\ arm[i].after = t0

\* The records of a run that printed its end marker draw no error: every task
\* armed at the epoch, every job present, every record sound.
Accepted ==
  /\ cpc = "exited"
  /\ \A i \in Active : /\ ArmedAtEpoch(i)
                       /\ count[i] = JobCount[i]
                       /\ errors[i] = {}

\* What the diagnostic probe reads: the timer of job j, which stands postponed
\* periods past the job's nominal deadline.
TimerNominal(i, j, per) == per.timer = Deadline(i, j + per.postponed, t0)

MInit ==
  /\ Init
  /\ errors = [i \in Active |-> {}]
  /\ drifted = {}

Judge(i) ==
  /\ \E doubts \in SUBSET Doubts(i, job[i], Closed(i)) :
       errors' = [errors EXCEPT ![i] = @ \cup JobErrors(i, job[i], Closed(i)) \cup doubts]
  /\ drifted' = IF TimerNominal(i, job[i], rec[i].before) THEN drifted
                ELSE drifted \cup {i}

MNext ==
  \/ \E i \in Active : CompleteJob(i) /\ Judge(i)
  \/ /\ Next
     /\ count' = count
     /\ UNCHANGED judged

MSpec == MInit /\ [][MNext]_<<vars, judged>>

FairMSpec == MSpec /\ Fairness

(***************************************************************************)
(* Properties.                                                             *)
(***************************************************************************)
\* A run the host accepts ran every job on its nominal timer.  The host sees
\* no timer: the arm brackets and the epochs of the public status must suffice
\* to exclude every run the diagnostic probe would have rejected.
AcceptedOnSchedule == Accepted => drifted = {}

Over(i) == pc[i] \in {"cancel", "finish", "delete", "gone"}

\* With hard deadlines, target and host agree on what ends a task ("preserve
\* the offending final record"): once a task that armed at the epoch has
\* written a record whose schedule, status or checksum the host rejects, it
\* runs no further job.  The target never
\* sees the host's intervals, so there is one exception: all the host holds
\* against the task is that its readings leave an epoch open, while in fact
\* every job so far ran on its nominal timer.
OffenceIsLast ==
  ~Soft => \A i \in Active :
    errors[i] # {} /\ ArmedAtEpoch(i) =>
      Over(i) \/ (errors[i] = {"unresolved_epoch"} /\ i \notin drifted)

(***************************************************************************)
(* The inductive invariant behind both (proved in PeriodicRunnerProofs).   *)
(***************************************************************************)
\* Tasks whose jobs are on schedule as long as no record of theirs is
\* rejected: all but those with an offset and soft deadlines.
Timed(i) == Soft => OffsetOf[i] = 0

\* The timer of the phase period may still run, or have expired.
InPhase(i) ==
  OffsetOf[i] > 0 /\ (pc[i] \in {"after", "gate"} \/ (pc[i] = "period" /\ job[i] = 0))

\* The first job, released by a phase period that expired before the gate
\* opened: off schedule, and an offence.
Slipped(i) ==
  OffsetOf[i] > 0 /\ InJob(i) /\ job[i] = 0 /\ rec[i].status # "successful"

\* The activation lies between the two clock readings around it.
BracketInv(i) ==
  /\ pc[i] \notin {"create", "arm"} => arm[i].before <= now
  /\ pc[i] \notin {"create", "arm", "activate"} => arm[i].before <= anchor[i] /\ anchor[i] <= now
  /\ pc[i] \notin {"create", "arm", "activate", "after"} => anchor[i] <= arm[i].after

TimerInv(i) ==
  /\ InPhase(i) /\ period[i].state = "active" =>
       period[i].postponed = 0 /\ period[i].timer = Release(i, 0, anchor[i])
  /\ pc[i] \in Armed \ {"cancel"} /\ ~InPhase(i) /\ ~Slipped(i) =>
       period[i].next = PeriodOf[i] /\ period[i].timer = Release(i, NextJob(i), anchor[i])
  /\ \/ InJob(i) /\ rec[i].status = "successful"
     \/ pc[i] \in {"after", "gate"} /\ OffsetOf[i] = 0
     => period[i].epoch = Release(i, job[i], anchor[i]) /\ period[i].epoch <= now

\* Labels at which the first status has been read.
Sampled == {"sampled", "exec", "closing", "complete"}

\* The record of the job being measured: what its two status readings and its
\* start say of the schedule.
RecordInv(i) ==
  /\ pc[i] \in {"opened"} \cup Sampled /\ rec[i].status = "successful" =>
       Release(i, job[i], anchor[i]) <= rec[i].start
  /\ pc[i] \in Sampled =>
       /\ rec[i].before.state # "inactive"
       /\ rec[i].before.state = "expired" => rec[i].before.postponed > 0
       /\ ~Slipped(i) =>
            rec[i].before.timer = Release(i, job[i] + rec[i].before.postponed + 1, anchor[i])
       /\ rec[i].status = "successful" => rec[i].before.epoch = Release(i, job[i], anchor[i])
  /\ pc[i] \in Sampled \ {"complete"} => rec[i].before.postponed <= period[i].postponed
  /\ pc[i] = "complete" =>
       /\ rec[i].before.postponed <= rec[i].after.postponed
       /\ rec[i].status = "successful" => rec[i].after.epoch = Release(i, job[i], anchor[i])

\* What the host holds against a task.
VerdictInv(i) ==
  /\ errors[i] # {} \/ i \in drifted =>
       pc[i] \notin {"create", "arm", "activate", "after", "gate"}
  /\ i \in drifted /\ Timed(i) /\ ArmedAtEpoch(i) => errors[i] # {}
  /\ ~Soft /\ errors[i] # {} /\ ArmedAtEpoch(i) =>
       Over(i) \/ (errors[i] = {"unresolved_epoch"} /\ i \notin drifted)

MeasuredInv ==
  /\ errors \in [Active -> SUBSET ErrorNames]
  /\ drifted \in SUBSET Active
  /\ \A i \in Active : /\ BracketInv(i)
                       /\ Timed(i) => TimerInv(i) /\ RecordInv(i)
                       /\ VerdictInv(i)
=============================================================================
