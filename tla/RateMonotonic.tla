----------------------------- MODULE RateMonotonic ----------------------------
(***************************************************************************)
(* The RTEMS rate-monotonic period as rtems/periodic/init.c uses it.  The  *)
(* kernel is not part of this repository: these are the outcomes of        *)
(* rtems_rate_monotonic_period(), of its timer and of cancel, as functions *)
(* of one period object.  Time is the tick count since boot.               *)
(***************************************************************************)
EXTENDS Naturals

States == {"inactive", "active", "expired"}

Periods == [state     : States,
            postponed : Nat,   \* releases that have passed and not run
            next      : Nat,   \* length the timer is set to when it fires
            timer     : Nat,   \* tick of the next expiry
            epoch     : Nat]   \* tick since_last_period counts from

NoPeriod ==
  [state |-> "inactive", postponed |-> 0, next |-> 0, timer |-> 0, epoch |-> 0]

\* period() on an inactive period starts it and returns at once.
Activated(length, now) ==
  [state |-> "active", postponed |-> 0, next |-> length,
   timer |-> now + length, epoch |-> now]

\* period() blocks until the timer only if every past release has run.
Blocks(per) == per.state = "active" /\ per.postponed = 0

\* What the blocking caller leaves behind; RTEMS_SUCCESSFUL when it wakes.
Concluded(per, length) == [per EXCEPT !.next = length]

\* Otherwise period() runs one postponed release now and returns RTEMS_TIMEOUT.
ReleasedLate(per, length) ==
  [per EXCEPT !.state = "active", !.next = length, !.postponed = @ - 1]

\* The timer fires while the owner is blocked in period(): the next job.
Restarted(per, now) ==
  [per EXCEPT !.state = "active", !.timer = now + per.next, !.epoch = now]

\* The timer fires while the owner is elsewhere: the release is postponed.
Expired(per, now) ==
  [per EXCEPT !.state = "expired", !.postponed = @ + 1, !.timer = now + per.next]
=============================================================================
