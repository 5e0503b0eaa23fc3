------------------------------- MODULE Timers -------------------------------
(***************************************************************************)
(* The deadlines and periods of src/src/driver/timer.c, over a clock whose *)
(* every read may be torn (see Clock).  An operator gives the outcomes of  *)
(* a call: its result and where timer_cnt stands when it returns.          *)
(***************************************************************************)
EXTENDS Clock

CONSTANT MaxCnt   \* bound on timer_cnt

ASSUME TimersAssumption == MaxCnt \in Nat /\ MaxCnt < TimeMax

VARIABLE timer_cnt

Times == 0 .. TimeMax

(* Bug: the deadline lies behind. *)
TimerNewBack(c, us) == { [t |-> r.now - us, cnt |-> r.cnt] : r \in Reads(c) }

(* timer_new: a deadline us from now. *)
TimerNew(c, us) ==
  { [t |-> (r.now + us) % (TimeMax + 1), cnt |-> r.cnt] : r \in Reads(c) }

(* Bug: a deadline is over some time after it has passed. *)
TimerIsTimeoutLate(c, t) ==
  { [out |-> r.now > t + 3, cnt |-> r.cnt] : r \in Reads(c) }

(* timer_is_timeout. *)
TimerIsTimeout(c, t) ==
  { [out |-> r.now > t, cnt |-> r.cnt] : r \in Reads(c) }

(* timer_check: a period that is over starts anew, by a second read.       *)
TimerCheck(c, t, us) ==
  UNION { IF Elapsed(r.now, t, us)
          THEN { [due |-> TRUE, t |-> s.now, cnt |-> s.cnt] : s \in Reads(r.cnt) }
          ELSE { [due |-> FALSE, t |-> t, cnt |-> r.cnt] } : r \in Reads(c) }

(* A read that begins at c may straddle an overflow of the low half.       *)
Straddles(c) == Low(c) = Half - 1
=============================================================================
