-------------------------------- MODULE Clock -------------------------------
(***************************************************************************)
(* The clock of src/src/driver/timer.c.  timer_cnt is a 64-bit count that  *)
(* the TIM7 handler increments; a 32-bit processor reads it in two halves, *)
(* in the order the compiler chose, and the handler may run between them.  *)
(* Time is in ticks: US_PER_TICK is one unit.                              *)
(***************************************************************************)
EXTENDS Integers

CONSTANTS Half,     \* values of one half of timer_cnt: 2^32
          TimeMax   \* TIME_MAX

ASSUME ClockAssumption ==
  /\ Half \in Nat /\ Half > 1
  /\ TimeMax = Half * Half - 1

Join(high, low) == high * Half + low
High(c) == c \div Half
Low(c)  == c % Half

(* timer_now when timer_cnt is c: what it returns and what timer_cnt is    *)
(* then.  The two loads are adjacent, so at most one tick falls between.   *)
Reads(c) ==
  {[now |-> c, cnt |-> c]} \cup
  { [now |-> t, cnt |-> c + 1] :
      t \in {c, c + 1, Join(High(c), Low(c + 1)), Join(High(c + 1), Low(c))} }

(* How often the low half has overflowed: each time a read may be torn. *)
Carries(c) == High(c)

(* Bug: a time that lies ahead has not passed at all. *)
PassedClips(now, since) == IF now >= since THEN now - since ELSE 0

(* timer_passed. *)
Passed(now, since) ==
  IF now >= since THEN now - since ELSE now + (TimeMax - since + 1)

(* Bug: a time that has just been reached counts as passed. *)
ElapsedInclusive(now, since, us) == Passed(now, since) >= us

(* The test of timer_check. *)
Elapsed(now, since, us) == Passed(now, since) > us
=============================================================================
