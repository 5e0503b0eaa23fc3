------------------------------ MODULE Failsafe ------------------------------
(***************************************************************************)
(* Whether the link is lost, src/src/modules/failsafe.c: a heartbeat moves *)
(* a deadline, and the failsafe task looks whether it has passed.          *)
(*                                                                         *)
(* The two other flags, low power and overturn, compare the last sample    *)
(* with a threshold and are left out.                                      *)
(***************************************************************************)
EXTENDS Timers

CONSTANT LinkTimeout   \* FS_LINK_LOSE

ASSUME FailsafeAssumption == LinkTimeout \in Nat \ {0}

VARIABLES link_time, is_link_lose

fvars == <<link_time, is_link_lose>>

FailsafeTypeOK == link_time \in Times /\ is_link_lose \in BOOLEAN

(* failsafe_init. *)
FailsafeInit ==
  /\ link_time = (timer_cnt + LinkTimeout) % (TimeMax + 1)
  /\ is_link_lose = FALSE

(* failsafe_link_keep: d is timer_new's outcome. *)
FailsafeLinkKeep(d) == link_time' = d.t /\ UNCHANGED is_link_lose

(* Bug: a link once lost stays lost. *)
FailsafeUpdateLatched(o) == is_link_lose' = (is_link_lose \/ o.out) /\ UNCHANGED link_time

(* failsafe_update: o is timer_is_timeout's. *)
FailsafeUpdate(o) == is_link_lose' = o.out /\ UNCHANGED link_time
=============================================================================
