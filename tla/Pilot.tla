-------------------------------- MODULE Pilot -------------------------------
(***************************************************************************)
(* The operator's link to the vehicle: HEARTBEAT and MANUAL_CONTROL as     *)
(* mavlink_msg_handle (src/src/link/link_mavlink.c) passes them on, to the *)
(* failsafe and to the commander, and the tasks of both as the scheduler   *)
(* runs them.  Messages come, are late, or stop coming.                    *)
(*                                                                         *)
(* The tasks run early (a torn read) or late by any amount: the loop skips *)
(* turns, and a handler may hold it while the flash erases or a log is     *)
(* sent.  The code keeps an order only.  The commander's task has the      *)
(* period of the link's and stands before it in task_tab, with nothing     *)
(* between them that waits, so a look precedes a MANUAL_CONTROL by Lead at *)
(* most, however late both are.  And task_link takes one byte in a run, so *)
(* the 19 bytes of a MANUAL_CONTROL leave the commander LooksBetween looks *)
(* at the sticks before the next.                                          *)
(***************************************************************************)
EXTENDS Failsafe, Commander

CONSTANTS Lead,           \* from the commander's last look to a message
          LooksBetween

(* A deadline fits in the 64 bits of a time. *)
ASSUME PilotAssumption ==
  /\ Lead \in Nat \ {0}
  /\ MaxCnt + LinkTimeout < TimeMax
  /\ LooksBetween \in Nat /\ LooksBetween > 1

VARIABLES
  follows,   \* whose calls the behaviour follows
  kept,      \* when the last heartbeat came
  watched,   \* when the failsafe task last ran
  looked,    \* when the commander's task last ran
  looks,     \* its runs since the sticks were last set
  changed,   \* when the sticks last took up or left the gesture that counts
  released   \* the sticks have been centred since armed last changed

hvars   == <<follows, kept, watched, looked, looks, changed, released>>
allvars == <<timer_cnt, fvars, mvars, hvars>>

PilotTypeOK ==
  /\ timer_cnt \in 0 .. MaxCnt
  /\ FailsafeTypeOK /\ CommanderTypeOK
  /\ follows \in {"failsafe", "commander"}
  /\ {kept, watched, looked, changed} \subseteq 0 .. MaxCnt
  /\ looks \in 0 .. LooksBetween
  /\ released \in BOOLEAN

(* After main's initialisation.  The failsafe and the commander share no   *)
(* variable but the clock, which either may find moved on by any amount:   *)
(* a behaviour with the calls of one of them leaves out no behaviour of it.*)
PilotInit ==
  /\ follows \in {"failsafe", "commander"}
  /\ timer_cnt = 0
  /\ FailsafeInit /\ CommanderInit
  /\ kept = 0 /\ watched = 0 /\ looked = 0 /\ looks = 0 /\ changed = 0
  /\ released = TRUE

-----------------------------------------------------------------------------
(* HEARTBEAT. *)
Heartbeat ==
  /\ follows = "failsafe"
  /\ \E d \in TimerNew(timer_cnt, LinkTimeout) :
       FailsafeLinkKeep(d) /\ timer_cnt' = d.cnt
  /\ kept' = timer_cnt
  /\ UNCHANGED mvars /\ UNCHANGED <<follows, watched, looked, looks, changed, released>>

(* The gesture that counts now. *)
Gesture(s) == IF armed THEN DisarmGesture(s) ELSE ArmGesture(s)

(* A pass of the scheduler calls the commander, if it is due, before it    *)
(* calls the link's task.                                                  *)
LookedFirst == timer_cnt - looked <= Lead

(* MANUAL_CONTROL. *)
ManualControl(s) ==
  /\ follows = "commander"
  /\ LookedFirst /\ looks = LooksBetween
  /\ CommanderSet(s)
  /\ looks' = 0
  /\ changed' = IF Gesture(s) = Gesture(stick) THEN changed ELSE timer_cnt
  /\ UNCHANGED fvars /\ UNCHANGED <<timer_cnt, follows, kept, watched, looked, released>>

TaskFailsafe ==
  /\ follows = "failsafe"
  /\ \E o \in TimerIsTimeout(timer_cnt, link_time) :
       FailsafeUpdate(o) /\ timer_cnt' = o.cnt
  /\ watched' = timer_cnt
  /\ UNCHANGED mvars /\ UNCHANGED <<follows, kept, looked, looks, changed, released>>

TaskCommander ==
  /\ follows = "commander"
  /\ CommanderUpdate
  /\ looked' = timer_cnt
  /\ looks' = IF looks = LooksBetween THEN looks ELSE looks + 1
  /\ released' = (armed' = armed /\ (released \/ Centred(stick)))
  /\ UNCHANGED fvars /\ UNCHANGED <<follows, kept, watched, changed>>

(* The clock, which stops at its bound. *)
Tick ==
  /\ timer_cnt' = IF timer_cnt < MaxCnt THEN timer_cnt + 1 ELSE timer_cnt
  /\ UNCHANGED fvars /\ UNCHANGED mvars /\ UNCHANGED hvars

(* Time passes, between the calls and in them. *)
PilotNext ==
  /\ \/ Heartbeat
     \/ \E s \in Sticks : ManualControl(s)
     \/ TaskFailsafe \/ TaskCommander
     \/ Tick
  /\ timer_cnt' <= MaxCnt

PilotSpec == PilotInit /\ [][PilotNext]_allvars
-----------------------------------------------------------------------------
(* Correctness.  A read may add a tick to each bound, and a torn read (one *)
(* that straddles an overflow) excuses what follows from it.               *)

(* failsafe.c:41, the deadline: a silence is noticed by the first look     *)
(* after the timeout, however late that look comes.                        *)
LossNoticed ==
  watched - kept > LinkTimeout + 1 =>
    is_link_lose \/ Straddles(kept) \/ Straddles(watched)

(* A link that is declared lost was silent for the whole timeout when it   *)
(* was looked at; the first look after a heartbeat takes it back.          *)
LossIsReal ==
  is_link_lose /\ kept < watched =>
    watched - kept >= LinkTimeout \/ Straddles(kept) \/ Straddles(watched)

(* So failsafe's is_link_lose follows the link. *)
LinkWatched == LossNoticed /\ LossIsReal

(* The vehicle is armed and disarmed only by a gesture that has been held  *)
(* for its time, but for the Lead of a look over a message, however late   *)
(* messages and looks come and whatever the sticks did long before.        *)
HeldToSwitch ==
  [][armed' # armed =>
       \/ timer_cnt' - changed + Lead > (IF armed' THEN ArmHold ELSE DisarmHold)
       \/ \E c \in changed - Lead .. timer_cnt' : c >= 0 /\ Straddles(c)]_allvars

(* A gesture switches once: it has to be let go before the next counts.    *)
ReleasedBetween == [][armed' # armed => released]_allvars

(* The last look, if the gesture had been held for more than t by then,    *)
(* though not for so long that a torn read could put it back before the    *)
(* start (twelve hours, with the 32 bits of a half).                       *)
HeldPast(t) == looked - changed \in t + 1 .. Half - Lead - 2

(* A gesture that is held for its time is taken by the first look that     *)
(* finds it so, however late and whatever read is torn, unless the sticks  *)
(* have not been let go since the last one.                                *)
GestureWorks ==
  /\ arm_status = "ARM_PRESS" /\ ArmGesture(stick) => ~HeldPast(ArmHold)
  /\ arm_status = "DISARM_PRESS" /\ DisarmGesture(stick) => ~HeldPast(DisarmHold)
=============================================================================
