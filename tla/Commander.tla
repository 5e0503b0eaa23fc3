------------------------------ MODULE Commander -----------------------------
(***************************************************************************)
(* Arming by stick gestures and the scene of the height estimate,          *)
(* src/src/pilot/commander.c.  main.c creates the commander's task at 326, *)
(* a line this commit has commented out.                                   *)
(*                                                                         *)
(* Nothing ever sets flying, so the sticks are checked in every update.    *)
(* Stick values are classed by what the code tells apart.                  *)
(***************************************************************************)
EXTENDS Timers

CONSTANTS Sticks,      \* the stick positions that occur
          ArmHold,     \* how long the arming gesture is held
          DisarmHold,  \* and the disarming one
          Smooth       \* the time of alt_smooth_time

(* Both lower corners, outward or inward, thrust down alone, all centred,  *)
(* and others by their thrust: above, within or below the dead zone.       *)
StickPositions == {"corners", "down", "center", "high", "level", "low"}

ASSUME CommanderAssumption ==
  /\ Sticks \subseteq StickPositions /\ "center" \in Sticks
  /\ ArmHold \in Nat /\ DisarmHold \in Nat /\ Smooth \in Nat

ArmGesture(s)    == s = "corners"
DisarmGesture(s) == s \in {"corners", "down"}
Centred(s)       == s = "center"
ThrustUp(s)      == s = "high"
ThrustDown(s)    == s \in {"corners", "down", "low"}
ThrustLevel(s)   == s \in {"center", "level"}

VARIABLES
  stick,       \* the sticks, by class
  armed,
  arm_status,  \* check_stick_arm's status
  arm_time, disarm_time,
  alt_scene, alt_smooth_time

mvars == <<stick, armed, arm_status, arm_time, disarm_time, alt_scene, alt_smooth_time>>

CommanderTypeOK ==
  /\ stick \in Sticks
  /\ armed \in BOOLEAN
  /\ arm_status \in {"ARM_PRESS", "ARM_RELEASE", "DISARM_PRESS", "DISARM_RELEASE"}
  /\ {arm_time, disarm_time, alt_smooth_time} \subseteq Times
  /\ alt_scene \in {"NORMAL", "PRE_TAKEOFF", "TAKEOFF", "MOVE_UP", "MOVE_DOWN"}

CommanderInit ==
  /\ stick = "center" /\ armed = FALSE
  /\ arm_status = "ARM_PRESS" /\ arm_time = 0 /\ disarm_time = 0
  /\ alt_scene = "NORMAL" /\ alt_smooth_time = 0

(* commander_set_roll and its like, with the one controller there is. *)
CommanderSet(s) ==
  /\ stick' = s
  /\ UNCHANGED <<armed, arm_status, arm_time, disarm_time, alt_scene, alt_smooth_time>>

-----------------------------------------------------------------------------
(* check_stick_arm.  An outcome is what it leaves behind.                  *)

Outcome(a, st, at, dt, c) ==
  [armed |-> a, arm_status |-> st, arm_time |-> at, disarm_time |-> dt, cnt |-> c]

(* Bug: the time is not started anew while the sticks are elsewhere. *)
WaitArmPressStale ==
  IF ArmGesture(stick)
  THEN { Outcome(k.due, IF k.due THEN "ARM_RELEASE" ELSE arm_status, k.t, disarm_time, k.cnt) :
           k \in TimerCheck(timer_cnt, arm_time, ArmHold) }
  ELSE { Outcome(FALSE, arm_status, arm_time, disarm_time, timer_cnt) }

(* Bug: the time is started anew in every look. *)
WaitArmPressRestarts ==
  IF ArmGesture(stick)
  THEN { Outcome(k.due, IF k.due THEN "ARM_RELEASE" ELSE arm_status, timer_cnt, disarm_time, k.cnt) :
           k \in TimerCheck(timer_cnt, arm_time, ArmHold) }
  ELSE { Outcome(FALSE, arm_status, timer_cnt, disarm_time, timer_cnt) }

WaitArmPress ==
  IF ArmGesture(stick)
  THEN { Outcome(k.due, IF k.due THEN "ARM_RELEASE" ELSE arm_status, k.t, disarm_time, k.cnt) :
           k \in TimerCheck(timer_cnt, arm_time, ArmHold) }
  ELSE { Outcome(FALSE, arm_status, r.now, disarm_time, r.cnt) : r \in Reads(timer_cnt) }

(* Bug: the release is not waited for. *)
WaitArmReleaseNot ==
  { Outcome(TRUE, "DISARM_PRESS", arm_time, disarm_time, timer_cnt) }

WaitArmRelease ==
  { Outcome(TRUE, IF Centred(stick) THEN "DISARM_PRESS" ELSE arm_status,
            arm_time, disarm_time, timer_cnt) }

WaitDisarmPress ==
  IF DisarmGesture(stick)
  THEN { Outcome(~k.due, IF k.due THEN "DISARM_RELEASE" ELSE arm_status, arm_time, k.t, k.cnt) :
           k \in TimerCheck(timer_cnt, disarm_time, DisarmHold) }
  ELSE { Outcome(TRUE, arm_status, arm_time, r.now, r.cnt) : r \in Reads(timer_cnt) }

WaitDisarmRelease ==
  { Outcome(FALSE, IF Centred(stick) THEN "ARM_PRESS" ELSE arm_status,
            arm_time, disarm_time, timer_cnt) }

CheckStickArm ==
  CASE arm_status = "ARM_PRESS"      -> WaitArmPress
    [] arm_status = "ARM_RELEASE"    -> WaitArmRelease
    [] arm_status = "DISARM_PRESS"   -> WaitDisarmPress
    [] arm_status = "DISARM_RELEASE" -> WaitDisarmRelease

-----------------------------------------------------------------------------
(* The second half of commander_update, from the clock c on.  The world    *)
(* decides whether the barometer is above the ground and the climb fast.   *)
(* navigator_set_mode never accepts NAV_TAKEOFF, so TAKEOFF is left again. *)

Scene(s, t, c) == [alt_scene |-> s, alt_smooth_time |-> t, cnt |-> c]

SceneNormal(arms, c) ==
  IF ThrustUp(stick) \/ ThrustDown(stick)
  THEN { Scene(IF ThrustUp(stick) THEN "MOVE_UP" ELSE "MOVE_DOWN", d.t, d.cnt) :
           d \in TimerNew(c, Smooth) }
  ELSE { Scene(IF arms THEN "PRE_TAKEOFF" ELSE "NORMAL", alt_smooth_time, c) }

(* A thrust stick in the dead zone is back to normal; a fast climb is not, *)
(* once the smoothing of a descent is over.  The second test asks for the  *)
(* time again.                                                             *)
SceneMove(fast, c) ==
  LET s == IF ThrustLevel(stick) THEN "NORMAL" ELSE alt_scene
      Stays(d) == { Scene(s, alt_smooth_time, o.cnt) : o \in TimerIsTimeout(d, alt_smooth_time) }
  IN  CASE ~fast -> Stays(c)
        [] fast /\ s = "MOVE_UP" -> { Scene(s, alt_smooth_time, c) }
        [] fast /\ s # "MOVE_UP" ->
             UNION { IF o.out THEN { Scene("MOVE_UP", alt_smooth_time, o.cnt) } ELSE Stays(o.cnt) :
                       o \in TimerIsTimeout(c, alt_smooth_time) }

AltScene(arms, above, fast, c) ==
  CASE alt_scene = "NORMAL"      -> SceneNormal(arms, c)
    [] alt_scene = "PRE_TAKEOFF" ->
         { Scene(IF above THEN "TAKEOFF" ELSE "PRE_TAKEOFF", alt_smooth_time, c) }
    [] alt_scene = "TAKEOFF"     -> { Scene("NORMAL", alt_smooth_time, c) }
    [] alt_scene \in {"MOVE_UP", "MOVE_DOWN"} -> SceneMove(fast, c)

(* commander_update. *)
CommanderUpdate ==
  \E k \in CheckStickArm, above, fast \in BOOLEAN :
    /\ armed' = k.armed /\ arm_status' = k.arm_status
    /\ arm_time' = k.arm_time /\ disarm_time' = k.disarm_time
    /\ \E n \in AltScene(~armed /\ k.armed, above, fast, k.cnt) :
         /\ alt_scene' = n.alt_scene /\ alt_smooth_time' = n.alt_smooth_time
         /\ timer_cnt' = n.cnt
    /\ UNCHANGED stick
=============================================================================
