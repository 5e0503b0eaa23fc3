----------------------------- MODULE PilotProofs ----------------------------
(***************************************************************************)
(* Proofs about Pilot for every clock, timeout, lead and set of stick      *)
(* positions, however late the tasks run: the failsafe's flag follows the  *)
(* link; a gesture is held for its time before it switches, is taken by    *)
(* the first look that finds it held, and has to be let go before the next *)
(* counts; and every variable keeps its type.                              *)
(***************************************************************************)
EXTENDS Pilot, CommonLemmas

(* Where the clock stands and what the tasks' statics can be. *)
Bounds ==
  /\ timer_cnt \in Nat /\ kept \in Nat /\ watched \in 0 .. timer_cnt /\ link_time \in Nat
  /\ timer_cnt <= MaxCnt
  /\ is_link_lose \in BOOLEAN /\ armed \in BOOLEAN
  /\ arm_status \in {"ARM_PRESS", "ARM_RELEASE", "DISARM_PRESS", "DISARM_RELEASE"}
  /\ alt_scene \in {"NORMAL", "PRE_TAKEOFF", "TAKEOFF", "MOVE_UP", "MOVE_DOWN"}

(* The deadline is the last heartbeat's, and the flag that of a look at it. *)
LinkInv ==
  /\ Straddles(kept) \/ link_time \in {kept + LinkTimeout, kept + LinkTimeout + 1}
  /\ kept < watched =>
       \/ Straddles(kept) \/ Straddles(watched)
       \/ /\ watched > link_time => is_link_lose
          /\ is_link_lose => watched + 1 > link_time

(* While a gesture would count, the sticks have been let go. *)
ArmInv ==
  /\ arm_status = "ARM_PRESS" => ~armed /\ released
  /\ arm_status = "ARM_RELEASE" => armed
  /\ arm_status = "DISARM_PRESS" => armed /\ released
  /\ arm_status = "DISARM_RELEASE" => ~armed

PInv == Bounds /\ LinkInv /\ ArmInv

-----------------------------------------------------------------------------
(* Constants. *)
LEMMA Constants ==
  /\ LinkTimeout \in Nat \ {0} /\ Lead \in Nat \ {0}
  /\ MaxCnt \in Nat /\ TimeMax \in Nat /\ MaxCnt + LinkTimeout < TimeMax
<1>1. Half * Half \in Nat /\ Half * Half >= 1
  BY ClockAssumption
<1> QED
  BY <1>1, ClockAssumption, TimersAssumption, FailsafeAssumption, PilotAssumption

LEMMA PilotStarts == PilotInit => PInv
<1> SUFFICES ASSUME PilotInit PROVE PInv
  OBVIOUS
<1>1. is_link_lose \in BOOLEAN /\ armed \in BOOLEAN
  BY Zenon DEF PilotInit, FailsafeInit, CommanderInit
<1>2. (0 + LinkTimeout) % (TimeMax + 1) = LinkTimeout
  BY Constants
<1>3. link_time = LinkTimeout
  BY <1>2 DEF PilotInit, FailsafeInit
<1>4. Bounds
  BY <1>1, <1>3, Constants DEF PilotInit, CommanderInit, Bounds
<1>5. LinkInv
  BY <1>3, Constants DEF PilotInit, LinkInv
<1>6. ArmInv
  BY DEF PilotInit, CommanderInit, ArmInv
<1> QED
  BY <1>4, <1>5, <1>6 DEF PInv

-----------------------------------------------------------------------------
(* Calls take time, and only forward. *)
LEMMA CheckTakes ==
  ASSUME NEW c \in Nat, NEW t, NEW us, NEW k \in TimerCheck(c, t, us)
  PROVE  k.cnt \in {c, c + 1, c + 2} /\ (k.due = TRUE \/ k.due = FALSE)
<1>1. PICK r \in Reads(c) :
        k \in IF Elapsed(r.now, t, us)
              THEN { [due |-> TRUE, t |-> s.now, cnt |-> s.cnt] : s \in Reads(r.cnt) }
              ELSE { [due |-> FALSE, t |-> t, cnt |-> r.cnt] }
  BY DEF TimerCheck
<1>2. r.cnt \in {c, c + 1} /\ r.cnt \in Nat
  BY ReadTakes
<1>3. CASE Elapsed(r.now, t, us)
  <2>1. PICK s \in Reads(r.cnt) : k = [due |-> TRUE, t |-> s.now, cnt |-> s.cnt]
    BY <1>1, <1>3
  <2>2. s.cnt \in {r.cnt, r.cnt + 1}
    BY <1>2, ReadTakes
  <2>3. k.cnt = s.cnt /\ k.due = TRUE
    BY <2>1
  <2> QED
    BY <1>2, <2>2, <2>3
<1>4. CASE ~Elapsed(r.now, t, us)
  <2>1. k = [due |-> FALSE, t |-> t, cnt |-> r.cnt]
    BY <1>1, <1>4
  <2>2. k.cnt = r.cnt /\ k.due = FALSE
    BY <2>1
  <2> QED
    BY <1>2, <2>2
<1> QED
  BY <1>3, <1>4

(* What check_stick_arm leaves behind. *)
LEMMA StickArm ==
  ASSUME Bounds, ArmInv, NEW k \in CheckStickArm
  PROVE  /\ k.cnt \in {timer_cnt, timer_cnt + 1, timer_cnt + 2}
         /\ \/ /\ k.arm_status = arm_status /\ k.armed = armed
            \/ /\ arm_status = "ARM_PRESS" /\ k.arm_status = "ARM_RELEASE" /\ k.armed = TRUE
            \/ /\ arm_status = "ARM_RELEASE" /\ k.arm_status = "DISARM_PRESS" /\ k.armed = TRUE
               /\ Centred(stick)
            \/ /\ arm_status = "DISARM_PRESS" /\ k.arm_status = "DISARM_RELEASE" /\ k.armed = FALSE
            \/ /\ arm_status = "DISARM_RELEASE" /\ k.arm_status = "ARM_PRESS" /\ k.armed = FALSE
               /\ Centred(stick)
<1>0. timer_cnt \in Nat
  BY DEF Bounds
<1>1. CASE arm_status = "ARM_PRESS"
  <2>1. k \in WaitArmPress /\ armed = FALSE
    BY Zenon, <1>1 DEF CheckStickArm, ArmInv, Bounds
  <2>2. CASE ArmGesture(stick)
    <3>1. PICK j \in TimerCheck(timer_cnt, arm_time, ArmHold) :
            k = Outcome(j.due, IF j.due THEN "ARM_RELEASE" ELSE arm_status, j.t,
                        disarm_time, j.cnt)
      BY <2>1, <2>2 DEF WaitArmPress
    <3>2. j.cnt \in {timer_cnt, timer_cnt + 1, timer_cnt + 2} /\ (j.due = TRUE \/ j.due = FALSE)
      BY <1>0, CheckTakes
    <3> QED
      BY <1>1, <2>1, <3>1, <3>2 DEF Outcome
  <2>3. CASE ~ArmGesture(stick)
    <3>1. PICK r \in Reads(timer_cnt) :
            k = Outcome(FALSE, arm_status, r.now, disarm_time, r.cnt)
      BY <2>1, <2>3 DEF WaitArmPress
    <3>2. r.cnt \in {timer_cnt, timer_cnt + 1}
      BY <1>0, ReadTakes
    <3> QED
      BY <2>1, <3>1, <3>2 DEF Outcome
  <2> QED
    BY <2>2, <2>3
<1>2. CASE arm_status = "ARM_RELEASE"
  <2>1. k \in WaitArmRelease /\ armed = TRUE
    BY Zenon, <1>2 DEF CheckStickArm, ArmInv, Bounds
  <2>2. CASE Centred(stick)
    <3>1. k = Outcome(TRUE, "DISARM_PRESS", arm_time, disarm_time, timer_cnt)
      BY <2>1, <2>2 DEF WaitArmRelease
    <3>2. k.cnt = timer_cnt /\ k.arm_status = "DISARM_PRESS" /\ k.armed = TRUE
      BY <3>1 DEF Outcome
    <3> QED
      BY <1>2, <2>2, <3>2
  <2>3. CASE ~Centred(stick)
    <3>1. k = Outcome(TRUE, arm_status, arm_time, disarm_time, timer_cnt)
      BY <2>1, <2>3 DEF WaitArmRelease
    <3>2. k.cnt = timer_cnt /\ k.arm_status = arm_status /\ k.armed = armed
      BY <2>1, <3>1 DEF Outcome
    <3> QED
      BY <3>2
  <2> QED
    BY <2>2, <2>3
<1>3. CASE arm_status = "DISARM_PRESS"
  <2>1. k \in WaitDisarmPress /\ armed = TRUE
    BY Zenon, <1>3 DEF CheckStickArm, ArmInv, Bounds
  <2>2. CASE DisarmGesture(stick)
    <3>1. PICK j \in TimerCheck(timer_cnt, disarm_time, DisarmHold) :
            k = Outcome(~j.due, IF j.due THEN "DISARM_RELEASE" ELSE arm_status,
                        arm_time, j.t, j.cnt)
      BY <2>1, <2>2 DEF WaitDisarmPress
    <3>2. j.cnt \in {timer_cnt, timer_cnt + 1, timer_cnt + 2} /\ (j.due = TRUE \/ j.due = FALSE)
      BY <1>0, CheckTakes
    <3> QED
      BY <1>3, <2>1, <3>1, <3>2 DEF Outcome
  <2>3. CASE ~DisarmGesture(stick)
    <3>1. PICK r \in Reads(timer_cnt) :
            k = Outcome(TRUE, arm_status, arm_time, r.now, r.cnt)
      BY <2>1, <2>3 DEF WaitDisarmPress
    <3>2. r.cnt \in {timer_cnt, timer_cnt + 1}
      BY <1>0, ReadTakes
    <3> QED
      BY <2>1, <3>1, <3>2 DEF Outcome
  <2> QED
    BY <2>2, <2>3
<1>4. CASE arm_status = "DISARM_RELEASE"
  <2>1. k \in WaitDisarmRelease /\ armed = FALSE
    BY Zenon, <1>4 DEF CheckStickArm, ArmInv, Bounds
  <2>2. CASE Centred(stick)
    <3>1. k = Outcome(FALSE, "ARM_PRESS", arm_time, disarm_time, timer_cnt)
      BY <2>1, <2>2 DEF WaitDisarmRelease
    <3>2. k.cnt = timer_cnt /\ k.arm_status = "ARM_PRESS" /\ k.armed = FALSE
      BY <3>1 DEF Outcome
    <3> QED
      BY <1>4, <2>2, <3>2
  <2>3. CASE ~Centred(stick)
    <3>1. k = Outcome(FALSE, arm_status, arm_time, disarm_time, timer_cnt)
      BY <2>1, <2>3 DEF WaitDisarmRelease
    <3>2. k.cnt = timer_cnt /\ k.arm_status = arm_status /\ k.armed = armed
      BY <2>1, <3>1 DEF Outcome
    <3> QED
      BY <3>2
  <2> QED
    BY <2>2, <2>3
<1> QED
  BY <1>1, <1>2, <1>3, <1>4 DEF Bounds

(* And the second half of commander_update. *)
LEMMA SceneTakes ==
  ASSUME Bounds, NEW arms, NEW above, NEW fast, NEW c \in Nat,
         NEW n \in AltScene(arms, above, fast, c)
  PROVE  /\ n.cnt \in {c, c + 1, c + 2}
         /\ n.alt_scene \in {"NORMAL", "PRE_TAKEOFF", "TAKEOFF", "MOVE_UP", "MOVE_DOWN"}
<1>1. CASE alt_scene = "NORMAL"
  <2>1. n \in SceneNormal(arms, c)
    BY <1>1 DEF AltScene
  <2>2. ASSUME NEW d \in TimerNew(c, Smooth) PROVE d.cnt \in {c, c + 1}
    BY ReadTakes DEF TimerNew
  <2> QED
    BY <2>1, <2>2 DEF SceneNormal, Scene
<1>2. CASE alt_scene \in {"PRE_TAKEOFF", "TAKEOFF"}
  BY <1>2 DEF AltScene, Scene
<1>3. CASE alt_scene \in {"MOVE_UP", "MOVE_DOWN"}
  <2>1. n \in SceneMove(fast, c)
    BY <1>3 DEF AltScene
  <2>2. ASSUME NEW d \in Nat, NEW o \in TimerIsTimeout(d, alt_smooth_time)
        PROVE  o.cnt \in {d, d + 1} /\ o.cnt \in Nat
    BY ReadTakes DEF TimerIsTimeout
  <2> DEFINE s == IF ThrustLevel(stick) THEN "NORMAL" ELSE alt_scene
             Stays(d) == { Scene(s, alt_smooth_time, o.cnt) : o \in TimerIsTimeout(d, alt_smooth_time) }
  <2>3. s \in {"NORMAL", "MOVE_UP", "MOVE_DOWN"}
    BY <1>3
  <2>4. ASSUME NEW d \in Nat, n \in Stays(d)
        PROVE  n.cnt \in {d, d + 1} /\ n.alt_scene = s
    BY <2>2, <2>4 DEF Scene
  <2>5. CASE ~fast
    <3>1. n \in Stays(c)
      BY <2>1, <2>5 DEF SceneMove
    <3> QED
      BY <2>3, <2>4, <3>1
  <2>6. CASE fast /\ s = "MOVE_UP"
    BY <2>1, <2>6 DEF SceneMove, Scene
  <2>7. CASE fast /\ s # "MOVE_UP"
    <3>1. PICK o \in TimerIsTimeout(c, alt_smooth_time) :
            n \in IF o.out THEN { Scene("MOVE_UP", alt_smooth_time, o.cnt) } ELSE Stays(o.cnt)
      BY <2>1, <2>7 DEF SceneMove
    <3>2. o.cnt \in {c, c + 1} /\ o.cnt \in Nat
      BY <2>2
    <3>3. CASE o.out
      <4>1. n.cnt = o.cnt /\ n.alt_scene = "MOVE_UP"
        BY <3>1, <3>3 DEF Scene
      <4> QED
        BY <3>2, <4>1
    <3>4. CASE ~o.out
      <4>1. n \in Stays(o.cnt)
        BY <3>1, <3>4
      <4>2. n.cnt \in {o.cnt, o.cnt + 1} /\ n.alt_scene = s
        BY <2>4, <3>2, <4>1
      <4> QED
        BY <2>3, <3>2, <4>2
    <3> QED
      BY <3>3, <3>4
  <2> QED
    BY <2>5, <2>6, <2>7
<1> QED
  BY <1>1, <1>2, <1>3 DEF Bounds

-----------------------------------------------------------------------------
(* Each action keeps the invariant. *)

LEMMA HeartbeatInv == PInv /\ Heartbeat /\ timer_cnt' <= MaxCnt => PInv'
<1> SUFFICES ASSUME PInv, Heartbeat, timer_cnt' <= MaxCnt PROVE PInv'
  OBVIOUS
<1>1. PICK r \in Reads(timer_cnt) :
        /\ link_time' = (r.now + LinkTimeout) % (TimeMax + 1)
        /\ timer_cnt' = r.cnt
  BY DEF Heartbeat, TimerNew, FailsafeLinkKeep
<1>2. timer_cnt \in Nat /\ r.cnt \in {timer_cnt, timer_cnt + 1} /\ r.now \in Nat
  BY ReadTakes DEF PInv, Bounds
<1>3. /\ kept' = timer_cnt /\ watched' = watched
      /\ UNCHANGED mvars /\ released' = released
  BY DEF Heartbeat
<1>4. is_link_lose' \in BOOLEAN /\ armed' \in BOOLEAN
  BY Zenon, <1>3 DEF Heartbeat, FailsafeLinkKeep, mvars, PInv, Bounds
<1>a. (r.now + LinkTimeout) % (TimeMax + 1) \in Nat
  BY <1>2, Constants
<1>5. Bounds'
  BY <1>1, <1>2, <1>3, <1>4, <1>a, Constants DEF PInv, Bounds, mvars
<1>6. ~Straddles(timer_cnt) => link_time' \in {timer_cnt + LinkTimeout, timer_cnt + LinkTimeout + 1}
  <2> SUFFICES ASSUME ~Straddles(timer_cnt)
               PROVE  link_time' \in {timer_cnt + LinkTimeout, timer_cnt + LinkTimeout + 1}
    OBVIOUS
  <2>1. r.now \in {timer_cnt, timer_cnt + 1} /\ r.now <= r.cnt
    BY <1>2, ReadsWhole
  <2>2. r.now + LinkTimeout \in 0 .. TimeMax
    BY <1>1, <1>2, <2>1, Constants
  <2>3. link_time' = r.now + LinkTimeout
    BY <1>1, <2>2, Constants
  <2> QED
    BY <1>2, <2>1, <2>3, Constants
<1>7. LinkInv'
  BY <1>2, <1>3, <1>6, Constants DEF PInv, Bounds, LinkInv, Straddles, Low
<1>8. ArmInv'
  BY <1>3 DEF PInv, ArmInv, mvars
<1> QED
  BY <1>5, <1>7, <1>8 DEF PInv

LEMMA ManualControlInv ==
  ASSUME NEW s \in Sticks PROVE PInv /\ ManualControl(s) => PInv'
BY DEF ManualControl, CommanderSet, fvars, PInv, Bounds, LinkInv, ArmInv, Straddles, Low

LEMMA TaskFailsafeInv == PInv /\ TaskFailsafe /\ timer_cnt' <= MaxCnt => PInv'
<1> SUFFICES ASSUME PInv, TaskFailsafe, timer_cnt' <= MaxCnt PROVE PInv'
  OBVIOUS
<1>1. PICK r \in Reads(timer_cnt) :
        /\ is_link_lose' = (r.now > link_time)
        /\ timer_cnt' = r.cnt
  BY DEF TaskFailsafe, TimerIsTimeout, FailsafeUpdate
<1>2. timer_cnt \in Nat /\ r.cnt \in {timer_cnt, timer_cnt + 1} /\ r.now \in Nat
  BY ReadTakes DEF PInv, Bounds
<1>3. /\ kept' = kept /\ watched' = timer_cnt /\ link_time' = link_time
      /\ UNCHANGED mvars /\ released' = released
  BY DEF TaskFailsafe, FailsafeUpdate
<1>a. armed' \in BOOLEAN
  BY Zenon, <1>3 DEF mvars, PInv, Bounds
<1>b. link_time \in Nat
  BY DEF PInv, Bounds
<1>c. is_link_lose' <=> r.now > link_time
  BY <1>1
<1>d. is_link_lose' \in BOOLEAN
  <2>1. (r.now > link_time) \in BOOLEAN
    BY <1>2, <1>b
  <2> QED
    BY Zenon, <1>1, <2>1
<1>4. is_link_lose' \in BOOLEAN /\ armed' \in BOOLEAN
  BY Zenon, <1>a, <1>d
<1>5. Bounds'
  BY <1>1, <1>2, <1>3, <1>4, Constants DEF PInv, Bounds, mvars
<1>6. ~Straddles(timer_cnt) => r.now \in {timer_cnt, timer_cnt + 1}
  BY <1>2, ReadsWhole
<1>8. kept < timer_cnt =>
        \/ Straddles(kept) \/ Straddles(timer_cnt)
        \/ /\ timer_cnt > link_time => is_link_lose'
           /\ is_link_lose' => timer_cnt + 1 > link_time
  BY <1>b, <1>c, <1>2, <1>6
<1>9. LinkInv'
  BY <1>3, <1>8 DEF PInv, LinkInv, Straddles, Low
<1>10. ArmInv'
  BY <1>3 DEF PInv, ArmInv, mvars
<1> QED
  BY <1>5, <1>9, <1>10 DEF PInv

LEMMA TaskCommanderInv == PInv /\ TaskCommander /\ timer_cnt' <= MaxCnt => PInv'
<1> SUFFICES ASSUME PInv, TaskCommander, timer_cnt' <= MaxCnt PROVE PInv'
  OBVIOUS
<1>1. PICK k \in CheckStickArm, above \in BOOLEAN, fast \in BOOLEAN :
        /\ armed' = k.armed /\ arm_status' = k.arm_status
        /\ \E n \in AltScene(~armed /\ k.armed, above, fast, k.cnt) :
             alt_scene' = n.alt_scene /\ timer_cnt' = n.cnt
  BY DEF TaskCommander, CommanderUpdate
<1>2. timer_cnt \in Nat
  BY DEF PInv, Bounds
<1>3. /\ k.cnt \in {timer_cnt, timer_cnt + 1, timer_cnt + 2}
      /\ \/ /\ arm_status' = arm_status /\ armed' = armed
         \/ /\ arm_status = "ARM_PRESS" /\ arm_status' = "ARM_RELEASE" /\ armed' = TRUE
         \/ /\ arm_status = "ARM_RELEASE" /\ arm_status' = "DISARM_PRESS" /\ armed' = TRUE
            /\ Centred(stick)
         \/ /\ arm_status = "DISARM_PRESS" /\ arm_status' = "DISARM_RELEASE" /\ armed' = FALSE
         \/ /\ arm_status = "DISARM_RELEASE" /\ arm_status' = "ARM_PRESS" /\ armed' = FALSE
            /\ Centred(stick)
  BY <1>1, StickArm DEF PInv
<1>4. PICK n \in AltScene(~armed /\ k.armed, above, fast, k.cnt) :
        alt_scene' = n.alt_scene /\ timer_cnt' = n.cnt
  BY <1>1
<1>5. /\ timer_cnt' \in {k.cnt, k.cnt + 1, k.cnt + 2}
      /\ alt_scene' \in {"NORMAL", "PRE_TAKEOFF", "TAKEOFF", "MOVE_UP", "MOVE_DOWN"}
  BY <1>2, <1>3, <1>4, SceneTakes DEF PInv
<1>6. /\ UNCHANGED fvars /\ kept' = kept /\ watched' = watched
      /\ released' = (armed' = armed /\ (released \/ Centred(stick)))
  BY DEF TaskCommander
<1>7. is_link_lose' \in BOOLEAN /\ armed' \in BOOLEAN
  BY Zenon, <1>3, <1>6 DEF fvars, PInv, Bounds
<1>a. timer_cnt' \in timer_cnt .. timer_cnt + 4
  BY <1>2, <1>3, <1>5
<1>b. /\ timer_cnt' \in Nat /\ kept' \in Nat /\ watched' \in 0 .. timer_cnt'
      /\ link_time' \in Nat
  BY <1>2, <1>6, <1>a DEF fvars, PInv, Bounds
<1>d. arm_status' \in {"ARM_PRESS", "ARM_RELEASE", "DISARM_PRESS", "DISARM_RELEASE"}
  BY <1>3 DEF PInv, Bounds
<1>8. Bounds'
  BY <1>5, <1>7, <1>b, <1>d DEF Bounds
<1>9. LinkInv'
  BY <1>6 DEF fvars, PInv, LinkInv, Straddles, Low
<1>10. ArmInv'
  <2>1. CASE arm_status' = arm_status /\ armed' = armed
    BY Zenon, <2>1, <1>6 DEF PInv, ArmInv
  <2>2. CASE arm_status' = "ARM_RELEASE" /\ armed' = TRUE
    BY <2>2 DEF ArmInv
  <2>3. CASE /\ arm_status = "ARM_RELEASE" /\ arm_status' = "DISARM_PRESS"
             /\ armed' = TRUE /\ Centred(stick)
    <3>1. armed' = armed
      BY Zenon, <2>3 DEF PInv, Bounds, ArmInv
    <3>2. released'
      BY Zenon, <2>3, <3>1, <1>6
    <3> QED
      BY <2>3, <3>2 DEF ArmInv
  <2>4. CASE arm_status' = "DISARM_RELEASE" /\ armed' = FALSE
    BY <2>4 DEF ArmInv
  <2>5. CASE /\ arm_status = "DISARM_RELEASE" /\ arm_status' = "ARM_PRESS"
             /\ armed' = FALSE /\ Centred(stick)
    <3>1. armed' = armed
      BY Zenon, <2>5 DEF PInv, Bounds, ArmInv
    <3>2. released'
      BY Zenon, <2>5, <3>1, <1>6
    <3> QED
      BY <2>5, <3>2 DEF ArmInv
  <2> QED
    BY Zenon, <1>3, <2>1, <2>2, <2>3, <2>4, <2>5
<1> QED
  BY <1>8, <1>9, <1>10 DEF PInv

LEMMA TickInv == PInv /\ Tick /\ timer_cnt' <= MaxCnt => PInv'
<1> SUFFICES ASSUME PInv, Tick, timer_cnt' <= MaxCnt PROVE PInv'
  OBVIOUS
<1>1. timer_cnt' \in {timer_cnt, timer_cnt + 1} /\ UNCHANGED <<fvars, mvars, hvars>>
  BY DEF Tick
<1>a. timer_cnt \in Nat /\ watched \in 0 .. timer_cnt
  BY DEF PInv, Bounds
<1>b. /\ kept' = kept /\ watched' = watched /\ link_time' = link_time
      /\ is_link_lose' = is_link_lose /\ armed' = armed
      /\ arm_status' = arm_status /\ alt_scene' = alt_scene
  BY <1>1 DEF fvars, mvars, hvars
<1>c. timer_cnt' \in Nat /\ watched' \in 0 .. timer_cnt'
  BY <1>1, <1>a, <1>b
<1>e. is_link_lose' \in BOOLEAN /\ armed' \in BOOLEAN
  BY Zenon, <1>b DEF PInv, Bounds
<1>2. Bounds'
  BY <1>b, <1>c, <1>e DEF PInv, Bounds
<1>3. LinkInv' /\ ArmInv'
  BY <1>1 DEF PInv, LinkInv, ArmInv, Straddles, Low, fvars, mvars, hvars
<1> QED
  BY <1>2, <1>3 DEF PInv

LEMMA PilotStutters == PInv /\ UNCHANGED allvars => PInv'
BY DEF PInv, Bounds, LinkInv, ArmInv, Straddles, Low, allvars, fvars, mvars, hvars

LEMMA PilotStep == PInv /\ [PilotNext]_allvars => PInv'
BY HeartbeatInv, ManualControlInv, TaskFailsafeInv, TaskCommanderInv, TickInv,
   PilotStutters DEF PilotNext

(* The bounds, the deadline and the gesture hold in every reachable state. *)
THEOREM PilotInvariant == PilotSpec => []PInv
BY PilotStarts, PilotStep, PTL DEF PilotSpec

-----------------------------------------------------------------------------
(* failsafe_update's flag follows the link: a silence longer than the      *)
(* timeout is noticed by the first look after it, and only such a silence, *)
(* for every timeout, however late the looks, and every race of heartbeat  *)
(* and look.                                                               *)
THEOREM LinkIsWatched == PilotSpec => []LinkWatched
<1>1. PInv => LinkWatched
  <2> SUFFICES ASSUME PInv, ~Straddles(kept), ~Straddles(watched)
               PROVE  /\ watched - kept > LinkTimeout + 1 => is_link_lose
                      /\ is_link_lose /\ kept < watched => watched - kept >= LinkTimeout
    BY DEF LinkWatched, LossNoticed, LossIsReal
  <2>1. /\ link_time \in {kept + LinkTimeout, kept + LinkTimeout + 1}
        /\ kept < watched => /\ watched > link_time => is_link_lose
                             /\ is_link_lose => watched + 1 > link_time
    BY DEF PInv, LinkInv
  <2>2. timer_cnt \in Nat /\ kept \in Nat /\ watched \in Nat
    BY DEF PInv, Bounds
  <2> QED
    BY <2>1, <2>2, Constants
<1> QED
  BY <1>1, PilotInvariant, PTL

(* check_stick_arm switches once per gesture: between two changes of armed *)
(* the sticks have been centred, however long a gesture is held.           *)
THEOREM ReleaseNeeded == PilotSpec => ReleasedBetween
<1>1. PInv /\ [PilotNext]_allvars => [armed' # armed => released]_allvars
  <2> SUFFICES ASSUME PInv, PilotNext, armed' # armed PROVE released
    OBVIOUS
  <2>1. TaskCommander
    BY DEF PilotNext, Heartbeat, ManualControl, CommanderSet, TaskFailsafe, Tick, mvars
  <2>2. PICK k \in CheckStickArm : armed' = k.armed
    BY <2>1 DEF TaskCommander, CommanderUpdate
  <2>3. \/ arm_status = "ARM_PRESS" \/ arm_status = "DISARM_PRESS"
        \/ arm_status = "ARM_RELEASE" /\ armed' = TRUE
        \/ arm_status = "DISARM_RELEASE" /\ armed' = FALSE
    BY <2>2, StickArm DEF PInv
  <2> QED
    BY Zenon, <2>3 DEF PInv, Bounds, ArmInv
<1> QED
  BY <1>1, PilotInvariant, PTL DEF PilotSpec, ReleasedBetween

-----------------------------------------------------------------------------
(* Reads and periods, once more: what a torn read returns, and what a      *)
(* timer_check that is over, or is not, has read.                          *)
LEMMA ReadsTorn ==
  ASSUME NEW c \in Nat, Straddles(c), NEW r \in Reads(c)
  PROVE  /\ r.now \in {c, c + 1, c + Half, (c + 1) - Half} /\ r.cnt \in {c, c + 1}
         /\ r.now \in {c, c + 1} => r.now <= r.cnt
         /\ r.now \notin {c, c + 1} => r.cnt = c + 1
<1>1. /\ High(c + 1) = High(c) + 1 /\ High(c) \in Nat /\ High(c + 1) \in Nat
      /\ c = Half * High(c) + (Half - 1)
      /\ c + 1 = Half * High(c + 1) + Low(c + 1) /\ Low(c + 1) \in Nat
  BY Carry, Halves, ClockAssumption DEF Straddles
<1> DEFINE q == High(c)
           a == Half * q
<1>2. a \in Nat /\ Half * (q + 1) = a + Half /\ Half \in Nat /\ Half > 1
  BY <1>1, ClockAssumption
<1>3. Low(c + 1) = 0 /\ c = a + (Half - 1)
  BY <1>1, <1>2
<1>4. Join(High(c), Low(c + 1)) = (c + 1) - Half
  <2>1. High(c) * Half + 0 = a
    BY <1>1, ClockAssumption
  <2> QED
    BY <1>2, <1>3, <2>1 DEF Join
<1>5. Join(High(c + 1), Low(c)) = c + Half
  <2>1. High(c + 1) * Half = a + Half
    BY <1>1, <1>2, ClockAssumption
  <2> QED
    BY <1>2, <1>3, <2>1 DEF Join, Straddles
<1>6. c + Half \notin {c, c + 1} /\ (c + 1) - Half \notin {c, c + 1}
  BY <1>2
<1> HIDE DEF a, q
<1>7. \/ r.now = c /\ r.cnt = c
      \/ r.now = c /\ r.cnt = c + 1
      \/ r.now = c + 1 /\ r.cnt = c + 1
      \/ r.now = (c + 1) - Half /\ r.cnt = c + 1
      \/ r.now = c + Half /\ r.cnt = c + 1
  BY <1>4, <1>5 DEF Reads
<1> QED
  BY <1>6, <1>7

LEMMA CheckIs ==
  ASSUME NEW c \in Nat, NEW t, NEW us, NEW k \in TimerCheck(c, t, us)
  PROVE  \/ /\ k.due = FALSE /\ k.t = t
            /\ \E r \in Reads(c) : ~Elapsed(r.now, t, us) /\ r.cnt = k.cnt
         \/ /\ k.due = TRUE
            /\ \E r \in Reads(c) : /\ Elapsed(r.now, t, us) /\ r.cnt <= k.cnt
                                   /\ \E s \in Reads(r.cnt) : k.t = s.now /\ k.cnt = s.cnt
<1>1. PICK r \in Reads(c) :
        k \in IF Elapsed(r.now, t, us)
              THEN { [due |-> TRUE, t |-> s.now, cnt |-> s.cnt] : s \in Reads(r.cnt) }
              ELSE { [due |-> FALSE, t |-> t, cnt |-> r.cnt] }
  BY DEF TimerCheck
<1>2. r.cnt \in {c, c + 1} /\ r.cnt \in Nat
  BY ReadTakes
<1>3. CASE Elapsed(r.now, t, us)
  <2>1. PICK s \in Reads(r.cnt) : k = [due |-> TRUE, t |-> s.now, cnt |-> s.cnt]
    BY <1>1, <1>3
  <2>2. s.cnt \in {r.cnt, r.cnt + 1}
    BY <1>2, ReadTakes
  <2>3. k.cnt = s.cnt /\ k.due = TRUE /\ k.t = s.now /\ r.cnt <= k.cnt
    BY <1>2, <2>1, <2>2
  <2> QED
    BY <1>3, <2>3
<1>4. CASE ~Elapsed(r.now, t, us)
  <2>1. k = [due |-> FALSE, t |-> t, cnt |-> r.cnt]
    BY <1>1, <1>4
  <2>2. k.cnt = r.cnt /\ k.due = FALSE /\ k.t = t
    BY <2>1
  <2> QED
    BY <1>4, <2>2
<1> QED
  BY <1>3, <1>4

-----------------------------------------------------------------------------
(* A look of the commander, arming and disarming alike.                    *)
pressing == arm_status \in {"ARM_PRESS", "DISARM_PRESS"}
since    == IF armed THEN disarm_time ELSE arm_time
hold     == IF armed THEN DisarmHold ELSE ArmHold

(* The time starts anew; the gesture is not yet held for its time; it is.  *)
Resets ==
  /\ pressing' /\ armed' = armed
  /\ \E r \in Reads(timer_cnt) : since' = r.now /\ r.cnt <= timer_cnt'
Waits ==
  /\ pressing' /\ armed' = armed /\ since' = since
  /\ \E r \in Reads(timer_cnt) : ~Elapsed(r.now, since, hold) /\ r.cnt <= timer_cnt'
Switches ==
  /\ ~pressing' /\ armed' = ~armed
  /\ \E r \in Reads(timer_cnt) : Elapsed(r.now, since, hold) /\ r.cnt <= timer_cnt'

LEMMA LookTakes ==
  ASSUME PInv, TaskCommander, timer_cnt' <= MaxCnt
  PROVE  \E k \in CheckStickArm :
           /\ armed' = k.armed /\ arm_status' = k.arm_status
           /\ arm_time' = k.arm_time /\ disarm_time' = k.disarm_time
           /\ k.cnt \in Nat /\ timer_cnt <= k.cnt /\ k.cnt <= timer_cnt'
           /\ timer_cnt' \in Nat /\ timer_cnt' <= MaxCnt
<1>1. PICK k \in CheckStickArm, above \in BOOLEAN, fast \in BOOLEAN :
        /\ armed' = k.armed /\ arm_status' = k.arm_status
        /\ arm_time' = k.arm_time /\ disarm_time' = k.disarm_time
        /\ \E n \in AltScene(~armed /\ k.armed, above, fast, k.cnt) :
             alt_scene' = n.alt_scene /\ timer_cnt' = n.cnt
  BY DEF TaskCommander, CommanderUpdate
<1>2. timer_cnt \in Nat
  BY DEF PInv, Bounds
<1>3. k.cnt \in {timer_cnt, timer_cnt + 1, timer_cnt + 2}
  BY StickArm DEF PInv
<1>4. PICK n \in AltScene(~armed /\ k.armed, above, fast, k.cnt) : timer_cnt' = n.cnt
  BY <1>1
<1>5. timer_cnt' \in {k.cnt, k.cnt + 1, k.cnt + 2}
  BY <1>2, <1>3, <1>4, SceneTakes DEF PInv
<1>6. /\ k.cnt \in Nat /\ timer_cnt <= k.cnt /\ k.cnt <= timer_cnt' /\ timer_cnt' \in Nat
  BY <1>2, <1>3, <1>5
<1> QED
  BY <1>1, <1>6

LEMMA LookIs ==
  ASSUME PInv, TaskCommander, timer_cnt' <= MaxCnt
  PROVE  /\ pressing /\ ~Gesture(stick) => Resets
         /\ pressing /\ Gesture(stick) => Waits \/ Switches
         /\ ~pressing => armed' = armed /\ (pressing' <=> Centred(stick))
<1>1. PICK k \in CheckStickArm :
        /\ armed' = k.armed /\ arm_status' = k.arm_status
        /\ arm_time' = k.arm_time /\ disarm_time' = k.disarm_time
        /\ k.cnt \in Nat /\ k.cnt <= timer_cnt' /\ timer_cnt' \in Nat
  BY LookTakes
<1>2. timer_cnt \in Nat /\ (armed = TRUE \/ armed = FALSE)
  BY DEF PInv, Bounds
<1>3. CASE arm_status = "ARM_PRESS"
  <2>1. k \in WaitArmPress /\ armed = FALSE /\ pressing /\ since = arm_time /\ hold = ArmHold
        /\ (Gesture(stick) <=> ArmGesture(stick))
    BY <1>2, <1>3 DEF CheckStickArm, PInv, ArmInv, pressing, since, hold, Gesture
  <2>2. CASE ArmGesture(stick)
    <3>1. PICK j \in TimerCheck(timer_cnt, arm_time, ArmHold) :
            k = Outcome(j.due, IF j.due THEN "ARM_RELEASE" ELSE arm_status, j.t,
                        disarm_time, j.cnt)
      BY <2>1, <2>2 DEF WaitArmPress
    <3>2. /\ k.armed = j.due /\ k.arm_status = (IF j.due THEN "ARM_RELEASE" ELSE arm_status)
          /\ k.arm_time = j.t /\ k.cnt = j.cnt
      BY <3>1 DEF Outcome
    <3>3. CASE /\ j.due = FALSE /\ j.t = arm_time
               /\ \E r \in Reads(timer_cnt) : ~Elapsed(r.now, arm_time, ArmHold) /\ r.cnt = j.cnt
      <4>1. armed' = armed /\ pressing' /\ since' = since
        BY <1>1, <1>3, <2>1, <3>2, <3>3 DEF pressing, since
      <4>2. \E r \in Reads(timer_cnt) : ~Elapsed(r.now, since, hold) /\ r.cnt <= timer_cnt'
        BY <1>1, <2>1, <3>2, <3>3
      <4> QED
        BY <2>1, <2>2, <4>1, <4>2 DEF Waits
    <3>4. CASE /\ j.due = TRUE
               /\ \E r \in Reads(timer_cnt) : Elapsed(r.now, arm_time, ArmHold) /\ r.cnt <= j.cnt
      <4>1. armed' = ~armed /\ ~pressing'
        BY <1>1, <2>1, <3>2, <3>4 DEF pressing
      <4>2. PICK r \in Reads(timer_cnt) : Elapsed(r.now, arm_time, ArmHold) /\ r.cnt <= j.cnt
        BY <3>4
      <4>3. r.cnt <= timer_cnt'
        <5>1. r.cnt \in Nat
          BY <1>2, ReadTakes
        <5> QED
          BY <1>1, <3>2, <4>2, <5>1
      <4> QED
        BY <2>1, <2>2, <4>1, <4>2, <4>3 DEF Switches
    <3> QED
      BY <1>2, <3>3, <3>4, CheckIs
  <2>3. CASE ~ArmGesture(stick)
    <3>1. PICK r \in Reads(timer_cnt) :
            k = Outcome(FALSE, arm_status, r.now, disarm_time, r.cnt)
      BY <2>1, <2>3 DEF WaitArmPress
    <3>2. k.armed = FALSE /\ k.arm_status = arm_status /\ k.arm_time = r.now /\ k.cnt = r.cnt
      BY <3>1 DEF Outcome
    <3>3. armed' = armed /\ pressing' /\ since' = r.now
      BY <1>1, <1>3, <2>1, <3>2 DEF pressing, since
    <3> QED
      BY <1>1, <2>1, <2>3, <3>2, <3>3 DEF Resets
  <2> QED
    BY <2>2, <2>3
<1>4. CASE arm_status = "DISARM_PRESS"
  <2>1. k \in WaitDisarmPress /\ armed = TRUE /\ pressing /\ since = disarm_time
        /\ hold = DisarmHold /\ (Gesture(stick) <=> DisarmGesture(stick))
    BY <1>2, <1>4 DEF CheckStickArm, PInv, ArmInv, pressing, since, hold, Gesture
  <2>2. CASE DisarmGesture(stick)
    <3>1. PICK j \in TimerCheck(timer_cnt, disarm_time, DisarmHold) :
            k = Outcome(~j.due, IF j.due THEN "DISARM_RELEASE" ELSE arm_status,
                        arm_time, j.t, j.cnt)
      BY <2>1, <2>2 DEF WaitDisarmPress
    <3>2. /\ k.armed = ~j.due /\ k.arm_status = (IF j.due THEN "DISARM_RELEASE" ELSE arm_status)
          /\ k.disarm_time = j.t /\ k.cnt = j.cnt
      BY <3>1 DEF Outcome
    <3>3. CASE /\ j.due = FALSE /\ j.t = disarm_time
               /\ \E r \in Reads(timer_cnt) :
                    ~Elapsed(r.now, disarm_time, DisarmHold) /\ r.cnt = j.cnt
      <4>1. armed' = armed /\ pressing' /\ since' = since
        BY <1>1, <1>4, <2>1, <3>2, <3>3 DEF pressing, since
      <4>2. \E r \in Reads(timer_cnt) : ~Elapsed(r.now, since, hold) /\ r.cnt <= timer_cnt'
        BY <1>1, <2>1, <3>2, <3>3
      <4> QED
        BY <2>1, <2>2, <4>1, <4>2 DEF Waits
    <3>4. CASE /\ j.due = TRUE
               /\ \E r \in Reads(timer_cnt) :
                    Elapsed(r.now, disarm_time, DisarmHold) /\ r.cnt <= j.cnt
      <4>1. armed' = ~armed /\ ~pressing'
        BY <1>1, <2>1, <3>2, <3>4 DEF pressing
      <4>2. PICK r \in Reads(timer_cnt) :
              Elapsed(r.now, disarm_time, DisarmHold) /\ r.cnt <= j.cnt
        BY <3>4
      <4>3. r.cnt <= timer_cnt'
        <5>1. r.cnt \in Nat
          BY <1>2, ReadTakes
        <5> QED
          BY <1>1, <3>2, <4>2, <5>1
      <4> QED
        BY <2>1, <2>2, <4>1, <4>2, <4>3 DEF Switches
    <3> QED
      BY <1>2, <3>3, <3>4, CheckIs
  <2>3. CASE ~DisarmGesture(stick)
    <3>1. PICK r \in Reads(timer_cnt) :
            k = Outcome(TRUE, arm_status, arm_time, r.now, r.cnt)
      BY <2>1, <2>3 DEF WaitDisarmPress
    <3>2. k.armed = TRUE /\ k.arm_status = arm_status /\ k.disarm_time = r.now /\ k.cnt = r.cnt
      BY <3>1 DEF Outcome
    <3>3. armed' = armed /\ pressing' /\ since' = r.now
      BY <1>1, <1>4, <2>1, <3>2 DEF pressing, since
    <3> QED
      BY <1>1, <2>1, <2>3, <3>2, <3>3 DEF Resets
  <2> QED
    BY <2>2, <2>3
<1>5. CASE arm_status = "ARM_RELEASE"
  <2>1. k \in WaitArmRelease /\ armed = TRUE /\ ~pressing
    BY <1>2, <1>5 DEF CheckStickArm, PInv, ArmInv, pressing
  <2>2. k = Outcome(TRUE, IF Centred(stick) THEN "DISARM_PRESS" ELSE arm_status,
                    arm_time, disarm_time, timer_cnt)
    BY <2>1 DEF WaitArmRelease
  <2>3. k.armed = TRUE /\ k.arm_status = (IF Centred(stick) THEN "DISARM_PRESS" ELSE arm_status)
    BY <2>2 DEF Outcome
  <2> QED
    BY <1>1, <1>5, <2>1, <2>3 DEF pressing
<1>6. CASE arm_status = "DISARM_RELEASE"
  <2>1. k \in WaitDisarmRelease /\ armed = FALSE /\ ~pressing
    BY <1>2, <1>6 DEF CheckStickArm, PInv, ArmInv, pressing
  <2>2. k = Outcome(FALSE, IF Centred(stick) THEN "ARM_PRESS" ELSE arm_status,
                    arm_time, disarm_time, timer_cnt)
    BY <2>1 DEF WaitDisarmRelease
  <2>3. k.armed = FALSE /\ k.arm_status = (IF Centred(stick) THEN "ARM_PRESS" ELSE arm_status)
    BY <2>2 DEF Outcome
  <2> QED
    BY <1>1, <1>6, <2>1, <2>3 DEF pressing
<1> QED
  BY <1>3, <1>4, <1>5, <1>6 DEF PInv, Bounds

-----------------------------------------------------------------------------
(* What the looks and the gesture leave in the commander's statics.        *)
LookBounds ==
  /\ looked \in Nat /\ looked <= timer_cnt
  /\ changed \in Nat /\ changed <= timer_cnt
  /\ looks \in 0 .. LooksBetween /\ stick \in Sticks

(* The last look has started the time anew, by a read that may be torn. *)
Fresh ==
  \/ since \in {looked, looked + 1} /\ since <= timer_cnt
  \/ Straddles(looked) /\ looked < timer_cnt /\ since \in {looked + Half, (looked + 1) - Half}

(* The time of a gesture that began at c: the last look's before it. *)
Starts(c)    == since \in c - Lead .. c
TornStart(c) == \E l \in Nat : /\ c - Lead <= l /\ l < c /\ Straddles(l)
                             /\ since \in {l + Half, (l + 1) - Half}

(* A gesture's time starts with it; the two looks before it see to that.   *)
GestureInv ==
  /\ pressing /\ Gesture(stick) => Starts(changed) \/ TornStart(changed)
  /\ pressing /\ ~Gesture(stick) /\ looks > 1 => Fresh
  /\ ~pressing /\ Centred(stick) => looks = 0

(* While it counts, no look has found it held for its time. *)
HeldInv == pressing /\ Gesture(stick) => ~HeldPast(hold)

LEMMA Holds ==
  /\ hold \in Nat /\ ArmHold \in Nat /\ DisarmHold \in Nat
  /\ LooksBetween \in Nat /\ LooksBetween > 1 /\ Lead \in Nat \ {0}
BY CommanderAssumption, PilotAssumption DEF hold

(* A clock that has moved on, with the rest as it was.                     *)
LEMMA ClockMoves ==
  ASSUME PInv, LookBounds, timer_cnt' \in Nat, timer_cnt <= timer_cnt',
         UNCHANGED mvars, looked' = looked, looks' = looks, changed' = changed
  PROVE  /\ LookBounds'
         /\ GestureInv => GestureInv'
         /\ HeldInv => HeldInv'
<1>1. /\ pressing' <=> pressing
      /\ since' = since /\ hold' = hold /\ stick' = stick
      /\ Gesture(stick)' <=> Gesture(stick)
  BY DEF mvars, pressing, since, hold, Gesture, DisarmGesture, ArmGesture
<1>2. timer_cnt \in Nat
  BY DEF PInv, Bounds
<1>3. LookBounds'
  <2> DEFINE t == timer_cnt'
  <2>1. t \in Nat /\ timer_cnt <= t
    OBVIOUS
  <2> HIDE DEF t
  <2>2. looked <= t /\ changed <= t
    BY <1>2, <2>1 DEF LookBounds
  <2> QED
    BY <1>1, <2>2 DEF LookBounds, t
<1>4. /\ Starts(changed) => Starts(changed)'
      /\ TornStart(changed) => TornStart(changed)'
  BY <1>1 DEF Starts, TornStart, Straddles, Low
<1>5. Fresh => Fresh'
  <2> DEFINE t == timer_cnt'
  <2>1. t \in Nat /\ timer_cnt <= t
    OBVIOUS
  <2> HIDE DEF t
  <2>2. looked \in Nat
    BY DEF LookBounds
  <2>3. /\ since \in {looked, looked + 1} /\ since <= timer_cnt => since <= t
        /\ looked < timer_cnt => looked < t
    BY <1>2, <2>1, <2>2
  <2>4. Straddles(looked)' <=> Straddles(looked)
    BY DEF Straddles, Low
  <2> QED
    BY <1>1, <2>3, <2>4 DEF Fresh, t
<1>6. GestureInv => GestureInv'
  BY <1>1, <1>4, <1>5 DEF GestureInv, Centred
<1>7. HeldInv => HeldInv'
  BY <1>1 DEF HeldInv, HeldPast
<1> QED
  BY <1>3, <1>6, <1>7

(* New sticks.  A gesture begins after a look that has started its time.   *)
LEMMA SticksSet ==
  ASSUME PInv, LookBounds, GestureInv, NEW s \in Sticks, ManualControl(s)
  PROVE  LookBounds' /\ GestureInv' /\ (HeldInv => HeldInv')
<1>1. /\ stick' = s /\ looks = LooksBetween /\ looks' = 0
      /\ changed' = (IF Gesture(s) <=> Gesture(stick) THEN changed ELSE timer_cnt)
      /\ looked' = looked /\ timer_cnt' = timer_cnt /\ timer_cnt - looked <= Lead
      /\ armed' = armed /\ arm_status' = arm_status
      /\ since' = since /\ hold' = hold
  BY DEF ManualControl, LookedFirst, CommanderSet, since, hold, Gesture, DisarmGesture, ArmGesture
<1>2. timer_cnt \in Nat /\ looks > 1 /\ hold \in Nat
  BY <1>1, Holds DEF PInv, Bounds
<1>3. LookBounds'
  BY <1>1, <1>2, Holds DEF LookBounds
<1>4. /\ pressing' <=> pressing
      /\ Gesture(stick)' <=> Gesture(s)
  BY <1>1 DEF pressing, Gesture, DisarmGesture, ArmGesture
<1>5. ASSUME pressing, Gesture(s), Gesture(stick)
      PROVE  /\ Starts(changed)' \/ TornStart(changed)'
             /\ HeldInv => HeldInv'
  <2>1. changed' = changed
    BY <1>1, <1>5
  <2>2. /\ Starts(changed)' <=> Starts(changed)
        /\ TornStart(changed)' <=> TornStart(changed)
    BY <1>1, <2>1 DEF Starts, TornStart, Straddles, Low
  <2> QED
    BY <1>1, <1>4, <1>5, <2>1, <2>2 DEF GestureInv, HeldInv, HeldPast
<1>6. ASSUME pressing, Gesture(s), ~Gesture(stick)
      PROVE  /\ Starts(changed)' \/ TornStart(changed)'
             /\ HeldInv'
  <2>1. changed' = timer_cnt
    BY <1>1, <1>6
  <2>2. Fresh
    BY <1>2, <1>6 DEF GestureInv
  <2>3. looked \in Nat /\ looked <= timer_cnt /\ timer_cnt - looked <= Lead /\ Lead \in Nat
    BY <1>1, Holds DEF LookBounds
  <2>4. HeldInv'
    <3>1. ~(looked - timer_cnt \in hold + 1 .. Half - Lead - 2)
      BY <1>2, <2>3
    <3> QED
      BY <1>1, <2>1, <3>1 DEF HeldInv, HeldPast
  <2>5. CASE since \in {looked, looked + 1} /\ since <= timer_cnt
    <3>1. since \in timer_cnt - Lead .. timer_cnt
      BY <1>2, <2>3, <2>5
    <3> QED
      BY <1>1, <2>1, <2>4, <3>1 DEF Starts
  <2>6. CASE /\ Straddles(looked) /\ looked < timer_cnt
             /\ since \in {looked + Half, (looked + 1) - Half}
    <3>1. looked \in Nat /\ timer_cnt - Lead <= looked
      BY <1>2, <2>3
    <3>2. TornStart(changed)'
      BY <1>1, <2>1, <2>6, <3>1 DEF TornStart, Straddles, Low
    <3> QED
      BY <2>4, <3>2
  <2> QED
    BY <2>2, <2>5, <2>6 DEF Fresh
<1>7. GestureInv'
  <2>1. pressing' /\ Gesture(stick)' => Starts(changed)' \/ TornStart(changed)'
    BY <1>4, <1>5, <1>6
  <2>2. ~(looks' > 1)
    BY <1>1
  <2> QED
    BY <1>1, <2>1, <2>2 DEF GestureInv
<1>8. HeldInv => HeldInv'
  BY <1>4, <1>5, <1>6 DEF HeldInv
<1> QED
  BY <1>3, <1>7, <1>8

(* A look. *)
LEMMA LookKeeps ==
  ASSUME PInv, LookBounds, GestureInv, TaskCommander, timer_cnt' <= MaxCnt
  PROVE  LookBounds' /\ GestureInv'
<1>1. /\ looked' = timer_cnt /\ changed' = changed /\ stick' = stick
      /\ looks' = (IF looks = LooksBetween THEN looks ELSE looks + 1)
  BY DEF TaskCommander, CommanderUpdate
<1>2. timer_cnt \in Nat /\ timer_cnt' \in Nat /\ timer_cnt <= timer_cnt'
  BY LookTakes DEF PInv, Bounds
<1>3. LookBounds'
  <2> DEFINE t == timer_cnt'
  <2>1. t \in Nat /\ timer_cnt <= t
    BY <1>2
  <2> HIDE DEF t
  <2>2. changed <= t
    BY <1>2, <2>1 DEF LookBounds
  <2> QED
    BY <1>1, <1>2, <2>2, Holds DEF LookBounds, t
<1>4. CASE pressing /\ ~Gesture(stick)
  <2>1. PICK r \in Reads(timer_cnt) :
          pressing' /\ armed' = armed /\ since' = r.now /\ r.cnt <= timer_cnt'
    BY <1>4, LookIs DEF Resets
  <2>2. ~Gesture(stick)'
    BY <1>1, <1>4, <2>1 DEF Gesture, DisarmGesture, ArmGesture
  <2>3. r.now \in Nat /\ r.cnt \in Nat
    BY <1>2, ReadTakes
  <2> DEFINE t == timer_cnt'
  <2>4. t \in Nat /\ r.cnt <= t
    BY <1>2, <2>1
  <2> HIDE DEF t
  <2>5. CASE Straddles(timer_cnt)
    <3>1. /\ r.now \in {timer_cnt, timer_cnt + 1, timer_cnt + Half, (timer_cnt + 1) - Half}
          /\ r.now \in {timer_cnt, timer_cnt + 1} => r.now <= r.cnt
          /\ r.now \notin {timer_cnt, timer_cnt + 1} => r.cnt = timer_cnt + 1
      BY <1>2, <2>5, ReadsTorn
    <3>2. CASE r.now \in {timer_cnt, timer_cnt + 1}
      <4>1. r.now <= t
        BY <2>3, <2>4, <3>1, <3>2
      <4> QED
        BY <1>1, <1>3, <2>1, <2>2, <3>2, <4>1 DEF GestureInv, Fresh, t
    <3>3. CASE r.now \notin {timer_cnt, timer_cnt + 1}
      <4>1. timer_cnt < t
        BY <1>2, <2>4, <3>1, <3>3
      <4> QED
        BY <1>1, <1>3, <2>1, <2>2, <2>5, <3>1, <3>3, <4>1 DEF GestureInv, Fresh, Straddles, Low, t
    <3> QED
      BY <3>2, <3>3
  <2>6. CASE ~Straddles(timer_cnt)
    <3>1. r.now \in {timer_cnt, timer_cnt + 1} /\ r.now <= r.cnt
      BY <1>2, <2>6, ReadsWhole
    <3>2. r.now <= t
      BY <2>3, <2>4, <3>1
    <3> QED
      BY <1>1, <1>3, <2>1, <2>2, <3>1, <3>2 DEF GestureInv, Fresh, t
  <2> QED
    BY <2>5, <2>6
<1>5. CASE pressing /\ Gesture(stick) /\ Waits
  <2>1. pressing' /\ armed' = armed /\ since' = since /\ Gesture(stick)'
    BY <1>1, <1>5 DEF Waits, Gesture, DisarmGesture, ArmGesture
  <2>2. /\ Starts(changed)' <=> Starts(changed)
        /\ TornStart(changed)' <=> TornStart(changed)
    BY <1>1, <2>1 DEF Starts, TornStart, Straddles, Low
  <2> QED
    BY <1>1, <1>3, <1>5, <2>1, <2>2 DEF GestureInv
<1>6. CASE pressing /\ Gesture(stick) /\ Switches
  <2>1. ~pressing'
    BY <1>6 DEF Switches
  <2>2. ~Centred(stick)'
    BY <1>1, <1>6 DEF Centred, Gesture, DisarmGesture, ArmGesture
  <2> QED
    BY <1>3, <2>1, <2>2 DEF GestureInv
<1>7. CASE ~pressing
  <2>1. armed' = armed /\ (pressing' <=> Centred(stick))
    BY <1>7, LookIs
  <2>2. CASE Centred(stick)
    <3>1. looks' = 1 /\ ~(looks' > 1)
      BY <1>1, <1>7, <2>2, Holds DEF GestureInv
    <3>2. ~Gesture(stick)'
      BY <1>1, <2>2 DEF Centred, Gesture, DisarmGesture, ArmGesture
    <3> QED
      BY <1>3, <2>1, <2>2, <3>1, <3>2 DEF GestureInv
  <2>3. CASE ~Centred(stick)
    <3>1. ~pressing' /\ ~Centred(stick)'
      BY <1>1, <2>1, <2>3 DEF Centred
    <3> QED
      BY <1>3, <3>1 DEF GestureInv
  <2> QED
    BY <2>2, <2>3
<1> QED
  BY <1>3, <1>4, <1>5, <1>6, <1>7, LookIs

(* What passes since a torn start, or by a torn read, is long.             *)
LEMMA TornIsLong ==
  ASSUME NEW now \in Nat, NEW s \in Nat, NEW h \in Nat, h + 3 < Half,
         \/ now >= s + Half
         \/ now < s /\ s <= now + Half
  PROVE  Elapsed(now, s, h)
<1>1. TimeMax = Half * Half - 1 /\ Half \in Nat /\ Half >= 4
  BY ClockAssumption
<1>2. Half * Half >= Half + Half /\ Half * Half \in Nat
  BY <1>1
<1>3. CASE now >= s + Half
  BY <1>1, <1>3 DEF Elapsed, Passed
<1>4. CASE now < s /\ s <= now + Half
  <2>1. Passed(now, s) = now + (TimeMax - s + 1)
    BY <1>4 DEF Passed
  <2> DEFINE q == Half * Half
  <2>2. TimeMax = q - 1 /\ q \in Nat /\ q >= Half + Half
    BY <1>1, <1>2
  <2> HIDE DEF q
  <2> QED
    BY <1>1, <1>4, <2>1, <2>2 DEF Elapsed
<1> QED
  BY <1>3, <1>4

(* A look at t at a gesture since c that is held past h by then finds its  *)
(* time over, whatever is torn.                                            *)
LEMMA HeldIsOver ==
  ASSUME NEW c \in Nat, NEW t \in Nat, NEW s \in Nat, NEW h \in Nat,
         s \in c - Lead .. c, t - c \in h + 1 .. Half - Lead - 2,
         NEW r \in Reads(t)
  PROVE  Elapsed(r.now, s, h)
<1>1. r.now \in Nat /\ Half \in Nat /\ Lead \in Nat /\ h + 3 < Half
  BY ReadTakes, Holds, ClockAssumption
<1>2. CASE r.now \in {t, t + 1}
  <2>1. r.now >= s /\ Passed(r.now, s) = r.now - s
    BY <1>1, <1>2 DEF Passed
  <2>2. r.now - s > h
    BY <1>1, <1>2
  <2> QED
    BY <2>1, <2>2 DEF Elapsed
<1>3. CASE r.now = t + Half
  <2>1. r.now >= s + Half
    BY <1>1, <1>3
  <2> QED
    BY <1>1, <2>1, TornIsLong
<1>4. CASE r.now = (t + 1) - Half
  <2>1. r.now < s /\ s <= r.now + Half
    BY <1>1, <1>4
  <2> QED
    BY <1>1, <2>1, TornIsLong
<1>5. Straddles(t) => r.now \in {t, t + 1, t + Half, (t + 1) - Half}
  BY ReadsTorn
<1> QED
  BY <1>2, <1>3, <1>4, <1>5, ReadsWhole

(* Reads that may be torn lie a half apart. *)
LEMMA TornApart ==
  ASSUME NEW l \in Nat, NEW t \in Nat, Straddles(l), l < t, t < l + Half
  PROVE  ~Straddles(t)
<1> SUFFICES ASSUME Straddles(t) PROVE FALSE
  OBVIOUS
<1>1. /\ l = Half * High(l) + (Half - 1) /\ High(l) \in Nat
      /\ t = Half * High(t) + (Half - 1) /\ High(t) \in Nat
  BY Halves DEF Straddles
<1>2. CASE High(t) <= High(l)
  <2>1. PICK d \in Nat : High(l) = High(t) + d
    <3>1. High(l) - High(t) \in Nat /\ High(l) = High(t) + (High(l) - High(t))
      BY <1>1, <1>2
    <3> QED
      BY <3>1
  <2>2. Half * High(l) = Half * High(t) + Half * d /\ Half * d >= 0
    BY <1>1, <2>1, ClockAssumption
  <2> QED
    BY <1>1, <2>2, ClockAssumption
<1>3. CASE High(t) > High(l)
  <2>1. PICK d \in Nat : High(t) = High(l) + 1 + d
    <3>1. High(t) - High(l) - 1 \in Nat /\ High(t) = High(l) + 1 + (High(t) - High(l) - 1)
      BY <1>1, <1>3
    <3> QED
      BY <3>1
  <2>2. Half * High(t) = Half * High(l) + Half + Half * d /\ Half * d >= 0
    BY <1>1, <2>1, ClockAssumption
  <2> QED
    BY <1>1, <2>2, ClockAssumption
<1> QED
  BY <1>1, <1>2, <1>3

(* And so it does if the start was torn. *)
LEMMA TornStartIsOver ==
  ASSUME NEW c \in Nat, NEW t \in Nat, NEW s \in Nat, NEW h \in Nat, NEW l \in Nat,
         c - Lead <= l, l < c, Straddles(l), s \in {l + Half, (l + 1) - Half},
         t - c \in h + 1 .. Half - Lead - 2, NEW r \in Reads(t)
  PROVE  Elapsed(r.now, s, h)
<1>1. Half \in Nat /\ Lead \in Nat /\ h + 3 < Half /\ l < t /\ t + 1 < l + Half
  BY Holds, ClockAssumption
<1>2. r.now \in {t, t + 1}
  <2>1. ~Straddles(t)
    BY <1>1, TornApart
  <2> QED
    BY <2>1, ReadsWhole
<1>3. CASE s = l + Half
  <2>1. r.now \in Nat /\ r.now < s /\ s <= r.now + Half
    BY <1>1, <1>2, <1>3
  <2> QED
    BY <1>1, <2>1, TornIsLong
<1>4. CASE s = (l + 1) - Half
  <2>1. r.now \in Nat /\ r.now >= s + Half
    BY <1>1, <1>2, <1>4
  <2> QED
    BY <1>1, <2>1, TornIsLong
<1> QED
  BY <1>3, <1>4

LEMMA LookHolds ==
  ASSUME PInv, LookBounds, GestureInv, TaskCommander, timer_cnt' <= MaxCnt,
         since \in Nat
  PROVE  HeldInv'
<1>1. looked' = timer_cnt /\ changed' = changed /\ stick' = stick
  BY DEF TaskCommander, CommanderUpdate
<1>2. timer_cnt \in Nat /\ changed \in Nat /\ hold \in Nat
  BY Holds DEF PInv, Bounds, LookBounds
<1>3. SUFFICES ASSUME pressing', Gesture(stick)', HeldPast(hold)'
               PROVE  FALSE
  BY DEF HeldInv
<1>4. pressing /\ Gesture(stick) /\ Waits
  <2>1. CASE pressing /\ ~Gesture(stick)
    BY <1>1, <1>3, <2>1, LookIs DEF Resets, Gesture, DisarmGesture, ArmGesture
  <2>2. CASE ~pressing
    BY <1>1, <1>3, <2>2, LookIs DEF Centred, Gesture, DisarmGesture, ArmGesture
  <2>3. CASE pressing /\ Gesture(stick)
    BY <1>3, <2>3, LookIs DEF Switches
  <2> QED
    BY <2>1, <2>2, <2>3
<1>5. PICK r \in Reads(timer_cnt) : ~Elapsed(r.now, since, hold)
  BY <1>4 DEF Waits
<1>6. hold' = hold
  BY <1>4 DEF Waits, hold
<1>7. timer_cnt - changed \in hold + 1 .. Half - Lead - 2
  BY <1>1, <1>3, <1>6 DEF HeldPast
<1>8. CASE Starts(changed)
  BY <1>2, <1>5, <1>7, <1>8, HeldIsOver DEF Starts
<1>9. CASE TornStart(changed)
  <2>1. PICK l \in Nat : /\ changed - Lead <= l /\ l < changed /\ Straddles(l)
                         /\ since \in {l + Half, (l + 1) - Half}
    BY <1>9 DEF TornStart
  <2> QED
    BY <1>2, <1>5, <1>7, <2>1, TornStartIsOver
<1> QED
  BY <1>4, <1>8, <1>9 DEF GestureInv

-----------------------------------------------------------------------------
(* The times stay in the 64 bits of a time, torn or not.                   *)
TimesInv ==
  /\ link_time \in Times /\ arm_time \in Times /\ disarm_time \in Times
  /\ alt_smooth_time \in Times
  /\ kept <= MaxCnt /\ follows \in {"failsafe", "commander"} /\ released \in BOOLEAN

LEMMA DeadlineIsTime ==
  ASSUME NEW c \in Nat, NEW us \in Nat, NEW d \in TimerNew(c, us)
  PROVE  d.t \in Times
<1>1. PICK r \in Reads(c) : d.t = (r.now + us) % (TimeMax + 1)
  BY DEF TimerNew
<1>2. r.now + us \in Nat
  BY <1>1, ReadTakes
<1> QED
  BY <1>1, <1>2, Constants DEF Times

LEMMA CheckIsTime ==
  ASSUME NEW c \in Nat, NEW t \in Times, NEW us, NEW k \in TimerCheck(c, t, us),
         k.cnt <= MaxCnt
  PROVE  k.t \in Times
<1>1. PICK r \in Reads(c) :
        k \in IF Elapsed(r.now, t, us)
              THEN { [due |-> TRUE, t |-> s.now, cnt |-> s.cnt] : s \in Reads(r.cnt) }
              ELSE { [due |-> FALSE, t |-> t, cnt |-> r.cnt] }
  BY DEF TimerCheck
<1>2. r.cnt \in Nat
  BY ReadTakes
<1>3. CASE Elapsed(r.now, t, us)
  <2>1. PICK s \in Reads(r.cnt) : k = [due |-> TRUE, t |-> s.now, cnt |-> s.cnt]
    BY <1>1, <1>3
  <2> QED
    BY <1>2, <2>1, ReadIsTime
<1>4. CASE ~Elapsed(r.now, t, us)
  BY <1>1, <1>4
<1> QED
  BY <1>3, <1>4

LEMMA StickTimes ==
  ASSUME Bounds, TimesInv, NEW k \in CheckStickArm, k.cnt <= MaxCnt
  PROVE  k.arm_time \in Times /\ k.disarm_time \in Times
<1>1. timer_cnt \in Nat /\ arm_time \in Times /\ disarm_time \in Times
  BY DEF Bounds, TimesInv
<1>2. ASSUME NEW r \in Reads(timer_cnt), r.cnt <= MaxCnt PROVE r.now \in Times
  BY <1>1, <1>2, ReadIsTime
<1>3. CASE arm_status = "ARM_PRESS"
  <2>1. k \in WaitArmPress
    BY Zenon, <1>3 DEF CheckStickArm
  <2>2. CASE ArmGesture(stick)
    <3>1. PICK j \in TimerCheck(timer_cnt, arm_time, ArmHold) :
            k = Outcome(j.due, IF j.due THEN "ARM_RELEASE" ELSE arm_status, j.t,
                        disarm_time, j.cnt)
      BY <2>1, <2>2 DEF WaitArmPress
    <3>2. k.arm_time = j.t /\ k.disarm_time = disarm_time /\ k.cnt = j.cnt
      BY <3>1 DEF Outcome
    <3> QED
      BY <1>1, <3>2, CheckIsTime
  <2>3. CASE ~ArmGesture(stick)
    <3>1. PICK r \in Reads(timer_cnt) :
            k = Outcome(FALSE, arm_status, r.now, disarm_time, r.cnt)
      BY <2>1, <2>3 DEF WaitArmPress
    <3>2. k.arm_time = r.now /\ k.disarm_time = disarm_time /\ k.cnt = r.cnt
      BY <3>1 DEF Outcome
    <3> QED
      BY <1>1, <1>2, <3>2
  <2> QED
    BY <2>2, <2>3
<1>4. CASE arm_status = "DISARM_PRESS"
  <2>1. k \in WaitDisarmPress
    BY Zenon, <1>4 DEF CheckStickArm
  <2>2. CASE DisarmGesture(stick)
    <3>1. PICK j \in TimerCheck(timer_cnt, disarm_time, DisarmHold) :
            k = Outcome(~j.due, IF j.due THEN "DISARM_RELEASE" ELSE arm_status,
                        arm_time, j.t, j.cnt)
      BY <2>1, <2>2 DEF WaitDisarmPress
    <3>2. k.arm_time = arm_time /\ k.disarm_time = j.t /\ k.cnt = j.cnt
      BY <3>1 DEF Outcome
    <3> QED
      BY <1>1, <3>2, CheckIsTime
  <2>3. CASE ~DisarmGesture(stick)
    <3>1. PICK r \in Reads(timer_cnt) :
            k = Outcome(TRUE, arm_status, arm_time, r.now, r.cnt)
      BY <2>1, <2>3 DEF WaitDisarmPress
    <3>2. k.arm_time = arm_time /\ k.disarm_time = r.now /\ k.cnt = r.cnt
      BY <3>1 DEF Outcome
    <3> QED
      BY <1>1, <1>2, <3>2
  <2> QED
    BY <2>2, <2>3
<1>5. CASE arm_status \in {"ARM_RELEASE", "DISARM_RELEASE"}
  <2>1. k \in WaitArmRelease \/ k \in WaitDisarmRelease
    BY <1>5 DEF CheckStickArm
  <2>2. k.arm_time = arm_time /\ k.disarm_time = disarm_time
    BY <2>1 DEF WaitArmRelease, WaitDisarmRelease, Outcome
  <2> QED
    BY <1>1, <2>2
<1> QED
  BY <1>3, <1>4, <1>5 DEF Bounds

LEMMA SceneTimes ==
  ASSUME Bounds, TimesInv, NEW arms, NEW above, NEW fast, NEW c \in Nat,
         NEW n \in AltScene(arms, above, fast, c)
  PROVE  n.alt_smooth_time \in Times
<1>1. alt_smooth_time \in Times /\ Smooth \in Nat
  BY CommanderAssumption DEF TimesInv
<1>2. CASE alt_scene = "NORMAL"
  <2>1. n \in SceneNormal(arms, c)
    BY <1>2 DEF AltScene
  <2>2. ASSUME NEW d \in TimerNew(c, Smooth) PROVE d.t \in Times
    BY <1>1, DeadlineIsTime
  <2> QED
    BY <1>1, <2>1, <2>2 DEF SceneNormal, Scene
<1>3. CASE alt_scene \in {"PRE_TAKEOFF", "TAKEOFF"}
  BY <1>1, <1>3 DEF AltScene, Scene
<1>4. CASE alt_scene \in {"MOVE_UP", "MOVE_DOWN"}
  <2>1. n \in SceneMove(fast, c)
    BY <1>4 DEF AltScene
  <2>2. n.alt_smooth_time = alt_smooth_time
    BY <2>1 DEF SceneMove, Scene
  <2> QED
    BY <1>1, <2>2
<1> QED
  BY <1>2, <1>3, <1>4 DEF Bounds

LEMMA LookTimes ==
  ASSUME PInv, TimesInv, TaskCommander, timer_cnt' <= MaxCnt
  PROVE  /\ arm_time' \in Times /\ disarm_time' \in Times
         /\ alt_smooth_time' \in Times
<1>1. PICK k \in CheckStickArm, above \in BOOLEAN, fast \in BOOLEAN :
        /\ arm_time' = k.arm_time /\ disarm_time' = k.disarm_time
        /\ \E n \in AltScene(~armed /\ k.armed, above, fast, k.cnt) :
             alt_smooth_time' = n.alt_smooth_time /\ timer_cnt' = n.cnt
  BY DEF TaskCommander, CommanderUpdate
<1>2. timer_cnt \in Nat
  BY DEF PInv, Bounds
<1>3. k.cnt \in {timer_cnt, timer_cnt + 1, timer_cnt + 2}
  BY StickArm DEF PInv
<1>4. PICK n \in AltScene(~armed /\ k.armed, above, fast, k.cnt) :
        alt_smooth_time' = n.alt_smooth_time /\ timer_cnt' = n.cnt
  BY <1>1
<1>5. timer_cnt' \in {k.cnt, k.cnt + 1, k.cnt + 2} /\ k.cnt \in Nat
  BY <1>2, <1>3, <1>4, SceneTakes DEF PInv
<1>6. k.cnt <= MaxCnt
  <2>1. MaxCnt \in Nat
    BY TimersAssumption
  <2> QED
    BY <1>5, <2>1
<1>7. k.arm_time \in Times /\ k.disarm_time \in Times
  BY <1>6, StickTimes DEF PInv
<1>8. n.alt_smooth_time \in Times
  BY <1>5, SceneTimes DEF PInv
<1> QED
  BY <1>1, <1>4, <1>7, <1>8

LEMMA TimesStart == PilotInit => TimesInv
<1> SUFFICES ASSUME PilotInit PROVE TimesInv
  OBVIOUS
<1>1. (0 + LinkTimeout) % (TimeMax + 1) \in Times
  BY Constants DEF Times
<1>2. 0 \in Times /\ 0 <= MaxCnt
  BY Constants DEF Times
<1> QED
  BY <1>1, <1>2 DEF PilotInit, FailsafeInit, CommanderInit, TimesInv

LEMMA TimesStep == PInv /\ TimesInv /\ [PilotNext]_allvars => TimesInv'
<1> SUFFICES ASSUME PInv, TimesInv, [PilotNext]_allvars PROVE TimesInv'
  OBVIOUS
<1>1. CASE Heartbeat
  <2>1. PICK d \in TimerNew(timer_cnt, LinkTimeout) : link_time' = d.t
    BY <1>1 DEF Heartbeat, FailsafeLinkKeep
  <2>2. link_time' \in Times
    BY <2>1, DeadlineIsTime, Constants DEF PInv, Bounds
  <2>3. /\ kept' <= MaxCnt /\ follows' = follows /\ released' = released
        /\ UNCHANGED mvars
    BY <1>1 DEF Heartbeat, PInv, Bounds
  <2> QED
    BY <2>2, <2>3 DEF TimesInv, mvars
<1>2. ASSUME NEW s \in Sticks, ManualControl(s) PROVE TimesInv'
  BY <1>2 DEF ManualControl, CommanderSet, TimesInv, fvars
<1>3. CASE TaskFailsafe
  BY <1>3 DEF TaskFailsafe, FailsafeUpdate, TimesInv, mvars
<1>4. CASE TaskCommander /\ timer_cnt' <= MaxCnt
  <2>1. /\ UNCHANGED fvars /\ kept' = kept /\ follows' = follows
        /\ released' = (armed' = armed /\ (released \/ Centred(stick)))
    BY <1>4 DEF TaskCommander
  <2>2. released' \in BOOLEAN
    <3> DEFINE b == armed' = armed /\ (released \/ Centred(stick))
    <3>1. b \in BOOLEAN
      OBVIOUS
    <3> HIDE DEF b
    <3>2. released' = b
      BY <2>1 DEF b
    <3> QED
      BY Zenon, <3>1, <3>2
  <2> QED
    BY <1>4, <2>1, <2>2, LookTimes DEF TimesInv, fvars
<1>5. CASE Tick \/ UNCHANGED allvars
  BY <1>5 DEF Tick, TimesInv, allvars, fvars, mvars, hvars
<1> QED
  BY <1>1, <1>2, <1>3, <1>4, <1>5 DEF PilotNext

-----------------------------------------------------------------------------
(* The gesture's invariants, step by step.                                 *)
LEMMA GestureStarts == PilotInit => LookBounds /\ GestureInv /\ HeldInv
<1> SUFFICES ASSUME PilotInit PROVE LookBounds /\ GestureInv /\ HeldInv
  OBVIOUS
<1>1. /\ timer_cnt = 0 /\ looked = 0 /\ looks = 0 /\ changed = 0 /\ stick = "center"
      /\ armed = FALSE /\ arm_time = 0
  BY DEF PilotInit, CommanderInit
<1>2. LookBounds
  BY <1>1, CommanderAssumption, PilotAssumption DEF LookBounds
<1>3. ~Gesture(stick)
  BY <1>1 DEF Gesture, ArmGesture
<1> QED
  BY <1>1, <1>2, <1>3 DEF GestureInv, HeldInv

LEMMA ActionMoves ==
  ASSUME PInv, Heartbeat \/ TaskFailsafe \/ Tick \/ UNCHANGED allvars
  PROVE  /\ timer_cnt' \in Nat /\ timer_cnt <= timer_cnt'
         /\ UNCHANGED mvars /\ looked' = looked /\ looks' = looks /\ changed' = changed
<1>1. timer_cnt \in Nat
  BY DEF PInv, Bounds
<1>2. CASE Heartbeat
  <2>1. PICK r \in Reads(timer_cnt) : timer_cnt' = r.cnt
    BY <1>2 DEF Heartbeat, TimerNew
  <2>2. r.cnt \in {timer_cnt, timer_cnt + 1}
    BY <1>1, ReadTakes
  <2> QED
    BY <1>1, <1>2, <2>1, <2>2 DEF Heartbeat
<1>3. CASE TaskFailsafe
  <2>1. PICK r \in Reads(timer_cnt) : timer_cnt' = r.cnt
    BY <1>3 DEF TaskFailsafe, TimerIsTimeout
  <2>2. r.cnt \in {timer_cnt, timer_cnt + 1}
    BY <1>1, ReadTakes
  <2> QED
    BY <1>1, <1>3, <2>1, <2>2 DEF TaskFailsafe
<1>4. CASE Tick
  BY <1>1, <1>4 DEF Tick, hvars
<1>5. CASE UNCHANGED allvars
  BY <1>1, <1>5 DEF allvars, hvars
<1> QED
  BY <1>2, <1>3, <1>4, <1>5

LEMMA GestureStep ==
  PInv /\ LookBounds /\ GestureInv /\ [PilotNext]_allvars => LookBounds' /\ GestureInv'
<1> SUFFICES ASSUME PInv, LookBounds, GestureInv, [PilotNext]_allvars
             PROVE  LookBounds' /\ GestureInv'
  OBVIOUS
<1>1. CASE Heartbeat \/ TaskFailsafe \/ Tick \/ UNCHANGED allvars
  BY <1>1, ActionMoves, ClockMoves
<1>2. ASSUME NEW s \in Sticks, ManualControl(s) PROVE LookBounds' /\ GestureInv'
  BY <1>2, SticksSet
<1>3. CASE TaskCommander /\ timer_cnt' <= MaxCnt
  BY <1>3, LookKeeps
<1> QED
  BY <1>1, <1>2, <1>3 DEF PilotNext

LEMMA HeldStep ==
  /\ PInv /\ LookBounds /\ GestureInv /\ TimesInv /\ HeldInv
  /\ [PilotNext]_allvars
  => HeldInv'
<1> SUFFICES ASSUME PInv, LookBounds, GestureInv, TimesInv, HeldInv, [PilotNext]_allvars
             PROVE  HeldInv'
  OBVIOUS
<1>1. CASE Heartbeat \/ TaskFailsafe \/ Tick \/ UNCHANGED allvars
  BY <1>1, ActionMoves, ClockMoves
<1>2. ASSUME NEW s \in Sticks, ManualControl(s) PROVE HeldInv'
  BY <1>2, SticksSet
<1>3. CASE TaskCommander /\ timer_cnt' <= MaxCnt
  <2>1. since \in Nat
    BY DEF since, TimesInv, Times
  <2> QED
    BY <1>3, <2>1, LookHolds
<1> QED
  BY <1>1, <1>2, <1>3 DEF PilotNext

(* A gesture's time starts with it, in every reachable state, or a read    *)
(* since has been torn.                                                    *)
THEOREM GestureInvariant == PilotSpec => [](PInv /\ LookBounds /\ GestureInv /\ TimesInv)
<1>1. PilotInit => PInv /\ LookBounds /\ GestureInv /\ TimesInv
  BY PilotStarts, GestureStarts, TimesStart
<1>2. PInv /\ LookBounds /\ GestureInv /\ TimesInv /\ [PilotNext]_allvars
        => (PInv /\ LookBounds /\ GestureInv /\ TimesInv)'
  BY PilotStep, GestureStep, TimesStep
<1> QED
  BY <1>1, <1>2, PTL DEF PilotSpec

(* Every variable keeps its type: the deadlines, the commander's times and *)
(* the smoothing time stay within 64 bits, torn reads and all.             *)
THEOREM PilotTyped == PilotSpec => []PilotTypeOK
<1>1. PInv /\ LookBounds /\ TimesInv => PilotTypeOK
  <2> SUFFICES ASSUME PInv, LookBounds, TimesInv PROVE PilotTypeOK
    OBVIOUS
  <2>1. /\ timer_cnt \in 0 .. MaxCnt /\ kept \in 0 .. MaxCnt /\ watched \in 0 .. MaxCnt
        /\ looked \in 0 .. MaxCnt /\ changed \in 0 .. MaxCnt
    BY Constants DEF PInv, Bounds, LookBounds, TimesInv
  <2>2. FailsafeTypeOK /\ CommanderTypeOK
    BY DEF PInv, Bounds, LookBounds, TimesInv, FailsafeTypeOK, CommanderTypeOK
  <2> QED
    BY <2>1, <2>2 DEF LookBounds, TimesInv, PilotTypeOK
<1> QED
  BY <1>1, GestureInvariant, PTL

(* check_stick_arm arms and disarms only on a gesture that has been held   *)
(* for its time, as far as two looks tell and unless a read was torn, for  *)
(* every hold, clock and order of messages and looks.                      *)
THEOREM SwitchesAreHeld == PilotSpec => HeldToSwitch
<1> DEFINE Late == timer_cnt' - changed + Lead > (IF armed' THEN ArmHold ELSE DisarmHold)
           Torn == \E c \in changed - Lead .. timer_cnt' : c >= 0 /\ Straddles(c)
<1>1. PInv /\ LookBounds /\ GestureInv /\ [PilotNext]_allvars
        => [armed' # armed => Late \/ Torn]_allvars
  <2> SUFFICES ASSUME PInv, LookBounds, GestureInv, PilotNext, armed' # armed
               PROVE  Late \/ Torn
    OBVIOUS
  <2>1. TaskCommander /\ timer_cnt' <= MaxCnt
    BY DEF PilotNext, Heartbeat, ManualControl, CommanderSet, TaskFailsafe, Tick, mvars
  <2>2. pressing /\ Gesture(stick) /\ Switches
    BY <2>1, LookIs DEF Resets, Waits
  <2>3. PICK r \in Reads(timer_cnt) : Elapsed(r.now, since, hold) /\ r.cnt <= timer_cnt'
    BY <2>2 DEF Switches
  <2>4. (IF armed' THEN ArmHold ELSE DisarmHold) = hold
    BY <2>2 DEF Switches, hold
  <2>5. /\ timer_cnt \in Nat /\ timer_cnt' \in Nat /\ timer_cnt <= timer_cnt'
        /\ changed \in Nat /\ changed <= timer_cnt /\ hold \in Nat
        /\ Lead \in Nat
    BY <2>1, LookTakes, Holds DEF PInv, Bounds, LookBounds
  <2>6. CASE TornStart(changed)
    <3>1. PICK l \in Nat : changed - Lead <= l /\ l < changed /\ Straddles(l)
      BY <2>6 DEF TornStart
    <3> DEFINE t == timer_cnt'
    <3>2. t \in Nat /\ timer_cnt <= t
      BY <2>5
    <3> HIDE DEF t
    <3>3. l \in changed - Lead .. t /\ l >= 0
      BY <2>5, <3>1, <3>2
    <3> QED
      BY <3>1, <3>3 DEF t
  <2>7. CASE Straddles(timer_cnt)
    <3>1. timer_cnt \in changed - Lead .. timer_cnt' /\ timer_cnt >= 0
      BY <2>5
    <3> QED
      BY <2>7, <3>1
  <2>8. CASE since \in changed - Lead .. changed /\ ~Straddles(timer_cnt)
    <3>1. r.now \in {timer_cnt, timer_cnt + 1} /\ r.now <= r.cnt /\ r.cnt \in Nat
      BY <2>5, <2>8, ReadsWhole, ReadTakes
    <3>2. r.now >= since /\ since \in Int
      BY <2>5, <2>8, <3>1
    <3>3. r.now - since > hold
      BY <2>3, <3>2 DEF Elapsed, Passed
    <3> DEFINE t == timer_cnt'
    <3>4. t \in Nat /\ r.cnt <= t
      BY <2>3, <2>5
    <3> HIDE DEF t
    <3>5. t - changed + Lead > hold
      BY <2>5, <2>8, <3>1, <3>2, <3>3, <3>4
    <3> QED
      BY <2>4, <3>5 DEF t
  <2> QED
    BY <2>2, <2>6, <2>7, <2>8 DEF GestureInv, Starts
<1> QED
  BY <1>1, GestureInvariant, PTL DEF PilotSpec, HeldToSwitch

(* And a gesture that is held for its time is taken by the first look that *)
(* finds it so, whatever is torn and however late the looks: the holds are *)
(* about a second, and a wrong half of a time off by twelve hours.         *)
THEOREM GesturesWork == PilotSpec => []GestureWorks
<1>1. PilotInit => HeldInv
  BY GestureStarts
<1>2. /\ PInv /\ LookBounds /\ GestureInv /\ TimesInv /\ HeldInv
      /\ [PilotNext]_allvars
      => HeldInv'
  BY HeldStep
<1>3. PInv /\ HeldInv => GestureWorks
  <2> SUFFICES ASSUME PInv, HeldInv PROVE GestureWorks
    OBVIOUS
  <2>1. ASSUME arm_status = "ARM_PRESS", ArmGesture(stick) PROVE ~HeldPast(ArmHold)
    <3>1. pressing /\ Gesture(stick) /\ hold = ArmHold
      BY <2>1 DEF PInv, ArmInv, pressing, Gesture, hold
    <3> QED
      BY <3>1 DEF HeldInv
  <2>2. ASSUME arm_status = "DISARM_PRESS", DisarmGesture(stick) PROVE ~HeldPast(DisarmHold)
    <3>1. pressing /\ Gesture(stick) /\ hold = DisarmHold
      BY <2>2 DEF PInv, ArmInv, pressing, Gesture, hold
    <3> QED
      BY <3>1 DEF HeldInv
  <2> QED
    BY <2>1, <2>2 DEF GestureWorks
<1> QED
  BY <1>1, <1>2, <1>3, GestureInvariant, PTL DEF PilotSpec
=============================================================================
