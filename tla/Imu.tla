--------------------------------- MODULE Imu --------------------------------
(***************************************************************************)
(* The inertial sensor: mpu6050_update (src/src/driver/mpu6050.c) and the  *)
(* gyro calibration of imu_update (src/src/pilot/sensor.c), which collects *)
(* samples while the vehicle rests and is not armed, and begins again when *)
(* it was moved, after a flight, and after a minute.                       *)
(*                                                                         *)
(* Filters and rotation are left out.  The assignment of the calibration's *)
(* result to gyro_offset is commented out in the code.                     *)
(***************************************************************************)
EXTENDS I2c

CONSTANTS Accels,      \* accelerations the code tells apart (by 0.2 m/s2)
          CollectMax   \* COLLECT_MAX

ASSUME ImuAssumption == CollectMax \in Nat \ {0} /\ "zero" \notin Accels

VARIABLES
  armed,        \* system_armed()
  felt,         \* the acceleration of the vehicle
  acc,          \* imu->acc
  sample,       \* what acc is made of
  status, collect_cnt, accel_start,   \* of imu_gyro_cal
  gyro_need_cal,
  gyro_sum,     \* how many samples are in it
  seen, calm    \* acc at the last look, and for how many it was the same,
                \* with no update between them that found the vehicle armed

cvars == <<status, collect_cnt, accel_start, gyro_need_cal, gyro_sum>>
ivars == <<armed, felt, acc, sample, cvars, seen, calm>>

ImuTypeOK ==
  /\ armed \in BOOLEAN
  /\ felt \in Accels
  /\ acc \in Accels \cup {"zero"}
  /\ sample \in {"none", "whole", "mixed", "old", "unset"}
  /\ status \in {"COLLECT", "CAL", "IDEL"}
  /\ collect_cnt \in 0 .. CollectMax
  /\ accel_start \in Accels \cup {"zero"}
  /\ gyro_need_cal \in BOOLEAN
  /\ gyro_sum \in 0 .. CollectMax
  /\ seen \in Accels \cup {"zero"}
  /\ calm \in 0 .. CollectMax

ImuInit ==
  /\ armed = FALSE
  /\ felt \in Accels
  /\ acc = "zero" /\ sample = "none"
  /\ status = "COLLECT" /\ collect_cnt = 0 /\ accel_start = "zero"
  /\ gyro_need_cal = FALSE
  /\ gyro_sum = 0
  /\ seen = "zero" /\ calm = 0

(* mpu6050_update: a failed read is told by a value below 0.  What it then *)
(* returns is not set; otherwise it is what the buffer holds.              *)
Sample(r) ==
  IF r.ret < 0 THEN /\ sample' = "unset"
                    /\ acc' \in Accels
  ELSE CASE r.got = "all"     -> sample' = "whole" /\ acc' = felt
         [] r.got = "part"    -> sample' = "mixed" /\ acc' \in Accels
         [] r.got = "nothing" -> sample' = "old" /\ acc' = acc

(* Bug: the sum of the samples is not cleared. *)
RestartsKeepsSum == accel_start' = acc' /\ UNCHANGED gyro_sum /\ collect_cnt' = 0

Restarts == accel_start' = acc' /\ gyro_sum' = 0 /\ collect_cnt' = 0

(* COLLECT: due is whether the 10 ms are over. *)
Collecting(due) ==
  /\ status = "COLLECT"
  /\ UNCHANGED gyro_need_cal
  /\ \/ /\ armed
        /\ status' = "IDEL"
        /\ UNCHANGED <<collect_cnt, accel_start, gyro_sum>>
     \/ ~armed /\ ~due /\ UNCHANGED <<status, collect_cnt, accel_start, gyro_sum>>
     \/ /\ ~armed /\ due /\ acc' = accel_start /\ collect_cnt < CollectMax
        /\ gyro_sum' = gyro_sum + 1
        /\ collect_cnt' = collect_cnt + 1
        /\ UNCHANGED <<status, accel_start>>
     \/ /\ ~armed /\ due /\ acc' = accel_start /\ collect_cnt = CollectMax
        /\ status' = "CAL"
        /\ UNCHANGED <<collect_cnt, accel_start, gyro_sum>>
     \/ /\ ~armed /\ due /\ acc' # accel_start
        /\ Restarts
        /\ UNCHANGED status

Calibrated ==
  /\ status = "CAL"
  /\ status' = "IDEL" /\ gyro_need_cal' = FALSE
  /\ UNCHANGED <<collect_cnt, accel_start, gyro_sum>>

(* Bug: only a flight calls for another calibration. *)
NeedsCalAfterFlight(due) == gyro_need_cal \/ armed

NeedsCal(due) == gyro_need_cal \/ armed \/ due

(* IDEL: due is whether the minute is over.  What calls for a calibration  *)
(* while the vehicle is armed waits for it to be disarmed.                 *)
Idle(due) ==
  /\ status = "IDEL"
  /\ gyro_need_cal' = NeedsCal(due)
  /\ \/ ~armed /\ gyro_need_cal' /\ status' = "COLLECT" /\ Restarts
     \/ /\ armed \/ ~gyro_need_cal'
        /\ UNCHANGED <<status, collect_cnt, accel_start, gyro_sum>>

Watch(due) ==
  /\ seen' = IF due THEN acc' ELSE seen
  /\ calm' = IF armed \/ (due /\ acc' # seen) THEN 0
             ELSE IF due /\ calm < CollectMax THEN calm + 1 ELSE calm

(* imu_update, with one outcome of the timer and one of the bus. *)
ImuUpdate(due, r) ==
  /\ Sample(r)
  /\ Collecting(due) \/ Calibrated \/ Idle(due)
  /\ Watch(due)
  /\ UNCHANGED <<armed, felt>>

(* The pilot's arming and disarming. *)
Arm == armed' = ~armed /\ UNCHANGED <<felt, acc, sample, cvars, seen, calm>>

(* The vehicle is moved. *)
Move ==
  /\ \E a \in Accels \ {felt} : felt' = a
  /\ UNCHANGED <<armed, acc, sample, cvars, seen, calm>>
=============================================================================
