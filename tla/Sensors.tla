------------------------------- MODULE Sensors ------------------------------
(***************************************************************************)
(* The sensor tasks of src/src/main.c, task_imu and task_baro, on a bus on *)
(* which every transfer may fail.                                          *)
(***************************************************************************)
EXTENDS Imu, Ms5611

TaskImu == (\E due \in BOOLEAN, r \in I2cRead : ImuUpdate(due, r)) /\ UNCHANGED bvars

(* The 10 ms, or the minute, are over when the task comes round.           *)
Looks == (\E r \in I2cRead : ImuUpdate(TRUE, r)) /\ UNCHANGED bvars

TaskBaro == BaroUpdate /\ UNCHANGED ivars

Environment == (Arm \/ Move) /\ UNCHANGED bvars

SensorsInit == ImuInit /\ BaroInit
SensorsNext == TaskImu \/ TaskBaro \/ Environment

(* The scheduler gives the imu task a turn for ever, and time passes.      *)
SensorsSpec ==
  SensorsInit /\ [][SensorsNext]_<<ivars, bvars>> /\ WF_<<ivars, bvars>>(Looks)

(* Type invariant. *)
SensorsTypeOK == ImuTypeOK /\ BaroTypeOK

(* The barometer heals: once the bus has worked for three updates more     *)
(* than a cycle of ms5611_update takes, the altitude it publishes comes    *)
(* from conversions of the quantities it takes them for, whatever was lost *)
(* before.  Only coefficients that were spoiled by ms5611_init stay.       *)
BaroHeals == prom /\ clean = Heals => altitude = "right"

(* imu_gyro_cal calibrates with what it saw at rest: when it is done, the  *)
(* sum holds COLLECT_MAX samples, as the division that follows says, and   *)
(* all that time no look found another acceleration and no update found    *)
(* the vehicle armed.                                                      *)
CalIsOfRest ==
  status = "CAL" => gyro_sum = CollectMax /\ calm = CollectMax /\ accel_start = seen

(* A vehicle that is left alone is calibrated again and again: if it stays *)
(* disarmed and feels one acceleration from some time on, imu_gyro_cal     *)
(* gets to the end of a collection from whatever state it was in.          *)
RestCalibrates ==
  \A a \in Accels : <>[](~armed /\ acc = a) => []<>(status = "CAL")

(* The test of mpu6050_update (src/src/driver/mpu6050.c:65) keeps a failed *)
(* read from being used: a sample comes from one complete reading.         *)
FailedReadUnused == sample \in {"none", "whole"}
=============================================================================
