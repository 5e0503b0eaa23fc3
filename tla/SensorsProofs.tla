---------------------------- MODULE SensorsProofs ---------------------------
(***************************************************************************)
(* Proofs about Sensors for every number of samples and of pressures per   *)
(* temperature: the inductive invariants of the barometer and of the       *)
(* calibration, and the safety properties they imply.                      *)
(***************************************************************************)
EXTENDS Sensors, TLAPS

(* How many updates ago the last temperature was collected. *)
Since ==
  (IF measure_phase = 0 THEN 2 * Ratio ELSE 2 * (measure_phase - 1))
    + (IF collect_phase THEN 1 ELSE 0)

(* When that temperature's conversion and collection were clean, its terms *)
(* are right by the chip's coefficients, and so is every altitude after    *)
(* it; one pressure later than a temperature the altitude is still of the  *)
(* cycle before.                                                           *)
BaroInv ==
  /\ BaroTypeOK
  /\ collect_phase /\ clean >= 1 => conversion = Wanted
  /\ prom /\ clean >= Since + 2 => terms
  /\ prom /\ measure_phase # 1 /\ clean >= Since + 2 => altitude = "right"
  /\ prom /\ measure_phase = 1 /\ clean >= Since + Cycle + 2 => altitude = "right"

(* The sum holds what the count says, and the looks behind the first of a  *)
(* collection found what that one found.                                   *)
CalInv ==
  /\ ImuTypeOK
  /\ gyro_sum = collect_cnt
  /\ status = "COLLECT" =>
       collect_cnt = 0 \/ (accel_start = seen /\ calm >= collect_cnt - 1)
  /\ status = "CAL" =>
       collect_cnt = CollectMax /\ calm = CollectMax /\ accel_start = seen

-----------------------------------------------------------------------------
(* The barometer. *)

LEMMA BaroStarts == BaroInit => BaroInv
<1> SUFFICES ASSUME BaroInit PROVE BaroInv
  OBVIOUS
<1>1. BaroTypeOK
  <2>1. collect_phase \in BOOLEAN /\ prom \in BOOLEAN /\ terms \in BOOLEAN
    BY Zenon DEF BaroInit
  <2> QED
    BY <2>1, Ms5611Assumption DEF BaroInit, BaroTypeOK, Heals, Cycle
<1> QED
  BY <1>1, Ms5611Assumption DEF BaroInit, BaroInv, Since, Cycle

(* What Counts does to the count of clean updates. *)
LEMMA CountsUp ==
  ASSUME NEW ok, BaroTypeOK, Counts(ok)
  PROVE  /\ clean' \in 0 .. Heals
         /\ ~ok => clean' = 0
         /\ ok => clean' = clean + 1 \/ (clean' = Heals /\ clean = Heals)
BY Ms5611Assumption DEF BaroTypeOK, Counts, Heals, Cycle

LEMMA ConvertInv == BaroInv /\ Convert => BaroInv'
<1> SUFFICES ASSUME BaroInv, Convert PROVE BaroInv'
  OBVIOUS
<1>1. PICK w \in I2cWrite :
        /\ conversion' = IF w.sent THEN Wanted ELSE conversion
        /\ Counts(w.sent)
  BY DEF Convert
<1>2. /\ ~collect_phase /\ collect_phase'
      /\ measure_phase' = measure_phase /\ prom' = prom /\ terms' = terms
      /\ altitude' = altitude
  BY DEF Convert
<1>3. /\ clean' \in 0 .. Heals
      /\ ~w.sent => clean' = 0
      /\ w.sent => clean' = clean + 1 \/ (clean' = Heals /\ clean = Heals)
  BY <1>1, CountsUp DEF BaroInv
<1>4. BaroTypeOK'
  <2>1. collect_phase' \in BOOLEAN /\ prom' \in BOOLEAN /\ terms' \in BOOLEAN
    BY Zenon, <1>2 DEF Convert, BaroInv, BaroTypeOK
  <2>2. conversion' \in {"none", "temperature", "pressure"}
    BY <1>1 DEF BaroInv, BaroTypeOK, Wanted
  <2> QED
    BY <1>2, <1>3, <2>1, <2>2 DEF BaroInv, BaroTypeOK, Heals, Cycle
<1>5. collect_phase' /\ clean' >= 1 => conversion' = Wanted'
  BY <1>1, <1>2, <1>3 DEF Wanted
<1>6. /\ clean \in 0 .. Heals /\ measure_phase \in 0 .. Ratio
      /\ Since \in 0 .. 2 * Ratio /\ Since' = Since + 1
  BY <1>2, Ms5611Assumption DEF BaroInv, BaroTypeOK, Since
<1>7. measure_phase = 1 => Since = 0
  BY <1>2, <1>6 DEF Since
<1>8. clean' >= Since' + 2 => clean >= Since + 2
  BY <1>3, <1>6, Ms5611Assumption DEF Heals, Cycle
<1>9. measure_phase = 1 /\ clean' >= Since' + Cycle + 2 => clean >= Since + Cycle + 2
  BY <1>3, <1>6, <1>7, Ms5611Assumption DEF Heals, Cycle
<1> QED
  BY <1>2, <1>4, <1>5, <1>8, <1>9 DEF BaroInv, Cycle

LEMMA CollectInv == BaroInv /\ Collect => BaroInv'
<1> SUFFICES ASSUME BaroInv, Collect PROVE BaroInv'
  OBVIOUS
<1> DEFINE Right(r) == r.got = "all" /\ conversion = Wanted
<1>1. PICK r \in I2cRead :
        /\ IF measure_phase = 0
           THEN terms' = (Right(r) /\ prom) /\ UNCHANGED altitude
           ELSE /\ altitude' = IF Right(r) /\ terms THEN "right" ELSE "wrong"
                /\ UNCHANGED terms
        /\ conversion' \in IF r.got = "all" THEN {"none"} ELSE {"none", conversion}
        /\ Counts(r.got = "all")
  BY DEF Collect
<1>2. /\ collect_phase /\ ~collect_phase' /\ prom' = prom
      /\ measure_phase' = IF measure_phase = Ratio THEN 0 ELSE measure_phase + 1
  BY DEF Collect, NextPhase
<1>3. /\ clean' \in 0 .. Heals
      /\ r.got # "all" => clean' = 0
      /\ r.got = "all" => clean' = clean + 1 \/ (clean' = Heals /\ clean = Heals)
  BY <1>1, CountsUp DEF BaroInv
<1>4. /\ clean \in 0 .. Heals /\ measure_phase \in 0 .. Ratio
      /\ measure_phase' \in 0 .. Ratio
  BY <1>2, Ms5611Assumption DEF BaroInv, BaroTypeOK
<1>5. BaroTypeOK'
  <2>1. collect_phase' \in BOOLEAN /\ prom' \in BOOLEAN /\ terms' \in BOOLEAN
    BY Zenon, <1>1, <1>2 DEF Collect, BaroInv, BaroTypeOK
  <2>2. /\ conversion' \in {"none", "temperature", "pressure"}
        /\ altitude' \in {"none", "right", "wrong"}
    BY <1>1 DEF BaroInv, BaroTypeOK
  <2> QED
    BY <1>3, <1>4, <2>1, <2>2 DEF BaroTypeOK, Heals, Cycle
<1>6. clean >= 1 => conversion = Wanted
  BY <1>2 DEF BaroInv
<1>7. clean' >= 2 => r.got = "all" /\ clean >= 1
  BY <1>3, <1>4, Ms5611Assumption DEF Heals, Cycle
<1>8. CASE measure_phase = 0
  <2>1. Since = 2 * Ratio + 1 /\ Since' = 0 /\ measure_phase' = 1
    BY <1>2, <1>8, Ms5611Assumption DEF Since
  <2>2. prom /\ clean' >= 2 => terms'
    BY <1>1, <1>6, <1>7, <1>8
  <2>3. clean' >= Cycle + 2 => clean >= Since + 2
    BY <1>3, <1>4, <2>1, Ms5611Assumption DEF Heals, Cycle
  <2>4. prom /\ clean >= Since + 2 => altitude' = "right"
    BY <1>1, <1>8, Ms5611Assumption DEF BaroInv
  <2>5. Cycle' = Cycle /\ Cycle \in Nat
    BY Ms5611Assumption DEF Cycle
  <2> QED
    BY <1>2, <1>5, <2>1, <2>2, <2>3, <2>4, <2>5 DEF BaroInv
<1>9. CASE measure_phase # 0
  <2>1. /\ Since = 2 * measure_phase - 1 /\ Since' = 2 * measure_phase
        /\ measure_phase' # 1
    BY <1>2, <1>4, <1>9, Ms5611Assumption DEF Since
  <2>2. clean' >= Since' + 2 => clean >= Since + 2 /\ clean' >= 2
    BY <1>3, <1>4, <2>1, Ms5611Assumption DEF Heals, Cycle
  <2>3. prom /\ clean >= Since + 2 => terms /\ terms'
    BY <1>1, <1>9 DEF BaroInv
  <2>4. prom /\ clean' >= Since' + 2 => altitude' = "right"
    BY <1>1, <1>6, <1>7, <1>9, <2>2, <2>3
  <2> QED
    BY <1>2, <1>5, <2>1, <2>2, <2>3, <2>4 DEF BaroInv
<1> QED
  BY <1>8, <1>9

LEMMA BaroStutters == BaroInv /\ UNCHANGED bvars => BaroInv'
BY DEF BaroInv, BaroTypeOK, bvars, Since, Wanted, Heals, Cycle

-----------------------------------------------------------------------------
(* The calibration. *)

LEMMA CalStarts == ImuInit => CalInv
<1> SUFFICES ASSUME ImuInit PROVE CalInv
  OBVIOUS
<1>1. armed \in BOOLEAN /\ gyro_need_cal \in BOOLEAN
  BY Zenon DEF ImuInit
<1> QED
  BY <1>1, ImuAssumption DEF ImuInit, CalInv, ImuTypeOK

(* A sample is an acceleration, or the one from before. *)
LEMMA SampleType ==
  ASSUME NEW r \in I2cRead, ImuTypeOK, Sample(r)
  PROVE  /\ acc' \in Accels \cup {"zero"}
         /\ sample' \in {"none", "whole", "mixed", "old", "unset"}
<1>1. /\ r.got \in {"nothing", "part", "all"}
      /\ r.ret \in {0, 1}
  BY DEF I2cRead
<1>2. CASE r.got = "all"
  BY <1>1, <1>2 DEF Sample, ImuTypeOK
<1>3. CASE r.got = "part"
  BY <1>1, <1>3 DEF Sample, ImuTypeOK
<1>4. CASE r.got = "nothing"
  BY <1>1, <1>4 DEF Sample, ImuTypeOK
<1> QED
  BY <1>1, <1>2, <1>3, <1>4

LEMMA UpdateInv ==
  ASSUME NEW due \in BOOLEAN, NEW r \in I2cRead, CalInv, ImuUpdate(due, r)
  PROVE  CalInv'
<1>1. /\ Sample(r) /\ Watch(due)
      /\ Collecting(due) \/ Calibrated \/ Idle(due)
      /\ armed' = armed /\ felt' = felt
  BY DEF ImuUpdate
<1>2. /\ acc' \in Accels \cup {"zero"}
      /\ sample' \in {"none", "whole", "mixed", "old", "unset"}
  BY <1>1, SampleType DEF CalInv
<1>3. /\ seen' = IF due THEN acc' ELSE seen
      /\ calm' = IF armed \/ (due /\ acc' # seen) THEN 0
                 ELSE IF due /\ calm < CollectMax THEN calm + 1 ELSE calm
      /\ seen' \in Accels \cup {"zero"} /\ calm' \in 0 .. CollectMax
  BY <1>1, <1>2, ImuAssumption DEF Watch, CalInv, ImuTypeOK
<1>4. armed' \in BOOLEAN /\ felt' \in Accels
  BY Zenon, <1>1 DEF CalInv, ImuTypeOK
<1>5. CASE Collecting(due)
  <2>1. gyro_need_cal' \in BOOLEAN
    BY Zenon, <1>5 DEF Collecting, CalInv, ImuTypeOK
  <2>2. /\ status' \in {"COLLECT", "CAL", "IDEL"}
        /\ accel_start' \in Accels \cup {"zero"}
        /\ collect_cnt' \in 0 .. CollectMax /\ gyro_sum' = collect_cnt'
    BY <1>2, <1>5, ImuAssumption DEF Collecting, Restarts, CalInv, ImuTypeOK
  <2>3. ImuTypeOK'
    BY <1>2, <1>3, <1>4, <2>1, <2>2 DEF ImuTypeOK
  <2>4. /\ status' = "COLLECT" =>
             collect_cnt' = 0 \/ (accel_start' = seen' /\ calm' >= collect_cnt' - 1)
        /\ status' = "CAL" =>
             collect_cnt' = CollectMax /\ calm' = CollectMax /\ accel_start' = seen'
    BY <1>3, <1>5, ImuAssumption DEF Collecting, Restarts, CalInv, ImuTypeOK
  <2> QED
    BY <2>2, <2>3, <2>4 DEF CalInv
<1>6. CASE Calibrated
  <2>1. gyro_need_cal' \in BOOLEAN
    BY Zenon, <1>6 DEF Calibrated
  <2>2. /\ status' = "IDEL" /\ collect_cnt' = collect_cnt
        /\ accel_start' = accel_start /\ gyro_sum' = gyro_sum
    BY <1>6 DEF Calibrated
  <2> QED
    BY <1>2, <1>3, <1>4, <2>1, <2>2 DEF CalInv, ImuTypeOK
<1>7. CASE Idle(due)
  <2>1. gyro_need_cal' \in BOOLEAN
    BY Zenon, <1>7 DEF Idle, NeedsCal, CalInv, ImuTypeOK
  <2>2. \/ status' = "COLLECT" /\ accel_start' = acc' /\ gyro_sum' = 0 /\ collect_cnt' = 0
        \/ /\ status' = "IDEL" /\ collect_cnt' = collect_cnt
           /\ accel_start' = accel_start /\ gyro_sum' = gyro_sum
    BY <1>7 DEF Idle, Restarts
  <2> QED
    BY <1>2, <1>3, <1>4, <2>1, <2>2, ImuAssumption DEF CalInv, ImuTypeOK
<1> QED
  BY <1>1, <1>5, <1>6, <1>7

LEMMA EnvironmentInv == CalInv /\ (Arm \/ Move) => CalInv'
<1> SUFFICES ASSUME CalInv, Arm \/ Move PROVE CalInv'
  OBVIOUS
<1>1. /\ acc' = acc /\ sample' = sample /\ UNCHANGED cvars
      /\ seen' = seen /\ calm' = calm
  BY DEF Arm, Move
<1>2. armed' \in BOOLEAN /\ felt' \in Accels
  BY Zenon DEF Arm, Move, CalInv, ImuTypeOK
<1> QED
  BY <1>1, <1>2 DEF cvars, CalInv, ImuTypeOK

LEMMA CalStutters == CalInv /\ UNCHANGED ivars => CalInv'
BY DEF CalInv, ImuTypeOK, ivars, cvars

-----------------------------------------------------------------------------
(* Both invariants hold in every reachable state. *)
THEOREM SensorsInvariant == SensorsSpec => [](BaroInv /\ CalInv)
<1>1. SensorsInit => BaroInv /\ CalInv
  BY BaroStarts, CalStarts DEF SensorsInit
<1>2. BaroInv /\ CalInv /\ [SensorsNext]_<<ivars, bvars>> => (BaroInv /\ CalInv)'
  <2> SUFFICES ASSUME BaroInv, CalInv, [SensorsNext]_<<ivars, bvars>>
               PROVE  BaroInv' /\ CalInv'
    OBVIOUS
  <2>1. CASE TaskImu
    BY <2>1, UpdateInv, BaroStutters DEF TaskImu
  <2>2. CASE TaskBaro
    BY <2>2, ConvertInv, CollectInv, CalStutters DEF TaskBaro, BaroUpdate
  <2>3. CASE Environment
    BY <2>3, EnvironmentInv, BaroStutters DEF Environment
  <2>4. CASE UNCHANGED <<ivars, bvars>>
    BY <2>4, BaroStutters, CalStutters
  <2> QED
    BY <2>1, <2>2, <2>3, <2>4 DEF SensorsNext
<1> QED
  BY <1>1, <1>2, PTL DEF SensorsSpec

(* Types: every count, phase and class stays in its range. *)
THEOREM SensorsTypes == SensorsSpec => []SensorsTypeOK
<1>1. BaroInv /\ CalInv => SensorsTypeOK
  BY DEF BaroInv, CalInv, SensorsTypeOK
<1> QED
  BY <1>1, SensorsInvariant, PTL

(* ms5611_update heals: whatever the bus did before, a cycle of clean      *)
(* updates and three more make the altitude right, for every ratio of      *)
(* pressures to temperatures, if ms5611_init has read the coefficients.    *)
THEOREM BarometerHeals == SensorsSpec => []BaroHeals
<1>1. BaroInv => BaroHeals
  <2> SUFFICES ASSUME BaroInv, prom, clean = Heals PROVE altitude = "right"
    BY DEF BaroHeals
  <2>1. /\ measure_phase = 1 => Since + Cycle + 2 <= Heals
        /\ Since + 2 <= Heals
    BY Ms5611Assumption DEF BaroInv, BaroTypeOK, Since, Heals, Cycle
  <2> QED
    BY <2>1, Ms5611Assumption DEF BaroInv, BaroTypeOK, Since, Heals, Cycle
<1> QED
  BY <1>1, SensorsInvariant, PTL

(* imu_gyro_cal ends a collection with COLLECT_MAX samples of a vehicle    *)
(* that no look found moved and no update found armed, for every           *)
(* COLLECT_MAX.                                                            *)
THEOREM CalibratesAtRest == SensorsSpec => []CalIsOfRest
<1>1. CalInv => CalIsOfRest
  BY DEF CalInv, CalIsOfRest
<1> QED
  BY <1>1, SensorsInvariant, PTL
=============================================================================
