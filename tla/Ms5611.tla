------------------------------- MODULE Ms5611 -------------------------------
(***************************************************************************)
(* The barometer of src/src/driver/ms5611.c: an update starts a conversion *)
(* or collects it, the first of a cycle for the temperature, the others    *)
(* for the pressure, which needs the temperature's terms.  No return value *)
(* of a transfer is looked at.                                             *)
(*                                                                         *)
(* A value is abstracted to whether it comes from the conversions it is    *)
(* computed from.                                                          *)
(***************************************************************************)
EXTENDS I2c

CONSTANT Ratio   \* MS5611_MEASUREMENT_RATIO

ASSUME Ms5611Assumption == Ratio \in Nat \ {0}

VARIABLES
  collect_phase, measure_phase,
  prom,        \* the coefficients are the chip's
  terms,       \* TEMP, OFF and SENS come from a temperature, by them
  altitude,    \* what was published last: "none", "right" or "wrong"
  conversion,  \* the chip's: of which quantity a result waits
  clean        \* updates in a row whose transfer did what it should

bvars == <<collect_phase, measure_phase, prom, terms, altitude, conversion, clean>>

(* A cycle of updates, and the worst that is left of a spoiled one: the    *)
(* collection of a temperature whose conversion was lost, and the pressure *)
(* conversion after the next temperature.                                  *)
Cycle == 2 * (Ratio + 1)
Heals == Cycle + 3

BaroTypeOK ==
  /\ collect_phase \in BOOLEAN
  /\ measure_phase \in 0 .. Ratio
  /\ prom \in BOOLEAN /\ terms \in BOOLEAN
  /\ altitude \in {"none", "right", "wrong"}
  /\ conversion \in {"none", "temperature", "pressure"}
  /\ clean \in 0 .. Heals

(* ms5611_init, once after power up.  A word of the PROM that is not read  *)
(* whole spoils the coefficients; the checksum only decides what the call  *)
(* returns, which sensor_init (src/src/pilot/sensor.c:157) does not look   *)
(* at, and the statics it did not reach are zero already.                  *)
BaroInit ==
  /\ \E r \in I2cRead : prom = (r.got = "all")
  /\ collect_phase = FALSE /\ measure_phase = 0
  /\ terms = FALSE /\ altitude = "none"
  /\ conversion = "none" /\ clean = 0

Counts(ok) == clean' = IF ~ok THEN 0 ELSE IF clean = Heals THEN clean ELSE clean + 1

Wanted == IF measure_phase = 0 THEN "temperature" ELSE "pressure"

(* A conversion is asked for; the chip hears it, or does nothing.          *)
Convert ==
  /\ ~collect_phase
  /\ \E w \in I2cWrite :
       /\ conversion' = IF w.sent THEN Wanted ELSE conversion
       /\ Counts(w.sent)
  /\ collect_phase' = TRUE
  /\ UNCHANGED <<measure_phase, prom, terms, altitude>>

(* Bug: the cycle starts anew with a pressure. *)
NextPhaseSkips == IF measure_phase = Ratio THEN 1 ELSE measure_phase + 1

(* Bug: one pressure more. *)
NextPhaseLate == IF measure_phase > Ratio THEN 0 ELSE measure_phase + 1

NextPhase == IF measure_phase = Ratio THEN 0 ELSE measure_phase + 1

(* ms5611_read_adc: reading takes the result out of the chip.  A read that *)
(* does not get all leaves some of the caller's bytes unwritten; the chip  *)
(* may have seen it or not.                                                *)
Collect ==
  /\ collect_phase
  /\ \E r \in I2cRead :
       LET right == r.got = "all" /\ conversion = Wanted
       IN  /\ IF measure_phase = 0
              THEN terms' = (right /\ prom) /\ UNCHANGED altitude
              ELSE /\ altitude' = IF right /\ terms THEN "right" ELSE "wrong"
                   /\ UNCHANGED terms
           /\ conversion' \in IF r.got = "all" THEN {"none"} ELSE {"none", conversion}
           /\ Counts(r.got = "all")
  /\ measure_phase' = NextPhase
  /\ collect_phase' = FALSE
  /\ UNCHANGED prom

(* ms5611_update, which baro_update calls. *)
BaroUpdate == Convert \/ Collect
=============================================================================
