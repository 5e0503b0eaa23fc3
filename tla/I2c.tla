--------------------------------- MODULE I2c --------------------------------
(***************************************************************************)
(* What a transfer of src/src/driver/i2c.c can come to: the value the call *)
(* returns, and what has happened on the bus.  Every wait for a flag may   *)
(* time out, also the last one, when all bytes are through.                *)
(***************************************************************************)
EXTENDS Integers

(* Bug: a read that times out returns what i2c_write returns then. *)
I2cReadNegative ==
  {[ret |-> 1, got |-> "all"]} \cup [ret : {-1}, got : {"nothing", "part", "all"}]

(* i2c_read: a timeout returns false, which is 0.                          *)
I2cRead ==
  {[ret |-> 1, got |-> "all"]} \cup [ret : {0}, got : {"nothing", "part", "all"}]

(* i2c_write: a bus that is busy returns false, which is success here.     *)
I2cWrite ==
  {[ret |-> 0, sent |-> TRUE], [ret |-> 0, sent |-> FALSE]}
    \cup [ret : {-1}, sent : BOOLEAN]
=============================================================================
