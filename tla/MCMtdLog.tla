------------------------------ MODULE MCMtdLog ------------------------------
(* A log of two sectors of four pages behind the parameter sector, on a    *)
(* chip with one sector more.  The records are in the proportions of       *)
(* log.c's three (55, 55 and 19 bytes of a page of 256).                   *)
EXTENDS MtdLog

RecordLengths == <<3, 3, 1>>
=============================================================================
