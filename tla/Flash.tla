-------------------------------- MODULE Flash -------------------------------
(***************************************************************************)
(* The NOR flash chip and its driver, src/src/driver/spi_flash.c, as a     *)
(* record value.  A chip obeys an erase or a program in its own time: the  *)
(* driver sends the command and returns, and the chip is busy until it     *)
(* finishes.  The driver refuses a call made while it is.                  *)
(*                                                                         *)
(* A page holds Erased, Garbled or a tuple of units: what was programmed   *)
(* into it last, over what it held before.                                 *)
(* Transfers do not time out: the port is the SPI master, and clocks its   *)
(* own bytes.                                                              *)
(***************************************************************************)
EXTENDS Integers, Sequences

Erased  == <<>>
Garbled == <<"garbled">>   \* neither erased nor what anyone programmed
Junk    == "junk"          \* a unit nobody programmed

NoJob == [on |-> {}, to |-> Erased]

(* The chip after spi_flash_init.  A chip at work does not answer RDID:    *)
(* the driver takes it for none of its table and goes on, is_busy FALSE.   *)
FlashBoot(page, job) == [page |-> page, job |-> job, is_busy |-> job.on = {}]

(* The WRITE_IN_PROGRESS bit of the status register. *)
InProgress(f) == f.job.on # {}

(* spi_flash_readBytes from the start of page p, when the driver does not  *)
(* refuse: a chip at work does not answer.                                 *)
ReadPage(f, p) == IF InProgress(f) THEN Garbled ELSE f.page[p]

(* Bug: the driver does not ask the chip. *)
FlashPollOptimist(f) == [f EXCEPT !.is_busy = FALSE]

(* spi_flash_isReady: the driver asks the chip only if it has sent it      *)
(* something since it was last found ready.                                *)
FlashPoll(f) == [f EXCEPT !.is_busy = @ /\ InProgress(f)]
FlashReady(f) == ~FlashPoll(f).is_busy

(* Bug: sending a command does not make the driver ask again. *)
WriteEnableSilent(f) == f

(* spi_flash_writeEnable. *)
WriteEnable(f) == [f EXCEPT !.is_busy = TRUE]

(* The chip takes a command unless it is at work: the pages it works on    *)
(* read as neither their old content nor the new until it is done.         *)
Obey(f, on, to) ==
  IF InProgress(f) THEN f
  ELSE [f EXCEPT !.job  = [on |-> on, to |-> to],
                 !.page = [p \in DOMAIN @ |-> IF p \in on THEN Garbled ELSE @[p]]]

(* The chip finishes. *)
FlashDone(f) ==
  [f EXCEPT !.job  = NoJob,
            !.page = [p \in DOMAIN @ |-> IF p \in f.job.on THEN f.job.to ELSE @[p]]]

(* spi_flash_eraseSector(p): the unit pages around p.  A refused call      *)
(* leaves the chip alone.                                                  *)
EraseSector(f, p, unit) ==
  LET polled == FlashPoll(f)
  IN  IF polled.is_busy THEN polled
      ELSE Obey(WriteEnable(polled),
                {q \in DOMAIN f.page : q \div unit = p \div unit}, Erased)

(* Programming only clears bits: over a page that was not erased, a unit   *)
(* reads back only if it held the same before.                             *)
Over(old, data) ==
  IF old = Erased THEN data
  ELSE IF Garbled \in {old, data} THEN Garbled
  ELSE [k \in DOMAIN data |->
          IF k \in DOMAIN old /\ old[k] = data[k] THEN data[k] ELSE Junk]

(* spi_flash_pageProgram(p). *)
PageProgram(f, p, data) ==
  LET polled == FlashPoll(f)
  IN  IF polled.is_busy THEN polled
      ELSE Obey(WriteEnable(polled),
                {p} \cap DOMAIN f.page, Over(f.page[p], data))
=============================================================================
