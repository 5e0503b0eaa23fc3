------------------------------- MODULE MtdLog -------------------------------
(***************************************************************************)
(* The flight log: log_run of src/src/modules/log.c writing records into   *)
(* the two-page buffer of its partition, and mtd_sync of mtd.c moving them *)
(* a page at a time into flash that takes its own time to erase and        *)
(* program.  One action per call of the log task; the chip finishes in     *)
(* between.  Bytes are numbered in the order the buffer accepted them.     *)
(***************************************************************************)
EXTENDS Flash, FiniteSetsExt

CONSTANTS PageSize,        \* FLASH_PAGESIZE
          SectorPages,     \* FLASH_PAGES_PER_SECTOR
          EraseUnit,       \* pages the chip erases for one erase command
          StartSector,     \* sector_start and sector_cnt of mtd_init
          Sectors,
          ChipPages,       \* pages the chip has
          Cleared,         \* pages found erased, on a chip new or cleared
          FormatLen,       \* bytes of format records log_init writes
          Records          \* log_list: the record lengths, in order

ASSUME LogAssumption ==
  /\ PageSize \in Nat /\ PageSize > 1
  /\ SectorPages \in Nat \ {0} /\ EraseUnit \in Nat \ {0}
  /\ StartSector \in Nat /\ Sectors \in Nat \ {0}
  /\ ChipPages \in Nat /\ ChipPages >= (StartSector + Sectors + 1) * SectorPages
  /\ Cleared \subseteq 0 .. ChipPages - 1
  /\ FormatLen \in 0 .. 2 * PageSize
  /\ Records \in Seq(1 .. PageSize - 1)

BufSize    == 2 * PageSize                         \* WRITE_BUF_SIZE
SectorSize == SectorPages * PageSize               \* FLASH_SECTORSIZE
start_addr == StartSector * SectorSize
end_addr   == start_addr + Sectors * SectorSize

VARIABLES
  flash,       \* the chip and its driver
  write_addr, status, has_erase, page_buf, is_full,   \* Mtd
  write_fifo,  \* Mtd's fifo: the numbers of the bytes it holds
  accepted,    \* how many bytes the buffer has accepted
  record       \* Log.record

vars == <<flash, write_addr, status, has_erase, page_buf, is_full,
          write_fifo, accepted, record>>

Pages        == 0 .. ChipPages - 1
Stream(m, n) == [i \in 1 .. n - m |-> m + i]       \* bytes m+1 .. n

(* What page p should hold: the log starts in its partition's first page.  *)
Stored(p) == Stream(p * PageSize - start_addr, (p + 1) * PageSize - start_addr)

TypeOK ==
  /\ flash.page \in [Pages -> {Erased, Garbled} \cup { Stored(p) : p \in Pages }]
  /\ flash.job.on \subseteq Pages
  /\ flash.is_busy \in BOOLEAN
  /\ write_addr \in { p * PageSize : p \in 0 .. ChipPages }
  /\ status \in {"ERASE", "PROGRAM_CONTINUE", "IDLE"}
  /\ has_erase \in BOOLEAN /\ is_full \in BOOLEAN /\ record \in BOOLEAN
  /\ Len(write_fifo) \in 0 .. BufSize
  /\ Len(page_buf) \in {0, PageSize}
  /\ accepted \in Nat

(* mtd_init and the format records of log_init; a page that is not cleared *)
(* holds what a previous flight or the parameters left in it.  param_init  *)
(* has left the chip idle, whether or not the driver has asked it since.   *)
Init ==
  /\ \E asked \in BOOLEAN :
       flash = [page    |-> [p \in Pages |-> IF p \in Cleared THEN Erased ELSE Garbled],
                job     |-> NoJob,
                is_busy |-> ~asked]
  /\ write_addr = start_addr
  /\ status = "IDLE" /\ has_erase = FALSE /\ is_full = FALSE
  /\ page_buf = <<>>
  /\ write_fifo = Stream(0, FormatLen) /\ accepted = FormatLen
  /\ record = TRUE

-----------------------------------------------------------------------------
(* mtd_get_space: what is in the buffer already is not counted. *)
Space(addr) == IF end_addr > addr THEN end_addr - addr ELSE 0

(* Bug: the loop does not stop when the buffer is full. *)
MtdWriteUnchecked(b, len) ==
  IF Space(write_addr) > len
  THEN [fifo     |-> b.fifo \o Stream(b.accepted, b.accepted + len),
        accepted |-> b.accepted + len,
        is_full  |-> FALSE]
  ELSE [b EXCEPT !.is_full = TRUE]

(* mtd_write of len bytes on b = [fifo, accepted, is_full].  The loop      *)
(* stops at the first byte fifo_write refuses: the record is cut there.    *)
MtdWrite(b, len) ==
  IF Space(write_addr) > len
  THEN LET n == Min({len, BufSize - Len(b.fifo)})
       IN  [fifo     |-> b.fifo \o Stream(b.accepted, b.accepted + n),
            accepted |-> b.accepted + n,
            is_full  |-> IF n = len THEN FALSE ELSE b.is_full]
  ELSE [b EXCEPT !.is_full = TRUE]

(* log_run's loop over the records that are due, tested once before it:    *)
(* the buffer after the first k records of log_list.                       *)
LogWrites(due) ==
  LET b == [fifo |-> write_fifo, accepted |-> accepted, is_full |-> is_full]
      after[k \in 0 .. Len(Records)] ==
        IF k = 0 THEN b
        ELSE IF k \in due THEN MtdWrite(after[k - 1], Records[k]) ELSE after[k - 1]
  IN  IF ~is_full /\ record THEN after[Len(Records)] ELSE b

(* Bug: a page the chip refused is given up for the next one. *)
ProgramForgets(buf) ==
  LET p == write_addr \div PageSize
  IN  /\ flash' = PageProgram(flash, p, buf)
      /\ page_buf' = buf
      /\ IF FlashReady(flash)
         THEN /\ write_addr' = write_addr + PageSize
              /\ has_erase' = FALSE
         ELSE UNCHANGED <<write_addr, has_erase>>
      /\ status' = "IDLE"

(* A page of the buffer, or the page that waits in page_buf, goes to the   *)
(* chip; a refusal keeps it there.                                         *)
Program(buf) ==
  LET p == write_addr \div PageSize
  IN  /\ flash' = PageProgram(flash, p, buf)
      /\ page_buf' = buf
      /\ IF FlashReady(flash)
         THEN /\ write_addr' = write_addr + PageSize
              /\ has_erase' = FALSE
              /\ status' = "IDLE"
         ELSE /\ status' = "PROGRAM_CONTINUE"
              /\ UNCHANGED <<write_addr, has_erase>>

(* Bug: the sector is erased again before every page of its start. *)
EraseKeepsNoMark ==
  /\ flash' = EraseSector(flash, write_addr \div PageSize, EraseUnit)
  /\ status' = IF FlashReady(flash) THEN "IDLE" ELSE "ERASE"
  /\ UNCHANGED <<has_erase, page_buf, write_addr>>

(* Bug: an erase the chip refuses is taken for done. *)
EraseUnchecked ==
  /\ flash' = EraseSector(flash, write_addr \div PageSize, EraseUnit)
  /\ has_erase' = TRUE /\ status' = "IDLE"
  /\ UNCHANGED <<page_buf, write_addr>>

Erase ==
  /\ flash' = EraseSector(flash, write_addr \div PageSize, EraseUnit)
  /\ IF FlashReady(flash)
     THEN has_erase' = TRUE /\ status' = "IDLE"
     ELSE status' = "ERASE" /\ UNCHANGED has_erase
  /\ UNCHANGED <<page_buf, write_addr>>

(* mtd_sync's first test. *)
EraseDue == ~has_erase /\ write_addr % SectorSize = 0

(* mtd_sync on the buffer b: one erase, or one page, or nothing. *)
Sync(b) ==
  \/ /\ EraseDue
     /\ Erase /\ write_fifo' = b.fifo
  \/ /\ ~EraseDue /\ status = "PROGRAM_CONTINUE"
     /\ Program(page_buf) /\ write_fifo' = b.fifo
  \/ /\ ~EraseDue /\ status # "PROGRAM_CONTINUE" /\ Len(b.fifo) > PageSize
     /\ Program(SubSeq(b.fifo, 1, PageSize))
     /\ write_fifo' = SubSeq(b.fifo, PageSize + 1, Len(b.fifo))
  \/ /\ ~EraseDue /\ status # "PROGRAM_CONTINUE" /\ Len(b.fifo) <= PageSize
     /\ write_fifo' = b.fifo
     /\ UNCHANGED <<flash, write_addr, status, has_erase, page_buf>>

(* log_run: the records whose time has come, then mtd_sync. *)
LogRun(due) ==
  LET b == LogWrites(due)
  IN  /\ accepted' = b.accepted /\ is_full' = b.is_full
      /\ Sync(b)
      /\ UNCHANGED record

(* log_stop, called when a ground station asks for the log. *)
LogStop ==
  /\ record' = FALSE
  /\ UNCHANGED <<flash, write_addr, status, has_erase, page_buf, is_full,
                 write_fifo, accepted>>

Finish ==
  /\ InProgress(flash)
  /\ flash' = FlashDone(flash)
  /\ UNCHANGED <<write_addr, status, has_erase, page_buf, is_full,
                 write_fifo, accepted, record>>

Next == \/ \E due \in SUBSET DOMAIN Records : LogRun(due)
        \/ LogStop
        \/ Finish

(* The scheduler runs the log task for ever, and the chip finishes what it *)
(* began.                                                                  *)
Spec == Init /\ [][Next]_vars
FairSpec ==
  /\ Spec
  /\ WF_vars(\E due \in SUBSET DOMAIN Records : LogRun(due))
  /\ WF_vars(Finish)
-----------------------------------------------------------------------------
(* Correctness.                                                            *)

(* Every page of the log is one the erase command reaches, as it does when *)
(* the chip erases whole sectors, or was erased before.                    *)
EraseReaches ==
  /\ SectorPages % EraseUnit = 0
  /\ \A p \in Pages :
       start_addr <= p * PageSize /\ p % SectorPages >= EraseUnit => p \in Cleared

(* What page p holds once the chip has finished. *)
Settled(p) == IF p \in flash.job.on THEN flash.job.to ELSE flash.page[p]

(* The log is the stream of accepted bytes: the programmed pages hold its  *)
(* beginning in order, each page once, and the page that waits and the     *)
(* buffer hold the rest, whatever calls the chip refused while it worked.  *)
StreamInOrder ==
  /\ \A p \in Pages :
       start_addr <= p * PageSize /\ p * PageSize < write_addr => Settled(p) = Stored(p)
  /\ (IF status = "PROGRAM_CONTINUE" THEN page_buf ELSE <<>>) \o write_fifo
       = Stream(write_addr - start_addr, accepted)

(* mtd.c:185, "when addr over a sector, erase": the pages of the sector    *)
(* that are still to be programmed are erased ones.                        *)
ErasedAhead ==
  has_erase \/ write_addr % SectorSize # 0 =>
    \A p \in Pages :
      /\ write_addr <= p * PageSize
      /\ p \div SectorPages = write_addr \div SectorSize
      => Settled(p) = Erased

(* The log drains: again and again flash holds all but a page of what was  *)
(* accepted.  Records are refused only for a while, and log_stop loses no  *)
(* more than that page.                                                    *)
LogDrains == []<>(accepted - (write_addr - start_addr) <= PageSize)

(* mtd.c:185 and :189 together with the bound mtd_init checks: the log     *)
(* erases and programs the sectors it was given.                           *)
OwnPartition ==
  \A p \in flash.job.on : start_addr <= p * PageSize /\ p * PageSize < end_addr
=============================================================================
