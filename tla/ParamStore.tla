----------------------------- MODULE ParamStore -----------------------------
(***************************************************************************)
(* Parameters in RAM and their copy in the first flash sector: param_init, *)
(* param_set_val, param_store_reset and param_store_load of                *)
(* src/src/modules/param.c over mtd_write, mtd_read and mtd_sync_sector of *)
(* mtd.c.  The log writes to the same chip between two of these calls and  *)
(* leaves it at work; the processor resets and the power fails anywhere.   *)
(*                                                                         *)
(* A snapshot is the header (magic and total) and the values, one unit of  *)
(* storage each.  mtd_sync_sector polls and waits, so it is several steps. *)
(***************************************************************************)
EXTENDS Flash, SequencesExt, FiniteSetsExt

CONSTANTS Params,       \* how many parameters: PARAM_LIST_MAX
          Values,       \* what a parameter may be set to
          PageSize,     \* units in a page
          SectorPages,  \* FLASH_PAGES_PER_SECTOR
          CutsPrograms, \* a page program cut short may leave a part of the page
          MaxBoots      \* bound on resets and power failures

ASSUME StoreAssumption ==
  /\ Params \in Nat \ {0}
  /\ PageSize \in Nat /\ PageSize > 1 /\ 1 + Params <= PageSize
  /\ SectorPages \in Nat /\ SectorPages > 1   \* a sector takes a full buffer
  /\ CutsPrograms \in BOOLEAN /\ MaxBoots \in Nat

Header  == "header"     \* PARAM_MAGIC and PARAM_LIST_MAX
Default == "default"    \* the value compiled into param_list

BufSize  == 2 * PageSize                     \* WRITE_BUF_SIZE
LogPage  == SectorPages                      \* a page of the log's partition
Pages    == 0 .. SectorPages
Unset    == [i \in 1 .. PageSize |-> Junk]   \* page_buf at power-up

VARIABLES
  ram,         \* param_list[i].val
  flash,       \* the chip and its driver
  write_fifo,  \* the parameter partition's buffer
  page_buf,    \* and its page
  pc,          \* where the main loop stands
  page,        \* mtd_sync_sector: j, the page to program next
  data_end,    \* and whether the page in page_buf is the last
  missed,      \* a call since the last restart found the chip at work
  unerased,    \* the last erase was sent to a chip at work, and ignored
  held,        \* every content RAM has had
  boots        \* resets and power failures so far

vars == <<ram, flash, write_fifo, page_buf, pc, page, data_end, missed, unerased, held, boots>>

Contents == [1 .. Params -> Values \cup {Default, Junk}]
Units    == Values \cup {Default, Junk, Header}

TypeOK ==
  /\ ram \in Contents
  /\ flash.job.on \subseteq Pages /\ flash.is_busy \in BOOLEAN
  /\ Len(write_fifo) <= BufSize /\ Range(write_fifo) \subseteq Units
  /\ page_buf \in [1 .. PageSize -> Units]
  /\ pc \in {"boot", "idle", "erase", "fill", "program", "wait"}
  /\ page \in 0 .. SectorPages
  /\ data_end \in BOOLEAN /\ missed \in BOOLEAN /\ unerased \in BOOLEAN
  /\ held \subseteq Contents /\ ram \in held
  /\ boots \in 0 .. MaxBoots

Compiled == [i \in 1 .. Params |-> Default]
Snapshot(r) == <<Header>> \o r

(* A chip never written to, at power-up. *)
Init ==
  /\ ram = Compiled /\ held = {Compiled}
  /\ flash = FlashBoot([p \in Pages |-> Erased], NoJob)
  /\ write_fifo = <<>> /\ page_buf = Unset
  /\ pc = "boot" /\ page = 0 /\ data_end = FALSE
  /\ missed = FALSE /\ unerased = FALSE /\ boots = 0

-----------------------------------------------------------------------------
(* Bug: nothing limits what is queued. *)
MtdWritesUnchecked(fifo, units) == fifo \o units

(* mtd_write, unit after unit: what does not fit is refused. *)
MtdWrites(fifo, units) ==
  LET all == fifo \o units
  IN  SubSeq(all, 1, Min({Len(all), BufSize}))

(* param_store_reset up to mtd_sync_sector.  mtd_seek_write does not empty *)
(* the buffer.                                                             *)
Queue(r) ==
  /\ write_fifo' = MtdWrites(write_fifo, Snapshot(r))
  /\ pc' = "erase" /\ page' = 0

(* The test of param_init. *)
HeaderGood(content) == Len(content) = PageSize /\ content[1] = Header

(* param_init.  The driver never refuses its read: a chip it identified    *)
(* was idle.  A chip at work is read all the same, and shows no header.    *)
(* Only the header tells whether what is read was ever stored: a page half *)
(* programmed, or programmed over another, may show a good one over values *)
(* that are not.                                                           *)
LoadedAs(r) ==
  /\ ram' = r /\ held' = held \cup {r}
  /\ pc' = "idle"
  /\ UNCHANGED <<write_fifo, page>>

Boot ==
  /\ pc = "boot"
  /\ flash' = FlashPoll(flash)
  /\ LET first == ReadPage(flash, 0)
     IN  \/ /\ HeaderGood(first)
            /\ LoadedAs([i \in 1 .. Params |-> first[i + 1]])
         \/ /\ ~HeaderGood(first)
            /\ Queue(ram)
            /\ UNCHANGED <<ram, held>>
  /\ UNCHANGED <<page_buf, data_end, missed, unerased, boots>>

(* param_set_val. *)
Set(i, v) ==
  /\ pc = "idle"
  /\ ram' = [ram EXCEPT ![i] = v] /\ held' = held \cup {ram'}
  /\ Queue(ram')
  /\ UNCHANGED <<flash, page_buf, data_end, missed, unerased, boots>>

-----------------------------------------------------------------------------
(* mtd_sync_sector(1).  The erase is tried once.  The driver refuses it if *)
(* it knows the chip to be at work, and takes it for done if it does not.  *)
TryErase ==
  /\ pc = "erase"
  /\ flash' = EraseSector(flash, 0, SectorPages)
  /\ missed' = (missed \/ InProgress(flash))
  /\ IF FlashReady(flash)
     THEN pc' = "fill" /\ unerased' = InProgress(flash)
     ELSE pc' = "wait" /\ UNCHANGED unerased
  /\ UNCHANGED <<ram, write_fifo, page_buf, page, data_end, held, boots>>

(* Bug: the loop that fills page_buf stops one unit early. *)
TakenOneShort(fifo, buf) ==
  [k \in 1 .. PageSize |-> IF k < Len(fifo) THEN fifo[k] ELSE buf[k]]

(* page_buf after the loop: what the buffer lacks stays as it was. *)
Taken(fifo, buf) ==
  [k \in 1 .. PageSize |-> IF k <= Len(fifo) THEN fifo[k] ELSE buf[k]]

Fill ==
  /\ pc = "fill"
  /\ LET n == Min({Len(write_fifo), PageSize})
     IN  /\ page_buf' = Taken(write_fifo, page_buf)
         /\ write_fifo' = SubSeq(write_fifo, n + 1, Len(write_fifo))
         /\ data_end' = (n < PageSize)
  /\ pc' = "program"
  /\ UNCHANGED <<ram, flash, page, missed, unerased, held, boots>>

(* Bug: a page the chip refuses is not tried again. *)
TryProgramOnce ==
  /\ pc = "program"
  /\ flash' = PageProgram(flash, page, page_buf)
  /\ page' = page + 1
  /\ pc' = IF data_end \/ page + 1 = SectorPages THEN "wait" ELSE "fill"
  /\ UNCHANGED <<ram, write_fifo, page_buf, data_end, missed, unerased, held, boots>>

(* One turn of the loop at page_program. *)
TryProgram ==
  /\ pc = "program"
  /\ flash' = PageProgram(flash, page, page_buf)
  /\ IF FlashReady(flash)
     THEN /\ page' = page + 1
          /\ pc' = IF data_end \/ page + 1 = SectorPages THEN "wait" ELSE "fill"
     ELSE UNCHANGED <<page, pc>>
  /\ UNCHANGED <<ram, write_fifo, page_buf, data_end, missed, unerased, held, boots>>

(* Bug: the closing wait asks for the opposite of the status bit. *)
WaitInverted ==
  /\ pc = "wait" /\ InProgress(flash)
  /\ pc' = "idle"
  /\ UNCHANGED <<ram, flash, write_fifo, page_buf, page, data_end, missed, unerased, held, boots>>

(* The closing loop reads the status register until the chip is done. *)
Wait ==
  /\ pc = "wait" /\ ~InProgress(flash)
  /\ pc' = "idle"
  /\ UNCHANGED <<ram, flash, write_fifo, page_buf, page, data_end, missed, unerased, held, boots>>

-----------------------------------------------------------------------------
(* Between two calls the log task sends the chip an erase or a program. *)
LogCommands ==
  /\ pc = "idle"
  /\ flash' = PageProgram(flash, LogPage, Garbled)
  /\ UNCHANGED <<ram, write_fifo, page_buf, pc, page, data_end, missed, unerased, held, boots>>

Finish ==
  /\ InProgress(flash)
  /\ flash' = FlashDone(flash)
  /\ UNCHANGED <<ram, write_fifo, page_buf, pc, page, data_end, missed, unerased, held, boots>>

(* main again from its start. *)
Restart(pages, job) ==
  /\ boots < MaxBoots /\ boots' = boots + 1
  /\ flash' = FlashBoot(pages, job)
  /\ ram' = Compiled
  /\ write_fifo' = <<>> /\ page_buf' = Unset
  /\ pc' = "boot" /\ page' = 0 /\ data_end' = FALSE /\ missed' = FALSE
  /\ UNCHANGED <<held, unerased>>

(* The processor resets: the chip goes on with what it was doing. *)
Reset == Restart(flash.page, flash.job)

(* What a page half programmed may show when its units are programmed in   *)
(* order: the first ones, then junk.                                       *)
HalfProgrammed(data) ==
  { [k \in DOMAIN data |-> IF k <= n THEN data[k] ELSE Junk] : n \in 0 .. Len(data) - 1 }

(* What the chip's work cut short leaves: garbled pages, or, of a snapshot *)
(* being programmed, a part.                                               *)
LeftBy(job) ==
  {flash.page} \cup
  IF CutsPrograms /\ InProgress(flash) /\ job.to \notin {Erased, Garbled}
  THEN { [p \in Pages |-> IF p \in job.on THEN half ELSE flash.page[p]] :
           half \in HalfProgrammed(job.to) }
  ELSE {}

PowerFails == \E pages \in LeftBy(flash.job) : Restart(pages, NoJob)

Main == \/ Boot \/ TryErase \/ Fill \/ TryProgram \/ Wait

Next == \/ Main
        \/ \E i \in 1 .. Params, v \in Values : Set(i, v)
        \/ LogCommands \/ Finish \/ Reset \/ PowerFails

(* A call that has begun goes on, and the chip finishes what it began. *)
Spec == Init /\ [][Next]_vars
FairSpec == Spec /\ WF_vars(Main) /\ WF_vars(Finish)
-----------------------------------------------------------------------------
(* Correctness.                                                            *)

(* A page with a good header holds values that RAM once had together, all  *)
(* of them: never some of one call and some of another, whatever a call    *)
(* that found the chip busy left in the buffer.  The exception is a page   *)
(* programmed over another (unerased), until the next erase.               *)
StoreIsSnapshot ==
  LET first == flash.page[0]
  IN  HeaderGood(first) /\ ~unerased =>
        [i \in 1 .. Params |-> first[i + 1]] \in held

(* Once a call returns, its values are stored: a restart loads them back.  *)
(* Only a call that found the chip at work (missed) makes an exception,    *)
(* and a later call does not repair it: the buffer still starts with the   *)
(* older snapshot, and a restart on a chip at work stored it over another. *)
StoreMatchesRam ==
  pc = "idle" /\ ~missed =>
    /\ HeaderGood(flash.page[0])
    /\ \A i \in 1 .. Params : flash.page[0][i + 1] = ram[i]

(* param_init and param_set_val return: neither the loop at page_program   *)
(* nor the closing wait goes on for ever.                                  *)
CallsReturn == pc # "idle" ~> pc = "idle"

(* param.c:123, "param broken, reset!": what was not stored whole is not   *)
(* loaded.                                                                 *)
BrokenIsReset == \A i \in 1 .. Params : ram[i] # Junk
=============================================================================
