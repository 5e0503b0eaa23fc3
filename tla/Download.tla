------------------------------ MODULE Download ------------------------------
(***************************************************************************)
(* Downloading the flight log while the log task still works on it: the    *)
(* MAVLink log protocol (src/src/link/mavlink_log.c), a chunk per message  *)
(* and a message every 20 ms, and the log download link                    *)
(* (src/src/link/link_loglink.c), all packages in one loop that holds the  *)
(* main loop.  Both read through mtd_seek_read and mtd_read, on a chip     *)
(* that may refuse.                                                        *)
(*                                                                         *)
(* A station notes each byte it is sent at the offset that is sent along:  *)
(* right if it is the log's byte there, wrong if not.  That messages are   *)
(* lost between the two is the station's affair.                           *)
(***************************************************************************)
EXTENDS MtdLog

CONSTANTS Chunk,        \* MAVLINK_MSG_LOG_DATA_FIELD_DATA_LEN
          CountMod,     \* values of LOG_DATA's count, a uint8_t
          Package,      \* bytes in a package of the download link
          SizeMod,      \* values of package_size, a uint16_t
          Wide,         \* values of an offset, a uint32_t
          Offsets,      \* the offsets stations ask for
          Counts,       \* and how many bytes from there on
          MaxRequests   \* bound on requests

ASSUME DownloadAssumption ==
  /\ Chunk \in Nat \ {0} /\ CountMod \in Nat /\ CountMod > Chunk + 1
  /\ Package \in Nat \ {0} /\ SizeMod \in Nat /\ SizeMod > Package
  /\ Wide \in Nat /\ Wide >= ChipPages * PageSize
  /\ Offsets \subseteq 0 .. Wide - 1 /\ Counts \subseteq 0 .. Wide - 1
  /\ MaxRequests \in Nat

VARIABLES
  read_addr,     \* Mtd.read_addr
  reading,       \* MavlinkLog: status = LOG_READ
  ofs,           \* and log_data.ofs
  package_num,   \* of link_loglink.c
  pc,            \* "main", or "loop": the main loop is inside the download
  file,          \* what the MAVLink station holds of this transfer
  packages,      \* what the other station holds since it asked for the info
  requests       \* requests so far

dvars == <<read_addr, reading, ofs, package_num, pc, file, packages, requests>>
allvars == <<vars, dvars>>

size    == write_addr - start_addr                  \* log_get_size
Left(o) == (size - o) % Wide                        \* last_data
Held    == [right: SUBSET (0 .. Wide - 1), wrong: BOOLEAN,
            from: 0 .. Wide - 1, to: 0 .. 2 * Wide, spoiled: BOOLEAN]

(* Before the first of the n bytes asked for from o on. *)
Nothing(o, n) ==
  [right |-> {}, wrong |-> FALSE, from |-> o, to |-> o + n, spoiled |-> o > size]
Everything == Nothing(0, Wide)

DownloadTypeOK ==
  /\ TypeOK
  /\ read_addr \in 0 .. Wide - 1 /\ ofs \in 0 .. Wide - 1
  /\ reading \in BOOLEAN /\ pc \in {"main", "loop"}
  /\ package_num \in Nat
  /\ file \in Held /\ packages \in Held
  /\ requests \in 0 .. MaxRequests

DownloadInit ==
  /\ Init
  /\ read_addr = start_addr
  /\ reading = FALSE /\ ofs = 0
  /\ package_num = 0 /\ pc = "main"
  /\ file = Everything /\ packages = Everything
  /\ requests = 0

-----------------------------------------------------------------------------
(* Bug: the seek is forgotten. *)
SeekNowhere(o) == read_addr

(* mtd_seek_read: an offset past the partition leaves read_addr alone.     *)
SeekRead(o) ==
  LET a == (start_addr + o) % Wide
  IN  IF a >= end_addr THEN read_addr ELSE a

(* The log's number for the byte at address a, 0 if it is none of them.    *)
ByteAt(a) ==
  IF a \div PageSize \in Pages /\ Len(flash.page[a \div PageSize]) = PageSize
  THEN flash.page[a \div PageSize][(a % PageSize) + 1]
  ELSE 0

(* log_read of len bytes at offset o: the chip is asked, and read_addr     *)
(* moves on whatever it answers.                                           *)
LogRead(o, len) ==
  LET end == (SeekRead(o) + len) % Wide
  IN  /\ flash' = FlashPoll(flash)
      /\ read_addr' = IF end = write_addr THEN start_addr ELSE end

(* The offsets whose bytes such a read gets right. *)
ReadsRight(o, len) ==
  IF FlashReady(flash)
  THEN { o + k : k \in {j \in 0 .. len - 1 : ByteAt((SeekRead(o) + j) % Wide) = o + j + 1} }
  ELSE {}

(* The station notes n bytes at offset o, those in R right.  What it is    *)
(* sent in a spoiled transfer is not followed.                             *)
Noted(f, o, n, R, spoils) ==
  IF f.spoiled THEN f
  ELSE [f EXCEPT !.right   = IF spoils THEN {} ELSE @ \cup R,
                 !.wrong   = @ \/ \E k \in 0 .. n - 1 : o + k \notin R,
                 !.spoiled = spoils]

LogKeeps == UNCHANGED <<write_addr, status, has_erase, page_buf, is_full,
                        write_fifo, accepted>>
-----------------------------------------------------------------------------
(* The MAVLink log protocol.                                               *)

Asks(o) == Min({Left(o), Chunk})

(* Bug: what a message carries is a byte more than was read. *)
CountOneMore(o) == IF FlashReady(flash) THEN Asks(o) + 1 ELSE CountMod - 1

(* log_data.count: -1, the answer of a busy chip, becomes the largest.     *)
Count(o) == IF FlashReady(flash) THEN Asks(o) ELSE CountMod - 1

(* Both the handler and the sender read a chunk at o, send it and move on. *)
(* A count above Chunk covers bytes the message does not have.             *)
SendChunk(o, f) ==
  /\ LogRead(o, Asks(o))
  /\ file' = Noted(f, o, Count(o), ReadsRight(o, Asks(o)), ~FlashReady(flash))

NextOfs(o) == (o + Count(o)) % Wide

(* handle_log_request_data.  Nothing is done with the count n: what is     *)
(* sent goes on to the end of the log.                                     *)
RequestData(o, n) ==
  /\ pc = "main" /\ requests < MaxRequests /\ requests' = requests + 1
  /\ record' = FALSE
  /\ SendChunk(o, Nothing(o, n))
  /\ ofs' = NextOfs(o)
  /\ reading' = (reading \/ Left(NextOfs(o)) > 0)
  /\ LogKeeps /\ UNCHANGED <<package_num, pc, packages>>

(* Bug: a last chunk that is not full is not sent. *)
RunLogFullChunks ==
  /\ pc = "main" /\ reading
  /\ SendChunk(ofs, file)
  /\ IF Left(NextOfs(ofs)) < Chunk
     THEN reading' = FALSE /\ ofs' = 0
     ELSE ofs' = NextOfs(ofs) /\ UNCHANGED reading
  /\ LogKeeps /\ UNCHANGED <<record, package_num, pc, packages, requests>>

(* mavlink_log_run, when its 20 ms have passed. *)
RunLog ==
  /\ pc = "main" /\ reading
  /\ SendChunk(ofs, file)
  /\ IF Left(NextOfs(ofs)) = 0
     THEN reading' = FALSE /\ ofs' = 0
     ELSE ofs' = NextOfs(ofs) /\ UNCHANGED reading
  /\ LogKeeps /\ UNCHANGED <<record, package_num, pc, packages, requests>>
-----------------------------------------------------------------------------
(* The log download link.                                                  *)

(* REQUEST_INFO. *)
RequestInfo ==
  /\ pc = "main" /\ requests < MaxRequests /\ requests' = requests + 1
  /\ package_num' = 0 /\ packages' = Everything
  /\ record' = FALSE
  /\ LogKeeps /\ UNCHANGED <<flash, read_addr, reading, ofs, pc, file>>

(* REQUEST_DATA enters the loop. *)
RequestPackages ==
  /\ pc = "main" /\ requests < MaxRequests /\ requests' = requests + 1
  /\ pc' = "loop"
  /\ UNCHANGED vars
  /\ UNCHANGED <<read_addr, reading, ofs, package_num, file, packages>>

(* Bug: a page less than what is left is enough. *)
PackageSizeShort(o) == Min({Left(o) % SizeMod, Package - PageSize})

(* package_size: what is left, in 16 bits, before it is compared.          *)
PackageSize(o) == Min({Left(o) % SizeMod, Package})

LastPackage(o) == Left(o) <= Package

(* Bug: the loop sends the same package again. *)
SamePackage == package_num

NextPackage == package_num + 1

(* One turn of the loop: a package is always Package bytes long, and what  *)
(* the read did not fill is of an earlier one.                             *)
SendPackage ==
  /\ pc = "loop"
  /\ LET o == Package * package_num
     IN  /\ LogRead(o, PackageSize(o))
         /\ packages' = Noted(packages, o, Min({Left(o), Package}),
                              ReadsRight(o, PackageSize(o)),
                              ~FlashReady(flash) \/ Left(o) >= SizeMod)
         /\ IF LastPackage(o)
            THEN pc' = "main" /\ UNCHANGED package_num
            ELSE package_num' = NextPackage /\ UNCHANGED pc
  /\ LogKeeps /\ UNCHANGED <<record, reading, ofs, file, requests>>
-----------------------------------------------------------------------------
(* The log task, between two of these. *)
LogTask ==
  /\ pc = "main"
  /\ \E due \in SUBSET DOMAIN Records : LogRun(due)
  /\ UNCHANGED dvars

ChipFinishes == Finish /\ UNCHANGED dvars

DownloadNext ==
  \/ LogTask \/ ChipFinishes
  \/ \E o \in Offsets, n \in Counts : RequestData(o, n)
  \/ RunLog
  \/ RequestInfo \/ RequestPackages \/ SendPackage

(* The scheduler runs both tasks for ever, and the chip finishes what it   *)
(* began.  Nothing obliges a station to ask.                               *)
DownloadSpec == DownloadInit /\ [][DownloadNext]_allvars
FairDownload ==
  /\ DownloadSpec
  /\ WF_allvars(LogTask) /\ WF_allvars(ChipFinishes)
  /\ WF_allvars(RunLog) /\ WF_allvars(SendPackage)
-----------------------------------------------------------------------------
(* Correctness.                                                            *)

(* A log that went past its partition (see OwnPartition) has a last page   *)
(* that mtd_seek_read refuses to find.                                     *)
Overrun == write_addr > end_addr

(* A transfer that asked for an offset the log has, and that the chip did  *)
(* not refuse, gives the station the log's bytes, although the log task    *)
(* erases and programs between two chunks, and the other link reads.       *)
FileIsLog == Overrun \/ file.spoiled \/ ~file.wrong

(* The download link's packages hold the log's bytes where the chip did    *)
(* not refuse, as long as what is left fits in package_size's 16 bits.     *)
PackagesAreLog == Overrun \/ packages.spoiled \/ ~packages.wrong

(* mavlink_log_run ends such a transfer only when the station holds every  *)
(* byte it asked for and flash has, also what reached flash meanwhile:     *)
(* common.xml:3485-3490, "Request a chunk of a log", of count bytes.  The  *)
(* loop ends its packages only when the station holds all of the log.      *)
DownloadsComplete ==
  [][/\ reading /\ ~reading' =>
          \/ Overrun \/ file'.spoiled
          \/ file'.from .. Min({file'.to, size'}) - 1 \subseteq file'.right
     /\ pc = "loop" /\ pc' = "main" =>
          Overrun \/ packages'.spoiled \/ 0 .. size' - 1 \subseteq packages'.right]_allvars

(* A transfer ends, unless a refused read moved its offset past the end;   *)
(* the loop that holds the main loop always ends.                          *)
DownloadsEnd ==
  /\ reading ~> ~reading \/ file.spoiled
  /\ pc = "loop" ~> pc = "main"
=============================================================================
