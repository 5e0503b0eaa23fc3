----------------------------- MODULE ParamProofs ----------------------------
(***************************************************************************)
(* Proofs about ParamLink for every number of parameters, set of values    *)
(* and geometry of the chip: what the first page shows was in RAM whole,   *)
(* a call that returns has stored RAM, and the station's table follows it. *)
(***************************************************************************)
EXTENDS ParamLink, CommonLemmas

(* What a page holds, and the values it shows. *)
Images   == {Erased, Garbled} \cup [1 .. PageSize -> Units]
Good(f)  == GoodChip(f, Pages, Images)
Some(f)  == SomeChip(f, Pages, Images)
Shown(c) == [i \in 1 .. Params |-> c[i + 1]]

(* A page under a good header: what RAM once held, unless a program cut    *)
(* short, or one over another, may have left a part of it.                 *)
Storable == IF CutsPrograms \/ unerased THEN Contents ELSE held
Sound(c) == HeaderGood(c) => Shown(c) \in Storable
Fresh(c) == HeaderGood(c) /\ Shown(c) = ram

(* The buffer starts with a snapshot of what RAM once held. *)
Whole(fifo) == Len(fifo) > Params /\ fifo[1] = Header /\ Shown(fifo) \in held

(* The first page once the chip is done. *)
First == IF 0 \in flash.job.on THEN flash.job.to ELSE flash.page[0]

(* The snapshot of a call is in the buffer, on its way to the first page,  *)
(* or there.                                                               *)
ToFill     == pc = "erase" \/ (pc = "fill" /\ page = 0)
ToProgram  == pc = "program" /\ page = 0
Programmed == pc \in {"idle", "wait"} \/ (pc \in {"fill", "program"} /\ page > 0)

StoreTypes ==
  /\ {ram, Compiled} \subseteq held /\ held \subseteq Contents
  /\ Some(flash) /\ (pc \in {"boot", "erase"} \/ Good(flash))
  /\ write_fifo \in Seq(Units) /\ Len(write_fifo) <= BufSize
  /\ page_buf \in [1 .. PageSize -> Units]
  /\ pc \in {"boot", "idle", "erase", "fill", "program", "wait"}
  /\ page \in 0 .. SectorPages
  /\ pc \in {"fill", "program"} => page < SectorPages
  /\ data_end \in BOOLEAN /\ missed \in BOOLEAN /\ unerased \in BOOLEAN
  /\ boots \in 0 .. MaxBoots

(* Whatever the chip, page_buf and the buffer bring to the first page. *)
SoundInv ==
  /\ Sound(flash.page[0])
  /\ 0 \in flash.job.on => Sound(flash.job.to)
  /\ ToProgram => Sound(page_buf)
  /\ pc \in {"idle", "wait"} => write_fifo = <<>> \/ Whole(write_fifo)
  /\ ToFill => Whole(write_fifo)

(* A call empties the buffer within two pages. *)
DrainInv ==
  /\ pc = "boot" => write_fifo = <<>> /\ ~missed
  /\ pc = "erase" => page = 0
  /\ ToProgram => IF data_end THEN write_fifo = <<>> ELSE Len(write_fifo) <= PageSize
  /\ pc = "fill" /\ page > 0 => Len(write_fifo) <= PageSize
  /\ pc = "program" /\ page > 0 => write_fifo = <<>>

(* A call that does not find the chip at work stores RAM. *)
FreshInv ==
  /\ pc \in {"fill", "program"} /\ page = 0 /\ ~unerased => First = Erased
  /\ pc \in {"fill", "program"} /\ ~missed => ~unerased
  /\ ~missed =>
       /\ ToFill => write_fifo = Snapshot(ram)
       /\ ToProgram => Fresh(page_buf) /\ write_fifo = <<>>
       /\ Programmed => Fresh(First) /\ write_fifo = <<>>
       /\ pc = "idle" => 0 \notin flash.job.on

SInv == StoreTypes /\ SoundInv /\ DrainInv /\ FreshInv

LinkTypes ==
  /\ sending \in BOOLEAN /\ send_index \in 0 .. Params
  /\ sending => send_index < Params
  /\ setting \in 0 .. Params
  /\ setting # Nobody => pc \in {"erase", "fill", "program", "wait"}
  /\ table \in [1 .. Params -> Values \cup {Default, Junk, Unknown}]
  /\ stopped \in BOOLEAN /\ unstored \in BOOLEAN
  /\ requests \in 0 .. MaxRequests

(* Before param_init the table agrees with what it will load. *)
TableInv ==
  ~missed /\ ~unstored =>
    IF pc = "boot"
    THEN \/ \A i \in 1 .. Params : table[i] = Unknown
         \/ /\ 0 \notin flash.job.on /\ HeaderGood(flash.page[0])
            /\ \A i \in 1 .. Params : table[i] \in {Unknown, flash.page[0][i + 1]}
    ELSE \A i \in 1 .. Params : i = setting \/ table[i] \in {Unknown, ram[i]}

LInv == SInv /\ LinkTypes /\ TableInv
-----------------------------------------------------------------------------
(* The chip and the buffer. *)
LEMMA Sizes ==
  /\ PageSize \in Nat /\ PageSize > 1 /\ Params \in Nat /\ Params > 0 /\ Params + 1 <= PageSize
  /\ SectorPages \in Nat /\ SectorPages > 1 /\ BufSize \in Nat /\ BufSize > PageSize
  /\ 0 \in Pages /\ LogPage \in Pages /\ LogPage # 0
BY StoreAssumption DEF BufSize, Pages, LogPage

(* What mtd_write makes of the buffer when a snapshot is queued. *)
LEMMA Queues ==
  ASSUME NEW fifo \in Seq(Units), Len(fifo) <= BufSize, NEW r \in Contents
  PROVE  LET q == MtdWrites(fifo, Snapshot(r))
         IN  /\ q \in Seq(Units) /\ Len(q) <= BufSize /\ Len(q) >= Len(fifo)
             /\ \A k \in 1 .. Len(fifo) : q[k] = fifo[k]
             /\ fifo = <<>> => q = Snapshot(r)
<1> DEFINE s == Snapshot(r)
           all == fifo \o s
           n == Min({Len(all), BufSize})
<1>1. r \in Seq(Units) /\ Len(r) = Params
  BY Sizes DEF Contents, Units
<1>2. s \in Seq(Units) /\ Len(s) = Params + 1
  BY <1>1 DEF Snapshot, Units
<1>3. all \in Seq(Units) /\ Len(all) = Len(fifo) + Params + 1 /\ Len(fifo) \in Nat
  BY <1>2, Sizes
<1>4. n \in Nat /\ n <= BufSize /\ n <= Len(all) /\ n >= Len(fifo) /\ (n = Len(all) \/ n = BufSize)
  BY <1>3, Sizes, SMTT(30) DEF Min
<1> HIDE DEF s, n
<1>5. MtdWrites(fifo, Snapshot(r)) = SubSeq(all, 1, n)
  BY DEF MtdWrites, n, s
<1>6. SubSeq(all, 1, n) \in Seq(Units) /\ Len(SubSeq(all, 1, n)) = n
  BY <1>3, <1>4
<1>7. \A k \in 1 .. n : SubSeq(all, 1, n)[k] = all[k]
  BY <1>3, <1>4
<1>8. \A k \in 1 .. Len(fifo) : all[k] = fifo[k]
  BY <1>2, <1>3
<1>9. fifo = <<>> => SubSeq(all, 1, n) = s
  <2> SUFFICES ASSUME fifo = <<>> PROVE SubSeq(all, 1, n) = s
    OBVIOUS
  <2>1. all = s
    BY <1>2
  <2>2. n = Len(s)
    BY <1>2, <1>3, <1>4, <2>1, Sizes
  <2> QED
    BY <1>2, <2>1, <2>2
<1> QED
  BY <1>3, <1>4, <1>5, <1>6, <1>7, <1>8, <1>9 DEF s

LEMMA ShowsSnapshot ==
  ASSUME NEW r \in Contents
  PROVE  /\ Snapshot(r) \in Seq(Units) /\ Len(Snapshot(r)) = Params + 1
         /\ Snapshot(r)[1] = Header /\ Shown(Snapshot(r)) = r
<1>1. r \in Seq(Units) /\ Len(r) = Params /\ DOMAIN r = 1 .. Params
  BY Sizes DEF Contents, Units
<1>2. Snapshot(r) \in Seq(Units) /\ Len(Snapshot(r)) = Params + 1 /\ Snapshot(r)[1] = Header
  BY <1>1 DEF Snapshot, Units
<1>3. \A i \in 1 .. Params : Snapshot(r)[i + 1] = r[i]
  BY <1>1 DEF Snapshot, Units
<1>4. Shown(Snapshot(r)) = r
  BY <1>1, <1>3 DEF Shown, Contents
<1> QED
  BY <1>2, <1>4

(* A snapshot queued behind others leaves the first of them whole. *)
LEMMA QueuesWhole ==
  ASSUME NEW fifo \in Seq(Units), Len(fifo) <= BufSize, NEW r \in Contents, NEW h,
         fifo = <<>> \/ (Len(fifo) > Params /\ fifo[1] = Header /\ Shown(fifo) \in h)
  PROVE  LET q == MtdWrites(fifo, Snapshot(r))
         IN  Len(q) > Params /\ q[1] = Header /\ Shown(q) \in h \cup {r}
<1> DEFINE q == MtdWrites(fifo, Snapshot(r))
<1>1. /\ q \in Seq(Units) /\ Len(q) <= BufSize /\ Len(q) >= Len(fifo)
      /\ \A k \in 1 .. Len(fifo) : q[k] = fifo[k]
      /\ fifo = <<>> => q = Snapshot(r)
  BY Queues
<1> HIDE DEF q
<1>2. CASE fifo = <<>>
  BY <1>1, <1>2, ShowsSnapshot, Sizes DEF q
<1>3. CASE Len(fifo) > Params /\ fifo[1] = Header /\ Shown(fifo) \in h
  <2>1. Len(fifo) \in Nat /\ Len(q) \in Nat
    BY <1>1
  <2>2. q[1] = Header /\ Len(q) > Params
    BY <1>1, <1>3, <2>1, Sizes
  <2>3. \A i \in 1 .. Params : q[i + 1] = fifo[i + 1]
    BY <1>1, <1>3, <2>1, Sizes
  <2>4. Shown(q) = Shown(fifo)
    BY <2>3 DEF Shown
  <2> QED
    BY <1>3, <2>2, <2>4 DEF q
<1> QED
  BY <1>2, <1>3

LEMMA NothingShown == ~HeaderGood(Erased) /\ ~HeaderGood(Garbled)
BY Sizes DEF HeaderGood, Erased, Garbled

-----------------------------------------------------------------------------
(* The steps of ParamStore. *)
LEMMA StoreStarts == Init => SInv
<1> SUFFICES ASSUME Init PROVE SInv
  OBVIOUS
<1>1. Compiled \in Contents
  BY DEF Compiled, Contents
<1>2. Unset \in [1 .. PageSize -> Units]
  BY DEF Unset, Units
<1>3. flash = [page |-> [p \in Pages |-> Erased], job |-> NoJob, is_busy |-> TRUE]
  BY DEF Init, FlashBoot, NoJob
<1>4. Some(flash)
  BY <1>3 DEF Some, SomeChip, ChipType, Images, NoJob
<1>5. flash.page[0] = Erased /\ flash.job.on = {} /\ flash.is_busy = TRUE
  BY <1>3, Sizes DEF NoJob
<1>6. StoreTypes
  <2>1. boots \in 0 .. MaxBoots /\ page \in 0 .. SectorPages
    BY Sizes, StoreAssumption DEF Init
  <2>2. write_fifo \in Seq(Units) /\ Len(write_fifo) <= BufSize
    BY Sizes DEF Init
  <2> QED
    BY <1>1, <1>2, <1>4, <1>5, <2>1, <2>2 DEF Init, StoreTypes
<1>7. SoundInv
  BY <1>5, NothingShown DEF Init, SoundInv, Sound, Storable, ToProgram, ToFill
<1>8. DrainInv
  BY DEF Init, DrainInv, ToProgram
<1>9. FreshInv
  BY DEF Init, FreshInv, ToFill, ToProgram, Programmed
<1> QED
  BY <1>6, <1>7, <1>8, <1>9 DEF SInv

(* A snapshot of r in an empty buffer, or behind what a call left there. *)
LEMMA QueueStep ==
  ASSUME SInv, NEW r \in Contents, pc \in {"boot", "idle"}, Queue(r), held' = held \cup {r},
         ram' = r, Some(flash)',
         flash'.page = flash.page, flash'.job = flash.job,
         UNCHANGED <<page_buf, data_end, missed, unerased, boots>>
  PROVE  SInv'
<1>1. write_fifo \in Seq(Units) /\ Len(write_fifo) <= BufSize
  BY DEF SInv, StoreTypes
<1>2. write_fifo = <<>> \/ Whole(write_fifo)
  BY DEF SInv, SoundInv, DrainInv
<1>3. /\ write_fifo' \in Seq(Units) /\ Len(write_fifo') <= BufSize
      /\ write_fifo = <<>> => write_fifo' = Snapshot(r)
  BY <1>1, Queues DEF Queue
<1>4. Whole(write_fifo)'
  BY <1>1, <1>2, QueuesWhole DEF Queue, Whole
<1>5. StoreTypes'
  BY <1>3, Sizes DEF SInv, StoreTypes, Queue
<1>6. SoundInv'
  BY <1>4 DEF SInv, SoundInv, Queue, Sound, Storable, Storable, ToFill, ToProgram
<1>7. DrainInv'
  BY DEF DrainInv, Queue, ToProgram
<1>8. FreshInv'
  <2>1. ~missed => write_fifo = <<>>
    BY DEF SInv, DrainInv, FreshInv, Programmed
  <2> QED
    BY <1>3, <2>1 DEF FreshInv, Queue, ToFill, ToProgram, Programmed
<1> QED
  BY <1>5, <1>6, <1>7, <1>8 DEF SInv

LEMMA BootStep == SInv /\ Boot => SInv'
<1> SUFFICES ASSUME SInv, Boot PROVE SInv'
  OBVIOUS
<1> DEFINE r == Shown(flash.page[0])
<1>0. /\ Some(flash) /\ pc = "boot"
      /\ UNCHANGED <<page_buf, data_end, missed, unerased, boots>>
  BY DEF SInv, StoreTypes, Boot
<1>1. /\ Some(flash)' /\ flash'.page = flash.page /\ flash'.job = flash.job
  BY <1>0, PolledSome DEF Boot, Some
<1>2. CASE HeaderGood(ReadPage(flash, 0))
  <2>1. ~InProgress(flash) /\ ReadPage(flash, 0) = flash.page[0]
    BY <1>2, NothingShown DEF ReadPage
  <2>2. /\ ram' = r /\ held' = held \cup {r} /\ pc' = "idle"
        /\ UNCHANGED <<write_fifo, page>> /\ HeaderGood(flash.page[0])
    BY <1>2, <2>1 DEF Boot, LoadedAs, Shown
  <2>3. r \in Contents
    BY <2>2 DEF SInv, StoreTypes, SoundInv, Sound, Storable
  <2>4. write_fifo = <<>>
    BY <1>0 DEF SInv, DrainInv
  <2>5. flash'.job.on = {} /\ Good(flash)'
    <3>1. flash'.job.on = {} /\ ~InProgress(flash')
      BY <1>1, <2>1 DEF InProgress
    <3> QED
      BY <1>1, <3>1, IdleChip DEF Some, Good
  <2>6. StoreTypes'
    BY <1>0, <1>1, <2>2, <2>3, <2>4, <2>5 DEF SInv, StoreTypes
  <2>7. SoundInv'
    BY <1>0, <1>1, <2>2, <2>4 DEF SInv, SoundInv, Sound, Storable, ToFill, ToProgram
  <2>8. DrainInv' /\ FreshInv'
    BY <1>1, <2>2, <2>4, <2>5
       DEF DrainInv, FreshInv, ToFill, ToProgram, Fresh, First
  <2> QED
    BY <2>6, <2>7, <2>8 DEF SInv
<1>3. CASE ~HeaderGood(ReadPage(flash, 0))
  <2>1. Queue(ram) /\ UNCHANGED <<ram, held>>
    BY <1>3 DEF Boot
  <2>2. ram \in Contents /\ held' = held \cup {ram} /\ ram' = ram
    BY <2>1 DEF SInv, StoreTypes
  <2> QED
    BY <1>0, <1>1, <2>1, <2>2, QueueStep
<1> QED
  BY <1>2, <1>3

LEMMA SetStep == SInv /\ (\E i \in 1 .. Params, v \in Values : Set(i, v)) => SInv'
<1> SUFFICES ASSUME SInv, NEW i \in 1 .. Params, NEW v \in Values, Set(i, v)
             PROVE  SInv'
  OBVIOUS
<1>1. ram' = [ram EXCEPT ![i] = v] /\ ram \in Contents
  BY DEF Set, SInv, StoreTypes
<1>2. ram' \in Contents
  BY <1>1 DEF Contents
<1>3. Some(flash) /\ flash' = flash
  BY DEF Set, SInv, StoreTypes
<1>4. /\ pc = "idle" /\ Queue(ram') /\ held' = held \cup {ram'}
      /\ UNCHANGED <<page_buf, data_end, missed, unerased, boots>>
  BY DEF Set
<1> QED
  BY <1>2, <1>3, <1>4, QueueStep

(* The erase is refused, or ignored: the chip is at work and goes on. *)
LEMMA NotErased ==
  ASSUME SInv, TryErase, InProgress(flash)
  PROVE  Good(flash)' /\ flash'.page = flash.page /\ flash'.job = flash.job
<1>1. Some(flash) /\ flash' = EraseSector(flash, 0, SectorPages)
  BY DEF SInv, StoreTypes, TryErase
<1>2. CASE FlashReady(flash)
  BY <1>1, <1>2, Ignores DEF Some, Good
<1>3. CASE ~FlashReady(flash)
  <2>1. flash' = FlashPoll(flash)
    BY <1>1, <1>3, Refuses
  <2>2. Some(flash)' /\ flash'.page = flash.page /\ flash'.job = flash.job
    BY <1>1, <2>1, PolledSome DEF Some
  <2>3. flash'.is_busy
    BY <1>3, <2>1 DEF FlashReady
  <2> QED
    BY <2>2, <2>3 DEF Some, SomeChip, Good, GoodChip
<1> QED
  BY <1>2, <1>3

LEMMA EraseStep == SInv /\ TryErase => SInv'
<1> SUFFICES ASSUME SInv, TryErase PROVE SInv'
  OBVIOUS
<1>0. /\ Some(flash) /\ missed \in BOOLEAN /\ held \subseteq Contents
      /\ pc = "erase" /\ page = 0 /\ Whole(write_fifo)
  BY DEF SInv, StoreTypes, SoundInv, DrainInv, TryErase, ToFill
<1>1. /\ flash' = EraseSector(flash, 0, SectorPages)
      /\ UNCHANGED <<ram, write_fifo, page_buf, page, data_end, held, boots>>
      /\ missed' = (missed \/ InProgress(flash))
  BY DEF TryErase
<1>2. CASE ~InProgress(flash)
  <2>0. Good(flash) /\ FlashReady(flash)
    <3>1. Good(flash) /\ flash.job.on = {}
      BY <1>0, <1>2, IdleChip DEF Some, Good, InProgress
    <3> QED
      BY <3>1, Ready DEF Good
  <2>1. /\ pc' = "fill" /\ missed' \in BOOLEAN /\ unerased' \in BOOLEAN
        /\ ~missed' => ~missed
        /\ ~unerased'
    <3>1. pc' = "fill" /\ unerased' = InProgress(flash)
      BY <2>0 DEF TryErase
    <3>2. unerased' \in BOOLEAN /\ missed' \in BOOLEAN
      BY <1>0, <1>1, <3>1, Zenon DEF InProgress
    <3> QED
      BY <1>0, <1>1, <1>2, <3>1, <3>2, Zenon
  <2> DEFINE on == {q \in Pages : q \div SectorPages = 0 \div SectorPages}
  <2>2. 0 \in on /\ AtWork(flash, flash', Pages, Images, on, Erased)
    BY <1>1, <2>0, Erases, Sizes DEF Good
  <2> HIDE DEF on
  <2>3. /\ Good(flash)' /\ Some(flash)' /\ flash'.page[0] = Garbled
        /\ 0 \in flash'.job.on /\ flash'.job.to = Erased
    BY <2>2, Sizes DEF AtWork, Good, GoodChip, Some, SomeChip
  <2>4. StoreTypes'
    BY <1>0, <1>1, <2>1, <2>3, Sizes DEF SInv, StoreTypes
  <2>5. SoundInv'
    BY <1>0, <1>1, <2>1, <2>3, NothingShown DEF SoundInv, Sound, Storable, Whole, ToFill, ToProgram
  <2>6. DrainInv'
    BY <1>0, <1>1, <2>1 DEF DrainInv, ToProgram
  <2>7. FreshInv'
    BY <1>0, <1>1, <2>1, <2>3 DEF SInv, FreshInv, First, ToFill, ToProgram, Programmed
  <2> QED
    BY <2>4, <2>5, <2>6, <2>7 DEF SInv
<1>3. CASE InProgress(flash)
  <2>1. /\ pc' \in {"fill", "wait"} /\ missed' = TRUE /\ unerased' \in BOOLEAN
        /\ pc' = "fill" => unerased' = TRUE
        /\ ~unerased' => ~unerased
    <3>1. CASE FlashReady(flash)
      <4>1. pc' = "fill" /\ unerased' = TRUE
        BY <1>3, <3>1, Zenon DEF TryErase
      <4> QED
        BY <1>1, <1>3, <4>1
    <3>2. CASE ~FlashReady(flash)
      <4>1. pc' = "wait" /\ unerased' = unerased /\ unerased \in BOOLEAN
        BY <3>2 DEF TryErase, SInv, StoreTypes
      <4> QED
        BY <1>1, <1>3, <4>1
    <3> QED
      BY <3>1, <3>2
  <2>2. /\ Good(flash)' /\ Some(flash)'
        /\ flash'.page = flash.page /\ flash'.job = flash.job
    BY <1>3, NotErased DEF Good, GoodChip, Some, SomeChip
  <2>3. StoreTypes'
    BY <1>0, <1>1, <2>1, <2>2, Sizes DEF SInv, StoreTypes
  <2>4. Storable \subseteq Storable'
    BY <1>0, <1>1, <2>1 DEF Storable
  <2>5. SoundInv'
    <3>1. Sound(flash.page[0])'
      BY <2>2, <2>4 DEF SInv, SoundInv, Sound
    <3>2. (0 \in flash.job.on => Sound(flash.job.to))'
      BY <2>2, <2>4 DEF SInv, SoundInv, Sound
    <3>3. Whole(write_fifo)'
      BY <1>0, <1>1 DEF Whole
    <3> QED
      BY <2>1, <3>1, <3>2, <3>3 DEF SoundInv, ToProgram
  <2>6. DrainInv' /\ FreshInv'
    BY <1>0, <1>1, <2>1 DEF DrainInv, FreshInv, ToProgram
  <2> QED
    BY <2>3, <2>5, <2>6 DEF SInv
<1> QED
  BY <1>2, <1>3

(* Filling page_buf takes all that a page can hold. *)
LEMMA Takes ==
  ASSUME NEW fifo \in Seq(Units), NEW buf \in [1 .. PageSize -> Units], NEW n,
         n = Min({Len(fifo), PageSize})
  PROVE  /\ n \in Nat /\ n <= PageSize /\ n <= Len(fifo)
         /\ n < PageSize => n = Len(fifo)
         /\ SubSeq(fifo, n + 1, Len(fifo)) \in Seq(Units)
         /\ Len(SubSeq(fifo, n + 1, Len(fifo))) = Len(fifo) - n
         /\ n = Len(fifo) => SubSeq(fifo, n + 1, Len(fifo)) = <<>>
         /\ Taken(fifo, buf) \in [1 .. PageSize -> Units]
<1>1. Len(fifo) \in Nat
  OBVIOUS
<1>2. n \in Nat /\ (n = Len(fifo) \/ n = PageSize) /\ n <= PageSize /\ n <= Len(fifo)
  BY <1>1, Sizes, SMTT(30) DEF Min
<1>3. \A k \in 1 .. PageSize : k <= Len(fifo) => fifo[k] \in Units
  BY <1>1
<1>4. Taken(fifo, buf) \in [1 .. PageSize -> Units]
  BY <1>3 DEF Taken
<1>5. /\ SubSeq(fifo, n + 1, Len(fifo)) \in Seq(Units)
      /\ Len(SubSeq(fifo, n + 1, Len(fifo))) = Len(fifo) - n
  <2> DEFINE m == n + 1
  <2>1. m \in Int /\ m >= 1 /\ Len(fifo) \in Int /\ Len(fifo) <= Len(fifo)
    BY <1>1, <1>2
  <2> HIDE DEF m
  <2>2. SubSeq(fifo, m, Len(fifo)) \in Seq(Units)
    BY <2>1, Cuts
  <2>3. Len(SubSeq(fifo, m, Len(fifo))) = IF m <= Len(fifo) THEN Len(fifo) - m + 1 ELSE 0
    BY <2>1, Cuts
  <2>4. m = n + 1
    BY DEF m
  <2>5. Len(SubSeq(fifo, m, Len(fifo))) = Len(fifo) - n
    BY <1>1, <1>2, <2>3, <2>4
  <2> QED
    BY <2>2, <2>4, <2>5
<1>6. n = Len(fifo) => SubSeq(fifo, n + 1, Len(fifo)) = <<>>
  BY <1>1, <1>5
<1>7. n < PageSize => n = Len(fifo)
  BY <1>1, <1>2, Sizes
<1> QED
  BY <1>2, <1>4, <1>5, <1>6, <1>7

(* Nothing depends on what the driver believes. *)
LEMMA PollStep ==
  ASSUME SInv, Good(flash), flash' = FlashPoll(flash),
         UNCHANGED <<ram, write_fifo, page_buf, pc, page, data_end, missed, unerased, held, boots>>
  PROVE  SInv'
<1>1. /\ Good(flash)' /\ Some(flash)'
      /\ flash'.page = flash.page /\ flash'.job = flash.job
  BY Polled DEF Good, GoodChip, Some, SomeChip
<1>2. StoreTypes'
  BY <1>1 DEF SInv, StoreTypes
<1>3. SoundInv' /\ DrainInv'
  BY <1>1 DEF SInv, SoundInv, DrainInv, Sound, Storable, Whole, ToFill, ToProgram
<1>4. FreshInv'
  BY <1>1 DEF SInv, FreshInv, Fresh, First, ToFill, ToProgram, Programmed
<1> QED
  BY <1>2, <1>3, <1>4 DEF SInv

LEMMA FillStep == SInv /\ Fill => SInv'
<1> SUFFICES ASSUME SInv, Fill PROVE SInv'
  OBVIOUS
<1> DEFINE n == Min({Len(write_fifo), PageSize})
<1>1. /\ pc = "fill" /\ pc' = "program" /\ data_end' = (n < PageSize)
      /\ page_buf' = Taken(write_fifo, page_buf)
      /\ write_fifo' = SubSeq(write_fifo, n + 1, Len(write_fifo))
      /\ UNCHANGED <<ram, flash, page, missed, unerased, held, boots>>
  BY DEF Fill
<1>2. /\ write_fifo \in Seq(Units) /\ Len(write_fifo) \in Nat /\ Len(write_fifo) <= BufSize
      /\ page_buf \in [1 .. PageSize -> Units] /\ page \in Nat /\ page < SectorPages
  BY <1>1 DEF SInv, StoreTypes
<1>3. /\ n \in Nat /\ n <= PageSize /\ n <= Len(write_fifo)
      /\ n < PageSize => n = Len(write_fifo)
      /\ write_fifo' \in Seq(Units) /\ Len(write_fifo') = Len(write_fifo) - n
      /\ n = Len(write_fifo) => write_fifo' = <<>>
      /\ page_buf' \in [1 .. PageSize -> Units]
  BY <1>1, <1>2, Takes
<1> HIDE DEF n
<1>4. data_end' \in BOOLEAN
  <2> DEFINE short == n < PageSize
  <2>1. short \in BOOLEAN
    OBVIOUS
  <2> QED
    BY <1>1, <2>1, Zenon
<1>5. page = 0 /\ Len(write_fifo) > Params =>
        /\ Len(page_buf') = PageSize /\ page_buf'[1] = write_fifo[1]
        /\ Shown(page_buf') = Shown(write_fifo)
  <2> SUFFICES ASSUME Len(write_fifo) > Params
               PROVE  /\ Len(page_buf') = PageSize /\ page_buf'[1] = write_fifo[1]
                      /\ Shown(page_buf') = Shown(write_fifo)
    OBVIOUS
  <2>1. \A k \in 1 .. Params + 1 : page_buf'[k] = write_fifo[k]
    BY <1>1, <1>2, Sizes DEF Taken
  <2>2. Shown(page_buf') = Shown(write_fifo)
    BY <2>1, Sizes DEF Shown
  <2>3. Len(page_buf') = PageSize
    BY <1>3, Sizes
  <2> QED
    BY <2>1, <2>2, <2>3, Sizes
<1>6. StoreTypes'
  BY <1>1, <1>2, <1>3, <1>4, Sizes DEF SInv, StoreTypes
<1>7. SoundInv'
  <2>1. page = 0 => Whole(write_fifo)
    BY <1>1 DEF SInv, SoundInv, ToFill
  <2>2. page = 0 => Sound(page_buf)'
    <3>1. held \subseteq Contents
      BY DEF SInv, StoreTypes
    <3> QED
      BY <1>1, <1>5, <2>1, <3>1 DEF Whole, Sound, Storable
  <2> QED
    BY <1>1, <2>2 DEF SInv, SoundInv, Sound, Storable, ToFill, ToProgram
<1>8. DrainInv'
  <2>1. data_end' => write_fifo' = <<>>
    BY <1>1, <1>3
  <2>2. ~data_end' => Len(write_fifo') <= PageSize
    BY <1>1, <1>2, <1>3, Sizes DEF BufSize
  <2>3. page > 0 => write_fifo' = <<>>
    <3>1. page > 0 => Len(write_fifo) <= PageSize
      BY <1>1 DEF SInv, DrainInv
    <3> QED
      BY <1>2, <1>3, <3>1, Sizes
  <2> QED
    BY <1>1, <2>1, <2>2, <2>3 DEF DrainInv, ToProgram
<1>9. FreshInv'
  <2>1. /\ page = 0 /\ ~unerased => First' = Erased
        /\ ~missed => ~unerased
    BY <1>1 DEF SInv, FreshInv, First
  <2>2. ASSUME ~missed, page = 0 PROVE Fresh(page_buf)' /\ write_fifo' = <<>>
    <3>1. write_fifo = Snapshot(ram) /\ ram \in Contents
      BY <1>1, <2>2 DEF SInv, StoreTypes, FreshInv, ToFill
    <3>2. /\ Len(write_fifo) = Params + 1 /\ write_fifo[1] = Header
          /\ Shown(write_fifo) = ram
      BY <3>1, ShowsSnapshot
    <3>3. Len(write_fifo) > Params /\ n = Len(write_fifo)
      BY <1>2, <1>3, <3>2, Sizes
    <3> QED
      BY <1>1, <1>3, <1>5, <2>2, <3>2, <3>3 DEF Fresh, HeaderGood
  <2>3. ~missed /\ page > 0 => Fresh(First)' /\ write_fifo' = <<>>
    <3>1. ~missed /\ page > 0 => Fresh(First) /\ write_fifo = <<>>
      BY <1>1 DEF SInv, FreshInv, Programmed
    <3>2. write_fifo = <<>> => write_fifo' = <<>>
      BY <1>2, <1>3
    <3> QED
      BY <1>1, <3>1, <3>2 DEF Fresh, First
  <2> QED
    BY <1>1, <1>2, <2>1, <2>2, <2>3 DEF FreshInv, ToFill, ToProgram, Programmed
<1> QED
  BY <1>6, <1>7, <1>8, <1>9 DEF SInv

(* What a page programmed over the first one may show. *)
LEMMA OverIs ==
  ASSUME NEW old \in Images, NEW data \in [1 .. PageSize -> Units]
  PROVE  /\ Over(old, data) \in Images
         /\ old = Erased => Over(old, data) = data
         /\ HeaderGood(Over(old, data)) /\ (HeaderGood(data) => Shown(data) \in Contents) =>
              Shown(Over(old, data)) \in Contents
<1>1. DOMAIN data = 1 .. PageSize /\ Len(data) = PageSize /\ Junk \in Units
  BY Sizes DEF Units
<1>2. CASE old = Erased
  <2>1. Over(old, data) = data
    BY <1>2 DEF Over
  <2> QED
    BY <2>1 DEF Images
<1>3. CASE old # Erased /\ Garbled \in {old, data}
  <2>1. Over(old, data) = Garbled
    BY <1>3 DEF Over
  <2> QED
    BY <1>3, <2>1, NothingShown DEF Images
<1>4. CASE old # Erased /\ Garbled \notin {old, data}
  <2> DEFINE o == Over(old, data)
  <2>1. o = [k \in 1 .. PageSize |->
               IF k \in DOMAIN old /\ old[k] = data[k] THEN data[k] ELSE Junk]
    BY <1>1, <1>4 DEF Over
  <2> HIDE DEF o
  <2>2. /\ o \in [1 .. PageSize -> Units]
        /\ \A k \in 1 .. PageSize : o[k] \in {data[k], Junk}
    BY <1>1, <2>1
  <2>3. ASSUME HeaderGood(o), HeaderGood(data) => Shown(data) \in Contents
        PROVE  Shown(o) \in Contents
    <3>1. data[1] = Header
      <4>1. o[1] = Header /\ o[1] \in {data[1], Junk} /\ Header # Junk
        BY <2>2, <2>3, Sizes DEF HeaderGood, Header, Junk
      <4> QED
        BY <4>1
    <3>2. Shown(data) \in Contents
      BY <1>1, <2>3, <3>1 DEF HeaderGood
    <3>3. \A i \in 1 .. Params : o[i + 1] \in {data[i + 1], Junk}
      BY <2>2, Sizes
    <3>4. \A i \in 1 .. Params : o[i + 1] \in Values \cup {Default, Junk}
      BY <3>2, <3>3 DEF Shown, Contents
    <3> QED
      BY <3>4 DEF Shown, Contents
  <2> QED
    BY <1>4, <2>2, <2>3 DEF Images, o
<1> QED
  BY <1>2, <1>3, <1>4

LEMMA ProgramStep == SInv /\ TryProgram => SInv'
<1> SUFFICES ASSUME SInv, TryProgram PROVE SInv'
  OBVIOUS
<1>0. /\ Good(flash)
      /\ pc = "program" /\ page \in Nat /\ page < SectorPages /\ page \in Pages
      /\ page_buf \in [1 .. PageSize -> Units] /\ held \subseteq Contents
      /\ flash' = PageProgram(flash, page, page_buf) /\ flash.page[page] \in Images
      /\ UNCHANGED <<ram, write_fifo, page_buf, data_end, missed, unerased, held, boots>>
  BY Sizes DEF SInv, StoreTypes, TryProgram, Pages, Some, SomeChip, ChipType
<1>1. CASE FlashReady(flash)
  <2> DEFINE to == Over(flash.page[page], page_buf)
  <2>1. /\ page' = page + 1 /\ pc' \in {"wait", "fill"}
        /\ pc' = IF data_end \/ page + 1 = SectorPages THEN "wait" ELSE "fill"
    BY <1>1 DEF TryProgram
  <2>2. AtWork(flash, flash', Pages, Images, {page}, to)
    BY <1>0, <1>1, OverIs, Programs DEF Good
  <2>3. /\ Good(flash)' /\ Some(flash)'
        /\ flash'.job.on = {page} /\ flash'.job.to = to
        /\ flash'.page[0] = IF page = 0 THEN Garbled ELSE flash.page[0]
    BY <2>2, Sizes DEF AtWork, Good, GoodChip, Some, SomeChip
  <2>4. flash.job.on = {}
    BY <1>0, <1>1, Ready DEF Good
  <2>5. page = 0 /\ ~unerased => to = page_buf
    BY <1>0, <2>4, OverIs DEF SInv, FreshInv, First
  <2>6. page = 0 => Sound(to)
    <3> SUFFICES ASSUME page = 0 PROVE Sound(to)
      OBVIOUS
    <3>1. Sound(page_buf)
      BY <1>0 DEF SInv, SoundInv, ToProgram
    <3>2. HeaderGood(page_buf) => Shown(page_buf) \in Contents
      BY <1>0, <3>1 DEF Sound, Storable
    <3>3. HeaderGood(to) => Shown(to) \in Contents
      BY <1>0, <3>2, OverIs
    <3> QED
      BY <2>5, <3>1, <3>3 DEF Sound, Storable
  <2>7. /\ page = 0 /\ ~unerased => First' = page_buf
        /\ page # 0 => First' = First
    BY <2>3, <2>4, <2>5 DEF First
  <2>8. page' > 0 /\ page' <= SectorPages
    BY <1>0, <2>1, Sizes
  <2> HIDE DEF to
  <2>9. StoreTypes'
    <3>1. page' \in 0 .. SectorPages /\ (pc' = "fill" => page' < SectorPages)
      BY <1>0, <2>1, Sizes
    <3> QED
      BY <1>0, <2>1, <2>3, <3>1 DEF SInv, StoreTypes
  <2>10. pc' = "wait" => write_fifo = <<>>
    BY <1>0, <2>1, Sizes DEF SInv, DrainInv, ToProgram
  <2>11. SoundInv'
    <3>1. Sound(flash.page[0])'
      BY <1>0, <2>3, NothingShown DEF SInv, SoundInv, Sound, Storable
    <3>2. (0 \in flash.job.on => Sound(flash.job.to))'
      BY <1>0, <2>3, <2>6 DEF Sound, Storable
    <3> QED
      BY <1>0, <2>1, <2>8, <2>10, <3>1, <3>2 DEF SoundInv, ToFill, ToProgram
  <2>12. DrainInv'
    <3>1. pc' = "fill" => Len(write_fifo) <= PageSize
      BY <1>0, <2>1, Sizes DEF SInv, DrainInv, ToProgram
    <3> QED
      BY <1>0, <2>1, <3>1 DEF DrainInv, ToProgram
  <2>13. FreshInv'
    <3>1. ~missed => write_fifo = <<>> /\ ~unerased
      BY <1>0 DEF SInv, FreshInv, ToProgram, Programmed
    <3>2. ~missed => Fresh(First)'
      BY <1>0, <2>7, <3>1 DEF SInv, FreshInv, ToProgram, Programmed, Fresh
    <3> QED
      BY <1>0, <2>1, <2>8, <3>1, <3>2 DEF FreshInv, ToFill, ToProgram
  <2> QED
    BY <2>9, <2>11, <2>12, <2>13 DEF SInv
<1>2. CASE ~FlashReady(flash)
  <2>1. flash' = FlashPoll(flash) /\ UNCHANGED <<page, pc>>
    BY <1>0, <1>2, Refuses DEF TryProgram
  <2> QED
    BY <1>0, <2>1, PollStep
<1> QED
  BY <1>1, <1>2

LEMMA WaitStep == SInv /\ Wait => SInv'
<1> SUFFICES ASSUME SInv, Wait PROVE SInv'
  OBVIOUS
<1>1. /\ pc = "wait" /\ pc' = "idle" /\ flash.job.on = {}
      /\ UNCHANGED <<ram, flash, write_fifo, page_buf, page, data_end, missed, unerased, held, boots>>
  BY DEF Wait, InProgress
<1>2. StoreTypes'
  BY <1>1 DEF SInv, StoreTypes
<1>3. SoundInv' /\ DrainInv'
  BY <1>1 DEF SInv, SoundInv, DrainInv, Sound, Storable, Whole, ToFill, ToProgram
<1>4. FreshInv'
  BY <1>1 DEF SInv, FreshInv, Fresh, First, ToFill, ToProgram, Programmed
<1> QED
  BY <1>2, <1>3, <1>4 DEF SInv

LEMMA LogStep == SInv /\ LogCommands => SInv'
<1> SUFFICES ASSUME SInv, LogCommands PROVE SInv'
  OBVIOUS
<1>0. /\ Good(flash)
      /\ Garbled \in Images /\ LogPage \in Pages /\ LogPage # 0
      /\ pc = "idle" /\ flash' = PageProgram(flash, LogPage, Garbled)
      /\ UNCHANGED <<ram, write_fifo, page_buf, pc, page, data_end, missed, unerased, held, boots>>
  BY Sizes DEF SInv, StoreTypes, LogCommands, Images
<1>1. CASE FlashReady(flash)
  <2> DEFINE to == Over(flash.page[LogPage], Garbled)
  <2>1. AtWork(flash, flash', Pages, Images, {LogPage}, to)
    <3>1. to \in Images
      BY <1>0 DEF Over
    <3> HIDE DEF to
    <3> QED
      BY <1>0, <1>1, <3>1, Programs DEF Good, to
  <2> HIDE DEF to
  <2>2. /\ Good(flash)' /\ Some(flash)' /\ 0 \notin flash'.job.on
        /\ flash'.page[0] = flash.page[0]
    BY <1>0, <2>1, Sizes DEF AtWork, Good, GoodChip, Some, SomeChip
  <2>3. flash.job.on = {}
    BY <1>0, <1>1, Ready DEF Good
  <2>4. StoreTypes'
    BY <1>0, <2>2 DEF SInv, StoreTypes
  <2>5. SoundInv' /\ DrainInv'
    BY <1>0, <2>2 DEF SInv, SoundInv, DrainInv, Sound, Storable, Whole, ToFill, ToProgram
  <2>6. FreshInv'
    BY <1>0, <2>2, <2>3 DEF SInv, FreshInv, Fresh, First, ToFill, ToProgram, Programmed
  <2> QED
    BY <2>4, <2>5, <2>6 DEF SInv
<1>2. CASE ~FlashReady(flash)
  <2>1. flash' = FlashPoll(flash)
    BY <1>0, <1>2, Refuses
  <2> QED
    BY <1>0, <2>1, PollStep
<1> QED
  BY <1>1, <1>2

LEMMA FinishStep == SInv /\ Finish => SInv'
<1> SUFFICES ASSUME SInv, Finish PROVE SInv'
  OBVIOUS
<1>0. /\ Some(flash) /\ flash' = FlashDone(flash)
      /\ UNCHANGED <<ram, write_fifo, page_buf, pc, page, data_end, missed, unerased, held, boots>>
  BY DEF SInv, StoreTypes, Finish
<1>1. /\ Good(flash)' /\ Some(flash)'
      /\ flash'.job.on = {} /\ ~InProgress(flash')
  BY <1>0, Finishes DEF Good, GoodChip, Some, SomeChip, InProgress
<1>2. flash'.page[0] = First
  <2>1. flash'.page = [q \in Pages |-> IF q \in flash.job.on THEN flash.job.to ELSE flash.page[q]]
    BY <1>0, Finishes DEF Some
  <2> QED
    BY <2>1, Sizes DEF First
<1>3. First' = First
  BY <1>1, <1>2 DEF First
<1>4. StoreTypes'
  BY <1>0, <1>1 DEF SInv, StoreTypes
<1>5. SoundInv' /\ DrainInv'
  BY <1>0, <1>1, <1>2 DEF SInv, SoundInv, DrainInv, Sound, Storable, First, Whole, ToFill, ToProgram
<1>6. FreshInv'
  BY <1>0, <1>1, <1>3 DEF SInv, FreshInv, Fresh, ToFill, ToProgram, Programmed
<1> QED
  BY <1>4, <1>5, <1>6 DEF SInv

(* A program cut short leaves a part of its page at most, and no work      *)
(* anywhere else touches the first page.                                   *)
LEMMA HalfSound ==
  ASSUME SInv, flash.job.to \notin {Erased, Garbled}, CutsPrograms,
         NEW half \in HalfProgrammed(flash.job.to)
  PROVE  half \in Images /\ (0 \in flash.job.on => Sound(half))
<1> DEFINE to == flash.job.to
<1>1. to \in [1 .. PageSize -> Units] /\ (0 \in flash.job.on => Sound(to))
  BY DEF SInv, StoreTypes, SoundInv, Some, SomeChip, ChipType, Images
<1> HIDE DEF to
<1>2. DOMAIN to = 1 .. PageSize /\ Len(to) = PageSize
  BY <1>1, Sizes
<1>3. PICK n \in 0 .. Len(to) - 1 : half = [k \in DOMAIN to |-> IF k <= n THEN to[k] ELSE Junk]
  BY DEF HalfProgrammed, to
<1>4. half \in [1 .. PageSize -> Units] /\ Len(half) = PageSize
  BY <1>1, <1>2, <1>3, Sizes DEF Units
<1>5. ASSUME HeaderGood(half), 0 \in flash.job.on PROVE Shown(half) \in Contents
  <2>1. half[1] = Header /\ Header # Junk
    BY <1>5 DEF HeaderGood, Header, Junk
  <2>2. to[1] = Header
    BY <1>2, <1>3, <2>1, Sizes
  <2>3. Shown(to) \in Contents
    BY <1>1, <1>2, <1>5, <2>2 DEF HeaderGood, Sound, Storable
  <2>4. \A i \in 1 .. Params : half[i + 1] \in {to[i + 1], Junk}
    BY <1>2, <1>3, Sizes
  <2>5. \A i \in 1 .. Params : half[i + 1] \in Values \cup {Default, Junk}
    BY <2>3, <2>4 DEF Shown, Contents
  <2> QED
    BY <2>5 DEF Shown, Contents
<1> QED
  BY <1>4, <1>5 DEF Images, Sound, Storable

LEMMA LeftOver ==
  ASSUME SInv, Reset \/ PowerFails
  PROVE  \E pages \in [Pages -> Images], job \in {flash.job, NoJob} :
           /\ Restart(pages, job) /\ Sound(pages[0])
           /\ 0 \notin flash.job.on => pages[0] = flash.page[0]
<1>1. flash.page \in [Pages -> Images] /\ Sound(flash.page[0])
  BY DEF SInv, StoreTypes, SoundInv, Some, SomeChip, ChipType
<1>2. CASE \E job \in {flash.job, NoJob} : Restart(flash.page, job)
  BY <1>1, <1>2
<1>3. CASE /\ CutsPrograms /\ flash.job.to \notin {Erased, Garbled}
           /\ \E half \in HalfProgrammed(flash.job.to) :
                Restart([p \in Pages |-> IF p \in flash.job.on THEN half ELSE flash.page[p]], NoJob)
  <2>1. PICK half \in HalfProgrammed(flash.job.to) :
          Restart([p \in Pages |-> IF p \in flash.job.on THEN half ELSE flash.page[p]], NoJob)
    BY <1>3
  <2> DEFINE pages == [p \in Pages |-> IF p \in flash.job.on THEN half ELSE flash.page[p]]
  <2>2. half \in Images
    BY <1>3, HalfSound
  <2>3. pages \in [Pages -> Images]
    BY <1>1, <2>2
  <2>4. pages[0] = IF 0 \in flash.job.on THEN half ELSE flash.page[0]
    BY Sizes
  <2>5. Sound(pages[0])
    BY <1>1, <1>3, <2>4, HalfSound
  <2> HIDE DEF pages
  <2> QED
    BY <2>1, <2>3, <2>4, <2>5 DEF pages
<1> QED
  BY <1>2, <1>3, Zenon DEF Reset, PowerFails, LeftBy

LEMMA RestartSteps == SInv /\ (Reset \/ PowerFails) => SInv'
<1> SUFFICES ASSUME SInv, Reset \/ PowerFails PROVE SInv'
  OBVIOUS
<1>1. PICK pages \in [Pages -> Images], job \in {flash.job, NoJob} :
             Restart(pages, job) /\ Sound(pages[0])
  BY LeftOver
<1>2. Some(flash) /\ flash' = [page |-> pages, job |-> job, is_busy |-> job.on = {}]
  BY <1>1 DEF SInv, StoreTypes, Restart, FlashBoot
<1>3. NoJob \in [on : SUBSET Pages, to : Images] /\ NoJob.on = {}
  BY DEF NoJob, Images
<1>4. /\ Some(flash)' /\ flash'.page = pages /\ flash'.job = job
  BY <1>2, <1>3 DEF Some, SomeChip, ChipType
<1>5. Compiled \in Contents /\ Unset \in [1 .. PageSize -> Units]
  BY DEF Compiled, Contents, Unset, Units
<1>6. Compiled \in held
  BY DEF SInv, StoreTypes
<1>7. StoreTypes'
  <2>1. boots' \in 0 .. MaxBoots /\ page' \in 0 .. SectorPages
    BY <1>1, Sizes, StoreAssumption DEF SInv, StoreTypes, Restart
  <2>2. write_fifo' \in Seq(Units) /\ Len(write_fifo') <= BufSize
    BY <1>1, Sizes DEF Restart
  <2> QED
    BY <1>1, <1>4, <1>5, <1>6, <2>1, <2>2 DEF SInv, StoreTypes, Restart
<1>8. SoundInv'
  BY <1>1, <1>3, <1>4 DEF SInv, SoundInv, Sound, Storable, Restart, ToFill, ToProgram
<1>9. DrainInv' /\ FreshInv'
  BY <1>1 DEF Restart, DrainInv, FreshInv, ToFill, ToProgram, Programmed
<1> QED
  BY <1>7, <1>8, <1>9 DEF SInv

-----------------------------------------------------------------------------
(* The steps of ParamLink. *)
LEMMA LinkStarts == LinkInit => LInv
<1> SUFFICES ASSUME LinkInit PROVE LInv
  OBVIOUS
<1>1. SInv
  BY StoreStarts DEF LinkInit
<1>2. requests \in 0 .. MaxRequests /\ send_index \in 0 .. Params /\ setting \in 0 .. Params
  BY LinkAssumption, Sizes DEF LinkInit, Nobody
<1>3. LinkTypes
  BY <1>2 DEF LinkInit, EmptyTable, LinkTypes
<1>4. TableInv
  BY DEF LinkInit, Init, EmptyTable, TableInv
<1> QED
  BY <1>1, <1>3, <1>4 DEF LInv

(* What the station may be told. *)
LEMMA Tells ==
  ASSUME SInv, LinkTypes, NEW i \in 1 .. Params, Send(i)
  PROVE  /\ table' \in [1 .. Params -> Values \cup {Default, Junk, Unknown}]
         /\ table'[i] = ram[i] /\ \A j \in 1 .. Params : j # i => table'[j] = table[j]
<1>1. ram \in Contents /\ table \in [1 .. Params -> Values \cup {Default, Junk, Unknown}]
  BY DEF SInv, StoreTypes, LinkTypes
<1> QED
  BY <1>1 DEF Send, Contents

LEMMA Asked ==
  ASSUME LinkTypes, Request
  PROVE  requests' \in 0 .. MaxRequests
BY LinkAssumption DEF Request, LinkTypes

LEMMA IdleLink == LinkTypes /\ pc \in {"boot", "idle"} => setting = Nobody
BY DEF LinkTypes

LEMMA StoreSame == SInv /\ UNCHANGED vars => SInv'
BY DEF SInv, StoreTypes, SoundInv, DrainInv, FreshInv, vars, Sound, Storable, Fresh, First,
       Whole, ToFill, ToProgram, Programmed

LEMMA ListStep == LInv /\ RequestList => LInv'
<1> SUFFICES ASSUME LInv, RequestList PROVE LInv'
  OBVIOUS
<1>1. SInv /\ LinkTypes /\ UNCHANGED vars /\ pc = "idle"
  BY DEF LInv, RequestList, Request
<1>2. SInv'
  BY <1>1, StoreSame
<1>3. requests' \in 0 .. MaxRequests
  BY <1>1, Asked DEF RequestList
<1>4. LinkTypes'
  <2>1. send_index' \in 0 .. Params /\ send_index' < Params
    BY Sizes DEF RequestList
  <2>2. table' \in [1 .. Params -> Values \cup {Default, Junk, Unknown}]
    BY DEF RequestList, EmptyTable
  <2> QED
    BY <1>1, <1>3, <2>1, <2>2 DEF LinkTypes, RequestList, vars
<1>5. TableInv'
  BY <1>1 DEF TableInv, RequestList, EmptyTable, vars
<1> QED
  BY <1>2, <1>4, <1>5 DEF LInv

LEMMA ReadStep ==
  ASSUME LInv, NEW i \in 1 .. Params, RequestRead(i)
  PROVE  LInv'
<1>1. SInv /\ LinkTypes /\ UNCHANGED vars /\ pc = "idle" /\ Send(i)
  BY DEF LInv, RequestRead, Request
<1>2. SInv'
  BY <1>1, StoreSame
<1>3. requests' \in 0 .. MaxRequests
  BY <1>1, Asked DEF RequestRead
<1>4. stopped' \in BOOLEAN /\ sending' = FALSE
  BY Zenon DEF RequestRead, LInv, LinkTypes
<1>5. LinkTypes'
  BY <1>1, <1>3, <1>4, Tells DEF LinkTypes, RequestRead, vars
<1>6. TableInv'
  BY <1>1, Tells DEF LInv, TableInv, RequestRead, vars
<1> QED
  BY <1>2, <1>5, <1>6 DEF LInv

LEMMA SetRequested ==
  ASSUME LInv, NEW i \in 1 .. Params, NEW v \in Values, RequestSet(i, v)
  PROVE  LInv'
<1>1. SInv /\ LinkTypes /\ pc = "idle" /\ Set(i, v) /\ pc' = "erase" /\ setting' = i
  BY DEF LInv, RequestSet, Request, Set, Queue
<1>2. SInv'
  BY <1>1, SetStep
<1>3. requests' \in 0 .. MaxRequests
  BY <1>1, Asked DEF RequestSet
<1>4. LinkTypes'
  BY <1>1, <1>3 DEF LinkTypes, RequestSet
<1>5. TableInv'
  <2>1. ram' = [ram EXCEPT ![i] = v] /\ ram \in Contents /\ UNCHANGED missed
    BY <1>1 DEF Set, SInv, StoreTypes
  <2>2. \A j \in 1 .. Params : j # i => ram'[j] = ram[j]
    BY <2>1 DEF Contents
  <2>3. setting = Nobody
    BY <1>1, IdleLink
  <2> QED
    BY <1>1, <2>1, <2>2, <2>3 DEF LInv, TableInv, RequestSet, Nobody
<1> QED
  BY <1>2, <1>4, <1>5 DEF LInv

LEMMA ListRunStep == LInv /\ ListRun => LInv'
<1> SUFFICES ASSUME LInv, ListRun PROVE LInv'
  OBVIOUS
<1>1. SInv /\ LinkTypes /\ UNCHANGED vars /\ pc = "idle" /\ Send(send_index + 1)
  BY DEF LInv, ListRun
<1>2. send_index + 1 \in 1 .. Params
  BY Sizes DEF LInv, LinkTypes, ListRun
<1>3. SInv'
  BY <1>1, StoreSame
<1>4. sending' \in BOOLEAN
  <2> DEFINE more == send_index + 1 < Params
  <2>1. more \in BOOLEAN
    OBVIOUS
  <2> QED
    BY <2>1, Zenon DEF ListRun
<1>5. send_index' \in 0 .. Params /\ (sending' => send_index' < Params)
  <2>1. send_index \in 0 .. Params /\ send_index' = send_index + 1
    BY DEF ListRun, LInv, LinkTypes
  <2>2. sending' => send_index + 1 < Params
    BY DEF ListRun
  <2> QED
    BY <1>2, <2>1, <2>2
<1>6. LinkTypes'
  BY <1>1, <1>2, <1>4, <1>5, Tells DEF LinkTypes, ListRun, vars
<1>7. TableInv'
  BY <1>1, <1>2, Tells DEF LInv, TableInv, ListRun, vars
<1> QED
  BY <1>3, <1>6, <1>7 DEF LInv

(* A set is answered with the value RAM has by then. *)
LEMMA ReturnStep ==
  ASSUME LInv, Returns, UNCHANGED <<sending, send_index, stopped, unstored, requests>>
  PROVE  LInv'
<1>1. SInv /\ LinkTypes /\ Wait /\ pc = "wait" /\ pc' = "idle" /\ setting' = Nobody
      /\ ram' = ram /\ missed' = missed
  BY DEF LInv, Returns, Wait
<1>2. SInv'
  BY <1>1, WaitStep
<1>3. \/ setting = Nobody /\ table' = table
      \/ setting \in 1 .. Params /\ Send(setting)
  BY <1>1, Sizes DEF Returns, Answers, LinkTypes, Nobody
<1>4. LinkTypes'
  <2>1. table' \in [1 .. Params -> Values \cup {Default, Junk, Unknown}]
    BY <1>1, <1>3, Tells DEF LinkTypes
  <2>2. setting' \in 0 .. Params
    BY <1>1, Sizes DEF Nobody
  <2> QED
    BY <1>1, <2>1, <2>2 DEF LinkTypes
<1>5. TableInv'
  BY <1>1, <1>3, Tells DEF LInv, TableInv, Nobody
<1> QED
  BY <1>2, <1>4, <1>5 DEF LInv

LEMMA StoreStepKeeps == LInv /\ StoreStep => LInv'
<1> SUFFICES ASSUME LInv, StoreStep PROVE LInv'
  OBVIOUS
<1>0. /\ SInv /\ LinkTypes /\ TableInv
      /\ UNCHANGED <<sending, send_index, stopped, requests>>
      /\ unstored' \in BOOLEAN
      /\ ~unstored' => ~unstored /\ ~(pc = "boot" /\ InProgress(flash))
      /\ pc # "boot" => unstored' = unstored
  <2>1. unstored \in BOOLEAN /\ unstored' = (unstored \/ (pc = "boot" /\ InProgress(flash)))
    BY DEF LInv, LinkTypes, StoreStep
  <2> QED
    BY <2>1, Zenon DEF LInv, StoreStep
<1>1. CASE Boot /\ UNCHANGED <<setting, table>>
  <2>1. SInv'
    BY <1>0, <1>1, BootStep
  <2>2. pc = "boot" /\ setting = Nobody /\ pc' \in {"idle", "erase"}
    BY <1>0, <1>1, IdleLink DEF Boot, LoadedAs, Queue
  <2>3. LinkTypes'
    BY <1>0, <1>1, <2>2 DEF LinkTypes
  <2>4. TableInv'
    <3> SUFFICES ASSUME ~missed', ~unstored' PROVE TableInv'
      BY DEF TableInv
    <3>1. ReadPage(flash, 0) = flash.page[0]
      BY <1>0, <2>2 DEF ReadPage
    <3>2. ~HeaderGood(flash.page[0]) => UNCHANGED ram
      BY <1>1, <3>1 DEF Boot
    <3>3. HeaderGood(flash.page[0]) =>
            \A i \in 1 .. Params : ram'[i] = flash.page[0][i + 1]
      BY <1>1, <3>1 DEF Boot, LoadedAs
    <3>4. ~missed /\ ~unstored
      BY <1>0, <2>2 DEF SInv, DrainInv
    <3>5. CASE HeaderGood(flash.page[0])
      BY <1>0, <1>1, <2>2, <3>3, <3>4, <3>5 DEF TableInv
    <3>6. CASE ~HeaderGood(flash.page[0])
      BY <1>0, <1>1, <2>2, <3>2, <3>4, <3>6 DEF TableInv
    <3> QED
      BY <3>5, <3>6
  <2> QED
    BY <2>1, <2>3, <2>4 DEF LInv
<1>2. CASE (TryErase \/ Fill \/ TryProgram) /\ UNCHANGED <<setting, table>>
  <2>1. SInv'
    BY <1>0, <1>2, EraseStep, FillStep, ProgramStep
  <2>2. /\ pc \in {"erase", "fill", "program"} /\ pc' \in {"fill", "program", "wait"}
        /\ UNCHANGED ram
    BY <1>2 DEF TryErase, Fill, TryProgram
  <2>3. ~missed' => ~missed
    BY <1>2, Zenon DEF TryErase, Fill, TryProgram
  <2>4. LinkTypes' /\ TableInv'
    BY <1>0, <1>2, <2>2, <2>3 DEF LinkTypes, TableInv
  <2> QED
    BY <2>1, <2>4 DEF LInv
<1>3. CASE Returns
  <2>1. UNCHANGED unstored
    BY <1>0, <1>3 DEF Returns, Wait
  <2> QED
    BY <1>0, <1>3, <2>1, ReturnStep DEF LInv
<1> QED
  BY <1>1, <1>2, <1>3 DEF StoreStep, Inside

LEMMA OtherStepKeeps == LInv /\ OtherStep => LInv'
<1> SUFFICES ASSUME LInv, OtherStep PROVE LInv'
  OBVIOUS
<1>1. SInv /\ LinkTypes /\ TableInv /\ UNCHANGED lvars /\ UNCHANGED <<ram, pc, missed>>
  BY DEF LInv, OtherStep, LogCommands, Finish
<1>2. SInv'
  BY <1>1, LogStep, FinishStep DEF OtherStep
<1>3. LinkTypes'
  BY <1>1 DEF LinkTypes, lvars
<1>4. pc = "boot" /\ 0 \notin flash.job.on =>
        0 \notin flash'.job.on /\ flash'.page[0] = flash.page[0]
  <2> SUFFICES ASSUME pc = "boot", 0 \notin flash.job.on
               PROVE  0 \notin flash'.job.on /\ flash'.page[0] = flash.page[0]
    OBVIOUS
  <2>1. flash' = FlashDone(flash) /\ Some(flash)
    BY <1>1 DEF OtherStep, LogCommands, Finish, SInv, StoreTypes
  <2>2. /\ flash'.job.on = {}
        /\ flash'.page
             = [q \in Pages |-> IF q \in flash.job.on THEN flash.job.to ELSE flash.page[q]]
    BY <2>1, Finishes DEF Some
  <2> QED
    BY <2>2, Sizes
<1>5. TableInv'
  BY <1>1, <1>4 DEF TableInv, lvars
<1> QED
  BY <1>2, <1>3, <1>5 DEF LInv

LEMMA RestartStepKeeps == LInv /\ RestartStep => LInv'
<1> SUFFICES ASSUME LInv, RestartStep PROVE LInv'
  OBVIOUS
<1>1. SInv /\ LinkTypes /\ TableInv /\ (Reset \/ PowerFails)
  BY DEF LInv, RestartStep
<1>2. SInv'
  BY <1>1, RestartSteps
<1>3. stopped' \in BOOLEAN /\ unstored' \in BOOLEAN
  BY Zenon DEF RestartStep, LInv, LinkTypes
<1>4. send_index' \in 0 .. Params /\ setting' \in 0 .. Params
  BY Sizes DEF RestartStep, Nobody
<1>5. LinkTypes'
  BY <1>1, <1>3, <1>4 DEF LinkTypes, RestartStep
<1>6. TableInv'
  <2>1. PICK pages \in [Pages -> Images], job \in {flash.job, NoJob} :
          /\ Restart(pages, job) /\ Sound(pages[0])
          /\ 0 \notin flash.job.on => pages[0] = flash.page[0]
    BY <1>1, LeftOver
  <2>2. /\ pc' = "boot" /\ flash'.page = pages /\ flash'.job = job /\ NoJob.on = {}
        /\ 0 \notin flash.job.on => flash'.page[0] = flash.page[0]
    BY <2>1 DEF Restart, FlashBoot, NoJob
  <2>3. table' = table /\ unstored' = (unstored \/ missed \/ pc \notin {"boot", "idle"})
    BY DEF RestartStep
  <2>4. CASE unstored'
    BY <2>4 DEF TableInv
  <2>5. CASE pc = "boot" /\ ~unstored'
    BY <1>1, <2>2, <2>3, <2>5 DEF TableInv
  <2>6. CASE pc = "idle" /\ ~unstored'
    <3>1. ~unstored /\ ~missed
      BY <2>3, <2>6
    <3>2. 0 \notin flash.job.on /\ HeaderGood(flash.page[0]) /\ Shown(flash.page[0]) = ram
      BY <1>1, <2>6, <3>1 DEF SInv, FreshInv, Programmed, Fresh, First
    <3>3. \A i \in 1 .. Params : flash.page[0][i + 1] = ram[i]
      BY <3>2 DEF Shown
    <3>4. setting = Nobody
      BY <1>1, <2>6, IdleLink
    <3>5. \A i \in 1 .. Params : table[i] \in {Unknown, ram[i]}
      BY <1>1, <2>6, <3>1, <3>4 DEF TableInv, Nobody
    <3> QED
      BY <2>2, <2>3, <3>2, <3>3, <3>5 DEF TableInv
  <2> QED
    BY <2>3, <2>4, <2>5, <2>6
<1> QED
  BY <1>2, <1>5, <1>6 DEF LInv

LEMMA LinkSame == LInv /\ UNCHANGED allvars => LInv'
<1> SUFFICES ASSUME LInv, UNCHANGED allvars PROVE LInv'
  OBVIOUS
<1>1. SInv'
  BY StoreSame DEF LInv, allvars
<1>2. LinkTypes' /\ TableInv'
  BY DEF LInv, LinkTypes, TableInv, allvars, vars, lvars
<1> QED
  BY <1>1, <1>2 DEF LInv

LEMMA LinkStep == LInv /\ [LinkNext]_allvars => LInv'
BY ListStep, ReadStep, SetRequested, StoreStepKeeps, ListRunStep, OtherStepKeeps,
   RestartStepKeeps, LinkSame DEF LinkNext

-----------------------------------------------------------------------------
(* Results. *)
LEMMA LinkInvariant == LinkSpec => []LInv
<1>1. LinkInit => LInv
  BY LinkStarts
<1>2. LInv /\ [LinkNext]_allvars => LInv'
  BY LinkStep
<1> QED
  BY <1>1, <1>2, PTL DEF LinkSpec

LEMMA Promises ==
  LInv => /\ LinkTypeOK /\ StoreMatchesRam /\ TableIsRam
          /\ ~CutsPrograms => StoreIsSnapshot
<1> SUFFICES ASSUME LInv
             PROVE  /\ LinkTypeOK /\ StoreMatchesRam /\ TableIsRam
                    /\ ~CutsPrograms => StoreIsSnapshot
  OBVIOUS
<1>1. LinkTypeOK
  <2>1. Range(write_fifo) \subseteq Units
    BY DEF LInv, SInv, StoreTypes, Range
  <2> QED
    BY <2>1 DEF LInv, SInv, StoreTypes, LinkTypes, LinkTypeOK, TypeOK, Some,
           SomeChip, ChipType
<1>2. ~CutsPrograms => StoreIsSnapshot
  BY DEF LInv, SInv, SoundInv, Sound, Storable, Shown, StoreIsSnapshot
<1>3. ASSUME pc = "idle", ~missed
      PROVE  0 \notin flash.job.on /\ HeaderGood(flash.page[0]) /\ Shown(flash.page[0]) = ram
  BY <1>3 DEF LInv, SInv, FreshInv, Programmed, Fresh, First
<1>4. StoreMatchesRam
  BY <1>3 DEF StoreMatchesRam, Shown
<1>5. TableIsRam
  BY IdleLink DEF LInv, TableInv, TableIsRam, Nobody
<1> QED
  BY <1>1, <1>2, <1>4, <1>5

(* The protocol's and the store's variables stay in their ranges: no loop  *)
(* over the parameters or the pages runs past its end, and the buffer      *)
(* never holds more than two pages.                                        *)
THEOREM LinkTypesKept == LinkSpec => []LinkTypeOK
BY LinkInvariant, Promises, PTL

(* Under a good header stand values RAM once had together, if a program    *)
(* the power cuts short leaves nothing of its page (BrokenIsReset is what  *)
(* fails of it otherwise) and the page was erased before it was            *)
(* programmed: a restart on a chip at work programs it without.            *)
THEOREM SnapshotsWhole ==
  ASSUME ~CutsPrograms
  PROVE  LinkSpec => []StoreIsSnapshot
<1>1. LInv => StoreIsSnapshot
  BY Promises
<1> QED
  BY <1>1, LinkInvariant, PTL

(* A call of param_set_val or param_init that returns has stored RAM,      *)
(* unless it or an earlier one since the restart found the chip at work,   *)
(* known to the driver or not.                                             *)
THEOREM CallsStore == LinkSpec => []StoreMatchesRam
BY LinkInvariant, Promises, PTL

(* Between two calls the station's table agrees with RAM, whatever was     *)
(* requested, listed, set and stored in between, also after a restart that *)
(* found the chip idle and RAM's values in it.                             *)
THEOREM TableKept == LinkSpec => []TableIsRam
BY LinkInvariant, Promises, PTL
=============================================================================
