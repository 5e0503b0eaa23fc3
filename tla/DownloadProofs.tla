--------------------------- MODULE DownloadProofs ---------------------------
(***************************************************************************)
(* What the runs check of the flight log and of the two links that         *)
(* download it, proved for every layout of the flash, every record list    *)
(* and every chunk and package size, on a chip whose erase command reaches *)
(* every page of the log (EraseReaches).  A chip that erases whole sectors *)
(* is one.  A chip the driver erases with opcode 0x20, a part of a sector  *)
(* at a time (spi_flash.c:249-253), is one only if the other pages of the  *)
(* log were found erased, and the run mtd_erase shows it when they are     *)
(* not.                                                                    *)
(***************************************************************************)
EXTENDS Download, CommonLemmas

(* The log's pages. *)
FirstPage == StartSector * SectorPages
EndPage   == FirstPage + Sectors * SectorPages
wp        == write_addr \div PageSize

Contents == {Erased, Garbled} \cup { Stored(p) : p \in Pages }

-----------------------------------------------------------------------------
(* Addresses and pages. *)
LEMMA Layout ==
  /\ FirstPage \in Nat /\ EndPage \in Nat /\ FirstPage < EndPage /\ EndPage < ChipPages
  /\ start_addr = FirstPage * PageSize /\ end_addr = EndPage * PageSize
  /\ SectorSize \in Nat \ {0} /\ start_addr \in Nat /\ end_addr \in Nat
<1> USE LogAssumption
<1>1. StartSector * SectorPages \in Nat /\ Sectors * SectorPages \in Nat
  OBVIOUS
<1>2. Sectors * SectorPages >= 1
  OBVIOUS
<1>3. (StartSector + Sectors + 1) * SectorPages
        = StartSector * SectorPages + Sectors * SectorPages + SectorPages
  OBVIOUS
<1>4. StartSector * (SectorPages * PageSize) = (StartSector * SectorPages) * PageSize
  OBVIOUS
<1>5. Sectors * (SectorPages * PageSize) = (Sectors * SectorPages) * PageSize
  OBVIOUS
<1>6. (StartSector * SectorPages + Sectors * SectorPages) * PageSize
        = (StartSector * SectorPages) * PageSize + (Sectors * SectorPages) * PageSize
  OBVIOUS
<1>7. SectorPages * PageSize \in Nat \ {0}
  OBVIOUS
<1>8. start_addr = FirstPage * PageSize
  BY <1>4 DEF start_addr, SectorSize, FirstPage
<1>9. end_addr = EndPage * PageSize
  BY <1>4, <1>5, <1>6 DEF end_addr, start_addr, SectorSize, EndPage, FirstPage
<1>10. FirstPage * PageSize \in Nat /\ EndPage * PageSize \in Nat
  BY <1>1 DEF FirstPage, EndPage
<1> QED
  BY <1>1, <1>2, <1>3, <1>7, <1>8, <1>9, <1>10 DEF FirstPage, EndPage, SectorSize

LEMMA PageOrder ==
  ASSUME NEW p \in Nat, NEW q \in Nat
  PROVE  /\ p * PageSize \in Nat /\ (p + 1) * PageSize = p * PageSize + PageSize
         /\ p * PageSize < q * PageSize <=> p < q
         /\ p * PageSize <= q * PageSize <=> p <= q
<1>1. PageSize \in Nat \ {0} /\ PageSize \in Nat
  BY LogAssumption
<1>2. p * PageSize = PageSize * p /\ q * PageSize = PageSize * q
  BY <1>1
<1>3. PageSize * p \in Nat /\ PageSize * q \in Nat
  BY <1>1
<1>4. (p + 1) * PageSize = p * PageSize + PageSize
  BY <1>1
<1>5. p < q => PageSize * p + PageSize <= PageSize * q
  BY <1>1, MoreIsMore
<1>6. q < p => PageSize * q + PageSize <= PageSize * p
  BY <1>1, MoreIsMore
<1>7. p < q \/ p = q \/ q < p
  OBVIOUS
<1> QED
  BY <1>1, <1>2, <1>3, <1>4, <1>5, <1>6, <1>7

LEMMA Aligned ==
  ASSUME NEW w \in Nat
  PROVE  /\ (w * PageSize) \div PageSize = w
         /\ (w * PageSize) \div SectorSize = w \div SectorPages
         /\ (w * PageSize) % SectorSize = 0 <=> w % SectorPages = 0
<1> DEFINE q == w \div SectorPages
           r == w % SectorPages
<1>1. PageSize \in Nat \ {0} /\ SectorPages \in Nat \ {0} /\ SectorSize \in Nat \ {0}
  BY LogAssumption, Layout
<1>2. w = SectorPages * q + r /\ r \in 0 .. SectorPages - 1 /\ q \in Nat
  BY <1>1, Divides
<1> HIDE DEF q, r
<1>3. w * PageSize = PageSize * w + 0
  BY <1>1
<1>4. (w * PageSize) \div PageSize = w
  <2>1. 0 \in 0 .. PageSize - 1
    BY <1>1
  <2> HIDE DEF q, r
  <2> QED
    BY <1>1, <1>3, <2>1, DivUnique
<1>5. w * PageSize = SectorSize * q + PageSize * r
  <2>1. (SectorPages * q + r) * PageSize = (SectorPages * PageSize) * q + PageSize * r
    BY <1>1, <1>2
  <2> QED
    BY <1>2, <2>1 DEF SectorSize
<1>6. PageSize * r \in 0 .. SectorSize - 1 /\ (PageSize * r = 0 <=> r = 0)
  <2>1. PageSize * r + PageSize <= PageSize * SectorPages
    BY <1>1, <1>2, MoreIsMore
  <2>2. PageSize * r \in Nat /\ PageSize * SectorPages = SectorSize
    BY <1>1, <1>2 DEF SectorSize
  <2>3. r > 0 => PageSize * 0 + PageSize <= PageSize * r
    BY <1>1, <1>2, MoreIsMore
  <2> QED
    BY <1>1, <1>2, <2>1, <2>2, <2>3
<1>7. (w * PageSize) \div SectorSize = q /\ (w * PageSize) % SectorSize = PageSize * r
  <2> DEFINE d == SectorSize
             s == PageSize * r
             c == w * PageSize
  <2>1. d \in Nat \ {0} /\ s \in 0 .. d - 1 /\ c = d * q + s
    BY <1>1, <1>5, <1>6
  <2> HIDE DEF d, s, c
  <2>2. c \div d = q /\ c % d = s
    BY <1>2, <2>1, DivUnique
  <2> QED
    BY <2>2 DEF d, s, c
<1> QED
  BY <1>4, <1>6, <1>7 DEF q, r

-----------------------------------------------------------------------------
(* Streams. *)
LEMMA StreamIs ==
  ASSUME NEW m \in Int, NEW n \in Int, m <= n
  PROVE  /\ Stream(m, n) \in Seq(Int) /\ Len(Stream(m, n)) = n - m
         /\ \A i \in 1 .. n - m : Stream(m, n)[i] = m + i
<1>1. n - m \in Nat
  OBVIOUS
<1> QED
  BY <1>1 DEF Stream

LEMMA StreamJoins ==
  ASSUME NEW m \in Int, NEW n \in Int, NEW k \in Int, m <= n, n <= k
  PROVE  Stream(m, n) \o Stream(n, k) = Stream(m, k)
<1>1. Stream(m, n) \in Seq(Int) /\ Stream(n, k) \in Seq(Int) /\ Stream(m, k) \in Seq(Int)
  BY StreamIs
<1>2. Len(Stream(m, n)) = n - m /\ Len(Stream(n, k)) = k - n /\ Len(Stream(m, k)) = k - m
  <2>1. Len(Stream(m, n)) = n - m /\ Len(Stream(n, k)) = k - n
    BY StreamIs
  <2>2. Len(Stream(m, k)) = k - m
    BY StreamIs
  <2> QED
    BY <2>1, <2>2
<1>3. \A i \in 1 .. n - m : Stream(m, n)[i] = m + i
  BY StreamIs
<1>4. \A i \in 1 .. k - n : Stream(n, k)[i] = n + i
  BY StreamIs
<1>5. \A i \in 1 .. k - m : Stream(m, k)[i] = m + i
  <2>1. m <= k
    OBVIOUS
  <2> QED
    BY <2>1, StreamIs
<1> DEFINE s == Stream(m, n)
           t == Stream(n, k)
           u == Stream(m, k)
<1> HIDE DEF s, t, u
<1>6. s \o t \in Seq(Int) /\ Len(s \o t) = k - m
  BY <1>1, <1>2 DEF s, t
<1>7. ASSUME NEW i \in 1 .. k - m PROVE (s \o t)[i] = u[i]
  <2>1. (s \o t)[i] = IF i <= n - m THEN s[i] ELSE t[i - (n - m)]
    <3>1. s \in Seq(Int) /\ t \in Seq(Int) /\ Len(s) = n - m /\ Len(t) = k - n
      BY <1>1, <1>2 DEF s, t
    <3> QED
      BY <3>1
  <2>2. CASE i <= n - m
    <3>1. s[i] = m + i
      BY <1>3, <2>2 DEF s
    <3> QED
      BY <1>5, <2>1, <2>2, <3>1 DEF u
  <2>3. CASE i > n - m
    <3>1. i - (n - m) \in 1 .. k - n
      BY <2>3
    <3>2. t[i - (n - m)] = n + (i - (n - m))
      BY <1>4, <3>1 DEF t
    <3> QED
      BY <1>5, <2>1, <2>3, <3>2 DEF u
  <2>4. i <= n - m \/ i > n - m
    OBVIOUS
  <2> QED
    BY <2>2, <2>3, <2>4
<1>8. u \in Seq(Int) /\ Len(u) = k - m
  BY <1>1, <1>2 DEF u
<1>9. s \o t = u
  BY <1>6, <1>7, <1>8, SeqEqual
<1> QED
  BY <1>9 DEF s, t, u

LEMMA StreamCut ==
  ASSUME NEW m \in Int, NEW n \in Int, NEW k \in Int, m <= n, n <= k
  PROVE  /\ SubSeq(Stream(m, k), 1, n - m) = Stream(m, n)
         /\ SubSeq(Stream(m, k), n - m + 1, k - m) = Stream(n, k)
<1> DEFINE s == Stream(m, n)
           t == Stream(n, k)
           u == Stream(m, k)
<1>1. s \in Seq(Int) /\ t \in Seq(Int) /\ u \in Seq(Int)
  BY StreamIs
<1>2. Len(s) = n - m /\ Len(t) = k - n /\ Len(u) = k - m
  <2>1. Len(s) = n - m /\ Len(t) = k - n
    BY StreamIs
  <2>2. Len(u) = k - m
    BY StreamIs
  <2> QED
    BY <2>1, <2>2
<1>3. /\ \A i \in 1 .. n - m : s[i] = m + i
      /\ \A i \in 1 .. k - n : t[i] = n + i
      /\ \A i \in 1 .. k - m : u[i] = m + i
  <2>1. \A i \in 1 .. n - m : s[i] = m + i
    BY StreamIs
  <2>2. \A i \in 1 .. k - n : t[i] = n + i
    BY StreamIs
  <2>3. \A i \in 1 .. k - m : u[i] = m + i
    <3>1. m <= k
      OBVIOUS
    <3> QED
      BY <3>1, StreamIs
  <2> QED
    BY <2>1, <2>2, <2>3
<1> HIDE DEF s, t, u
<1> DEFINE a == SubSeq(u, 1, n - m)
           b == SubSeq(u, n - m + 1, k - m)
<1>4. a \in Seq(Int) /\ Len(a) = n - m /\ \A i \in 1 .. n - m : a[i] = u[i]
  <2>1. a \in Seq(Int) /\ Len(a) = IF 1 <= n - m THEN n - m ELSE 0
    BY <1>1, <1>2, Cuts
  <2>2. \A i \in 1 .. n - m : a[i] = u[1 + i - 1]
    BY <1>1, <1>2
  <2> QED
    BY <2>1, <2>2
<1>5. b \in Seq(Int) /\ Len(b) = k - n /\ \A i \in 1 .. k - n : b[i] = u[n - m + i]
  <2>1. b \in Seq(Int) /\ Len(b) = IF n - m + 1 <= k - m THEN k - n ELSE 0
    BY <1>1, <1>2, Cuts
  <2>2. \A i \in 1 .. k - n : b[i] = u[n - m + i]
    BY <1>1, <1>2
  <2> QED
    BY <2>1, <2>2
<1> HIDE DEF a, b
<1>6. a = s
  BY <1>1, <1>2, <1>3, <1>4, SeqEqual
<1>7. b = t
  <2>1. ASSUME NEW i \in 1 .. k - n PROVE b[i] = t[i]
    <3>1. n - m + i \in 1 .. k - m
      OBVIOUS
    <3> QED
      BY <1>3, <1>5, <3>1
  <2> QED
    BY <1>1, <1>2, <1>5, <2>1, SeqEqual
<1> QED
  BY <1>6, <1>7 DEF a, b, s, t, u

-----------------------------------------------------------------------------
(* The inductive invariant of the log: the buffer and the page that waits  *)
(* continue the stream where the programmed pages end, those hold what     *)
(* they should, and what is left of the sector at work is erased.          *)

Base == (write_addr - start_addr) + (IF status = "PROGRAM_CONTINUE" THEN PageSize ELSE 0)

LogTypes ==
  /\ GoodChip(flash, Pages, Contents)
  /\ wp \in FirstPage .. EndPage + 1 /\ write_addr = wp * PageSize
  /\ status \in {"ERASE", "PROGRAM_CONTINUE", "IDLE"}
  /\ has_erase \in BOOLEAN /\ is_full \in BOOLEAN /\ record \in BOOLEAN
  /\ page_buf = <<>> \/ \E p \in Pages : page_buf = Stored(p)
  /\ accepted \in Nat

BufferInv ==
  /\ write_fifo = Stream(Base, accepted)
  /\ Base <= accepted /\ accepted <= Base + BufSize
  /\ start_addr + accepted <= end_addr + BufSize

WaitingInv ==
  status = "PROGRAM_CONTINUE" =>
    ~EraseDue /\ page_buf = Stored(wp) /\ Base < accepted

Written(f, w) ==
  \A p \in Pages : FirstPage <= p /\ p < w =>
    (IF p \in f.job.on THEN f.job.to ELSE f.page[p]) = Stored(p)

Blank(f, w) ==
  \A p \in Pages : w <= p /\ p \div SectorPages = w \div SectorPages =>
    (IF p \in f.job.on THEN f.job.to ELSE f.page[p]) = Erased

(* The pages of the log that no erase command reaches. *)
Spare(f, w) ==
  \A p \in Pages : w <= p /\ p % SectorPages >= EraseUnit =>
    (IF p \in f.job.on THEN f.job.to ELSE f.page[p]) = Erased

ChipInv ==
  /\ Written(flash, wp) /\ Spare(flash, wp)
  /\ has_erase \/ wp % SectorPages # 0 => Blank(flash, wp)

LogInv == LogTypes /\ BufferInv /\ WaitingInv /\ ChipInv

(* What log_run may hand to mtd_sync. *)
Buffers ==
  {b \in [fifo : Seq(Int), accepted : Nat, is_full : BOOLEAN] :
     /\ b.fifo = Stream(Base, b.accepted)
     /\ accepted <= b.accepted /\ b.accepted <= Base + BufSize
     /\ start_addr + b.accepted <= end_addr + BufSize}

LEMMA BaseIs ==
  ASSUME LogInv
  PROVE  Base \in Nat /\ write_addr \in Nat /\ write_addr - start_addr \in Nat
         /\ BufSize \in Nat /\ PageSize \in Nat
<1>1. PageSize \in Nat /\ BufSize \in Nat
  BY LogAssumption DEF BufSize
<1>2. wp \in Nat /\ write_addr = wp * PageSize /\ FirstPage <= wp
  BY Layout DEF LogInv, LogTypes
<1>3. write_addr \in Nat /\ start_addr <= write_addr /\ start_addr \in Nat
  BY <1>2, Layout, PageOrder
<1> QED
  BY <1>1, <1>3 DEF Base

LEMMA MtdWriteKeeps ==
  ASSUME LogInv, NEW b \in Buffers, NEW len \in 1 .. PageSize - 1
  PROVE  MtdWrite(b, len) \in Buffers
<1>0. /\ Base \in Nat /\ write_addr \in Nat /\ BufSize \in Nat /\ PageSize \in Nat
      /\ accepted \in Nat /\ start_addr \in Nat /\ end_addr \in Nat
      /\ write_addr - start_addr \in Nat
  BY BaseIs, Layout DEF LogInv, LogTypes
<1>1. /\ b.fifo \in Seq(Int) /\ b.accepted \in Nat /\ b.is_full \in BOOLEAN
      /\ b.fifo = Stream(Base, b.accepted)
      /\ accepted <= b.accepted /\ b.accepted <= Base + BufSize
      /\ start_addr + b.accepted <= end_addr + BufSize
      /\ b = [fifo |-> b.fifo, accepted |-> b.accepted, is_full |-> b.is_full]
  BY DEF Buffers
<1>2. Base <= b.accepted
  BY <1>0, <1>1 DEF LogInv, BufferInv
<1>3. CASE ~(Space(write_addr) > len)
  <2>1. MtdWrite(b, len) = [fifo |-> b.fifo, accepted |-> b.accepted, is_full |-> TRUE]
    BY <1>1, <1>3 DEF MtdWrite
  <2> QED
    BY <1>1, <2>1 DEF Buffers
<1>4. CASE Space(write_addr) > len
  <2>1. write_addr < end_addr
    BY <1>0, <1>4 DEF Space
  <2>2. write_addr + PageSize <= end_addr
    <3>1. wp \in Nat /\ EndPage \in Nat /\ write_addr = wp * PageSize
      BY Layout DEF LogInv, LogTypes
    <3>2. wp < EndPage
      BY <2>1, <3>1, Layout, PageOrder
    <3>3. wp + 1 <= EndPage /\ wp + 1 \in Nat
      BY <3>1, <3>2
    <3>4. (wp + 1) * PageSize <= end_addr
      BY <3>1, <3>3, Layout, PageOrder
    <3> QED
      BY <3>1, <3>4, PageOrder
  <2>3. start_addr + Base <= end_addr
    BY <1>0, <2>1, <2>2 DEF Base
  <2> DEFINE n == Min({len, BufSize - Len(b.fifo)})
             c == b.accepted + n
  <2>4. Len(b.fifo) = b.accepted - Base
    BY <1>0, <1>1, <1>2, StreamIs
  <2>5. n \in Nat /\ n <= b.accepted + BufSize /\ n <= (Base + BufSize) - b.accepted
    <3>1. BufSize - Len(b.fifo) \in Nat /\ len \in Nat
      BY <1>0, <1>1, <1>2, <2>4
    <3>2. n \in {len, BufSize - Len(b.fifo)} /\ n <= BufSize - Len(b.fifo)
      BY <3>1, SMTT(30) DEF Min
    <3> QED
      BY <1>0, <1>1, <1>2, <2>4, <3>1, <3>2
  <2>6. MtdWrite(b, len) = [fifo |-> b.fifo \o Stream(b.accepted, c), accepted |-> c,
                            is_full |-> IF n = len THEN FALSE ELSE b.is_full]
    BY <1>4 DEF MtdWrite
  <2> HIDE DEF n
  <2>7. /\ c \in Nat /\ b.accepted <= c /\ c <= Base + BufSize
        /\ start_addr + c <= end_addr + BufSize /\ accepted <= c /\ Base <= c
    <3>1. c \in Nat /\ b.accepted <= c
      BY <1>1, <2>5
    <3>2. c <= Base + BufSize
      BY <1>0, <1>1, <2>5
    <3>3. start_addr + c <= end_addr + BufSize
      BY <1>0, <2>3, <3>1, <3>2
    <3>4. accepted <= c /\ Base <= c
      BY <1>0, <1>1, <1>2, <3>1
    <3> QED
      BY <3>1, <3>2, <3>3, <3>4
  <2> HIDE DEF c
  <2>8. b.fifo \o Stream(b.accepted, c) = Stream(Base, c) /\ Stream(Base, c) \in Seq(Int)
    <3>1. Base \in Int /\ b.accepted \in Int /\ c \in Int
      BY <1>0, <1>1, <2>7
    <3>2. Stream(Base, b.accepted) \o Stream(b.accepted, c) = Stream(Base, c)
      BY <1>2, <2>7, <3>1, StreamJoins
    <3>3. Stream(Base, c) \in Seq(Int)
      BY <2>7, <3>1, StreamIs
    <3> QED
      BY <1>1, <3>2, <3>3
  <2> DEFINE full == IF n = len THEN FALSE ELSE b.is_full
  <2>9. full \in BOOLEAN
    BY <1>1
  <2> HIDE DEF full
  <2>10. MtdWrite(b, len) = [fifo |-> Stream(Base, c), accepted |-> c, is_full |-> full]
    BY <2>6, <2>8 DEF full
  <2> QED
    BY <2>7, <2>8, <2>9, <2>10 DEF Buffers
<1> QED
  BY <1>3, <1>4

LEMMA LogWritesKeeps ==
  ASSUME LogInv, NEW due
  PROVE  LogWrites(due) \in Buffers
<1> DEFINE N == Len(Records)
           b == [fifo |-> write_fifo, accepted |-> accepted, is_full |-> is_full]
           after[k \in 0 .. N] ==
             IF k = 0 THEN b
             ELSE IF k \in due THEN MtdWrite(after[k - 1], Records[k]) ELSE after[k - 1]
           Obeys(g, n) ==
             g = [k \in 0 .. n |-> IF k = 0 THEN b
                                   ELSE IF k \in due THEN MtdWrite(g[k - 1], Records[k])
                                   ELSE g[k - 1]]
<1>1. N \in Nat /\ \A k \in 1 .. N : Records[k] \in 1 .. PageSize - 1
  BY LogAssumption
<1>2. b \in Buffers
  <2>1. Base \in Nat /\ accepted \in Nat /\ Base <= accepted
    BY BaseIs DEF LogInv, LogTypes, BufferInv
  <2>2. write_fifo \in Seq(Int)
    BY <2>1, StreamIs DEF LogInv, BufferInv
  <2> QED
    BY <2>1, <2>2 DEF Buffers, LogInv, LogTypes, BufferInv
<1> HIDE DEF N, b
<1>3. \E g : Obeys(g, N)
  <2> DEFINE T == {n \in 0 .. N : \E g : Obeys(g, n)}
  <2>1. 0 \in T
    <3> DEFINE g == [k \in 0 .. 0 |-> b]
    <3>1. g = [k \in 0 .. 0 |-> g[k]] /\ \A k \in 0 .. 0 : k = 0 /\ g[k] = b
      OBVIOUS
    <3> HIDE DEF g
    <3>2. Obeys(g, 0)
      BY <3>1
    <3>3. 0 \in 0 .. N
      BY <1>1
    <3> HIDE DEF Obeys
    <3> QED
      BY <3>2, <3>3
  <2>2. ASSUME NEW n \in 0 .. N - 1, n \in T PROVE n + 1 \in T
    <3>1. PICK g : Obeys(g, n)
      BY <2>2
    <3> DEFINE last == IF n + 1 \in due THEN MtdWrite(g[n], Records[n + 1]) ELSE g[n]
               h == [k \in 0 .. n + 1 |-> IF k = n + 1 THEN last ELSE g[k]]
    <3> HIDE DEF last
    <3>2. \A k \in 0 .. n : h[k] = g[k]
      OBVIOUS
    <3>3. h[n + 1] = last
      OBVIOUS
    <3>4. ASSUME NEW k \in 0 .. n + 1
          PROVE  h[k] = IF k = 0 THEN b
                        ELSE IF k \in due THEN MtdWrite(h[k - 1], Records[k]) ELSE h[k - 1]
      <4>1. CASE k = n + 1
        <5>1. k # 0 /\ k - 1 = n /\ h[k - 1] = g[n]
          BY <3>2, <4>1
        <5> QED
          BY <3>3, <4>1, <5>1 DEF last
      <4>2. CASE k = 0
        <5>1. h[k] = g[k] /\ g[k] = b
          BY <3>1, <3>2, <4>2
        <5> QED
          BY <4>2, <5>1
      <4>3. CASE k \in 1 .. n
        <5>1. h[k] = g[k] /\ h[k - 1] = g[k - 1] /\ k # 0
          BY <3>2, <4>3
        <5>2. g[k] = IF k \in due THEN MtdWrite(g[k - 1], Records[k]) ELSE g[k - 1]
          BY <3>1, <4>3
        <5> QED
          BY <5>1, <5>2
      <4> QED
        BY <4>1, <4>2, <4>3
    <3>5. Obeys(h, n + 1)
      <4>1. h = [k \in 0 .. n + 1 |-> h[k]]
        OBVIOUS
      <4> HIDE DEF h
      <4> QED
        BY <3>4, <4>1
    <3>6. n + 1 \in 0 .. N
      BY <1>1
    <3> HIDE DEF Obeys
    <3> QED
      BY <3>5, <3>6
  <2> HIDE DEF T
  <2>3. 0 .. N \subseteq T
    BY <1>1, <2>1, <2>2, Induction
  <2>4. N \in T
    BY <1>1, <2>3
  <2> QED
    BY <2>4 DEF T
<1>4. Obeys(after, N)
  BY <1>3
<1> HIDE DEF after
<1>5. 0 .. N \subseteq {n \in 0 .. N : after[n] \in Buffers}
  <2> DEFINE T == {n \in 0 .. N : after[n] \in Buffers}
  <2>1. 0 \in T
    BY <1>1, <1>2, <1>4
  <2>2. ASSUME NEW n \in 0 .. N - 1, n \in T PROVE n + 1 \in T
    <3>1. n + 1 \in 1 .. N /\ n + 1 # 0 /\ (n + 1) - 1 = n
      BY <1>1
    <3>2. after[n + 1] = IF n + 1 \in due THEN MtdWrite(after[n], Records[n + 1]) ELSE after[n]
      <4>1. n + 1 \in 0 .. N
        BY <1>1
      <4> QED
        BY <1>4, <3>1, <4>1
    <3>3. MtdWrite(after[n], Records[n + 1]) \in Buffers
      BY <1>1, <2>2, <3>1, MtdWriteKeeps
    <3> QED
      BY <2>2, <3>1, <3>2, <3>3
  <2> HIDE DEF T
  <2>3. 0 .. N \subseteq T
    BY <1>1, <2>1, <2>2, Induction
  <2> QED
    BY <2>3 DEF T
<1>6. after[N] \in Buffers
  BY <1>1, <1>5
<1>7. LogWrites(due) = IF ~is_full /\ record THEN after[N] ELSE b
  BY DEF LogWrites, after, N, b
<1> QED
  BY <1>2, <1>6, <1>7

-----------------------------------------------------------------------------
(* What the calls of the log do to a chip that holds the log up to page w. *)
LEMMA NextPage ==
  ASSUME NEW w \in Nat, (w + 1) % SectorPages # 0
  PROVE  (w + 1) \div SectorPages = w \div SectorPages
<1> DEFINE d == SectorPages
           q == w \div d
           r == w % d
<1>1. d \in Nat \ {0}
  BY LogAssumption
<1> HIDE DEF d
<1>2. w = d * q + r /\ r \in 0 .. d - 1 /\ q \in Nat
  BY <1>1, Divides
<1> HIDE DEF q, r
<1>3. CASE r + 1 = d
  <2>1. w + 1 = d * (q + 1) + 0
    BY <1>1, <1>2, <1>3
  <2>2. q + 1 \in Nat /\ 0 \in 0 .. d - 1
    BY <1>1, <1>2
  <2>3. (w + 1) % d = 0
    BY <1>1, <2>1, <2>2, DivUnique
  <2> QED
    BY <2>3 DEF d
<1>4. CASE r + 1 # d
  <2> DEFINE s == r + 1
             c == w + 1
             a == d * q
  <2>1. s \in 0 .. d - 1
    BY <1>1, <1>2, <1>4
  <2>2. c = d * q + s
    <3>1. a \in Nat /\ w = a + r
      BY <1>1, <1>2
    <3> HIDE DEF a
    <3>2. c = a + s
      BY <1>1, <1>2, <3>1
    <3> QED
      BY <3>2 DEF a
  <2> HIDE DEF s, c
  <2>3. c \div d = q
    BY <1>1, <1>2, <2>1, <2>2, DivUnique
  <2> QED
    BY <2>3 DEF d, q, c
<1> QED
  BY <1>3, <1>4

LEMMA FirstOfMany ==
  ASSUME NEW d \in Nat \ {0}, NEW w \in Nat, w % d = 0,
         NEW p \in Nat, p \div d = w \div d
  PROVE  w <= p
<1>1. w = d * (w \div d) + (w % d) /\ w \div d \in Nat
  BY Divides
<1>2. p = d * (p \div d) + (p % d) /\ p % d \in Nat
  BY Divides
<1> DEFINE q == d * (w \div d)
<1>3. q \in Nat /\ w = q + (w % d) /\ p = q + (p % d)
  BY <1>1, <1>2
<1> HIDE DEF q
<1> QED
  BY <1>2, <1>3

(* A sector starts where an erase unit does, and its first pages are the   *)
(* unit's.                                                                 *)
LEMMA UnitStarts ==
  ASSUME EraseReaches, NEW w \in Nat, w % SectorPages = 0
  PROVE  /\ w % EraseUnit = 0
         /\ \A p \in Nat :
              p \div SectorPages = w \div SectorPages /\ p % SectorPages < EraseUnit
              => p \div EraseUnit = w \div EraseUnit
<1> DEFINE d == SectorPages
           e == EraseUnit
           k == d \div e
           j == w \div d
<1>1. d \in Nat \ {0} /\ e \in Nat \ {0} /\ d % e = 0 /\ w % d = 0
  BY LogAssumption DEF EraseReaches
<1> HIDE DEF d, e
<1>2. d = e * k /\ k \in Nat
  BY <1>1, Divides
<1>3. w = d * j /\ j \in Nat
  <2>1. w = d * j + (w % d) /\ j \in Nat
    BY <1>1, Divides
  <2> QED
    BY <1>1, <2>1
<1> HIDE DEF k, j
<1> DEFINE m == k * j
<1>4. m \in Nat
  BY <1>2, <1>3
<1>5. (e * k) * j = e * (k * j)
  BY <1>1, <1>2, <1>3
<1>6. w = e * m
  BY <1>2, <1>3, <1>5
<1> HIDE DEF m
<1>7. w \div e = m /\ w % e = 0
  <2> DEFINE z == 0
  <2>1. z \in 0 .. e - 1 /\ w = e * m + z
    BY <1>1, <1>4, <1>6
  <2> HIDE DEF z
  <2>2. w \div e = m /\ w % e = z
    BY ONLY <1>1, <1>4, <2>1, DivUnique
  <2> QED
    BY <2>2 DEF z
<1>8. ASSUME NEW p \in Nat, p \div d = j, p % d < e PROVE p \div e = m
  <2> DEFINE r == p % d
             q == p \div d
  <2>1. p = d * q + r /\ r \in Nat
    BY <1>1, Divides
  <2>2. q = j /\ r < e
    BY <1>8
  <2> HIDE DEF q, r
  <2>3. r \in 0 .. e - 1
    BY <1>1, <2>1, <2>2
  <2>4. p = e * m + r
    BY <1>3, <1>6, <2>1, <2>2
  <2> QED
    BY ONLY <1>1, <1>4, <2>3, <2>4, DivUnique
<1> QED
  BY <1>7, <1>8 DEF d, e, j

LEMMA ChipAsked ==
  ASSUME NEW f, GoodChip(f, Pages, Contents), NEW w
  PROVE  /\ GoodChip(FlashPoll(f), Pages, Contents)
         /\ Written(f, w) => Written(FlashPoll(f), w)
         /\ Blank(f, w) => Blank(FlashPoll(f), w)
         /\ Spare(f, w) => Spare(FlashPoll(f), w)
<1>1. /\ GoodChip(FlashPoll(f), Pages, Contents)
      /\ FlashPoll(f).page = f.page /\ FlashPoll(f).job = f.job
  BY Polled
<1> QED
  BY <1>1, Zenon DEF Written, Blank, Spare

LEMMA ChipDone ==
  ASSUME NEW f, GoodChip(f, Pages, Contents), NEW w
  PROVE  /\ GoodChip(FlashDone(f), Pages, Contents)
         /\ Written(f, w) => Written(FlashDone(f), w)
         /\ Blank(f, w) => Blank(FlashDone(f), w)
         /\ Spare(f, w) => Spare(FlashDone(f), w)
<1> DEFINE g == FlashDone(f)
<1>1. /\ GoodChip(g, Pages, Contents) /\ g.job.on = {}
      /\ g.page = [q \in Pages |-> IF q \in f.job.on THEN f.job.to ELSE f.page[q]]
  <2>1. SomeChip(f, Pages, Contents)
    BY DEF GoodChip, SomeChip
  <2> QED
    BY <2>1, Finishes
<1> HIDE DEF g
<1>2. \A p \in Pages : g.page[p] = IF p \in f.job.on THEN f.job.to ELSE f.page[p]
  BY <1>1
<1>3. \A p \in Pages : p \notin g.job.on
  BY <1>1
<1>4. Written(f, w) => Written(g, w)
  BY <1>2, <1>3 DEF Written
<1>5. Blank(f, w) => Blank(g, w)
  BY <1>2, <1>3 DEF Blank
<1>6. Spare(f, w) => Spare(g, w)
  BY <1>2, <1>3 DEF Spare
<1> QED
  BY <1>1, <1>4, <1>5, <1>6 DEF g

LEMMA ChipErased ==
  ASSUME EraseReaches, NEW f, GoodChip(f, Pages, Contents), FlashReady(f),
         NEW w \in Nat, w % SectorPages = 0, Written(f, w), Spare(f, w)
  PROVE  /\ GoodChip(EraseSector(f, w, EraseUnit), Pages, Contents)
         /\ Written(EraseSector(f, w, EraseUnit), w)
         /\ Blank(EraseSector(f, w, EraseUnit), w)
         /\ Spare(EraseSector(f, w, EraseUnit), w)
<1> DEFINE g == EraseSector(f, w, EraseUnit)
           on == {q \in Pages : q \div EraseUnit = w \div EraseUnit}
<1>0. f.job.on = {}
  BY Ready
<1>1. AtWork(f, g, Pages, Contents, on, Erased)
  BY Erases
<1>2. Pages \subseteq Nat
  BY DEF Pages
<1> HIDE DEF g
<1>3. /\ GoodChip(g, Pages, Contents) /\ g.job.on = on /\ g.job.to = Erased
      /\ \A q \in Pages : g.page[q] = IF q \in on THEN Garbled ELSE f.page[q]
  BY <1>1 DEF AtWork
<1>4. ASSUME NEW p \in Pages, FirstPage <= p, p < w
      PROVE  (IF p \in g.job.on THEN g.job.to ELSE g.page[p]) = Stored(p)
  <2>1. p \notin on
    <3>1. ~(w <= p) /\ p \in Nat
      BY <1>2, <1>4
    <3>2. w % EraseUnit = 0 /\ EraseUnit \in Nat \ {0}
      BY UnitStarts, LogAssumption
    <3> QED
      BY <3>1, <3>2, FirstOfMany
  <2>2. f.page[p] = Stored(p)
    BY <1>0, <1>4 DEF Written
  <2> QED
    BY <1>3, <2>1, <2>2
<1>5. Written(g, w)
  BY <1>4 DEF Written
<1>6. ASSUME NEW p \in Pages, w <= p, p % SectorPages >= EraseUnit
      PROVE  (IF p \in g.job.on THEN g.job.to ELSE g.page[p]) = Erased
  <2>1. f.page[p] = Erased
    BY <1>0, <1>6 DEF Spare
  <2> QED
    BY <1>3, <2>1
<1>7. Spare(g, w)
  BY <1>6 DEF Spare
<1>8. ASSUME NEW p \in Pages, w <= p, p \div SectorPages = w \div SectorPages
      PROVE  (IF p \in g.job.on THEN g.job.to ELSE g.page[p]) = Erased
  <2>1. CASE p % SectorPages >= EraseUnit
    BY <1>6, <1>8, <2>1
  <2>2. CASE p % SectorPages < EraseUnit
    <3>1. p \div EraseUnit = w \div EraseUnit
      BY <1>2, <1>8, <2>2, UnitStarts
    <3> QED
      BY <1>3, <3>1
  <2>3. p % SectorPages \in Int /\ EraseUnit \in Int
    <3>1. p \in Nat /\ SectorPages \in Nat \ {0} /\ EraseUnit \in Int
      BY <1>2, LogAssumption
    <3> QED
      BY <3>1, Divides
  <2> QED
    BY <2>1, <2>2, <2>3
<1>9. Blank(g, w)
  BY <1>8 DEF Blank
<1> QED
  BY <1>3, <1>5, <1>7, <1>9 DEF g

LEMMA ChipProgrammed ==
  ASSUME NEW f, GoodChip(f, Pages, Contents), FlashReady(f),
         NEW w \in Pages, Written(f, w), Blank(f, w), Spare(f, w)
  PROVE  /\ GoodChip(PageProgram(f, w, Stored(w)), Pages, Contents)
         /\ Written(PageProgram(f, w, Stored(w)), w + 1)
         /\ (w + 1) % SectorPages # 0 => Blank(PageProgram(f, w, Stored(w)), w + 1)
         /\ Spare(PageProgram(f, w, Stored(w)), w + 1)
<1> DEFINE g == PageProgram(f, w, Stored(w))
<1>0. f.job.on = {} /\ Stored(w) \in Contents
  BY Ready DEF Contents
<1>1. Pages \subseteq Nat
  BY DEF Pages
<1>2. f.page[w] = Erased
  BY <1>0, <1>1 DEF Blank
<1>3. AtWork(f, g, Pages, Contents, {w}, Stored(w))
  <2>1. Over(f.page[w], Stored(w)) = Stored(w)
    BY <1>2 DEF Over
  <2>2. AtWork(f, g, Pages, Contents, {w}, Over(f.page[w], Stored(w)))
    BY <1>0, <2>1, Programs
  <2> QED
    BY <2>1, <2>2
<1> HIDE DEF g
<1>4. /\ GoodChip(g, Pages, Contents) /\ g.job.on = {w} /\ g.job.to = Stored(w)
      /\ \A q \in Pages : g.page[q] = IF q \in {w} THEN Garbled ELSE f.page[q]
  BY <1>3 DEF AtWork
<1>5. ASSUME NEW p \in Pages, FirstPage <= p, p < w + 1
      PROVE  (IF p \in g.job.on THEN g.job.to ELSE g.page[p]) = Stored(p)
  <2>1. CASE p = w
    BY <1>4, <2>1
  <2>2. CASE p # w
    <3>1. p < w
      BY <1>1, <1>5, <2>2
    <3>2. f.page[p] = Stored(p)
      BY <1>0, <1>5, <3>1 DEF Written
    <3> QED
      BY <1>4, <2>2, <3>2
  <2> QED
    BY <2>1, <2>2
<1>6. Written(g, w + 1)
  BY <1>5 DEF Written
<1>7. ASSUME (w + 1) % SectorPages # 0 PROVE Blank(g, w + 1)
  <2>1. (w + 1) \div SectorPages = w \div SectorPages
    BY <1>1, <1>7, NextPage
  <2>2. ASSUME NEW p \in Pages, w + 1 <= p, p \div SectorPages = w \div SectorPages
        PROVE  (IF p \in g.job.on THEN g.job.to ELSE g.page[p]) = Erased
    <3>1. w <= p /\ p # w
      BY <1>1, <2>2
    <3>2. f.page[p] = Erased
      BY <1>0, <2>2, <3>1 DEF Blank
    <3> QED
      BY <1>4, <3>1, <3>2
  <2> QED
    BY <2>1, <2>2 DEF Blank
<1>8. ASSUME NEW p \in Pages, w + 1 <= p, p % SectorPages >= EraseUnit
      PROVE  (IF p \in g.job.on THEN g.job.to ELSE g.page[p]) = Erased
  <2>1. w <= p /\ p # w
    BY <1>1, <1>8
  <2>2. f.page[p] = Erased
    BY <1>0, <1>8, <2>1 DEF Spare
  <2> QED
    BY <1>4, <2>1, <2>2
<1>9. Spare(g, w + 1)
  BY <1>8 DEF Spare
<1> QED
  BY <1>4, <1>6, <1>7, <1>9 DEF g

-----------------------------------------------------------------------------
(* A step of the log keeps its invariant, if the chip's erase reaches.     *)
LEMMA DueAtStart ==
  ASSUME LogInv
  PROVE  EraseDue <=> ~has_erase /\ wp % SectorPages = 0
<1>1. wp \in Nat /\ write_addr = wp * PageSize
  BY Layout DEF LogInv, LogTypes
<1>2. write_addr % SectorSize = 0 <=> wp % SectorPages = 0
  BY <1>1, Aligned
<1> QED
  BY <1>2 DEF EraseDue

LEMMA StoredIs ==
  ASSUME LogInv
  PROVE  Stored(wp) = Stream(write_addr - start_addr, (write_addr - start_addr) + PageSize)
<1>1. wp \in Nat /\ write_addr = wp * PageSize
  BY Layout DEF LogInv, LogTypes
<1>2. (wp + 1) * PageSize = write_addr + PageSize
  BY <1>1, PageOrder
<1>3. write_addr \in Nat /\ start_addr \in Nat /\ PageSize \in Nat
  BY BaseIs, Layout
<1>4. (wp + 1) * PageSize - start_addr = (write_addr - start_addr) + PageSize
  BY <1>2, <1>3
<1> QED
  BY <1>1, <1>4 DEF Stored

(* A page goes to the chip. *)
LEMMA ProgramKeeps ==
  ASSUME LogInv, NEW buf, buf = Stored(wp), ~EraseDue, wp \in 0 .. EndPage, Program(buf)
  PROVE  /\ GoodChip(flash', Pages, Contents) /\ ChipInv'
         /\ wp' \in FirstPage .. EndPage + 1 /\ write_addr' = wp' * PageSize
         /\ status' \in {"IDLE", "PROGRAM_CONTINUE"} /\ has_erase' \in BOOLEAN
         /\ page_buf' = buf
         /\ status' = "PROGRAM_CONTINUE" => ~EraseDue' /\ wp' = wp
         /\ write_addr' = IF status' = "IDLE" THEN write_addr + PageSize ELSE write_addr
<1>1. /\ GoodChip(flash, Pages, Contents) /\ wp \in FirstPage .. EndPage + 1
      /\ write_addr = wp * PageSize /\ has_erase \in BOOLEAN
      /\ wp \in Nat /\ FirstPage \in Nat /\ EndPage \in Nat /\ EndPage < ChipPages
      /\ ChipPages \in Nat
  BY Layout, LogAssumption DEF LogInv, LogTypes
<1>2. Written(flash, wp) /\ Blank(flash, wp) /\ Spare(flash, wp)
  BY DueAtStart DEF LogInv, ChipInv
<1>3. wp \in Pages
  BY <1>1 DEF Pages
<1>4. page_buf' = buf
  BY DEF Program
<1>5. CASE FlashReady(flash)
  <2>1. /\ flash' = PageProgram(flash, wp, Stored(wp)) /\ write_addr' = write_addr + PageSize
        /\ has_erase' = FALSE /\ status' = "IDLE"
    BY <1>5 DEF Program, wp
  <2>2. write_addr' = (wp + 1) * PageSize
    BY <1>1, <2>1, PageOrder
  <2>3. wp' = wp + 1
    <3>1. wp + 1 \in Nat
      BY <1>1
    <3>2. write_addr' \div PageSize = wp + 1
      BY <2>2, <3>1, Aligned
    <3> QED
      BY <3>2 DEF wp
  <2>4. /\ GoodChip(flash', Pages, Contents)
        /\ Written(flash', wp + 1) /\ Spare(flash', wp + 1)
        /\ (wp + 1) % SectorPages # 0 => Blank(flash', wp + 1)
    BY <1>1, <1>2, <1>3, <1>5, <2>1, ChipProgrammed
  <2>5. ChipInv'
    BY <2>1, <2>3, <2>4 DEF ChipInv, Written, Blank, Spare
  <2>6. wp + 1 \in FirstPage .. EndPage + 1
    BY <1>1
  <2> QED
    BY <1>4, <2>1, <2>2, <2>3, <2>4, <2>5, <2>6
<1>6. CASE ~FlashReady(flash)
  <2>1. /\ flash' = FlashPoll(flash) /\ write_addr' = write_addr
        /\ has_erase' = has_erase /\ status' = "PROGRAM_CONTINUE"
    BY <1>6, Refuses DEF Program
  <2>2. wp' = wp
    BY <2>1 DEF wp
  <2>3. /\ GoodChip(flash', Pages, Contents)
        /\ Written(flash', wp) /\ Blank(flash', wp) /\ Spare(flash', wp)
    BY <1>1, <1>2, <2>1, ChipAsked
  <2>4. ChipInv'
    BY <2>2, <2>3 DEF ChipInv, Written, Blank, Spare
  <2>5. ~EraseDue'
    BY <2>1 DEF EraseDue
  <2> QED
    BY <1>1, <1>4, <2>1, <2>2, <2>3, <2>4, <2>5
<1> QED
  BY <1>5, <1>6

LEMMA EraseKeeps ==
  ASSUME LogInv, EraseReaches, EraseDue, Erase
  PROVE  /\ GoodChip(flash', Pages, Contents) /\ ChipInv'
         /\ wp' = wp /\ write_addr' = write_addr /\ page_buf' = page_buf
         /\ status' \in {"IDLE", "ERASE"} /\ has_erase' \in BOOLEAN
<1>1. /\ GoodChip(flash, Pages, Contents) /\ wp \in Nat /\ has_erase \in BOOLEAN
  BY Layout DEF LogInv, LogTypes
<1>2. Written(flash, wp) /\ Spare(flash, wp) /\ ~has_erase /\ wp % SectorPages = 0
  BY DueAtStart DEF LogInv, ChipInv
<1>3. page_buf' = page_buf /\ write_addr' = write_addr
  BY DEF Erase
<1>4. wp' = wp
  BY <1>3 DEF wp
<1>5. CASE FlashReady(flash)
  <2>1. flash' = EraseSector(flash, wp, EraseUnit) /\ has_erase' = TRUE /\ status' = "IDLE"
    BY <1>5 DEF Erase, wp
  <2>2. /\ GoodChip(flash', Pages, Contents)
        /\ Written(flash', wp) /\ Blank(flash', wp) /\ Spare(flash', wp)
    BY <1>1, <1>2, <1>5, <2>1, ChipErased
  <2>3. ChipInv'
    BY <1>4, <2>2 DEF ChipInv, Written, Blank, Spare
  <2> QED
    BY <1>3, <1>4, <2>1, <2>2, <2>3
<1>6. CASE ~FlashReady(flash)
  <2>1. flash' = FlashPoll(flash) /\ has_erase' = has_erase /\ status' = "ERASE"
    BY <1>6, Refuses DEF Erase
  <2>2. GoodChip(flash', Pages, Contents) /\ Written(flash', wp) /\ Spare(flash', wp)
    BY <1>1, <1>2, <2>1, ChipAsked
  <2>3. ChipInv'
    BY <1>2, <1>4, <2>1, <2>2 DEF ChipInv, Written, Spare
  <2> QED
    BY <1>1, <1>3, <1>4, <2>1, <2>2, <2>3
<1> QED
  BY <1>5, <1>6

(* The log after mtd_sync of the buffer b. *)
Synced(b) ==
  /\ GoodChip(flash', Pages, Contents) /\ ChipInv'
  /\ wp' \in FirstPage .. EndPage + 1 /\ write_addr' = wp' * PageSize
  /\ write_addr <= write_addr'
  /\ status' \in {"ERASE", "PROGRAM_CONTINUE", "IDLE"} /\ has_erase' \in BOOLEAN
  /\ page_buf' = <<>> \/ \E p \in Pages : page_buf' = Stored(p)
  /\ status' = "PROGRAM_CONTINUE" =>
       ~EraseDue' /\ page_buf' = Stored(wp') /\ Base' < b.accepted
  /\ write_fifo' = Stream(Base', b.accepted)
  /\ Base' <= b.accepted /\ b.accepted <= Base' + BufSize

LEMMA SyncKeeps ==
  ASSUME LogInv, EraseReaches, NEW b \in Buffers, Sync(b)
  PROVE  Synced(b)
<1>0. /\ Base \in Nat /\ write_addr \in Nat /\ BufSize \in Nat /\ PageSize \in Nat
      /\ accepted \in Nat /\ start_addr \in Nat /\ end_addr \in Nat
      /\ write_addr - start_addr \in Nat /\ BufSize = 2 * PageSize
  BY BaseIs, Layout DEF LogInv, LogTypes, BufSize
<1>1. /\ b.accepted \in Nat /\ b.fifo = Stream(Base, b.accepted)
      /\ accepted <= b.accepted /\ b.accepted <= Base + BufSize
      /\ start_addr + b.accepted <= end_addr + BufSize /\ Base <= accepted
  BY DEF Buffers, LogInv, BufferInv
<1>2. /\ GoodChip(flash, Pages, Contents) /\ wp \in FirstPage .. EndPage + 1
      /\ write_addr = wp * PageSize /\ wp \in Nat /\ EndPage \in Nat
      /\ status \in {"ERASE", "PROGRAM_CONTINUE", "IDLE"} /\ has_erase \in BOOLEAN
      /\ page_buf = <<>> \/ \E p \in Pages : page_buf = Stored(p)
  BY Layout DEF LogInv, LogTypes
<1>3. Base <= b.accepted /\ Len(b.fifo) = b.accepted - Base
  <2>1. Base <= b.accepted
    BY <1>0, <1>1
  <2>2. Len(Stream(Base, b.accepted)) = b.accepted - Base
    <3> DEFINE m == Base
               n == b.accepted
    <3>1. m \in Int /\ n \in Int /\ m <= n
      BY <1>0, <1>1, <2>1
    <3> HIDE DEF m, n
    <3>2. Len(Stream(m, n)) = n - m
      BY <3>1, StreamIs
    <3> QED
      BY <3>2 DEF m, n
  <2> QED
    BY <1>1, <2>1, <2>2
<1>4. ASSUME write_addr < end_addr + PageSize PROVE wp \in 0 .. EndPage /\ wp \in Pages
  <2>1. end_addr + PageSize = (EndPage + 1) * PageSize
    BY <1>2, Layout, PageOrder
  <2>2. wp < EndPage + 1
    <3>1. EndPage + 1 \in Nat
      BY <1>2
    <3> QED
      BY <1>2, <1>4, <2>1, <3>1, PageOrder
  <2> QED
    BY <1>2, <2>2, Layout, LogAssumption DEF Pages
<1>5. CASE EraseDue /\ Erase /\ write_fifo' = b.fifo
  <2>1. /\ GoodChip(flash', Pages, Contents) /\ ChipInv'
        /\ wp' = wp /\ write_addr' = write_addr /\ page_buf' = page_buf
        /\ status' \in {"IDLE", "ERASE"} /\ has_erase' \in BOOLEAN
    BY <1>5, EraseKeeps
  <2>2. status # "PROGRAM_CONTINUE"
    BY <1>5 DEF LogInv, WaitingInv
  <2>3. Base' = Base
    BY <2>1, <2>2 DEF Base
  <2> QED
    BY <1>0, <1>1, <1>2, <1>3, <1>5, <2>1, <2>3 DEF Synced
<1>6. CASE /\ ~EraseDue /\ status = "PROGRAM_CONTINUE"
           /\ Program(page_buf) /\ write_fifo' = b.fifo
  <2>1. page_buf = Stored(wp) /\ Base < b.accepted
    BY <1>0, <1>1, <1>6 DEF LogInv, WaitingInv
  <2>2. Base = (write_addr - start_addr) + PageSize
    BY <1>6 DEF Base
  <2>3. wp \in 0 .. EndPage /\ wp \in Pages
    BY <1>0, <1>1, <1>4, <2>1, <2>2
  <2>4. /\ GoodChip(flash', Pages, Contents) /\ ChipInv'
        /\ wp' \in FirstPage .. EndPage + 1 /\ write_addr' = wp' * PageSize
        /\ status' \in {"IDLE", "PROGRAM_CONTINUE"} /\ has_erase' \in BOOLEAN
        /\ page_buf' = page_buf
        /\ status' = "PROGRAM_CONTINUE" => ~EraseDue' /\ wp' = wp
        /\ write_addr' = IF status' = "IDLE" THEN write_addr + PageSize ELSE write_addr
    BY <1>6, <2>1, <2>3, ProgramKeeps
  <2>5. Base' = Base
    <3>1. CASE status' = "IDLE"
      <4>1. write_addr' = write_addr + PageSize
        BY <2>4, <3>1
      <4>2. Base' = (write_addr' - start_addr) + 0
        BY <3>1 DEF Base
      <4> QED
        BY <1>0, <2>2, <4>1, <4>2
    <3>2. CASE status' = "PROGRAM_CONTINUE"
      <4>1. write_addr' = write_addr
        BY <2>4, <3>2
      <4>2. Base' = (write_addr' - start_addr) + PageSize
        BY <3>2 DEF Base
      <4> QED
        BY <1>0, <2>2, <4>1, <4>2
    <3> QED
      BY <2>4, <3>1, <3>2
  <2>6. write_addr <= write_addr'
    <3>1. write_addr' = write_addr + PageSize \/ write_addr' = write_addr
      BY <2>4
    <3>2. write_addr <= write_addr + PageSize /\ write_addr <= write_addr
      BY <1>0
    <3> QED
      BY <3>1, <3>2
  <2>7. status' = "PROGRAM_CONTINUE" =>
          ~EraseDue' /\ page_buf' = Stored(wp') /\ Base' < b.accepted
    BY <2>1, <2>4, <2>5
  <2> QED
    BY <1>1, <1>2, <1>3, <1>6, <2>4, <2>5, <2>6, <2>7 DEF Synced
<1>7. CASE /\ ~EraseDue /\ status # "PROGRAM_CONTINUE" /\ Len(b.fifo) > PageSize
           /\ Program(SubSeq(b.fifo, 1, PageSize))
           /\ write_fifo' = SubSeq(b.fifo, PageSize + 1, Len(b.fifo))
  <2> DEFINE buf  == SubSeq(b.fifo, 1, PageSize)
             next == Base + PageSize
  <2>1. Base = write_addr - start_addr
    BY <1>0, <1>7 DEF Base
  <2>2. next \in Nat /\ next < b.accepted /\ next - Base = PageSize
    BY <1>0, <1>1, <1>3, <1>7
  <2> HIDE DEF next
  <2>3. buf = Stream(Base, next) /\ write_fifo' = Stream(next, b.accepted)
    <3>1. Base <= next /\ next <= b.accepted /\ Base \in Int /\ next \in Int /\ b.accepted \in Int
      BY <1>0, <1>1, <2>2
    <3> HIDE DEF buf
    <3>2. /\ SubSeq(Stream(Base, b.accepted), 1, next - Base) = Stream(Base, next)
          /\ SubSeq(Stream(Base, b.accepted), next - Base + 1, b.accepted - Base)
               = Stream(next, b.accepted)
      BY <3>1, StreamCut
    <3> QED
      BY <1>1, <1>3, <1>7, <2>2, <3>2 DEF buf
  <2>4. buf = Stored(wp)
    BY <2>1, <2>3, StoredIs DEF next
  <2>5. wp \in 0 .. EndPage /\ wp \in Pages
    BY <1>0, <1>1, <1>4, <2>1, <2>2
  <2> HIDE DEF buf
  <2>6. Program(buf)
    BY <1>7 DEF buf
  <2>7. /\ GoodChip(flash', Pages, Contents) /\ ChipInv'
        /\ wp' \in FirstPage .. EndPage + 1 /\ write_addr' = wp' * PageSize
        /\ status' \in {"IDLE", "PROGRAM_CONTINUE"} /\ has_erase' \in BOOLEAN
        /\ page_buf' = buf
        /\ status' = "PROGRAM_CONTINUE" => ~EraseDue' /\ wp' = wp
        /\ write_addr' = IF status' = "IDLE" THEN write_addr + PageSize ELSE write_addr
    BY <1>7, <2>4, <2>5, <2>6, ProgramKeeps
  <2>8. Base' = next
    <3>1. CASE status' = "IDLE"
      <4>1. write_addr' = write_addr + PageSize
        BY <2>7, <3>1
      <4>2. Base' = (write_addr' - start_addr) + 0
        BY <3>1 DEF Base
      <4> QED
        BY <1>0, <2>1, <4>1, <4>2 DEF next
    <3>2. CASE status' = "PROGRAM_CONTINUE"
      <4>1. write_addr' = write_addr
        BY <2>7, <3>2
      <4>2. Base' = (write_addr' - start_addr) + PageSize
        BY <3>2 DEF Base
      <4> QED
        BY <1>0, <2>1, <4>1, <4>2 DEF next
    <3> QED
      BY <2>7, <3>1, <3>2
  <2>9. write_addr <= write_addr'
    <3>1. write_addr' = write_addr + PageSize \/ write_addr' = write_addr
      BY <2>7
    <3>2. write_addr <= write_addr + PageSize /\ write_addr <= write_addr
      BY <1>0
    <3> QED
      BY <3>1, <3>2
  <2>10. status' = "PROGRAM_CONTINUE" =>
           ~EraseDue' /\ page_buf' = Stored(wp') /\ Base' < b.accepted
    BY <2>2, <2>4, <2>7, <2>8
  <2>11. next <= b.accepted /\ b.accepted <= next + BufSize
    BY <1>0, <1>1, <2>2
  <2>12. \E p \in Pages : page_buf' = Stored(p)
    BY <2>4, <2>5, <2>7
  <2> QED
    BY <2>3, <2>7, <2>8, <2>9, <2>10, <2>11, <2>12 DEF Synced
<1>8. CASE /\ ~EraseDue /\ status # "PROGRAM_CONTINUE" /\ Len(b.fifo) <= PageSize
           /\ write_fifo' = b.fifo
           /\ UNCHANGED <<flash, write_addr, status, has_erase, page_buf>>
  <2>1. wp' = wp /\ Base' = Base
    BY <1>8 DEF wp, Base
  <2>2. ChipInv'
    BY <1>8, <2>1 DEF LogInv, ChipInv, Written, Blank, Spare
  <2> QED
    BY <1>0, <1>1, <1>2, <1>3, <1>8, <2>1, <2>2 DEF Synced
<1> QED
  BY <1>5, <1>6, <1>7, <1>8 DEF Sync

(* log_run. *)
LEMMA LogRunKeeps ==
  ASSUME LogInv, EraseReaches, NEW due, LogRun(due)
  PROVE  LogInv' /\ write_addr <= write_addr'
<1> DEFINE b == LogWrites(due)
<1>1. b \in Buffers
  BY LogWritesKeeps
<1>2. accepted' = b.accepted /\ is_full' = b.is_full /\ record' = record /\ Sync(b)
  BY DEF LogRun
<1> HIDE DEF b
<1>3. Synced(b)
  BY <1>1, <1>2, SyncKeeps
<1>4. /\ b.accepted \in Nat /\ b.is_full \in BOOLEAN
      /\ start_addr + b.accepted <= end_addr + BufSize
  BY <1>1 DEF Buffers
<1>5. LogTypes'
  <2>1. accepted' \in Nat /\ is_full' \in BOOLEAN /\ record' \in BOOLEAN
    BY <1>2, <1>4 DEF LogInv, LogTypes
  <2> QED
    BY <1>3, <2>1 DEF LogTypes, Synced
<1>6. BufferInv'
  BY <1>2, <1>3, <1>4 DEF BufferInv, Synced
<1>7. WaitingInv'
  BY <1>2, <1>3 DEF WaitingInv, Synced
<1>8. ChipInv' /\ write_addr <= write_addr'
  BY <1>3 DEF Synced
<1> QED
  BY <1>5, <1>6, <1>7, <1>8 DEF LogInv

(* Whatever else asks the chip, or lets it finish. *)
LEMMA QuietKeeps ==
  ASSUME LogInv, LogKeeps, record' \in BOOLEAN, GoodChip(flash', Pages, Contents),
         Written(flash, wp) => Written(flash', wp), Blank(flash, wp) => Blank(flash', wp),
         Spare(flash, wp) => Spare(flash', wp)
  PROVE  LogInv' /\ write_addr' = write_addr
<1>1. /\ write_addr' = write_addr /\ status' = status /\ has_erase' = has_erase
      /\ page_buf' = page_buf /\ is_full' = is_full /\ write_fifo' = write_fifo
      /\ accepted' = accepted
  BY DEF LogKeeps
<1>2. wp' = wp /\ Base' = Base /\ (EraseDue' <=> EraseDue)
  BY <1>1 DEF wp, Base, EraseDue
<1>3. LogTypes'
  BY <1>1, <1>2 DEF LogInv, LogTypes
<1>4. BufferInv'
  BY <1>1, <1>2 DEF LogInv, BufferInv
<1>5. WaitingInv'
  BY <1>1, <1>2 DEF LogInv, WaitingInv
<1>6. ChipInv'
  <2>1. /\ Written(flash', wp) /\ Spare(flash', wp)
        /\ has_erase \/ wp % SectorPages # 0 => Blank(flash', wp)
    BY DEF LogInv, ChipInv
  <2> QED
    BY <1>1, <1>2, <2>1 DEF ChipInv, Written, Blank, Spare
<1> QED
  BY <1>1, <1>3, <1>4, <1>5, <1>6 DEF LogInv

LEMMA PollKeeps ==
  ASSUME LogInv, LogKeeps, record' \in BOOLEAN,
         flash' = FlashPoll(flash) \/ flash' = FlashDone(flash) \/ flash' = flash
  PROVE  LogInv' /\ write_addr' = write_addr
<1>1. GoodChip(flash, Pages, Contents)
  BY DEF LogInv, LogTypes
<1>2. CASE flash' = FlashPoll(flash)
  <2>1. /\ GoodChip(flash', Pages, Contents)
        /\ Written(flash, wp) => Written(flash', wp)
        /\ Blank(flash, wp) => Blank(flash', wp)
        /\ Spare(flash, wp) => Spare(flash', wp)
    BY <1>1, <1>2, ChipAsked
  <2> QED
    BY <2>1, QuietKeeps
<1>3. CASE flash' = FlashDone(flash)
  <2>1. /\ GoodChip(flash', Pages, Contents)
        /\ Written(flash, wp) => Written(flash', wp)
        /\ Blank(flash, wp) => Blank(flash', wp)
        /\ Spare(flash, wp) => Spare(flash', wp)
    BY <1>1, <1>3, ChipDone
  <2> QED
    BY <2>1, QuietKeeps
<1>4. CASE flash' = flash
  BY <1>1, <1>4, QuietKeeps
<1> QED
  BY <1>2, <1>3, <1>4

LEMMA LogStarts ==
  ASSUME EraseReaches, Init
  PROVE  LogInv
<1>1. /\ FirstPage \in Nat /\ EndPage \in Nat /\ FirstPage < EndPage
      /\ start_addr = FirstPage * PageSize /\ start_addr \in Nat /\ end_addr \in Nat
      /\ start_addr <= end_addr
  <2>1. start_addr <= end_addr
    BY Layout, PageOrder
  <2> QED
    BY <2>1, Layout
<1>2. /\ write_addr = start_addr /\ status = "IDLE" /\ has_erase = FALSE /\ is_full = FALSE
      /\ page_buf = <<>> /\ record = TRUE
      /\ write_fifo = Stream(0, FormatLen) /\ accepted = FormatLen
  BY DEF Init
<1>3. wp = FirstPage
  BY <1>1, <1>2, Aligned DEF wp
<1> DEFINE pages == [p \in Pages |-> IF p \in Cleared THEN Erased ELSE Garbled]
<1>4. PICK asked \in BOOLEAN : flash = [page |-> pages, job |-> NoJob, is_busy |-> ~asked]
  BY DEF Init
<1> DEFINE busy == ~asked
<1>12. flash = [page |-> pages, job |-> NoJob, is_busy |-> busy] /\ busy \in BOOLEAN
  BY <1>4
<1> HIDE DEF busy
<1>13. GoodChip(flash, Pages, Contents)
  <2>1. {Erased, Garbled} \subseteq Contents
    BY DEF Contents
  <2>2. pages \in [Pages -> Contents]
    BY <2>1
  <2>3. NoJob \in [on : SUBSET Pages, to : Contents] /\ NoJob.on = {}
    BY <2>1 DEF NoJob
  <2> HIDE DEF pages
  <2>4. flash \in ChipType(Pages, Contents) /\ flash.job = NoJob
    BY <1>12, <2>2, <2>3 DEF ChipType
  <2> QED
    BY <2>1, <2>3, <2>4 DEF GoodChip, InProgress
<1>14. Spare(flash, FirstPage)
  <2>1. ASSUME NEW p \in Pages, FirstPage <= p, p % SectorPages >= EraseUnit
        PROVE  (IF p \in flash.job.on THEN flash.job.to ELSE flash.page[p]) = Erased
    <3>1. start_addr <= p * PageSize
      <4>1. p \in Nat
        BY DEF Pages
      <4> QED
        BY <1>1, <2>1, <4>1, PageOrder
    <3>2. p \in Cleared
      BY <2>1, <3>1 DEF EraseReaches
    <3>3. flash.page[p] = Erased
      BY <1>12, <3>2
    <3>4. flash.job.on = {}
      BY <1>12 DEF NoJob
    <3> QED
      BY <3>3, <3>4
  <2> QED
    BY <2>1 DEF Spare
<1> HIDE DEF pages
<1>5. FirstPage % SectorPages = 0
  <2>1. FirstPage = SectorPages * StartSector + 0
    BY LogAssumption DEF FirstPage
  <2>2. 0 \in 0 .. SectorPages - 1
    BY LogAssumption
  <2> QED
    BY <2>1, <2>2, LogAssumption, DivUnique
<1>6. Base = 0
  BY <1>1, <1>2 DEF Base
<1>7. FormatLen \in Nat /\ FormatLen <= BufSize /\ BufSize \in Nat
  BY LogAssumption DEF BufSize
<1>8. LogTypes
  <2>1. wp \in FirstPage .. EndPage + 1 /\ write_addr = wp * PageSize
    BY <1>1, <1>2, <1>3
  <2> QED
    BY <1>2, <1>7, <1>13, <2>1 DEF LogTypes
<1>9. BufferInv
  BY <1>1, <1>2, <1>6, <1>7 DEF BufferInv
<1>10. WaitingInv
  BY <1>2 DEF WaitingInv
<1>11. ChipInv
  <2>1. ASSUME NEW p \in Pages, FirstPage <= p, p < FirstPage PROVE FALSE
    BY <1>1, <2>1 DEF Pages
  <2>2. Written(flash, wp)
    BY <1>3, <2>1 DEF Written
  <2> QED
    BY <1>2, <1>3, <1>5, <1>14, <2>2 DEF ChipInv
<1> QED
  BY <1>8, <1>9, <1>10, <1>11 DEF LogInv

-----------------------------------------------------------------------------
(* What the invariant says of the properties. *)
LEMMA LogIsTyped ==
  ASSUME LogInv
  PROVE  TypeOK
<1>1. /\ flash \in ChipType(Pages, Contents) /\ wp \in Nat /\ wp \in 0 .. ChipPages
      /\ write_addr = wp * PageSize
  BY Layout, LogAssumption DEF LogInv, LogTypes, GoodChip
<1>2. /\ flash.page \in [Pages -> {Erased, Garbled} \cup { Stored(p) : p \in Pages }]
      /\ flash.job.on \subseteq Pages /\ flash.is_busy \in BOOLEAN
  BY <1>1 DEF ChipType, Contents
<1>3. write_addr \in { p * PageSize : p \in 0 .. ChipPages }
  BY <1>1
<1>4. Len(write_fifo) \in 0 .. BufSize
  <2>1. /\ Base \in Nat /\ BufSize \in Nat /\ accepted \in Nat
        /\ write_fifo = Stream(Base, accepted) /\ Base <= accepted
        /\ accepted <= Base + BufSize
    BY BaseIs DEF LogInv, LogTypes, BufferInv
  <2>2. Len(write_fifo) = accepted - Base
    <3> DEFINE m == Base
    <3>1. m \in Int /\ accepted \in Int /\ m <= accepted
      BY <2>1
    <3> HIDE DEF m
    <3>2. Len(Stream(m, accepted)) = accepted - m
      BY <3>1, StreamIs
    <3> QED
      BY <2>1, <3>2 DEF m
  <2> QED
    BY <2>1, <2>2
<1>5. Len(page_buf) \in {0, PageSize}
  <2>1. CASE page_buf = <<>>
    BY <2>1
  <2>2. ASSUME NEW p \in Pages, page_buf = Stored(p) PROVE Len(page_buf) = PageSize
    <3> DEFINE m == p * PageSize - start_addr
               n == (p + 1) * PageSize - start_addr
    <3>1. m \in Int /\ n \in Int /\ n - m = PageSize /\ m <= n
      <4>1. p \in Nat
        BY DEF Pages
      <4>2. p * PageSize \in Nat /\ (p + 1) * PageSize = p * PageSize + PageSize
        BY <4>1, PageOrder
      <4> QED
        BY <4>2, Layout, LogAssumption
    <3> HIDE DEF m, n
    <3>2. Len(Stream(m, n)) = PageSize
      BY <3>1, StreamIs
    <3> QED
      BY <2>2, <3>2 DEF Stored, m, n
  <2> QED
    BY <2>1, <2>2 DEF LogInv, LogTypes
<1> QED
  BY <1>2, <1>3, <1>4, <1>5 DEF TypeOK, LogInv, LogTypes

LEMMA LogIsStream ==
  ASSUME LogInv
  PROVE  StreamInOrder
<1>1. wp \in Nat /\ write_addr = wp * PageSize /\ start_addr = FirstPage * PageSize
      /\ FirstPage \in Nat
  BY Layout DEF LogInv, LogTypes
<1>2. ASSUME NEW p \in Pages, start_addr <= p * PageSize, p * PageSize < write_addr
      PROVE  Settled(p) = Stored(p)
  <2>1. p \in Nat
    BY DEF Pages
  <2>2. FirstPage <= p /\ p < wp
    BY <1>1, <1>2, <2>1, PageOrder
  <2> QED
    BY <2>2 DEF Settled, LogInv, ChipInv, Written
<1>3. (IF status = "PROGRAM_CONTINUE" THEN page_buf ELSE <<>>) \o write_fifo
        = Stream(write_addr - start_addr, accepted)
  <2> DEFINE m == write_addr - start_addr
  <2>1. /\ m \in Nat /\ Base \in Nat /\ accepted \in Nat /\ Base <= accepted /\ PageSize \in Nat
        /\ write_fifo = Stream(Base, accepted)
    BY BaseIs DEF LogInv, LogTypes, BufferInv
  <2>2. CASE status = "PROGRAM_CONTINUE"
    <3>1. page_buf = Stream(m, m + PageSize) /\ Base = m + PageSize
      BY <2>2, StoredIs DEF LogInv, WaitingInv, Base
    <3> DEFINE n == m + PageSize
    <3>2. /\ m \in Int /\ n \in Int /\ accepted \in Int /\ m <= n /\ n <= accepted
          /\ page_buf = Stream(m, n) /\ write_fifo = Stream(n, accepted)
      BY <2>1, <3>1
    <3> HIDE DEF m, n
    <3>3. page_buf \o write_fifo = Stream(m, accepted)
      BY <3>2, StreamJoins
    <3> QED
      BY <2>2, <3>3 DEF m
  <2>3. CASE status # "PROGRAM_CONTINUE"
    <3>1. Base = m
      BY <2>1, <2>3 DEF Base
    <3>2. write_fifo \in Seq(Int)
      BY <2>1, StreamIs
    <3>3. <<>> \o write_fifo = write_fifo
      BY <3>2
    <3> QED
      BY <2>1, <2>3, <3>1, <3>3
  <2> QED
    BY <2>2, <2>3
<1> QED
  BY <1>2, <1>3 DEF StreamInOrder

LEMMA SectorsAreErased ==
  ASSUME LogInv
  PROVE  ErasedAhead
<1>1. wp \in Nat /\ write_addr = wp * PageSize
  BY Layout DEF LogInv, LogTypes
<1>2. /\ write_addr % SectorSize = 0 <=> wp % SectorPages = 0
      /\ write_addr \div SectorSize = wp \div SectorPages
  BY <1>1, Aligned
<1>3. ASSUME has_erase \/ write_addr % SectorSize # 0, NEW p \in Pages,
             write_addr <= p * PageSize, p \div SectorPages = write_addr \div SectorSize
      PROVE  Settled(p) = Erased
  <2>1. p \in Nat
    BY DEF Pages
  <2>2. wp <= p /\ p \div SectorPages = wp \div SectorPages
    BY <1>1, <1>2, <1>3, <2>1, PageOrder
  <2>3. Blank(flash, wp)
    BY <1>2, <1>3 DEF LogInv, ChipInv
  <2> QED
    BY <2>2, <2>3 DEF Blank, Settled
<1> QED
  BY <1>3 DEF ErasedAhead

-----------------------------------------------------------------------------
(* The inductive invariant of the two links: what a station holds of a     *)
(* transfer that is not spoiled is the log up to where the transfer is.    *)
DownloadTypes ==
  /\ read_addr \in 0 .. Wide - 1 /\ ofs \in 0 .. Wide - 1
  /\ reading \in BOOLEAN /\ pc \in {"main", "loop"}
  /\ package_num \in Nat
  /\ file \in Held /\ packages \in Held
  /\ requests \in 0 .. MaxRequests

FileInv ==
  ~file.spoiled =>
    /\ reading => ofs <= size
    /\ Overrun \/ (/\ ~file.wrong
                   /\ reading => file.from <= ofs /\ file.from .. ofs - 1 \subseteq file.right)

PackagesInv ==
  ~packages.spoiled =>
    /\ Package * package_num <= size
    /\ Overrun \/ (/\ ~packages.wrong
                   /\ 0 .. Package * package_num - 1 \subseteq packages.right)

DownloadInv == LogInv /\ DownloadTypes /\ FileInv /\ PackagesInv

-----------------------------------------------------------------------------
(* How much there is to read. *)
LEMMA SizeIs ==
  ASSUME LogInv
  PROVE  /\ size \in 0 .. Wide /\ Wide \in Nat \ {0}
         /\ write_addr \in Nat /\ start_addr \in Nat /\ end_addr \in Nat
         /\ write_addr = start_addr + size /\ write_addr <= Wide
         /\ start_addr < Wide /\ end_addr < Wide
         /\ ~Overrun => size < Wide /\ write_addr <= end_addr
<1>1. /\ wp \in Nat /\ FirstPage \in Nat /\ EndPage \in Nat /\ ChipPages \in Nat
      /\ FirstPage < EndPage /\ EndPage < ChipPages /\ wp <= ChipPages
      /\ write_addr = wp * PageSize
      /\ start_addr = FirstPage * PageSize /\ end_addr = EndPage * PageSize
  BY Layout, LogAssumption DEF LogInv, LogTypes
<1>2. write_addr \in Nat /\ start_addr \in Nat /\ end_addr \in Nat /\ ChipPages * PageSize \in Nat
  BY <1>1, PageOrder
<1>3. write_addr <= ChipPages * PageSize /\ end_addr < ChipPages * PageSize
      /\ start_addr < end_addr
  BY <1>1, PageOrder
<1>4. Wide \in Nat /\ ChipPages * PageSize <= Wide
  BY DownloadAssumption
<1>5. size \in Nat
  BY BaseIs DEF size
<1>6. write_addr = start_addr + size
  BY <1>2 DEF size
<1>7. ~Overrun => write_addr <= end_addr
  BY <1>2 DEF Overrun
<1>8. write_addr <= Wide /\ start_addr < Wide /\ end_addr < Wide
  BY <1>2, <1>3, <1>4
<1>9. size \in 0 .. Wide
  BY <1>2, <1>4, <1>5, <1>6, <1>8
<1>10. ~Overrun => size < Wide
  BY <1>2, <1>4, <1>5, <1>6, <1>7, <1>8
<1>11. Wide # 0
  BY <1>2, <1>4, <1>8
<1> QED
  BY <1>2, <1>4, <1>6, <1>7, <1>8, <1>9, <1>10, <1>11

LEMMA Small ==
  ASSUME NEW d \in Nat \ {0}, NEW c \in 0 .. d - 1
  PROVE  c % d = c
<1>1. c = d * 0 + c
  OBVIOUS
<1> QED
  BY <1>1, DivUnique

LEMMA LeftIs ==
  ASSUME LogInv, NEW o \in Nat
  PROVE  /\ Left(o) \in Nat
         /\ o <= size => Left(o) <= size - o
         /\ o <= size /\ size < Wide => Left(o) = size - o
<1>1. size \in 0 .. Wide /\ Wide \in Nat \ {0} /\ Wide \in Nat /\ Wide > 0
  BY SizeIs
<1> DEFINE c == size - o
<1>2. c \in Int
  BY <1>1
<1>3. Left(o) = c % Wide
  BY DEF Left
<1>4. o <= size => c \in 0 .. Wide
  BY <1>1
<1>5. size < Wide /\ o <= size => c \in 0 .. Wide - 1
  BY <1>1
<1> HIDE DEF c
<1>6. c % Wide \in Nat
  BY <1>1, <1>2
<1>7. c \in 0 .. Wide - 1 => c % Wide = c
  BY <1>1, Small
<1>8. c = Wide => c % Wide = 0
  <2>1. Wide = Wide * 1 + 0 /\ 0 \in 0 .. Wide - 1
    BY <1>1
  <2>2. Wide % Wide = 0
    BY <1>1, <2>1, DivUnique
  <2> QED
    BY <2>2
<1>9. c \in 0 .. Wide => c % Wide <= c
  <2>1. c \in 0 .. Wide => c \in 0 .. Wide - 1 \/ c = Wide
    BY <1>1
  <2> QED
    BY <1>1, <1>2, <1>7, <1>8, <2>1
<1> QED
  BY <1>3, <1>4, <1>5, <1>6, <1>7, <1>9 DEF c

-----------------------------------------------------------------------------
(* What a read brings. *)
LEMMA ByteIs ==
  ASSUME LogInv, FlashReady(flash), NEW a \in Nat, start_addr <= a, a < write_addr
  PROVE  ByteAt(a) = (a - start_addr) + 1
<1> DEFINE p == a \div PageSize
           r == a % PageSize
<1>1. PageSize \in Nat \ {0} /\ PageSize \in Nat
  BY LogAssumption
<1>2. a = PageSize * p + r /\ r \in 0 .. PageSize - 1 /\ p \in Nat
  BY <1>1, Divides
<1> HIDE DEF p, r
<1> DEFINE b == p * PageSize
<1>3. a = b + r /\ b \in Nat /\ (p + 1) * PageSize = b + PageSize
  BY <1>1, <1>2, PageOrder
<1>4. /\ wp \in Nat /\ FirstPage \in Nat /\ write_addr = wp * PageSize
      /\ start_addr = FirstPage * PageSize /\ wp <= ChipPages /\ ChipPages \in Nat
      /\ write_addr \in Nat /\ start_addr \in Nat
  BY Layout, SizeIs, LogAssumption DEF LogInv, LogTypes
<1>5. p < wp
  <2>1. b < write_addr
    BY <1>2, <1>3, <1>4
  <2> QED
    BY <1>2, <1>4, <2>1, PageOrder
<1>6. FirstPage <= p
  <2>1. start_addr < (p + 1) * PageSize
    BY <1>1, <1>2, <1>3, <1>4
  <2>2. FirstPage < p + 1
    <3>1. p + 1 \in Nat
      BY <1>2
    <3> QED
      BY <1>4, <2>1, <3>1, PageOrder
  <2> QED
    BY <1>2, <1>4, <2>2
<1>7. p \in Pages
  BY <1>2, <1>4, <1>5 DEF Pages
<1>8. flash.page[p] = Stored(p)
  <2>1. flash.job.on = {}
    BY Ready DEF LogInv, LogTypes
  <2> QED
    BY <1>5, <1>6, <1>7, <2>1 DEF LogInv, ChipInv, Written
<1> DEFINE m == b - start_addr
           n == (p + 1) * PageSize - start_addr
<1>9. m \in Int /\ n \in Int /\ m <= n /\ n - m = PageSize
  BY <1>1, <1>3, <1>4
<1>10. m + (r + 1) = (a - start_addr) + 1 /\ r + 1 \in 1 .. PageSize
  BY <1>1, <1>2, <1>3, <1>4
<1> HIDE DEF m, n
<1>11. Len(Stream(m, n)) = PageSize /\ Stream(m, n)[r + 1] = m + (r + 1)
  BY <1>9, <1>10, StreamIs
<1>12. Stored(p) = Stream(m, n)
  BY DEF Stored, m, n
<1>13. ByteAt(a) = flash.page[p][r + 1]
  BY <1>7, <1>8, <1>11, <1>12 DEF ByteAt, p, r
<1> QED
  BY <1>8, <1>10, <1>11, <1>12, <1>13

LEMMA ReadsAll ==
  ASSUME LogInv, FlashReady(flash), ~Overrun,
         NEW o \in Nat, NEW len \in Nat, o + len <= size
  PROVE  ReadsRight(o, len) = o .. (o + len) - 1
<1>1. /\ size \in Nat /\ Wide \in Nat \ {0} /\ write_addr \in Nat /\ start_addr \in Nat
      /\ end_addr \in Nat /\ write_addr = start_addr + size /\ write_addr <= end_addr
      /\ end_addr < Wide
  BY SizeIs
<1>2. ASSUME NEW j \in 0 .. len - 1
      PROVE  ByteAt((SeekRead(o) + j) % Wide) = o + j + 1
  <2> DEFINE a == start_addr + o
             c == a + j
  <2>1. /\ a \in 0 .. Wide - 1 /\ a < end_addr /\ c \in 0 .. Wide - 1
        /\ c \in Nat /\ start_addr <= c /\ c < write_addr
        /\ (c - start_addr) + 1 = o + j + 1
    BY <1>1
  <2>2. SeekRead(o) = a
    <3> HIDE DEF a
    <3>1. a % Wide = a /\ ~(a >= end_addr)
      BY <1>1, <2>1, Small
    <3> QED
      BY <3>1 DEF SeekRead, a
  <2> HIDE DEF a
  <2>3. (SeekRead(o) + j) % Wide = c
    <3>1. SeekRead(o) + j = c
      BY <2>2
    <3> HIDE DEF c
    <3> QED
      BY <1>1, <2>1, <3>1, Small
  <2> HIDE DEF c
  <2>4. ByteAt(c) = (c - start_addr) + 1
    BY <2>1, ByteIs
  <2> QED
    BY <2>1, <2>3, <2>4
<1>3. ReadsRight(o, len) = {o + k : k \in 0 .. len - 1}
  <2>1. ReadsRight(o, len)
          = {o + k : k \in {j \in 0 .. len - 1 : ByteAt((SeekRead(o) + j) % Wide) = o + j + 1}}
    BY DEF ReadsRight
  <2>2. {j \in 0 .. len - 1 : ByteAt((SeekRead(o) + j) % Wide) = o + j + 1} = 0 .. len - 1
    BY <1>2
  <2> QED
    BY <2>1, <2>2
<1>4. ASSUME NEW x \in o .. (o + len) - 1 PROVE x \in {o + k : k \in 0 .. len - 1}
  <2>1. x - o \in 0 .. len - 1 /\ x = o + (x - o)
    OBVIOUS
  <2> QED
    BY <2>1
<1>5. ASSUME NEW k \in 0 .. len - 1 PROVE o + k \in o .. (o + len) - 1
  OBVIOUS
<1> QED
  BY <1>3, <1>4, <1>5

LEMMA ReadsFew ==
  ASSUME NEW o \in Nat, NEW len \in Nat
  PROVE  ReadsRight(o, len) \subseteq o .. (o + len) - 1
<1>1. ASSUME NEW k \in 0 .. len - 1 PROVE o + k \in o .. (o + len) - 1
  OBVIOUS
<1>2. CASE FlashReady(flash)
  <2>1. ReadsRight(o, len) \subseteq {o + k : k \in 0 .. len - 1}
    BY <1>2 DEF ReadsRight
  <2> QED
    BY <1>1, <2>1
<1>3. CASE ~FlashReady(flash)
  BY <1>3 DEF ReadsRight
<1> QED
  BY <1>2, <1>3

LEMMA ReadMoves ==
  ASSUME DownloadInv, NEW o \in Nat, NEW len \in Nat, LogRead(o, len)
  PROVE  read_addr' \in 0 .. Wide - 1 /\ flash' = FlashPoll(flash)
<1>1. Wide \in Nat \ {0} /\ Wide \in Nat /\ Wide > 0 /\ start_addr \in 0 .. Wide - 1
      /\ start_addr \in Nat
  BY SizeIs DEF DownloadInv
<1> DEFINE c == start_addr + o
           s == SeekRead(o)
           e == s + len
<1>2. s \in 0 .. Wide - 1
  <2>1. c \in Nat
    BY <1>1
  <2>2. s = IF c % Wide >= end_addr THEN read_addr ELSE c % Wide
    BY DEF SeekRead
  <2> HIDE DEF c
  <2>3. c % Wide \in 0 .. Wide - 1
    BY <1>1, <2>1
  <2>4. read_addr \in 0 .. Wide - 1
    BY DEF DownloadInv, DownloadTypes
  <2> HIDE DEF s
  <2> QED
    BY <2>2, <2>3, <2>4
<1> HIDE DEF s
<1>3. e \in Nat
  BY <1>1, <1>2
<1>4. read_addr' = IF e % Wide = write_addr THEN start_addr ELSE e % Wide
  BY DEF LogRead, s
<1> HIDE DEF e
<1>5. e % Wide \in 0 .. Wide - 1
  BY <1>1, <1>3
<1> QED
  BY <1>1, <1>4, <1>5 DEF LogRead

-----------------------------------------------------------------------------
(* What a station notes. *)
LEMMA NotedIs ==
  ASSUME NEW f \in Held, NEW o \in Nat, NEW n \in Nat, NEW R, NEW spoils \in BOOLEAN,
         ~f.spoiled /\ ~spoils => R \subseteq 0 .. Wide - 1
  PROVE  /\ Noted(f, o, n, R, spoils) \in Held
         /\ Noted(f, o, n, R, spoils).from = f.from
         /\ ~Noted(f, o, n, R, spoils).spoiled =>
              /\ ~f.spoiled /\ ~spoils
              /\ Noted(f, o, n, R, spoils).right = f.right \cup R
              /\ o .. (o + n) - 1 \subseteq R =>
                   Noted(f, o, n, R, spoils).wrong = f.wrong
<1>1. /\ f.right \in SUBSET (0 .. Wide - 1) /\ f.wrong \in BOOLEAN
      /\ f.from \in 0 .. Wide - 1 /\ f.to \in 0 .. 2 * Wide /\ f.spoiled \in BOOLEAN
      /\ f = [right |-> f.right, wrong |-> f.wrong, from |-> f.from, to |-> f.to,
              spoiled |-> f.spoiled]
  BY DEF Held
<1>2. CASE f.spoiled
  BY <1>2 DEF Noted
<1>3. CASE ~f.spoiled
  <2> DEFINE bad   == \E k \in 0 .. n - 1 : o + k \notin R
             right == IF spoils THEN {} ELSE f.right \cup R
             wrong == f.wrong \/ bad
  <2>1. Noted(f, o, n, R, spoils)
          = [f EXCEPT !.right = right, !.wrong = wrong, !.spoiled = spoils]
    BY <1>3 DEF Noted
  <2>2. right \in SUBSET (0 .. Wide - 1)
    BY <1>1, <1>3
  <2>3. wrong \in BOOLEAN
    OBVIOUS
  <2>4. o .. (o + n) - 1 \subseteq R => ~bad
    <3>1. ASSUME NEW k \in 0 .. n - 1 PROVE o + k \in o .. (o + n) - 1
      OBVIOUS
    <3> QED
      BY <3>1
  <2>5. ~bad => wrong = f.wrong
    <3> HIDE DEF bad
    <3> QED
      BY <1>1, Zenon
  <2>6. ~spoils => right = f.right \cup R
    OBVIOUS
  <2> HIDE DEF bad, right, wrong
  <2>7. Noted(f, o, n, R, spoils)
          = [right |-> right, wrong |-> wrong, from |-> f.from, to |-> f.to,
             spoiled |-> spoils]
    BY <1>1, <2>1
  <2>8. /\ Noted(f, o, n, R, spoils) \in Held
        /\ Noted(f, o, n, R, spoils).from = f.from
        /\ Noted(f, o, n, R, spoils).right = right
        /\ Noted(f, o, n, R, spoils).wrong = wrong
        /\ Noted(f, o, n, R, spoils).spoiled = spoils
    BY <1>1, <2>2, <2>3, <2>7 DEF Held
  <2> QED
    BY <1>3, <2>4, <2>5, <2>6, <2>8
<1> QED
  BY <1>2, <1>3

(* A chunk of the MAVLink protocol. *)
LEMMA AsksIs ==
  ASSUME LogInv, NEW o \in Nat
  PROVE  Asks(o) \in Nat /\ Asks(o) <= Left(o) /\ Asks(o) <= Chunk
<1>1. Left(o) \in Nat /\ Chunk \in Nat
  BY LeftIs, DownloadAssumption
<1> QED
  BY <1>1, SMTT(30) DEF Asks, Min

LEMMA ChunkKeeps ==
  ASSUME DownloadInv, NEW o \in 0 .. Wide - 1, NEW f \in Held, ~f.spoiled => o <= size,
         SendChunk(o, f)
  PROVE  /\ read_addr' \in 0 .. Wide - 1 /\ flash' = FlashPoll(flash)
         /\ NextOfs(o) \in 0 .. Wide - 1
         /\ file' \in Held /\ file'.from = f.from
         /\ ~file'.spoiled => ~f.spoiled /\ NextOfs(o) <= size
         /\ ~file'.spoiled /\ ~Overrun =>
              /\ o <= NextOfs(o) /\ file'.wrong = f.wrong
              /\ file'.right = f.right \cup (o .. NextOfs(o) - 1)
<1> DEFINE n == Asks(o)
           R == ReadsRight(o, n)
           spoils == ~FlashReady(flash)
           next == NextOfs(o)
<1>1. /\ LogInv /\ size \in Nat /\ size <= Wide /\ Wide \in Nat \ {0} /\ Wide \in Nat /\ Wide > 0
      /\ o \in Nat /\ CountMod \in Nat /\ CountMod > 0 /\ (~Overrun => size < Wide)
  BY SizeIs, DownloadAssumption DEF DownloadInv
<1>2. n \in Nat /\ n <= Left(o)
  BY <1>1, AsksIs
<1>3. o <= size => o + n <= size
  BY <1>1, <1>2, LeftIs
<1>4. LogRead(o, n) /\ file' = Noted(f, o, Count(o), R, spoils)
  BY DEF SendChunk
<1>5. Count(o) = IF FlashReady(flash) THEN n ELSE CountMod - 1
  BY DEF Count
<1>6. Count(o) \in Nat
  BY <1>1, <1>2, <1>5
<1>7. read_addr' \in 0 .. Wide - 1 /\ flash' = FlashPoll(flash)
  BY <1>1, <1>2, <1>4, ReadMoves
<1>8. next \in 0 .. Wide - 1
  <2>1. o + Count(o) \in Nat
    BY <1>1, <1>6
  <2> QED
    BY <1>1, <2>1 DEF NextOfs
<1>9. R \subseteq o .. (o + n) - 1
  BY <1>1, <1>2, ReadsFew
<1>10. ~f.spoiled => R \subseteq 0 .. Wide - 1
  BY <1>1, <1>2, <1>3, <1>9
<1>11. spoils \in BOOLEAN
  OBVIOUS
<1> HIDE DEF n, R
<1> DEFINE g == Noted(f, o, Count(o), R, spoils)
<1>12. /\ g \in Held /\ g.from = f.from
       /\ ~g.spoiled => /\ ~f.spoiled /\ ~spoils
                        /\ g.right = f.right \cup R
                        /\ o .. (o + Count(o)) - 1 \subseteq R => g.wrong = f.wrong
  <2> HIDE DEF spoils
  <2> QED
    BY <1>1, <1>6, <1>10, <1>11, NotedIs
<1> HIDE DEF g, next
<1>13. ASSUME ~g.spoiled
       PROVE  /\ ~f.spoiled /\ next <= size
              /\ ~Overrun => /\ o <= next /\ g.wrong = f.wrong
                             /\ g.right = f.right \cup (o .. next - 1)
  <2>1. ~f.spoiled /\ FlashReady(flash) /\ Count(o) = n /\ o + n <= size
    BY <1>3, <1>5, <1>12, <1>13
  <2> DEFINE c == o + n
  <2>2. c \in 0 .. Wide /\ next = c % Wide /\ o <= c /\ c <= size
    BY <1>1, <1>2, <2>1 DEF next, NextOfs
  <2> HIDE DEF c
  <2>3. c \in 0 .. Wide - 1 => c % Wide = c
    BY <1>1, Small
  <2>4. next <= size
    <3>1. CASE c \in 0 .. Wide - 1
      BY <2>2, <2>3, <3>1
    <3>2. CASE c = Wide
      <4>1. next < Wide /\ next \in Int
        BY <1>1, <1>8 DEF next
      <4>2. size = Wide
        BY <1>1, <2>2, <3>2
      <4> QED
        BY <1>1, <4>1, <4>2
    <3> QED
      BY <1>1, <2>2, <3>1, <3>2
  <2>5. ASSUME ~Overrun
        PROVE  o <= next /\ g.wrong = f.wrong /\ g.right = f.right \cup (o .. next - 1)
    <3>1. c \in 0 .. Wide - 1
      BY <1>1, <2>2, <2>5
    <3>2. next = c
      BY <2>2, <2>3, <3>1
    <3>3. R = o .. c - 1
      BY <1>1, <1>2, <2>1, <2>5, ReadsAll DEF R, c
    <3>4. o .. (o + Count(o)) - 1 \subseteq R
      BY <2>1, <3>3 DEF c
    <3> QED
      BY <1>12, <1>13, <2>2, <3>2, <3>3, <3>4
  <2> QED
    BY <2>1, <2>4, <2>5
<1> QED
  BY <1>4, <1>7, <1>8, <1>12, <1>13 DEF g, next

(* A package of the download link. *)
LEMMA PackageKeeps ==
  ASSUME DownloadInv, SendPackage
  PROVE  /\ read_addr' \in 0 .. Wide - 1 /\ flash' = FlashPoll(flash)
         /\ packages' \in Held /\ package_num' \in Nat /\ pc' \in {"main", "loop"}
         /\ ~packages'.spoiled =>
              /\ Package * package_num' <= size
              /\ Overrun \/ /\ ~packages'.wrong
                            /\ 0 .. Package * package_num' - 1 \subseteq packages'.right
              /\ Overrun \/ pc' = "loop" \/ 0 .. size - 1 \subseteq packages'.right
<1> DEFINE o == Package * package_num
           len == PackageSize(o)
           n == Min({Left(o), Package})
           R == ReadsRight(o, len)
           spoils == ~FlashReady(flash) \/ Left(o) >= SizeMod
<1>1. /\ LogInv /\ size \in Nat /\ size <= Wide /\ Wide \in Nat \ {0} /\ Wide \in Nat
      /\ (~Overrun => size < Wide)
      /\ package_num \in Nat /\ Package \in Nat \ {0} /\ Package \in Nat
      /\ SizeMod \in Nat /\ SizeMod > Package /\ packages \in Held
  BY SizeIs, DownloadAssumption DEF DownloadInv, DownloadTypes
<1>2. o \in Nat /\ Package * (package_num + 1) = o + Package
  BY <1>1
<1>3. /\ LogRead(o, len) /\ packages' = Noted(packages, o, n, R, spoils)
      /\ \/ Left(o) <= Package /\ pc' = "main" /\ package_num' = package_num
         \/ ~(Left(o) <= Package) /\ pc' = pc /\ package_num' = package_num + 1
      /\ pc = "loop"
  BY DEF SendPackage, LastPackage, NextPackage
<1>4. ~packages.spoiled => /\ o <= size
                           /\ Overrun \/ (/\ ~packages.wrong
                                          /\ 0 .. o - 1 \subseteq packages.right)
  BY DEF DownloadInv, PackagesInv
<1> HIDE DEF o
<1>5. /\ Left(o) \in Nat /\ (o <= size => Left(o) <= size - o)
      /\ (o <= size /\ size < Wide => Left(o) = size - o)
  BY <1>1, <1>2, LeftIs
<1>6. Left(o) % SizeMod \in Nat
  BY <1>1, <1>5
<1>7. Left(o) < SizeMod => Left(o) % SizeMod = Left(o)
  <2>1. SizeMod \in Nat \ {0} /\ (Left(o) < SizeMod => Left(o) \in 0 .. SizeMod - 1)
    BY <1>1, <1>5
  <2> QED
    BY <2>1, Small
<1>8. n \in Nat /\ n <= Left(o) /\ (n = Left(o) \/ n = Package) /\ n <= Package
  BY <1>1, <1>5, SMTT(30) DEF Min
<1>9. len \in Nat
  BY <1>1, <1>6, SMTT(30) DEF PackageSize, Min
<1>10. ~spoils => len = n
  <2>1. ~spoils => Left(o) < SizeMod
    BY <1>1, <1>5
  <2>2. ~spoils => Left(o) % SizeMod = Left(o)
    BY <1>7, <2>1
  <2> QED
    BY <2>2 DEF PackageSize
<1> HIDE DEF len, n
<1>11. read_addr' \in 0 .. Wide - 1 /\ flash' = FlashPoll(flash)
  BY <1>2, <1>3, <1>9, ReadMoves
<1>12. R \subseteq o .. (o + len) - 1
  BY <1>2, <1>9, ReadsFew
<1>13. ~packages.spoiled /\ ~spoils => R \subseteq 0 .. Wide - 1
  BY <1>1, <1>2, <1>4, <1>5, <1>8, <1>10, <1>12
<1>14. spoils \in BOOLEAN
  OBVIOUS
<1> HIDE DEF R
<1> DEFINE g == Noted(packages, o, n, R, spoils)
<1>15. /\ g \in Held
       /\ ~g.spoiled => /\ ~packages.spoiled /\ ~spoils
                        /\ g.right = packages.right \cup R
                        /\ o .. (o + n) - 1 \subseteq R => g.wrong = packages.wrong
  <2> HIDE DEF spoils
  <2> QED
    BY <1>1, <1>2, <1>8, <1>13, <1>14, NotedIs
<1> HIDE DEF g
<1>16. package_num' \in Nat /\ pc' \in {"main", "loop"}
  BY <1>1, <1>3
<1>17. ASSUME ~g.spoiled
       PROVE  /\ Package * package_num' <= size
              /\ Overrun \/ /\ ~g.wrong
                            /\ 0 .. Package * package_num' - 1 \subseteq g.right
              /\ Overrun \/ pc' = "loop" \/ 0 .. size - 1 \subseteq g.right
  <2>1. /\ ~packages.spoiled /\ FlashReady(flash) /\ len = n /\ o <= size
        /\ g.right = packages.right \cup R
    BY <1>4, <1>10, <1>15, <1>17
  <2>2. CASE Left(o) <= Package /\ pc' = "main" /\ package_num' = package_num
    <3>1. Package * package_num' = o
      BY <2>2 DEF o
    <3>2. n = Left(o)
      BY <1>1, <1>5, <1>8, <2>2 DEF n, Min
    <3>3. ASSUME ~Overrun
          PROVE  ~g.wrong /\ 0 .. o - 1 \subseteq g.right /\ 0 .. size - 1 \subseteq g.right
      <4>1. n = size - o /\ o + n = size
        BY <1>1, <1>2, <1>5, <2>1, <3>2, <3>3
      <4>2. R = o .. (o + n) - 1
        BY <1>1, <1>2, <1>8, <2>1, <3>3, <4>1, ReadsAll DEF R
      <4>3. ~packages.wrong /\ 0 .. o - 1 \subseteq packages.right
        BY <1>4, <2>1, <3>3
      <4>4. g.wrong = packages.wrong
        BY <1>15, <1>17, <4>2
      <4>5. 0 .. size - 1 \subseteq (0 .. o - 1) \cup (o .. (o + n) - 1)
        BY <1>1, <1>2, <4>1
      <4> QED
        BY <2>1, <4>2, <4>3, <4>4, <4>5
    <3> QED
      BY <2>1, <3>1, <3>3
  <2>3. CASE ~(Left(o) <= Package) /\ pc' = pc /\ package_num' = package_num + 1
    <3>1. Package * package_num' = o + Package
      BY <1>2, <2>3
    <3>2. n = Package
      BY <1>1, <1>5, <1>8, <2>3
    <3>3. o + Package <= size
      BY <1>1, <1>2, <1>5, <2>1, <2>3
    <3>4. ASSUME ~Overrun
          PROVE  ~g.wrong /\ 0 .. (o + Package) - 1 \subseteq g.right
      <4>1. R = o .. (o + n) - 1
        BY <1>1, <1>2, <1>8, <2>1, <3>2, <3>3, <3>4, ReadsAll DEF R
      <4>2. ~packages.wrong /\ 0 .. o - 1 \subseteq packages.right
        BY <1>4, <2>1, <3>4
      <4>3. g.wrong = packages.wrong
        BY <1>15, <1>17, <4>1
      <4>4. 0 .. (o + Package) - 1 \subseteq (0 .. o - 1) \cup (o .. (o + n) - 1)
        BY <1>1, <1>2, <3>2
      <4> QED
        BY <2>1, <4>1, <4>2, <4>3, <4>4
    <3> QED
      BY <1>3, <2>3, <3>1, <3>3, <3>4
  <2> QED
    BY <1>3, <2>2, <2>3
<1>18. packages' = g
  BY <1>3 DEF g
<1> QED
  BY <1>11, <1>15, <1>16, <1>17, <1>18

-----------------------------------------------------------------------------
(* Every step keeps the invariant.  Only a step of the log task changes    *)
(* the log's size, and it only grows.                                      *)
LEMMA NothingIs ==
  ASSUME NEW o \in 0 .. Wide - 1, NEW n \in 0 .. Wide, Wide \in Nat
  PROVE  Nothing(o, n) \in Held /\ Nothing(o, n).from = o
         /\ Nothing(o, n).right = {} /\ Nothing(o, n).wrong = FALSE
         /\ (Nothing(o, n).spoiled <=> o > size)
<1> DEFINE spoiled == o > size
           to == o + n
<1>1. spoiled \in BOOLEAN /\ to \in 0 .. 2 * Wide
  OBVIOUS
<1>2. Nothing(o, n)
        = [right |-> {}, wrong |-> FALSE, from |-> o, to |-> to, spoiled |-> spoiled]
  BY DEF Nothing
<1> HIDE DEF spoiled, to
<1>3. Nothing(o, n) \in Held
  BY <1>1, <1>2 DEF Held
<1>4. /\ Nothing(o, n).from = o /\ Nothing(o, n).right = {} /\ Nothing(o, n).wrong = FALSE
      /\ Nothing(o, n).spoiled = spoiled
  BY <1>2
<1> QED
  BY <1>3, <1>4 DEF spoiled

LEMMA EverythingIs ==
  ASSUME Wide \in Nat \ {0}
  PROVE  Everything \in Held /\ Everything.wrong = FALSE
<1>1. 0 \in 0 .. Wide - 1 /\ Wide \in 0 .. Wide /\ Wide \in Nat
  OBVIOUS
<1> QED
  BY <1>1, NothingIs DEF Everything

LEMMA Starts ==
  ASSUME EraseReaches, DownloadInit
  PROVE  DownloadInv
<1>1. LogInv
  BY LogStarts DEF DownloadInit
<1>2. size \in Nat /\ Wide \in Nat \ {0} /\ start_addr \in 0 .. Wide - 1
  BY <1>1, SizeIs
<1>3. 0 \in 0 .. Wide - 1
  BY <1>2
<1>4. Everything \in Held /\ Everything.wrong = FALSE
  BY <1>2, EverythingIs
<1>5. MaxRequests \in Nat /\ Package \in Nat
  BY DownloadAssumption
<1>6. DownloadTypes
  <2>1. read_addr \in 0 .. Wide - 1 /\ ofs \in 0 .. Wide - 1
    BY <1>2, <1>3 DEF DownloadInit
  <2>2. package_num \in Nat /\ requests \in 0 .. MaxRequests
    BY <1>5 DEF DownloadInit
  <2>3. reading \in BOOLEAN /\ pc \in {"main", "loop"} /\ file \in Held /\ packages \in Held
    BY <1>4 DEF DownloadInit
  <2> QED
    BY <2>1, <2>2, <2>3 DEF DownloadTypes
<1>7. FileInv
  BY <1>4 DEF DownloadInit, FileInv
<1>8. PackagesInv
  <2>1. Package * package_num = 0
    BY <1>5 DEF DownloadInit
  <2>2. 0 .. 0 - 1 = {}
    OBVIOUS
  <2> QED
    BY <1>2, <1>4, <2>1, <2>2 DEF DownloadInit, PackagesInv
<1> QED
  BY <1>1, <1>6, <1>7, <1>8 DEF DownloadInv

(* The size stands still, or grows while the stations do nothing. *)
LEMMA SizeSame ==
  ASSUME write_addr' = write_addr
  PROVE  size' = size /\ (Overrun' <=> Overrun)
BY DEF size, Overrun

LEMMA SizeGrows ==
  ASSUME LogInv, LogInv', write_addr <= write_addr', DownloadTypes, FileInv, PackagesInv,
         UNCHANGED dvars
  PROVE  DownloadInv'
<1>1. /\ write_addr \in Nat /\ start_addr \in Nat /\ end_addr \in Nat /\ size \in Nat
      /\ write_addr = start_addr + size
  BY SizeIs
<1>2. write_addr' \in Nat /\ size' \in Nat
  <2>1. (wp \in FirstPage .. EndPage + 1 /\ write_addr = wp * PageSize)'
    BY DEF LogInv, LogTypes
  <2>2. wp' \in Nat
    BY <2>1, Layout
  <2>3. write_addr' \in Nat
    BY <2>1, <2>2, PageOrder
  <2>4. size' = write_addr' - start_addr
    BY DEF size
  <2> DEFINE a == write_addr'
  <2>5. a \in Nat /\ write_addr <= a
    BY <2>3
  <2> HIDE DEF a
  <2>6. a - start_addr \in Nat
    BY <1>1, <2>5
  <2> QED
    BY <2>3, <2>4, <2>6 DEF a
<1>3. size' = write_addr' - start_addr
  BY DEF size
<1>4. size <= size' /\ (Overrun => Overrun')
  <2> DEFINE a == write_addr'
             b == size'
  <2>1. a \in Nat /\ b \in Nat /\ b = a - start_addr /\ write_addr <= a
    BY <1>2, <1>3
  <2> HIDE DEF a, b
  <2>2. size <= b
    BY <1>1, <2>1
  <2>3. write_addr > end_addr => a > end_addr
    BY <1>1, <2>1
  <2> QED
    BY <2>2, <2>3 DEF a, b, Overrun
<1>5. /\ read_addr' = read_addr /\ reading' = reading /\ ofs' = ofs
      /\ package_num' = package_num /\ pc' = pc /\ file' = file
      /\ packages' = packages /\ requests' = requests
  BY DEF dvars
<1>6. DownloadTypes'
  BY <1>5 DEF DownloadTypes
<1>7. ASSUME NEW x \in Int, x <= size PROVE x <= size'
  <2> DEFINE b == size'
  <2>1. b \in Nat /\ size <= b
    BY <1>2, <1>4
  <2> HIDE DEF b
  <2>2. x <= b
    BY <1>1, <1>7, <2>1
  <2> QED
    BY <2>2 DEF b
<1>8. ofs \in Int /\ Package * package_num \in Int
  BY DownloadAssumption DEF DownloadTypes
<1>9. FileInv'
  <2>1. ASSUME ~file.spoiled
        PROVE  /\ reading => ofs <= size'
               /\ Overrun' \/ (/\ ~file.wrong
                               /\ reading => file.from <= ofs
                                             /\ file.from .. ofs - 1 \subseteq file.right)
    BY <1>4, <1>7, <1>8, <2>1 DEF FileInv
  <2> QED
    BY <1>5, <2>1 DEF FileInv
<1>10. PackagesInv'
  <2>1. ASSUME ~packages.spoiled
        PROVE  /\ Package * package_num <= size'
               /\ Overrun' \/ (/\ ~packages.wrong
                               /\ 0 .. Package * package_num - 1 \subseteq packages.right)
    BY <1>4, <1>7, <1>8, <2>1 DEF PackagesInv
  <2> QED
    BY <1>5, <2>1 DEF PackagesInv
<1> QED
  BY <1>6, <1>9, <1>10 DEF DownloadInv

LEMMA RequestDataKeeps ==
  ASSUME DownloadInv, NEW o \in Offsets, NEW n \in Counts, RequestData(o, n)
  PROVE  DownloadInv'
<1>1. /\ LogInv /\ size \in Nat /\ Wide \in Nat \ {0} /\ o \in 0 .. Wide - 1
      /\ n \in 0 .. Wide /\ Wide \in Nat
      /\ MaxRequests \in Nat
  BY SizeIs, DownloadAssumption DEF DownloadInv
<1>2. /\ LogKeeps /\ record' = FALSE /\ SendChunk(o, Nothing(o, n))
      /\ ofs' = NextOfs(o) /\ reading' = (reading \/ Left(NextOfs(o)) > 0)
      /\ package_num' = package_num /\ pc' = pc /\ packages' = packages
      /\ requests < MaxRequests /\ requests' = requests + 1
  BY DEF RequestData
<1>3. /\ Nothing(o, n) \in Held /\ Nothing(o, n).from = o
      /\ Nothing(o, n).right = {} /\ Nothing(o, n).wrong = FALSE
      /\ (Nothing(o, n).spoiled <=> o > size)
  BY <1>1, NothingIs
<1>4. /\ read_addr' \in 0 .. Wide - 1 /\ flash' = FlashPoll(flash)
      /\ NextOfs(o) \in 0 .. Wide - 1
      /\ file' \in Held /\ file'.from = o
      /\ ~file'.spoiled => NextOfs(o) <= size
      /\ ~file'.spoiled /\ ~Overrun =>
           /\ o <= NextOfs(o) /\ file'.wrong = FALSE
           /\ file'.right = {} \cup (o .. NextOfs(o) - 1)
  <2>1. ~Nothing(o, n).spoiled => o <= size
    BY <1>1, <1>3
  <2> QED
    BY <1>1, <1>2, <1>3, <2>1, ChunkKeeps
<1>5. LogInv' /\ write_addr' = write_addr
  BY <1>1, <1>2, <1>4, PollKeeps
<1>6. size' = size /\ (Overrun' <=> Overrun)
  BY <1>5, SizeSame
<1>7. DownloadTypes'
  <2>1. reading' \in BOOLEAN
    <3> DEFINE more == Left(NextOfs(o)) > 0
    <3> HIDE DEF more
    <3>1. reading' = (reading \/ more)
      BY <1>2 DEF more
    <3>2. (reading \/ more) \in BOOLEAN
      OBVIOUS
    <3> QED
      BY <3>1, <3>2, Zenon
  <2>2. requests' \in 0 .. MaxRequests
    <3>1. requests \in 0 .. MaxRequests
      BY DEF DownloadInv, DownloadTypes
    <3> QED
      BY <1>1, <1>2, <3>1
  <2> QED
    BY <1>2, <1>4, <2>1, <2>2 DEF DownloadInv, DownloadTypes
<1>8. FileInv'
  BY <1>2, <1>4, <1>6 DEF FileInv
<1>9. PackagesInv'
  BY <1>2, <1>6 DEF DownloadInv, PackagesInv
<1> QED
  BY <1>5, <1>7, <1>8, <1>9 DEF DownloadInv

(* mavlink_log_run, which also shows that it ends a transfer in time. *)
LEMMA RunLogKeeps ==
  ASSUME DownloadInv, RunLog
  PROVE  /\ DownloadInv'
         /\ ~reading' => Overrun \/ file'.spoiled \/ file'.from .. size' - 1 \subseteq file'.right
<1>1. /\ LogInv /\ size \in Nat /\ Wide \in Nat \ {0} /\ ofs \in 0 .. Wide - 1
      /\ (~Overrun => size < Wide)
      /\ file \in Held /\ FileInv
  BY SizeIs DEF DownloadInv, DownloadTypes
<1>2. /\ LogKeeps /\ record' = record /\ SendChunk(ofs, file) /\ reading
      /\ \/ Left(NextOfs(ofs)) = 0 /\ reading' = FALSE /\ ofs' = 0
         \/ Left(NextOfs(ofs)) # 0 /\ ofs' = NextOfs(ofs) /\ reading' = reading
      /\ package_num' = package_num /\ pc' = pc /\ packages' = packages
      /\ requests' = requests
  BY DEF RunLog
<1>3. ~file.spoiled => ofs <= size
  BY <1>1, <1>2 DEF FileInv
<1>4. /\ read_addr' \in 0 .. Wide - 1 /\ flash' = FlashPoll(flash)
      /\ NextOfs(ofs) \in 0 .. Wide - 1
      /\ file' \in Held /\ file'.from = file.from
      /\ ~file'.spoiled => ~file.spoiled /\ NextOfs(ofs) <= size
      /\ ~file'.spoiled /\ ~Overrun =>
           /\ ofs <= NextOfs(ofs) /\ file'.wrong = file.wrong
           /\ file'.right = file.right \cup (ofs .. NextOfs(ofs) - 1)
  BY <1>1, <1>2, <1>3, ChunkKeeps
<1>5. LogInv' /\ write_addr' = write_addr
  <2>1. record' \in BOOLEAN
    BY <1>1, <1>2 DEF LogInv, LogTypes
  <2> QED
    BY <1>1, <1>2, <1>4, <2>1, PollKeeps
<1>6. size' = size /\ (Overrun' <=> Overrun)
  BY <1>5, SizeSame
<1>7. DownloadTypes'
  <2>1. 0 \in 0 .. Wide - 1
    BY <1>1
  <2> QED
    BY <1>2, <1>4, <2>1 DEF DownloadInv, DownloadTypes
<1>8. ASSUME ~file'.spoiled, ~Overrun
      PROVE  /\ ~file'.wrong /\ file'.from <= NextOfs(ofs)
             /\ file'.from .. NextOfs(ofs) - 1 \subseteq file'.right
  <2> DEFINE next == NextOfs(ofs)
             from == file.from
  <2>1. from \in Int /\ next \in Int /\ ofs \in Int /\ ofs <= next
    BY <1>1, <1>4, <1>8 DEF Held
  <2>2. ~file.wrong /\ from <= ofs /\ from .. ofs - 1 \subseteq file.right
    BY <1>1, <1>2, <1>4, <1>8 DEF FileInv
  <2>3. file'.from = from /\ file'.wrong = file.wrong
        /\ file'.right = file.right \cup (ofs .. next - 1)
    BY <1>4, <1>8
  <2> HIDE DEF next, from
  <2>4. from .. next - 1 \subseteq (from .. ofs - 1) \cup (ofs .. next - 1)
    BY <2>1
  <2>5. from <= next
    BY <2>1, <2>2
  <2>6. from .. next - 1 \subseteq file'.right
    BY <2>2, <2>3, <2>4
  <2> QED
    BY <2>2, <2>3, <2>5, <2>6 DEF next
<1>9. ASSUME ~file'.spoiled, ~Overrun, Left(NextOfs(ofs)) = 0
      PROVE  NextOfs(ofs) = size
  <2>1. NextOfs(ofs) \in Nat /\ NextOfs(ofs) <= size /\ size < Wide
    BY <1>1, <1>4, <1>9
  <2>2. Left(NextOfs(ofs)) = size - NextOfs(ofs)
    BY <1>1, <2>1, LeftIs
  <2> QED
    BY <1>1, <1>9, <2>1, <2>2
<1>10. FileInv'
  BY <1>2, <1>4, <1>6, <1>8 DEF FileInv
<1>11. PackagesInv'
  BY <1>2, <1>6 DEF DownloadInv, PackagesInv
<1>12. ~reading' => Overrun \/ file'.spoiled \/ file'.from .. size' - 1 \subseteq file'.right
  <2>1. ~reading' => Left(NextOfs(ofs)) = 0
    BY <1>2
  <2>2. ASSUME ~reading', ~file'.spoiled, ~Overrun
        PROVE  file'.from .. size' - 1 \subseteq file'.right
    BY <1>6, <1>8, <1>9, <2>1, <2>2
  <2> QED
    BY <2>2
<1> QED
  BY <1>5, <1>7, <1>10, <1>11, <1>12 DEF DownloadInv

LEMMA RequestInfoKeeps ==
  ASSUME DownloadInv, RequestInfo
  PROVE  DownloadInv'
<1>1. /\ LogInv /\ size \in Nat /\ Wide \in Nat \ {0} /\ MaxRequests \in Nat /\ Package \in Nat
  BY SizeIs, DownloadAssumption DEF DownloadInv
<1>2. /\ LogKeeps /\ record' = FALSE /\ flash' = flash
      /\ package_num' = 0 /\ packages' = Everything
      /\ read_addr' = read_addr /\ reading' = reading /\ ofs' = ofs /\ pc' = pc /\ file' = file
      /\ requests < MaxRequests /\ requests' = requests + 1
  BY DEF RequestInfo
<1>3. LogInv' /\ write_addr' = write_addr
  BY <1>1, <1>2, PollKeeps
<1>4. size' = size /\ (Overrun' <=> Overrun)
  BY <1>3, SizeSame
<1>5. Everything \in Held /\ Everything.wrong = FALSE
  BY <1>1, EverythingIs
<1>6. DownloadTypes'
  <2>1. requests' \in 0 .. MaxRequests
    <3>1. requests \in 0 .. MaxRequests
      BY DEF DownloadInv, DownloadTypes
    <3> QED
      BY <1>1, <1>2, <3>1
  <2> QED
    BY <1>2, <1>5, <2>1 DEF DownloadInv, DownloadTypes
<1>7. FileInv'
  BY <1>2, <1>4 DEF DownloadInv, FileInv
<1>8. PackagesInv'
  <2>1. Package * package_num' = 0
    BY <1>1, <1>2
  <2>2. 0 .. 0 - 1 = {}
    OBVIOUS
  <2>3. packages'.wrong = FALSE /\ 0 <= size'
    BY <1>1, <1>2, <1>4, <1>5
  <2> QED
    BY <2>1, <2>2, <2>3 DEF PackagesInv
<1> QED
  BY <1>3, <1>6, <1>7, <1>8 DEF DownloadInv

LEMMA RequestPackagesKeeps ==
  ASSUME DownloadInv, RequestPackages
  PROVE  DownloadInv'
<1>1. LogInv /\ MaxRequests \in Nat
  BY DownloadAssumption DEF DownloadInv
<1>2. /\ LogKeeps /\ record' = record /\ flash' = flash
      /\ package_num' = package_num /\ packages' = packages
      /\ read_addr' = read_addr /\ reading' = reading /\ ofs' = ofs /\ pc' = "loop"
      /\ file' = file /\ requests < MaxRequests /\ requests' = requests + 1
  BY DEF RequestPackages, vars, LogKeeps
<1>3. LogInv' /\ write_addr' = write_addr
  <2>1. record' \in BOOLEAN
    BY <1>1, <1>2 DEF LogInv, LogTypes
  <2> QED
    BY <1>1, <1>2, <2>1, PollKeeps
<1>4. size' = size /\ (Overrun' <=> Overrun)
  BY <1>3, SizeSame
<1>5. DownloadTypes'
  <2>1. requests' \in 0 .. MaxRequests
    <3>1. requests \in 0 .. MaxRequests
      BY DEF DownloadInv, DownloadTypes
    <3> QED
      BY <1>1, <1>2, <3>1
  <2> QED
    BY <1>2, <2>1 DEF DownloadInv, DownloadTypes
<1>6. FileInv'
  BY <1>2, <1>4 DEF DownloadInv, FileInv
<1>7. PackagesInv'
  BY <1>2, <1>4 DEF DownloadInv, PackagesInv
<1> QED
  BY <1>3, <1>5, <1>6, <1>7 DEF DownloadInv

(* A turn of the loop, which also shows that it ends in time. *)
LEMMA SendPackageKeeps ==
  ASSUME DownloadInv, SendPackage
  PROVE  /\ DownloadInv'
         /\ pc' = "main" =>
              Overrun \/ packages'.spoiled \/ 0 .. size' - 1 \subseteq packages'.right
<1>1. LogInv
  BY DEF DownloadInv
<1>2. /\ LogKeeps /\ record' = record /\ reading' = reading /\ ofs' = ofs /\ file' = file
      /\ requests' = requests
  BY DEF SendPackage
<1>3. /\ read_addr' \in 0 .. Wide - 1 /\ flash' = FlashPoll(flash)
      /\ packages' \in Held /\ package_num' \in Nat /\ pc' \in {"main", "loop"}
      /\ ~packages'.spoiled =>
           /\ Package * package_num' <= size
           /\ Overrun \/ /\ ~packages'.wrong
                         /\ 0 .. Package * package_num' - 1 \subseteq packages'.right
           /\ Overrun \/ pc' = "loop" \/ 0 .. size - 1 \subseteq packages'.right
  BY PackageKeeps
<1>4. LogInv' /\ write_addr' = write_addr
  <2>1. record' \in BOOLEAN
    BY <1>1, <1>2 DEF LogInv, LogTypes
  <2> QED
    BY <1>1, <1>2, <1>3, <2>1, PollKeeps
<1>5. size' = size /\ (Overrun' <=> Overrun)
  BY <1>4, SizeSame
<1>6. DownloadTypes'
  BY <1>2, <1>3 DEF DownloadInv, DownloadTypes
<1>7. FileInv'
  BY <1>2, <1>5 DEF DownloadInv, FileInv
<1>8. PackagesInv'
  BY <1>3, <1>5 DEF PackagesInv
<1>9. pc' = "main" =>
        Overrun \/ packages'.spoiled \/ 0 .. size' - 1 \subseteq packages'.right
  BY <1>3, <1>5
<1> QED
  BY <1>4, <1>6, <1>7, <1>8, <1>9 DEF DownloadInv

LEMMA StepKeeps ==
  ASSUME DownloadInv, EraseReaches, [DownloadNext]_allvars
  PROVE  DownloadInv'
<1> USE DEF DownloadInv
<1>1. CASE LogTask
  <2>1. PICK due \in SUBSET DOMAIN Records : LogRun(due)
    BY <1>1 DEF LogTask
  <2>2. LogInv' /\ write_addr <= write_addr'
    BY <2>1, LogRunKeeps
  <2> QED
    BY <1>1, <2>2, SizeGrows DEF LogTask
<1>2. CASE ChipFinishes
  <2>1. LogKeeps /\ record' = record /\ flash' = FlashDone(flash) /\ UNCHANGED dvars
    BY <1>2 DEF ChipFinishes, Finish, LogKeeps
  <2>2. record' \in BOOLEAN
    BY <2>1 DEF LogInv, LogTypes
  <2>3. LogInv' /\ write_addr' = write_addr
    BY <2>1, <2>2, PollKeeps
  <2>4. write_addr <= write_addr'
    BY <2>3, SizeIs
  <2> QED
    BY <2>1, <2>3, <2>4, SizeGrows
<1>3. CASE \E o \in Offsets, n \in Counts : RequestData(o, n)
  BY <1>3, RequestDataKeeps
<1>4. CASE RunLog
  BY <1>4, RunLogKeeps
<1>5. CASE RequestInfo
  BY <1>5, RequestInfoKeeps
<1>6. CASE RequestPackages
  BY <1>6, RequestPackagesKeeps
<1>7. CASE SendPackage
  BY <1>7, SendPackageKeeps
<1>8. CASE UNCHANGED allvars
  <2>1. LogKeeps /\ record' = record /\ flash' = flash /\ UNCHANGED dvars
    BY <1>8 DEF allvars, vars, LogKeeps
  <2>2. record' \in BOOLEAN
    BY <2>1 DEF LogInv, LogTypes
  <2>3. LogInv' /\ write_addr' = write_addr
    BY <2>1, <2>2, PollKeeps
  <2>4. write_addr <= write_addr'
    BY <2>3, SizeIs
  <2> QED
    BY <2>1, <2>3, <2>4, SizeGrows
<1> QED
  BY <1>1, <1>2, <1>3, <1>4, <1>5, <1>6, <1>7, <1>8 DEF DownloadNext

-----------------------------------------------------------------------------
(* The theorems.                                                           *)

(* The invariant holds of every behaviour, whatever the chip refuses and   *)
(* whatever the stations ask for, if the erase command reaches the log.    *)
THEOREM DownloadInvariant ==
  ASSUME EraseReaches
  PROVE  DownloadSpec => []DownloadInv
<1>1. DownloadInit => DownloadInv
  BY Starts
<1>2. DownloadInv /\ [DownloadNext]_allvars => DownloadInv'
  BY StepKeeps
<1> QED
  BY <1>1, <1>2, PTL DEF DownloadSpec

(* Each variable keeps its type: no chunk and no package moves an offset   *)
(* or read_addr out of 32 bits, and no station notes a byte past the log.  *)
THEOREM DownloadTyped ==
  ASSUME EraseReaches
  PROVE  DownloadSpec => []DownloadTypeOK
<1>1. DownloadInv => DownloadTypeOK
  BY LogIsTyped DEF DownloadInv, DownloadTypes, DownloadTypeOK
<1> QED
  BY <1>1, DownloadInvariant, PTL

(* mtd_sync puts every accepted byte into flash once and in order, however *)
(* long the records, the pages and the partition.                          *)
THEOREM LogInOrder ==
  ASSUME EraseReaches
  PROVE  DownloadSpec => []StreamInOrder
<1>1. DownloadInv => StreamInOrder
  BY LogIsStream DEF DownloadInv
<1> QED
  BY <1>1, DownloadInvariant, PTL

(* mtd.c:185: no page of the log is programmed before it has been erased,  *)
(* if the erase command reaches every page of the log or the pages that it *)
(* does not reach were found erased.  Nothing in the code sees to that:    *)
(* the run mtd_erase has a chip of which it is false.                      *)
THEOREM LogErasedAhead ==
  ASSUME EraseReaches
  PROVE  DownloadSpec => []ErasedAhead
<1>1. DownloadInv => ErasedAhead
  BY SectorsAreErased DEF DownloadInv
<1> QED
  BY <1>1, DownloadInvariant, PTL

(* The bytes mavlink_log.c sends are the log's, at the offset they are     *)
(* sent with.                                                              *)
THEOREM FileRight ==
  ASSUME EraseReaches
  PROVE  DownloadSpec => []FileIsLog
<1>1. DownloadInv => FileIsLog
  BY DEF DownloadInv, FileInv, FileIsLog
<1> QED
  BY <1>1, DownloadInvariant, PTL

(* So are those link_loglink.c sends.                                      *)
THEOREM PackagesRight ==
  ASSUME EraseReaches
  PROVE  DownloadSpec => []PackagesAreLog
<1>1. DownloadInv => PackagesAreLog
  BY DEF DownloadInv, PackagesInv, PackagesAreLog
<1> QED
  BY <1>1, DownloadInvariant, PTL

(* Neither ends before the station holds what it asked for: the bytes it   *)
(* gave mavlink_log.c an offset and a count of, as far as flash has them,  *)
(* and all of the log from link_loglink.c.                                 *)
THEOREM DownloadsWhole ==
  ASSUME EraseReaches
  PROVE  DownloadSpec => DownloadsComplete
<1> DEFINE Complete ==
      /\ reading /\ ~reading' =>
           \/ Overrun \/ file'.spoiled
           \/ file'.from .. Min({file'.to, size'}) - 1 \subseteq file'.right
      /\ pc = "loop" /\ pc' = "main" =>
           Overrun \/ packages'.spoiled \/ 0 .. size' - 1 \subseteq packages'.right
<1>1. ASSUME DownloadInv, DownloadNext PROVE Complete
  <2>1. CASE LogTask \/ ChipFinishes
    <3>1. reading' = reading /\ pc' = pc
      BY <2>1 DEF LogTask, ChipFinishes, dvars
    <3> QED
      BY <3>1
  <2>2. ASSUME NEW o \in Offsets, NEW n \in Counts, RequestData(o, n) PROVE Complete
    <3>1. reading' = (reading \/ Left(NextOfs(o)) > 0) /\ pc' = pc
      BY <2>2 DEF RequestData
    <3>2. reading => reading'
      BY <3>1
    <3> QED
      BY <3>1, <3>2
  <2>3. CASE RunLog
    <3>1. pc' = pc
      BY <2>3 DEF RunLog
    <3>2. /\ DownloadInv'
          /\ ~reading' => Overrun \/ file'.spoiled
                           \/ file'.from .. size' - 1 \subseteq file'.right
      BY <1>1, <2>3, RunLogKeeps
    <3>3. file'.from .. Min({file'.to, size'}) - 1 \subseteq file'.from .. size' - 1
      <4>1. size' \in Int /\ file'.to \in Int /\ file'.from \in Int
        <5>1. write_addr' \in Int /\ file' \in Held
          <6>1. LogTypes' /\ DownloadTypes'
            BY <3>2 DEF DownloadInv, LogInv
          <6>2. wp' \in Nat /\ write_addr' = wp' * PageSize
            BY <6>1, Layout DEF LogTypes
          <6> QED
            BY <6>1, <6>2, LogAssumption DEF DownloadTypes
        <5>2. start_addr \in Int /\ Wide \in Int
          BY Layout, DownloadAssumption
        <5> QED
          BY <5>1, <5>2 DEF size, Held
      <4>2. PICK m \in Int, t \in Int, a \in Int : m = size' /\ t = file'.to /\ a = file'.from
        BY <4>1
      <4>3. Min({t, m}) \in Int /\ Min({t, m}) <= m
        BY <4>2, SMTT(30) DEF Min
      <4>4. a .. Min({t, m}) - 1 \subseteq a .. m - 1
        BY <4>2, <4>3
      <4> QED
        BY <4>2, <4>4
    <3> QED
      BY <3>1, <3>2, <3>3
  <2>4. CASE RequestInfo \/ RequestPackages
    <3>1. reading' = reading /\ (pc' = pc \/ pc' = "loop")
      BY <2>4 DEF RequestInfo, RequestPackages
    <3> QED
      BY <3>1
  <2>5. CASE SendPackage
    <3>1. reading' = reading
      BY <2>5 DEF SendPackage
    <3> QED
      BY <1>1, <2>5, <3>1, SendPackageKeeps
  <2> QED
    BY <1>1, <2>1, <2>2, <2>3, <2>4, <2>5 DEF DownloadNext
<1>2. DownloadInv /\ [DownloadNext]_allvars => [Complete]_allvars
  BY <1>1
<1> QED
  BY <1>2, DownloadInvariant, PTL DEF DownloadSpec, DownloadsComplete
=============================================================================
