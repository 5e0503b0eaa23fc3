---------------------------- MODULE CommonLemmas ----------------------------
(***************************************************************************)
(* Facts that several proofs cite: division, induction over an interval,   *)
(* what the operators of Flash do to a chip, whatever its pages hold, and  *)
(* what a read of the clock can return.                                    *)
(***************************************************************************)
EXTENDS Flash, Timers, SequenceTheorems, WellFoundedInduction, TLAPS

(* A chip whose pages are the set S and hold members of T. *)
ChipType(S, T) ==
  [page : [S -> T], job : [on : SUBSET S, to : T], is_busy : BOOLEAN]

(* A chip of which the driver may know nothing. *)
SomeChip(f, S, T) == f \in ChipType(S, T) /\ {Erased, Garbled} \subseteq T

(* What the driver relies on: a chip at work is taken for a busy one. *)
GoodChip(f, S, T) ==
  /\ f \in ChipType(S, T) /\ {Erased, Garbled} \subseteq T
  /\ InProgress(f) => f.is_busy

(* The chip f, ready, has been sent a command, and is g. *)
AtWork(f, g, S, T, on, to) ==
  /\ GoodChip(g, S, T) /\ g.job.on = on /\ g.job.to = to
  /\ g.page = [q \in S |-> IF q \in on THEN Garbled ELSE f.page[q]]

-----------------------------------------------------------------------------
(* A set of naturals has a least member. *)
LEMMA Least ==
  ASSUME NEW T \in SUBSET Nat, T # {}
  PROVE  \E m \in T : \A n \in T : m <= n
<1> DEFINE R == {ss \in Nat \X Nat : ss[1] < ss[2]}
<1>1. IsWellFoundedOn(R, Nat)
  BY NatLessThanWellFounded DEF OpToRel
<1> HIDE DEF R
<1>2. PICK m \in T : \A n \in T : ~(<<n, m>> \in R)
  BY <1>1, WFMin
<1>3. ASSUME NEW n \in T, n < m PROVE FALSE
  <2>1. <<n, m>> \in Nat \X Nat /\ <<n, m>>[1] < <<n, m>>[2]
    BY <1>3
  <2>2. <<n, m>> \in R
    BY <2>1 DEF R
  <2> QED
    BY <1>2, <2>2
<1> QED
  BY <1>3

(* Induction over an interval, for a property that is a set. *)
LEMMA Induction ==
  ASSUME NEW N \in Nat, NEW T, 0 \in T, \A n \in 0 .. N - 1 : n \in T => n + 1 \in T
  PROVE  0 .. N \subseteq T
<1> DEFINE U == {n \in 0 .. N : n \notin T}
<1>1. SUFFICES ASSUME U # {} PROVE FALSE
  OBVIOUS
<1>2. PICK m \in U : \A n \in U : m <= n
  <2>1. U \in SUBSET Nat
    OBVIOUS
  <2> HIDE DEF U
  <2> QED
    BY <1>1, <2>1, Least
<1>3. m - 1 \in 0 .. N - 1 /\ m - 1 \notin U
  BY <1>2
<1>4. m - 1 \in T
  BY <1>3
<1>5. m \in T
  BY <1>3, <1>4
<1> QED
  BY <1>2, <1>5

-----------------------------------------------------------------------------
(* Division. *)
LEMMA Divides ==
  ASSUME NEW d \in Nat \ {0}, NEW c \in Nat
  PROVE  c = d * (c \div d) + (c % d) /\ c % d \in 0 .. d - 1 /\ c \div d \in Nat
<1>1. d \in Nat /\ d > 0
  OBVIOUS
<1>2. c = d * (c \div d) + (c % d)
  BY <1>1
<1>3. c % d \in 0 .. d - 1
  BY <1>1
<1>4. c \div d \in Nat
  BY <1>1
<1> QED
  BY <1>2, <1>3, <1>4

LEMMA MoreIsMore ==
  ASSUME NEW d \in Nat \ {0}, NEW q \in Int, NEW p \in Int, q < p
  PROVE  d * q + d <= d * p
<1>1. p - q >= 1 /\ d * (p - q) >= d
  OBVIOUS
<1>2. d * (p - q) = d * p - d * q
  OBVIOUS
<1>3. d * p \in Int /\ d * q \in Int
  OBVIOUS
<1> QED
  BY <1>1, <1>2, <1>3

(* A number has one quotient and one remainder. *)
LEMMA DivUnique ==
  ASSUME NEW d \in Nat \ {0}, NEW q \in Nat, NEW r \in 0 .. d - 1, NEW c, c = d * q + r
  PROVE  c \in Nat /\ c \div d = q /\ c % d = r
<1>0. d * q \in Nat
  OBVIOUS
<1>1. c \in Nat
  BY <1>0
<1> DEFINE p == c \div d
           s == c % d
<1>2. c = d * p + s /\ s \in 0 .. d - 1 /\ p \in Nat
  BY <1>1, Divides
<1> HIDE DEF p, s
<1>3. d * p \in Nat
  BY <1>2
<1>4. ~(q < p)
  BY <1>0, <1>2, <1>3, MoreIsMore
<1>5. ~(p < q)
  BY <1>0, <1>2, <1>3, MoreIsMore
<1>6. p = q
  BY <1>2, <1>4, <1>5
<1>7. s = r
  BY <1>0, <1>2, <1>6
<1> QED
  BY <1>1, <1>6, <1>7 DEF p, s

-----------------------------------------------------------------------------
LEMMA Cuts ==
  ASSUME NEW S, NEW s \in Seq(S), NEW m \in Int, NEW n \in Int, m >= 1, n <= Len(s)
  PROVE  SubSeq(s, m, n) \in Seq(S) /\ Len(SubSeq(s, m, n)) = IF m <= n THEN n - m + 1 ELSE 0
<1>1. \A i \in m .. n : s[i] \in S
  OBVIOUS
<1> QED
  BY <1>1, SubSeqProperties

-----------------------------------------------------------------------------
(* The chip.  Asking it changes nothing that it holds. *)
LEMMA Polled ==
  ASSUME NEW S, NEW T, NEW f, GoodChip(f, S, T)
  PROVE  /\ GoodChip(FlashPoll(f), S, T)
         /\ FlashPoll(f).page = f.page /\ FlashPoll(f).job = f.job
         /\ FlashPoll(f).is_busy = (f.is_busy /\ InProgress(f))
BY Zenon DEF FlashPoll, GoodChip, ChipType, InProgress

LEMMA Ready ==
  ASSUME NEW S, NEW T, NEW f, GoodChip(f, S, T)
  PROVE  FlashReady(f) <=> f.job.on = {}
<1>1. FlashPoll(f).is_busy = (f.is_busy /\ InProgress(f))
  BY Polled
<1>2. InProgress(f) => f.is_busy
  BY DEF GoodChip
<1> QED
  BY <1>1, <1>2, Zenon DEF FlashReady, InProgress

(* A command to a chip that is ready is obeyed. *)
LEMMA Obeyed ==
  ASSUME NEW S, NEW T, NEW f, GoodChip(f, S, T), f.job.on = {},
         NEW on \in SUBSET S, NEW to \in T
  PROVE  AtWork(f, Obey(WriteEnable(FlashPoll(f)), on, to), S, T, on, to)
<1> DEFINE p == FlashPoll(f)
           h == WriteEnable(p)
           g == Obey(h, on, to)
           pages == [q \in S |-> IF q \in on THEN Garbled ELSE f.page[q]]
<1>1. GoodChip(p, S, T) /\ p.page = f.page /\ p.job = f.job
  BY Polled
<1>2. /\ h \in ChipType(S, T) /\ h.page = f.page /\ h.job = f.job /\ h.is_busy = TRUE
      /\ {Erased, Garbled} \subseteq T
  <2> HIDE DEF p
  <2> QED
    BY <1>1 DEF WriteEnable, GoodChip, ChipType
<1>3. ~InProgress(h) /\ DOMAIN h.page = S /\ f.page \in [S -> T]
  BY <1>2 DEF InProgress, ChipType
<1>4. g = [h EXCEPT !.job = [on |-> on, to |-> to], !.page = pages]
  <2> HIDE DEF h
  <2> QED
    BY <1>2, <1>3 DEF Obey
<1>5. pages \in [S -> T]
  BY <1>2, <1>3
<1>6. /\ g \in ChipType(S, T) /\ g.page = pages /\ g.job = [on |-> on, to |-> to]
      /\ g.is_busy = TRUE
  <2> HIDE DEF pages, h, g
  <2> QED
    BY <1>2, <1>4, <1>5 DEF ChipType
<1> HIDE DEF g
<1> QED
  BY <1>2, <1>6 DEF AtWork, GoodChip, g

LEMMA Programs ==
  ASSUME NEW S, NEW T, NEW f, GoodChip(f, S, T), FlashReady(f), NEW p \in S, NEW data,
         Over(f.page[p], data) \in T
  PROVE  AtWork(f, PageProgram(f, p, data), S, T, {p}, Over(f.page[p], data))
<1> DEFINE on == {p} \cap DOMAIN f.page
           to == Over(f.page[p], data)
<1>1. f.job.on = {} /\ ~FlashPoll(f).is_busy
  BY Ready DEF FlashReady
<1>2. on = {p} /\ on \in SUBSET S
  BY DEF GoodChip, ChipType
<1>3. to \in T
  OBVIOUS
<1>4. PageProgram(f, p, data) = Obey(WriteEnable(FlashPoll(f)), on, to)
  BY <1>1 DEF PageProgram
<1> HIDE DEF on, to
<1>5. AtWork(f, PageProgram(f, p, data), S, T, on, to)
  BY <1>1, <1>2, <1>3, <1>4, Obeyed
<1> QED
  BY <1>2, <1>5 DEF to

LEMMA Erases ==
  ASSUME NEW S, NEW T, NEW f, GoodChip(f, S, T), FlashReady(f), NEW p, NEW unit
  PROVE  AtWork(f, EraseSector(f, p, unit), S, T,
                {q \in S : q \div unit = p \div unit}, Erased)
<1> DEFINE on == {q \in DOMAIN f.page : q \div unit = p \div unit}
<1>1. f.job.on = {} /\ ~FlashPoll(f).is_busy
  BY Ready DEF FlashReady
<1>2. DOMAIN f.page = S /\ Erased \in T
  BY DEF GoodChip, ChipType
<1>3. on \in SUBSET S /\ on = {q \in S : q \div unit = p \div unit}
  BY <1>2
<1>4. EraseSector(f, p, unit) = Obey(WriteEnable(FlashPoll(f)), on, Erased)
  BY <1>1 DEF EraseSector
<1> HIDE DEF on
<1>5. AtWork(f, EraseSector(f, p, unit), S, T, on, Erased)
  BY <1>1, <1>2, <1>3, <1>4, Obeyed
<1> QED
  BY <1>3, <1>5

(* A busy chip is only asked. *)
LEMMA Refuses ==
  ASSUME NEW f, ~FlashReady(f), NEW p, NEW data, NEW unit
  PROVE  PageProgram(f, p, data) = FlashPoll(f) /\ EraseSector(f, p, unit) = FlashPoll(f)
BY Zenon DEF FlashReady, PageProgram, EraseSector

(* A chip at work that the driver does not know to be is sent an erase,    *)
(* ignores it, and is known from then on.                                  *)
LEMMA Ignores ==
  ASSUME NEW S, NEW T, NEW f, SomeChip(f, S, T), InProgress(f), FlashReady(f), NEW p, NEW unit
  PROVE  /\ GoodChip(EraseSector(f, p, unit), S, T)
         /\ EraseSector(f, p, unit).page = f.page /\ EraseSector(f, p, unit).job = f.job
<1> DEFINE q == FlashPoll(f)
           g == WriteEnable(q)
<1>1. /\ q \in ChipType(S, T) /\ q.page = f.page /\ q.job = f.job
      /\ {Erased, Garbled} \subseteq T
  BY Zenon DEF SomeChip, FlashPoll, ChipType
<1>2. ~q.is_busy
  BY DEF FlashReady
<1> HIDE DEF q
<1>3. /\ g \in ChipType(S, T) /\ g.page = f.page /\ g.job = f.job /\ g.is_busy = TRUE
  BY <1>1 DEF WriteEnable, ChipType
<1>4. InProgress(g)
  BY <1>3 DEF InProgress
<1>5. EraseSector(f, p, unit) = g
  BY <1>2, <1>4 DEF EraseSector, Obey, q
<1> QED
  BY <1>1, <1>3, <1>5 DEF GoodChip

(* A chip that is not at work gives the driver no trouble. *)
LEMMA IdleChip ==
  ASSUME NEW S, NEW T, NEW f, SomeChip(f, S, T), ~InProgress(f)
  PROVE  GoodChip(f, S, T)
BY DEF SomeChip, GoodChip

(* Asking a chip about which nothing is known changes nothing else. *)
LEMMA PolledSome ==
  ASSUME NEW S, NEW T, NEW f, SomeChip(f, S, T)
  PROVE  /\ SomeChip(FlashPoll(f), S, T)
         /\ FlashPoll(f).page = f.page /\ FlashPoll(f).job = f.job
BY Zenon DEF FlashPoll, SomeChip, ChipType

(* The chip finishes. *)
LEMMA Finishes ==
  ASSUME NEW S, NEW T, NEW f, SomeChip(f, S, T)
  PROVE  /\ GoodChip(FlashDone(f), S, T) /\ FlashDone(f).job.on = {}
         /\ FlashDone(f).page = [q \in S |-> IF q \in f.job.on THEN f.job.to ELSE f.page[q]]
<1> DEFINE pages == [q \in S |-> IF q \in f.job.on THEN f.job.to ELSE f.page[q]]
<1>1. /\ f \in ChipType(S, T) /\ {Erased, Garbled} \subseteq T
      /\ DOMAIN f.page = S /\ f.page \in [S -> T] /\ f.job.to \in T
  BY DEF SomeChip, ChipType
<1>2. pages \in [S -> T]
  BY <1>1
<1>3. FlashDone(f) = [f EXCEPT !.job = NoJob, !.page = pages]
  BY <1>1 DEF FlashDone
<1>4. NoJob \in [on : SUBSET S, to : T] /\ NoJob.on = {}
  BY <1>1 DEF NoJob
<1> HIDE DEF pages
<1>5. /\ FlashDone(f) \in ChipType(S, T)
      /\ FlashDone(f).job = NoJob /\ FlashDone(f).page = pages
  BY <1>1, <1>2, <1>3, <1>4 DEF ChipType
<1> QED
  BY <1>1, <1>4, <1>5 DEF InProgress, GoodChip, pages

-----------------------------------------------------------------------------
(* Clock and Timers: a count and its two halves, and what a read of them   *)
(* can return.                                                             *)

(* A count is its two halves. *)
LEMMA Halves ==
  ASSUME NEW c \in Nat
  PROVE  c = Half * High(c) + Low(c) /\ Low(c) \in 0 .. Half - 1 /\ High(c) \in Nat
BY ClockAssumption DEF High, Low

(* A larger high half outweighs any low half. *)
LEMMA HighDecides ==
  ASSUME NEW q \in Nat, NEW p \in Nat, q < p, NEW r \in 0 .. Half - 1, NEW s \in Nat
  PROVE  Half * q + r < Half * p + s
<1>1. p - q >= 1 /\ Half * (p - q) >= Half
  BY ClockAssumption
<1>2. Half * (p - q) = Half * p - Half * q
  BY ClockAssumption
<1>3. Half * p \in Nat /\ Half * q \in Nat
  BY ClockAssumption
<1> QED
  BY <1>1, <1>2, <1>3, ClockAssumption

(* A count has one pair of halves. *)
LEMMA HalvesUnique ==
  ASSUME NEW q \in Nat, NEW p \in Nat, NEW r \in 0 .. Half - 1, NEW s \in 0 .. Half - 1,
         Half * q + r = Half * p + s
  PROVE  q = p /\ r = s
<1>1. ~(q < p)
  BY HighDecides, ClockAssumption
<1>2. ~(p < q)
  BY HighDecides, ClockAssumption
<1>3. q = p
  BY <1>1, <1>2
<1> QED
  BY <1>3, ClockAssumption

(* The high half grows with the count. *)
LEMMA HighGrows ==
  ASSUME NEW c \in Nat, NEW d \in Nat, c <= d
  PROVE  High(c) <= High(d)
<1>1. SUFFICES ASSUME High(d) < High(c) PROVE FALSE
  BY Halves
<1>2. /\ High(c) \in Nat /\ Low(c) \in Nat
      /\ High(d) \in Nat /\ Low(d) \in 0 .. Half - 1
  BY Halves, ClockAssumption
<1>3. Half * High(d) + Low(d) < Half * High(c) + Low(c)
  BY <1>1, <1>2, HighDecides
<1> QED
  BY <1>3, Halves

(* A tick leaves the high half alone, unless the low half overflows. *)
LEMMA NoCarry ==
  ASSUME NEW c \in Nat, ~Straddles(c)
  PROVE  High(c + 1) = High(c) /\ Low(c + 1) = Low(c) + 1
<1> DEFINE q == High(c)
           r == Low(c)
           p == High(c + 1)
           s == Low(c + 1)
<1>1. c = Half * q + r /\ r \in 0 .. Half - 1 /\ q \in Nat
  BY Halves
<1>2. c + 1 = Half * p + s /\ s \in 0 .. Half - 1 /\ p \in Nat
  BY Halves
<1>3. r + 1 \in 0 .. Half - 1
  BY <1>1, ClockAssumption DEF Straddles
<1>4. Half * q + (r + 1) = Half * p + s
  BY <1>1, <1>2, ClockAssumption
<1> HIDE DEF q, r, p, s
<1>5. q = p /\ r + 1 = s
  BY <1>1, <1>2, <1>3, <1>4, HalvesUnique
<1> QED
  BY <1>5 DEF q, r, p, s

(* An overflow of the low half is counted by the high one. *)
LEMMA Carry ==
  ASSUME NEW c \in Nat, Straddles(c)
  PROVE  High(c + 1) = High(c) + 1
<1> DEFINE q == High(c)
           p == High(c + 1)
           s == Low(c + 1)
<1>1. c = Half * q + (Half - 1) /\ q \in Nat
  BY Halves DEF Straddles
<1>2. c + 1 = Half * p + s /\ s \in 0 .. Half - 1 /\ p \in Nat
  BY Halves
<1>3. Half * (q + 1) = Half * q + Half
  BY <1>1, ClockAssumption
<1>4. Half * (q + 1) + 0 = Half * p + s
  BY <1>1, <1>2, <1>3, ClockAssumption
<1>5. q + 1 \in Nat /\ 0 \in 0 .. Half - 1
  BY <1>1, ClockAssumption
<1> HIDE DEF q, p, s
<1>6. q + 1 = p
  BY <1>2, <1>4, <1>5, HalvesUnique
<1> QED
  BY <1>6 DEF q, p

(* A read takes a tick at most. *)
LEMMA ReadTakes ==
  ASSUME NEW c \in Nat, NEW r \in Reads(c)
  PROVE  r.cnt \in {c, c + 1} /\ r.now \in Nat
<1>1. High(c) \in Nat /\ Low(c) \in Nat /\ High(c + 1) \in Nat /\ Low(c + 1) \in Nat
  BY Halves, ClockAssumption
<1>2. Join(High(c), Low(c + 1)) \in Nat /\ Join(High(c + 1), Low(c)) \in Nat
  BY <1>1, ClockAssumption DEF Join
<1> QED
  BY <1>2 DEF Reads

(* Unless it straddles an overflow, a read returns the count before or     *)
(* after it.                                                               *)
LEMMA ReadsWhole ==
  ASSUME NEW c \in Nat, ~Straddles(c), NEW r \in Reads(c)
  PROVE  r.now \in {c, c + 1} /\ r.now <= r.cnt
<1>1. /\ High(c + 1) = High(c) /\ Low(c + 1) = Low(c) + 1
      /\ c = Half * High(c) + Low(c)
      /\ c + 1 = Half * High(c + 1) + Low(c + 1)
  BY NoCarry, Halves
<1>2. /\ High(c) \in Nat /\ Low(c) \in Nat
  BY Halves
<1>3. Join(High(c), Low(c + 1)) = c + 1 /\ Join(High(c + 1), Low(c)) = c
  BY <1>1, <1>2, ClockAssumption DEF Join
<1> QED
  BY <1>3 DEF Reads

(* A read that returns something else costs an overflow. *)
LEMMA WholeOrCarry ==
  ASSUME NEW c \in Nat, NEW r \in Reads(c)
  PROVE  \/ r.now \in {c, c + 1} /\ r.now <= r.cnt
         \/ r.cnt = c + 1 /\ High(r.cnt) = High(c) + 1
<1>1. CASE ~Straddles(c)
  BY <1>1, ReadsWhole
<1>2. CASE Straddles(c) /\ r.cnt = c + 1
  BY <1>2, Carry
<1>3. CASE r.cnt # c + 1
  <2>1. r = [now |-> c, cnt |-> c]
    BY <1>3 DEF Reads
  <2> QED
    BY <2>1
<1> QED
  BY <1>1, <1>2, <1>3

(* Any two halves make a time. *)
LEMMA JoinIsTime ==
  ASSUME NEW h \in 0 .. Half - 1, NEW l \in 0 .. Half - 1
  PROVE  Join(h, l) \in Times
<1>1. h * Half <= (Half - 1) * Half /\ h * Half >= 0
  BY ClockAssumption
<1>2. (Half - 1) * Half = Half * Half - Half
  BY ClockAssumption
<1>3. h * Half \in Int /\ Half * Half \in Int
  BY ClockAssumption
<1> QED
  BY <1>1, <1>2, <1>3, ClockAssumption DEF Join, Times

(* The high half of a time is one. *)
LEMMA HighIsHalf ==
  ASSUME NEW c \in Times
  PROVE  High(c) \in 0 .. Half - 1
<1>1. c \in Nat /\ c <= Half * Half - 1
  BY ClockAssumption DEF Times
<1>2. c = Half * High(c) + Low(c) /\ Low(c) \in 0 .. Half - 1 /\ High(c) \in Nat
  BY <1>1, Halves
<1>3. SUFFICES ASSUME High(c) >= Half PROVE FALSE
  BY <1>2, ClockAssumption
<1>4. Half * High(c) >= Half * Half
  BY <1>2, <1>3, ClockAssumption
<1>5. Half * High(c) \in Int /\ Half * Half \in Int
  BY <1>2, ClockAssumption
<1> QED
  BY <1>1, <1>2, <1>4, <1>5

(* What a read returns is a time, torn or not. *)
LEMMA ReadIsTime ==
  ASSUME NEW c \in Nat, NEW r \in Reads(c), r.cnt <= MaxCnt
  PROVE  r.now \in Times
<1>1. MaxCnt \in Nat /\ TimeMax \in Int /\ MaxCnt < TimeMax
  BY ClockAssumption, TimersAssumption
<1>2. CASE r = [now |-> c, cnt |-> c]
  BY <1>1, <1>2 DEF Times
<1>3. CASE r # [now |-> c, cnt |-> c]
  <2>1. r.cnt = c + 1 /\ r.now \in {c, c + 1, Join(High(c), Low(c + 1)), Join(High(c + 1), Low(c))}
    BY <1>3 DEF Reads
  <2>2. c \in Times /\ c + 1 \in Times
    BY <1>1, <2>1 DEF Times
  <2>3. /\ High(c) \in 0 .. Half - 1 /\ High(c + 1) \in 0 .. Half - 1
        /\ Low(c) \in 0 .. Half - 1 /\ Low(c + 1) \in 0 .. Half - 1
    BY <2>2, HighIsHalf, Halves
  <2> QED
    BY <2>1, <2>2, <2>3, JoinIsTime
<1> QED
  BY <1>2, <1>3
=============================================================================
