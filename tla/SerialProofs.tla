---------------------------- MODULE SerialProofs ----------------------------
(***************************************************************************)
(* Proofs about Serial for every buffer size, byte set and write length:   *)
(* the inductive invariant, the safety invariants it implies, and that     *)
(* each direction of the port implements ByteChannel.                      *)
(***************************************************************************)
EXTENDS Serial, SequenceTheorems, TLAPS

-----------------------------------------------------------------------------
(* What the operators of Fifo do to a well-formed ring, for every size and *)
(* every element type.                                                     *)

(* The slots between tail and head hold elements; the others do not count. *)
Filled(f, S) == \A k \in 0 .. f.cnt-1 : f.data[SlotAt(f, k)] \in S

(* A ring as every operation finds and leaves it. *)
GoodFifo(f, S, n) == f \in FifoType(S, n) /\ RingOK(f) /\ Filled(f, S)

(* A queue of at most n elements that took c, at the price of its oldest. *)
Pushed(q, n, c) == Append(IF Len(q) = n THEN Tail(q) ELSE q, c)

-----------------------------------------------------------------------------
(* Counting from the next slot is counting one further. *)
LEMMA SlotsNext ==
  ASSUME NEW n \in Nat \ {0}, NEW f, NEW v, f.size = n, v.size = n,
         f.tail \in 0 .. n-1, v.tail = Bump(f.tail, n), NEW k \in 0 .. n-2
  PROVE  SlotAt(v, k) = SlotAt(f, k + 1) /\ SlotAt(v, k) # f.tail /\ SlotAt(v, k) \in 0 .. n-1
<1> DEFINE t == f.tail
           u == v.tail
<1>1. t \in 0 .. n-1 /\ u = Bump(t, n)
  OBVIOUS
<1>2. SlotAt(v, k) = (IF u + k >= n THEN u + (k - n) ELSE u + k)
  BY DEF SlotAt
<1>3. SlotAt(f, k+1) = (IF t + (k+1) >= n THEN t + ((k+1) - n) ELSE t + (k+1))
  BY DEF SlotAt
<1> HIDE DEF t, u
<1>4. CASE t = n-1
  <2>1. u = 0
    BY <1>1, <1>4 DEF Bump
  <2>2. SlotAt(v, k) = k
    BY <1>2, <2>1
  <2>3. SlotAt(f, k+1) = k
    BY <1>3, <1>4
  <2> QED
    BY <1>4, <2>2, <2>3 DEF t
<1>5. CASE t # n-1
  <2>1. u = t + 1
    BY <1>1, <1>5 DEF Bump
  <2> QED
    BY <1>1, <1>2, <1>3, <2>1, <1>5 DEF t
<1> QED
  BY <1>4, <1>5

(* n-1 slots behind the next one comes the slot itself. *)
LEMMA SlotsRound ==
  ASSUME NEW n \in Nat \ {0}, NEW f, NEW v, v.size = n,
         f.tail \in 0 .. n-1, v.tail = Bump(f.tail, n)
  PROVE  SlotAt(v, n-1) = f.tail
<1> DEFINE t == f.tail
           u == v.tail
<1>1. t \in 0 .. n-1 /\ u = Bump(t, n)
  OBVIOUS
<1>2. SlotAt(v, n-1) = (IF u + (n-1) >= n THEN u + ((n-1) - n) ELSE u + (n-1))
  BY DEF SlotAt
<1> HIDE DEF t, u
<1>3. u = (IF t = n-1 THEN 0 ELSE t + 1)
  BY <1>1 DEF Bump
<1>4. SlotAt(v, n-1) = t
  BY <1>1, <1>2, <1>3
<1> QED
  BY <1>4 DEF t

(* While a ring is not full, its head is the first slot without an element. *)
LEMMA SlotsBelow ==
  ASSUME NEW n \in Nat \ {0}, NEW f, f.size = n, f.cnt \in 0 .. n-1,
         f.tail \in 0 .. n-1, f.head \in 0 .. n-1, RingOK(f)
  PROVE  /\ SlotAt(f, f.cnt) = f.head
         /\ \A k \in 0 .. f.cnt-1 : SlotAt(f, k) # f.head /\ SlotAt(f, k) \in 0 .. n-1
<1> DEFINE t == f.tail
           m == f.cnt
           h == f.head
<1>1. t \in 0 .. n-1 /\ m \in 0 .. n-1 /\ h \in 0 .. n-1
  OBVIOUS
<1>2. h = t + m \/ h + n = t + m
  BY DEF RingOK
<1>3. \A k : SlotAt(f, k) = (IF t + k >= n THEN t + (k - n) ELSE t + k)
  BY DEF SlotAt
<1> HIDE DEF t, m, h
<1>4. SlotAt(f, m) = h
  BY <1>1, <1>2, <1>3
<1>5. ASSUME NEW k \in 0 .. m-1 PROVE SlotAt(f, k) # h /\ SlotAt(f, k) \in 0 .. n-1
  BY <1>1, <1>2, <1>3
<1> QED
  BY <1>4, <1>5 DEF t, m, h

-----------------------------------------------------------------------------
(* An empty ring is well formed and stands for the empty queue. *)
LEMMA InitIsGood ==
  ASSUME NEW S, NEW n \in Nat \ {0}
  PROVE  GoodFifo(FifoInit(n), S, n) /\ Contents(FifoInit(n)) = << >>
<1> DEFINE f == FifoInit(n)
<1>1. f \in FifoType(S, n)
  BY DEF FifoInit, FifoType
<1>2. f.cnt = 0 /\ f.head = 0 /\ f.tail = 0
  BY DEF FifoInit
<1>3. RingOK(f)
  BY <1>2 DEF RingOK
<1>4. Filled(f, S)
  BY <1>2 DEF Filled
<1>5. Contents(f) = << >>
  BY <1>2 DEF Contents
<1> QED
  BY <1>1, <1>3, <1>4, <1>5 DEF GoodFifo

(* The queue a well-formed ring stands for. *)
LEMMA ContentsIsSeq ==
  ASSUME NEW S, NEW n \in Nat \ {0}, NEW f, GoodFifo(f, S, n)
  PROVE  /\ Contents(f) \in Seq(S)
         /\ Len(Contents(f)) = f.cnt
         /\ \A i \in 1 .. f.cnt : Contents(f)[i] = f.data[SlotAt(f, i-1)]
         /\ f.cnt \in 0 .. n
<1>1. f.cnt \in 0 .. n
  BY DEF GoodFifo, FifoType
<1>2. \A i \in 1 .. f.cnt : f.data[SlotAt(f, i-1)] \in S
  BY <1>1 DEF GoodFifo, Filled
<1>3. Contents(f) \in [1 .. f.cnt -> S]
  BY <1>2 DEF Contents
<1>4. Contents(f) \in Seq(S) /\ Len(Contents(f)) = f.cnt
  BY <1>1, <1>3
<1>5. \A i \in 1 .. f.cnt : Contents(f)[i] = f.data[SlotAt(f, i-1)]
  BY DEF Contents
<1> QED
  BY <1>1, <1>4, <1>5

-----------------------------------------------------------------------------
(* The fields after the section of fifo_write. *)
LEMMA WriteFields ==
  ASSUME NEW S, NEW n \in Nat \ {0}, NEW c \in S, NEW f \in FifoType(S, n)
  PROVE  /\ FifoWrite(f, c) \in FifoType(S, n)
         /\ FifoWrite(f, c).head = Bump(f.head, n)
         /\ FifoWrite(f, c).tail = f.tail
         /\ FifoWrite(f, c).cnt = (IF f.cnt = n THEN n ELSE f.cnt + 1)
         /\ FifoWrite(f, c).data = [f.data EXCEPT ![f.head] = c]
<1> DEFINE d == [f.data EXCEPT ![f.head] = c]
           h == Bump(f.head, f.size)
           m == IF f.cnt + 1 > f.size THEN f.size ELSE f.cnt + 1
<1>1. /\ f.head \in 0 .. n-1 /\ f.cnt \in 0 .. n /\ f.size = n
      /\ f.data \in [0 .. n-1 -> S \cup {Blank}]
  BY DEF FifoType
<1>2. h = Bump(f.head, n) /\ m = IF f.cnt = n THEN n ELSE f.cnt + 1
  BY <1>1
<1>3. d \in [0 .. n-1 -> S \cup {Blank}] /\ h \in 0 .. n-1 /\ m \in 0 .. n
  BY <1>1 DEF Bump
<1>4. FifoWrite(f, c) = [f EXCEPT !.data = d, !.head = h, !.cnt = m]
  BY DEF FifoWrite
<1> HIDE DEF d, h, m
<1>5. [f EXCEPT !.data = d, !.head = h, !.cnt = m] \in FifoType(S, n)
  BY <1>3 DEF FifoType
<1>6. LET w == [f EXCEPT !.data = d, !.head = h, !.cnt = m]
      IN  w.head = h /\ w.tail = f.tail /\ w.cnt = m /\ w.data = d
  BY DEF FifoType
<1> QED
  BY <1>2, <1>4, <1>5, <1>6 DEF d

(* The fields after fifo_write_force: a full ring's tail moves on too. *)
LEMMA WriteForceFields ==
  ASSUME NEW S, NEW n \in Nat \ {0}, NEW c \in S,
         NEW f \in FifoType(S, n), RingOK(f)
  PROVE  /\ FifoWriteForce(f, c) \in FifoType(S, n)
         /\ FifoWriteForce(f, c).head = Bump(f.head, n)
         /\ FifoWriteForce(f, c).tail = (IF f.cnt = n THEN Bump(f.tail, n) ELSE f.tail)
         /\ FifoWriteForce(f, c).cnt = (IF f.cnt = n THEN n ELSE f.cnt + 1)
         /\ FifoWriteForce(f, c).data = [f.data EXCEPT ![f.head] = c]
         /\ RingOK(FifoWriteForce(f, c))
<1> DEFINE w == FifoWrite(f, c)
           t == IF w.cnt = f.size THEN w.head ELSE w.tail
           v == FifoWriteForce(f, c)
<1>1. /\ w \in FifoType(S, n) /\ w.head = Bump(f.head, n) /\ w.tail = f.tail
      /\ w.cnt = (IF f.cnt = n THEN n ELSE f.cnt + 1)
      /\ w.data = [f.data EXCEPT ![f.head] = c]
  BY WriteFields
<1>2. /\ f.head \in 0 .. n-1 /\ f.tail \in 0 .. n-1 /\ f.cnt \in 0 .. n /\ f.size = n
  BY DEF FifoType
<1>3. t \in 0 .. n-1
  BY <1>1, <1>2 DEF Bump
<1>4. t = IF f.cnt = n THEN Bump(f.tail, n) ELSE f.tail
  BY <1>1, <1>2 DEF Bump, RingOK
<1>5. v = [w EXCEPT !.tail = t]
  BY DEF FifoWriteForce
<1> HIDE DEF w, t, v
<1>6. v \in FifoType(S, n)
  BY <1>1, <1>3, <1>5 DEF FifoType
<1>7. v.head = w.head /\ v.tail = t /\ v.cnt = w.cnt /\ v.data = w.data /\ v.size = n
  BY <1>1, <1>5 DEF FifoType
<1>8. RingOK(v)
  BY <1>1, <1>2, <1>4, <1>7 DEF RingOK, Bump
<1> QED
  BY <1>1, <1>4, <1>6, <1>7, <1>8 DEF v

(* fifo_write_force keeps a ring well formed, and it is the drop-oldest    *)
(* put on the queue the ring stands for.                                   *)
LEMMA WriteForceIsGood ==
  ASSUME NEW S, NEW n \in Nat \ {0}, NEW c \in S, NEW f, GoodFifo(f, S, n)
  PROVE  /\ GoodFifo(FifoWriteForce(f, c), S, n)
         /\ FifoWriteForce(f, c).cnt > 0
         /\ Contents(FifoWriteForce(f, c))
              = Pushed(Contents(f), n, c)
<1> DEFINE v == FifoWriteForce(f, c)
           q == Contents(f)
           p == IF Len(q) = n THEN Tail(q) ELSE q
           drop == IF f.cnt = n THEN 1 ELSE 0
<1>1. f \in FifoType(S, n) /\ RingOK(f) /\ Filled(f, S)
  BY DEF GoodFifo
<1>2. /\ f.head \in 0 .. n-1 /\ f.tail \in 0 .. n-1 /\ f.cnt \in 0 .. n /\ f.size = n
      /\ f.data \in [0 .. n-1 -> S \cup {Blank}]
  BY <1>1 DEF FifoType
<1>3. /\ v \in FifoType(S, n) /\ v.head = Bump(f.head, n)
      /\ v.tail = (IF f.cnt = n THEN Bump(f.tail, n) ELSE f.tail)
      /\ v.cnt = (IF f.cnt = n THEN n ELSE f.cnt + 1)
      /\ v.data = [f.data EXCEPT ![f.head] = c]
      /\ RingOK(v)
  BY <1>1, WriteForceFields
<1>4. v.size = n
  BY <1>3 DEF FifoType
<1> HIDE DEF v
<1>5. v.cnt \in 1 .. n /\ v.cnt - 1 = f.cnt - drop
  BY <1>2, <1>3
<1>6. ASSUME NEW k \in 0 .. v.cnt-2
      PROVE  v.data[SlotAt(v, k)] = f.data[SlotAt(f, k + drop)]
  <2>0. k \in Nat /\ k < v.cnt-1
    BY <1>5
  <2>1. /\ SlotAt(v, k) = SlotAt(f, k + drop) /\ SlotAt(v, k) # f.head
        /\ SlotAt(v, k) \in 0 .. n-1
    <3>1. CASE f.cnt = n
      <4>1. v.tail = Bump(f.tail, n) /\ k \in 0 .. n-2 /\ drop = 1 /\ f.head = f.tail
        BY <1>1, <1>2, <1>3, <2>0, <3>1 DEF RingOK
      <4>2. /\ SlotAt(v, k) = SlotAt(f, k + 1) /\ SlotAt(v, k) # f.tail
            /\ SlotAt(v, k) \in 0 .. n-1
        BY <1>2, <1>4, <4>1, SlotsNext
      <4> HIDE DEF drop
      <4> QED
        BY <4>1, <4>2
    <3>2. CASE f.cnt # n
      <4>1. v.tail = f.tail /\ k \in 0 .. f.cnt-1 /\ drop = 0 /\ f.cnt \in 0 .. n-1
        BY <1>2, <1>3, <2>0, <3>2
      <4>2. SlotAt(v, k) = SlotAt(f, k) /\ k + drop = k
        BY <1>2, <1>4, <4>1 DEF SlotAt
      <4> QED
        BY <1>1, <1>2, <4>1, <4>2, SlotsBelow
    <3> QED
      BY <3>1, <3>2
  <2> QED
    BY <1>2, <1>3, <2>1
<1>7. v.data[SlotAt(v, v.cnt-1)] = c
  <2>1. SlotAt(v, v.cnt-1) = f.head
    <3>1. CASE f.cnt = n
      <4>1. v.tail = Bump(f.tail, n) /\ v.cnt-1 = n-1 /\ f.head = f.tail
        BY <1>1, <1>2, <1>3, <3>1 DEF RingOK
      <4>2. SlotAt(v, n-1) = f.tail
        BY <1>2, <1>4, <4>1, SlotsRound
      <4> QED
        BY Zenon, <4>1, <4>2
    <3>2. CASE f.cnt # n
      <4>1. v.tail = f.tail /\ v.cnt-1 = f.cnt /\ f.cnt \in 0 .. n-1
        BY <1>2, <1>3, <3>2
      <4>2. SlotAt(v, f.cnt) = SlotAt(f, f.cnt)
        BY <1>2, <1>4, <4>1 DEF SlotAt
      <4> QED
        BY <1>1, <1>2, <4>1, <4>2, SlotsBelow
    <3> QED
      BY <3>1, <3>2
  <2> QED
    BY <1>2, <1>3, <2>1
<1>8. Filled(v, S)
  <2> SUFFICES ASSUME NEW k \in 0 .. v.cnt-1 PROVE v.data[SlotAt(v, k)] \in S
    BY DEF Filled
  <2>1. CASE k = v.cnt-1
    BY <1>7, <2>1
  <2>2. CASE k \in 0 .. v.cnt-2
    <3>1. k + drop \in 0 .. f.cnt-1
      BY <1>2, <1>5, <2>2
    <3> QED
      BY <1>1, <1>6, <2>2, <3>1 DEF Filled
  <2> QED
    BY <1>5, <2>1, <2>2
<1>9. GoodFifo(v, S, n)
  BY <1>3, <1>8 DEF GoodFifo
<1>10. /\ q \in Seq(S) /\ Len(q) = f.cnt
       /\ \A i \in 1 .. f.cnt : q[i] = f.data[SlotAt(f, i-1)]
  BY ContentsIsSeq
<1>11. /\ Contents(v) \in Seq(S) /\ Len(Contents(v)) = v.cnt
       /\ \A i \in 1 .. v.cnt : Contents(v)[i] = v.data[SlotAt(v, i-1)]
  BY <1>9, ContentsIsSeq
<1> HIDE DEF q
<1>12. p \in Seq(S) /\ Len(p) = v.cnt-1 /\ \A i \in 1 .. v.cnt-1 : p[i] = q[i + drop]
  <2>1. CASE Len(q) = n
    <3>1. q # << >>
      BY <1>10, <2>1, EmptySeq
    <3>2. /\ Tail(q) \in Seq(S) /\ Len(Tail(q)) = Len(q)-1
          /\ \A i \in 1 .. Len(q)-1 : Tail(q)[i] = q[i+1]
      BY <1>10, <3>1, HeadTailProperties
    <3> QED
      BY <1>10, <1>3, <1>5, <2>1, <3>2
  <2>2. CASE Len(q) # n
    BY <1>10, <1>3, <1>5, <1>2, <2>2
  <2> QED
    BY <2>1, <2>2
<1> HIDE DEF p
<1>13. /\ Append(p, c) \in Seq(S) /\ Len(Append(p, c)) = v.cnt
       /\ \A i \in 1 .. v.cnt-1 : Append(p, c)[i] = p[i]
       /\ Append(p, c)[v.cnt] = c
  BY <1>5, <1>12, AppendProperties
<1>14. ASSUME NEW i \in 1 .. v.cnt PROVE Contents(v)[i] = Append(p, c)[i]
  <2>1. CASE i = v.cnt
    BY <1>5, <1>7, <1>11, <1>13, <2>1
  <2>2. CASE i \in 1 .. v.cnt-1
    <3>1. i + drop \in 1 .. f.cnt /\ i-1 \in 0 .. v.cnt-2 /\ (i + drop) - 1 = (i-1) + drop
      BY <1>2, <1>5, <2>2
    <3>2. q[i + drop] = f.data[SlotAt(f, (i-1) + drop)]
      BY <1>10, <3>1
    <3>3. v.data[SlotAt(v, i-1)] = f.data[SlotAt(f, (i-1) + drop)]
      BY <1>6, <3>1
    <3>4. Contents(v)[i] = v.data[SlotAt(v, i-1)] /\ Append(p, c)[i] = q[i + drop]
      BY <1>11, <1>12, <1>13, <2>2
    <3> QED
      BY <3>2, <3>3, <3>4
  <2>3. v.cnt \in Nat \ {0}
    BY <1>5
  <2>4. i = v.cnt \/ i \in 1 .. v.cnt-1
    BY <2>3
  <2> QED
    BY <2>1, <2>2, <2>4
<1>15. Contents(v) = Append(p, c)
  BY <1>11, <1>13, <1>14, SeqEqual
<1> QED
  BY <1>5, <1>9, <1>15 DEF v, p, q, Pushed

-----------------------------------------------------------------------------
(* The fields after the section of fifo_read. *)
LEMMA TakeFields ==
  ASSUME NEW S, NEW n \in Nat \ {0}, NEW f \in FifoType(S, n), f.cnt # 0
  PROVE  /\ FifoTake(f) \in FifoType(S, n)
         /\ FifoTake(f).head = f.head
         /\ FifoTake(f).tail = Bump(f.tail, n)
         /\ FifoTake(f).cnt = f.cnt - 1
         /\ FifoTake(f).data = f.data
<1> DEFINE t == Bump(f.tail, f.size)
           m == IF f.cnt = 0 THEN 65535 ELSE f.cnt - 1
<1>1. f.tail \in 0 .. n-1 /\ f.cnt \in 0 .. n /\ f.size = n
  BY DEF FifoType
<1>2. t \in 0 .. n-1 /\ m \in 0 .. n /\ t = Bump(f.tail, n) /\ m = f.cnt - 1
  BY <1>1 DEF Bump
<1>3. FifoTake(f) = [f EXCEPT !.tail = t, !.cnt = m]
  BY DEF FifoTake
<1> HIDE DEF t, m
<1>4. [f EXCEPT !.tail = t, !.cnt = m] \in FifoType(S, n)
  BY <1>2 DEF FifoType
<1>5. LET w == [f EXCEPT !.tail = t, !.cnt = m]
      IN  w.head = f.head /\ w.tail = t /\ w.cnt = m /\ w.data = f.data
  BY DEF FifoType
<1> QED
  BY <1>2, <1>3, <1>4, <1>5

(* fifo_read on a ring that is not empty keeps it well formed, and takes   *)
(* the head of the queue the ring stands for.                              *)
LEMMA TakeIsGood ==
  ASSUME NEW S, NEW n \in Nat \ {0}, NEW f, GoodFifo(f, S, n), f.cnt # 0
  PROVE  /\ GoodFifo(FifoTake(f), S, n)
         /\ FifoFront(f) \in S
         /\ Contents(f) # << >>
         /\ FifoFront(f) = Head(Contents(f))
         /\ Contents(FifoTake(f)) = Tail(Contents(f))
<1> DEFINE v == FifoTake(f)
           q == Contents(f)
<1>1. f \in FifoType(S, n) /\ RingOK(f) /\ Filled(f, S)
  BY DEF GoodFifo
<1>2. /\ f.head \in 0 .. n-1 /\ f.tail \in 0 .. n-1 /\ f.cnt \in 1 .. n /\ f.size = n
  BY <1>1 DEF FifoType
<1>3. /\ v \in FifoType(S, n) /\ v.head = f.head /\ v.tail = Bump(f.tail, n)
      /\ v.cnt = f.cnt - 1 /\ v.data = f.data
  BY <1>1, TakeFields
<1>4. v.size = n
  BY <1>3 DEF FifoType
<1> HIDE DEF v
<1>5. RingOK(v)
  BY <1>1, <1>2, <1>3, <1>4 DEF RingOK, Bump
<1>6. ASSUME NEW k \in 0 .. v.cnt-1
      PROVE  SlotAt(v, k) = SlotAt(f, k+1) /\ k+1 \in 0 .. f.cnt-1
  BY <1>2, <1>3, <1>4 DEF SlotAt, Bump
<1>7. Filled(v, S)
  BY <1>1, <1>3, <1>6 DEF Filled
<1>8. GoodFifo(v, S, n)
  BY <1>3, <1>5, <1>7 DEF GoodFifo
<1>9. /\ q \in Seq(S) /\ Len(q) = f.cnt
      /\ \A i \in 1 .. f.cnt : q[i] = f.data[SlotAt(f, i-1)]
  BY ContentsIsSeq
<1>10. /\ Contents(v) \in Seq(S) /\ Len(Contents(v)) = v.cnt
       /\ \A i \in 1 .. v.cnt : Contents(v)[i] = v.data[SlotAt(v, i-1)]
  BY <1>8, ContentsIsSeq
<1> HIDE DEF q
<1>11. q # << >>
  BY <1>2, <1>9, EmptySeq
<1>12. /\ Tail(q) \in Seq(S) /\ Len(Tail(q)) = Len(q)-1
       /\ \A i \in 1 .. Len(q)-1 : Tail(q)[i] = q[i+1]
  BY <1>9, <1>11, HeadTailProperties
<1>13. q[1] = f.data[f.tail] /\ q[1] \in S /\ Head(q) = q[1]
  <2>1. SlotAt(f, 0) = f.tail
    BY <1>2 DEF SlotAt
  <2>2. q[1] = f.data[SlotAt(f, 1-1)] /\ 1-1 = 0
    BY <1>2, <1>9
  <2>3. q[1] \in S
    BY <1>2, <1>9, ElementOfSeq
  <2> QED
    BY <1>9, <1>11, <2>1, <2>2, <2>3
<1>14. ASSUME NEW i \in 1 .. v.cnt PROVE Contents(v)[i] = Tail(q)[i]
  <2>1. i-1 \in 0 .. v.cnt-1 /\ i+1 \in 1 .. f.cnt /\ (i-1)+1 = (i+1)-1
    BY <1>2, <1>3
  <2>2. SlotAt(v, i-1) = SlotAt(f, (i+1)-1)
    BY <1>6, <2>1
  <2> QED
    BY <1>3, <1>2, <1>9, <1>10, <1>12, <2>1, <2>2
<1>15. Contents(v) = Tail(q)
  BY <1>2, <1>3, <1>9, <1>10, <1>12, <1>14, SeqEqual
<1> QED
  BY <1>8, <1>11, <1>13, <1>15 DEF v, q, FifoFront

-----------------------------------------------------------------------------
(* The driver. *)

(* The inductive invariant: both rings are well formed, the main loop is   *)
(* where its variables say, and the two properties that tie the main loop  *)
(* to the handler hold.                                                    *)
IInv ==
  /\ GoodFifo(rx, Bytes, RxSize)
  /\ GoodFifo(tx, Bytes, TxSize)
  /\ inited \in BOOLEAN /\ txie \in BOOLEAN
  /\ rdr \in Bytes \cup {Nothing} /\ tdr \in Bytes \cup {Nothing}
  /\ got \in Bytes \cup {Nothing}
  /\ pc \in {"idle", "queue", "enable", "take"}
  /\ left \in 0 .. MaxLen
  /\ pc = "queue" => left # 0
  /\ pc = "take" => got = Nothing
  /\ ~inited => pc = "idle" /\ FifoIsEmpty(rx) /\ FifoIsEmpty(tx)
  /\ TestStillHolds
  /\ NoLostWakeup

(* The assumptions, as the lemmas about fifos take them. *)
LEMMA Sizes ==
  RxSize \in Nat \ {0} /\ TxSize \in Nat \ {0} /\ MaxLen \in Nat
BY SizeAssumption

LEMMA InitInv == Init => IInv
<1> SUFFICES ASSUME Init PROVE IInv
  OBVIOUS
<1>1. GoodFifo(rx, Bytes, RxSize) /\ GoodFifo(tx, Bytes, TxSize)
  BY Sizes, InitIsGood DEF Init
<1>2. FifoIsEmpty(rx) /\ FifoIsEmpty(tx)
  BY DEF Init, FifoIsEmpty, FifoInit
<1>3. pc = "idle" /\ got = Nothing /\ left \in 0 .. MaxLen
  BY Sizes DEF Init
<1>4. inited \in BOOLEAN /\ txie \in BOOLEAN
  BY Zenon DEF Init
<1>5. rdr \in Bytes \cup {Nothing} /\ tdr \in Bytes \cup {Nothing}
  BY DEF Init
<1> QED
  BY <1>1, <1>2, <1>3, <1>4, <1>5 DEF IInv, TestStillHolds, NoLostWakeup

-----------------------------------------------------------------------------
(* Each main-loop action keeps the invariant. *)
LEMMA OpenInv == IInv /\ Open => IInv'
<1> SUFFICES ASSUME IInv, Open PROVE IInv'
  OBVIOUS
<1>1. GoodFifo(rx', Bytes, RxSize) /\ GoodFifo(tx', Bytes, TxSize)
  BY Sizes, InitIsGood DEF Open
<1>2. FifoIsEmpty(tx')
  BY DEF Open, FifoIsEmpty, FifoInit
<1> QED
  BY <1>1, <1>2 DEF Open, IInv, TestStillHolds, NoLostWakeup

LEMMA WriteBeginInv ==
  ASSUME NEW n \in 0 .. MaxLen PROVE IInv /\ WriteBegin(n) => IInv'
BY DEF WriteBegin, IInv, TestStillHolds, NoLostWakeup

LEMMA WriteByteInv ==
  ASSUME NEW c \in Bytes PROVE IInv /\ WriteByte(c) => IInv'
<1> SUFFICES ASSUME IInv, WriteByte(c) PROVE IInv'
  OBVIOUS
<1>1. GoodFifo(tx', Bytes, TxSize)
  BY Sizes, WriteForceIsGood DEF WriteByte, IInv
<1>2. left' \in 0 .. MaxLen /\ (pc' = "queue" => left' # 0) /\ pc' \in {"queue", "enable"}
  BY Sizes DEF WriteByte, IInv
<1> QED
  BY <1>1, <1>2 DEF WriteByte, IInv, TestStillHolds, NoLostWakeup

LEMMA EnableTxInv == IInv /\ EnableTx => IInv'
BY DEF EnableTx, IInv, TestStillHolds, NoLostWakeup

LEMMA ReadTestInv == IInv /\ ReadTest => IInv'
BY DEF ReadTest, IInv, TestStillHolds, NoLostWakeup

LEMMA ReadTakeInv == IInv /\ ReadTake => IInv'
<1> SUFFICES ASSUME IInv, ReadTake PROVE IInv'
  OBVIOUS
<1>1. rx.cnt # 0
  BY DEF ReadTake, IInv, TestStillHolds, FifoIsEmpty
<1>2. GoodFifo(rx, Bytes, RxSize) /\ rx' = FifoTake(rx) /\ got' = FifoFront(rx)
  BY DEF ReadTake, IInv
<1>3. GoodFifo(rx', Bytes, RxSize) /\ got' \in Bytes
  BY <1>1, <1>2, Sizes, TakeIsGood
<1> QED
  BY <1>3 DEF ReadTake, IInv, TestStillHolds, NoLostWakeup

-----------------------------------------------------------------------------
(* The handler's halves. *)
LEMMA ReceiveInv ==
  ASSUME IInv, HandlerReceives
  PROVE  /\ GoodFifo(rx', Bytes, RxSize) /\ rdr' \in Bytes \cup {Nothing}
         /\ FifoIsEmpty(rx') => FifoIsEmpty(rx)
<1>1. CASE rdr # Nothing
  <2>1. /\ rx' = FifoWriteForce(rx, rdr) /\ rdr' = Nothing /\ rdr \in Bytes
        /\ GoodFifo(rx, Bytes, RxSize)
    BY <1>1 DEF HandlerReceives, IInv
  <2>2. GoodFifo(rx', Bytes, RxSize) /\ rx'.cnt > 0
    BY <2>1, Sizes, WriteForceIsGood
  <2>3. ~FifoIsEmpty(rx')
    BY <2>2 DEF FifoIsEmpty
  <2> QED
    BY <2>1, <2>2, <2>3
<1>2. CASE rdr = Nothing
  BY <1>2 DEF HandlerReceives, IInv
<1> QED
  BY <1>1, <1>2

LEMMA SendInv ==
  ASSUME IInv, HandlerSends
  PROVE  /\ GoodFifo(tx', Bytes, TxSize) /\ tdr' \in Bytes \cup {Nothing}
         /\ txie' \in BOOLEAN
         /\ (txie' = txie) \/ FifoIsEmpty(tx')
         /\ FifoIsEmpty(tx) => FifoIsEmpty(tx')
<1>0. GoodFifo(tx, Bytes, TxSize)
  BY DEF IInv
<1>1. CASE tdr # Nothing
  BY <1>1 DEF HandlerSends, IInv
<1>2. CASE tdr = Nothing /\ FifoIsEmpty(tx)
  <2>1. txie' = FALSE /\ tx' = tx /\ tdr' = tdr
    BY <1>2 DEF HandlerSends
  <2>2. FifoIsEmpty(tx')
    BY <1>2, <2>1
  <2>3. txie' \in BOOLEAN
    BY <2>1, Zenon
  <2> QED
    BY <1>0, <1>2, <2>1, <2>2, <2>3
<1>3. CASE tdr = Nothing /\ ~FifoIsEmpty(tx)
  <2>1. tx' = FifoTake(tx) /\ tdr' = FifoFront(tx)
    BY <1>3 DEF HandlerSends
  <2>2. tx.cnt # 0
    BY <1>3 DEF FifoIsEmpty
  <2>3. GoodFifo(FifoTake(tx), Bytes, TxSize)
    BY <1>0, <2>2, Sizes, TakeIsGood
  <2>5. FifoFront(tx) \in Bytes
    BY <1>0, <2>2, Sizes, TakeIsGood
  <2>4. txie' = txie /\ txie' \in BOOLEAN
    BY <1>3 DEF HandlerSends, IInv
  <2> QED
    BY <1>3, <2>1, <2>3, <2>4, <2>5
<1> QED
  BY <1>1, <1>2, <1>3

LEMMA InterruptInv == IInv /\ Interrupt => IInv'
<1> SUFFICES ASSUME IInv, Interrupt PROVE IInv'
  OBVIOUS
<1>1. /\ GoodFifo(rx', Bytes, RxSize) /\ rdr' \in Bytes \cup {Nothing}
      /\ FifoIsEmpty(rx') => FifoIsEmpty(rx)
  BY ReceiveInv DEF Interrupt
<1>2. /\ GoodFifo(tx', Bytes, TxSize) /\ tdr' \in Bytes \cup {Nothing}
      /\ txie' \in BOOLEAN
      /\ (txie' = txie) \/ FifoIsEmpty(tx')
      /\ FifoIsEmpty(tx) => FifoIsEmpty(tx')
  BY SendInv DEF Interrupt
<1>3. UNCHANGED <<inited, pc, left, got>> /\ inited
  BY DEF Interrupt, Requested
<1>4. TestStillHolds'
  BY <1>1, <1>3 DEF IInv, TestStillHolds
<1>5. NoLostWakeup'
  BY <1>2, <1>3 DEF IInv, NoLostWakeup
<1> QED
  BY <1>1, <1>2, <1>3, <1>4, <1>5 DEF IInv

LEMMA WireInv ==
  /\ \A c \in Bytes : IInv /\ Arrive(c) => IInv'
  /\ IInv /\ Leave => IInv'
BY DEF Arrive, Leave, IInv, TestStillHolds, NoLostWakeup

-----------------------------------------------------------------------------
LEMMA NextInv == IInv /\ [Next]_vars => IInv'
<1> SUFFICES ASSUME IInv, [Next]_vars PROVE IInv'
  OBVIOUS
<1>1. CASE Main
  BY <1>1, OpenInv, WriteBeginInv, WriteByteInv, EnableTxInv, ReadTestInv, ReadTakeInv
  DEF Main
<1>2. CASE Interrupt
  BY <1>2, InterruptInv
<1>3. CASE (\E c \in Bytes : Arrive(c)) \/ Leave
  BY <1>3, WireInv
<1>4. CASE UNCHANGED vars
  BY <1>4 DEF vars, IInv, TestStillHolds, NoLostWakeup
<1> QED
  BY <1>1, <1>2, <1>3, <1>4 DEF Next

(* The inductive invariant holds in every reachable state. *)
THEOREM Invariance == Spec => []IInv
BY InitInv, NextInv, PTL DEF Spec

(* Type correctness: in particular no count leaves 0 .. size, so the       *)
(* uint16_t cnt of fifo_read never wraps, and serial_read and the handler  *)
(* never hand out a slot nobody wrote.                                     *)
THEOREM TypeCorrect == Spec => []TypeOK
<1>1. IInv => TypeOK
  BY DEF IInv, TypeOK, GoodFifo
<1> QED
  BY <1>1, Invariance, PTL

(* The indexes of both rings agree in every interleaving. *)
THEOREM RingsAgree == Spec => []RingsOK
<1>1. IInv => RingsOK
  BY DEF IInv, RingsOK, GoodFifo
<1> QED
  BY <1>1, Invariance, PTL

(* The emptiness test of serial_read still holds when it is used. *)
THEOREM TestNotStale == Spec => []TestStillHolds
<1>1. IInv => TestStillHolds
  BY DEF IInv
<1> QED
  BY <1>1, Invariance, PTL

(* Waiting bytes always have the transmit interrupt on or about to be. *)
THEOREM Wakeup == Spec => []NoLostWakeup
<1>1. IInv => NoLostWakeup
  BY DEF IInv
<1> QED
  BY <1>1, Invariance, PTL
-----------------------------------------------------------------------------
(* Refinement.  Under the mapping q <- Contents(fifo), an action of the    *)
(* port is a step of ByteChannel or leaves the channel alone.              *)

LEMMA EmptyContents ==
  ASSUME NEW f, f.cnt = 0 PROVE Contents(f) = << >>
BY DEF Contents

LEMMA RxStep == IInv /\ [Next]_vars => [RxChannel!Next]_<<Contents(rx), got>>
<1> SUFFICES ASSUME IInv, [Next]_vars
             PROVE  RxChannel!Next \/ UNCHANGED <<Contents(rx), got>>
  OBVIOUS
<1> USE DEF RxChannel!Next
<1>1. CASE Open
  <2>1. Contents(rx) = << >>
    BY <1>1, EmptyContents DEF Open, IInv, FifoIsEmpty
  <2>2. Contents(rx') = << >>
    BY <1>1, Sizes, InitIsGood DEF Open
  <2> QED
    BY <1>1, <2>1, <2>2 DEF Open
<1>2. CASE ReadTest
  BY <1>2 DEF ReadTest, RxChannel!Fetch
<1>3. CASE ReadTake
  <2>1. GoodFifo(rx, Bytes, RxSize) /\ rx.cnt # 0 /\ got = Nothing
    BY <1>3 DEF ReadTake, IInv, TestStillHolds, FifoIsEmpty
  <2>2. rx' = FifoTake(rx) /\ got' = FifoFront(rx)
    BY <1>3 DEF ReadTake
  <2>3. /\ Contents(rx) # << >> /\ FifoFront(rx) = Head(Contents(rx))
        /\ Contents(FifoTake(rx)) = Tail(Contents(rx))
    BY <2>1, Sizes, TakeIsGood
  <2> QED
    BY <2>1, <2>2, <2>3 DEF RxChannel!Take
<1>4. CASE Interrupt
  <2>1. CASE rdr # Nothing
    <3>1. /\ rx' = FifoWriteForce(rx, rdr) /\ got' = got /\ rdr \in Bytes
          /\ GoodFifo(rx, Bytes, RxSize)
      BY <1>4, <2>1 DEF Interrupt, HandlerReceives, IInv
    <3>2. Contents(FifoWriteForce(rx, rdr)) = Pushed(Contents(rx), RxSize, rdr)
      BY <3>1, Sizes, WriteForceIsGood
    <3>3. RxChannel!Put(rdr)
      BY <3>1, <3>2 DEF RxChannel!Put, Pushed
    <3> QED
      BY <3>1, <3>3
  <2>2. CASE rdr = Nothing
    BY <1>4, <2>2 DEF Interrupt, HandlerReceives
  <2> QED
    BY <2>1, <2>2
<1>5. CASE (\E n \in 0 .. MaxLen : WriteBegin(n)) \/ (\E c \in Bytes : WriteByte(c))
           \/ EnableTx \/ (\E c \in Bytes : Arrive(c)) \/ Leave \/ UNCHANGED vars
  BY <1>5 DEF WriteBegin, WriteByte, EnableTx, Arrive, Leave, vars
<1> QED
  BY <1>1, <1>2, <1>3, <1>4, <1>5 DEF Next, Main

LEMMA TxStep == IInv /\ [Next]_vars => [TxChannel!Next]_<<Contents(tx), tdr>>
<1> SUFFICES ASSUME IInv, [Next]_vars
             PROVE  TxChannel!Next \/ UNCHANGED <<Contents(tx), tdr>>
  OBVIOUS
<1> USE DEF TxChannel!Next
<1>1. CASE Open
  <2>1. Contents(tx) = << >>
    BY <1>1, EmptyContents DEF Open, IInv, FifoIsEmpty
  <2>2. Contents(tx') = << >>
    BY <1>1, Sizes, InitIsGood DEF Open
  <2> QED
    BY <1>1, <2>1, <2>2 DEF Open
<1>2. CASE \E c \in Bytes : WriteByte(c)
  <2>1. PICK c \in Bytes : WriteByte(c)
    BY <1>2
  <2>2. tx' = FifoWriteForce(tx, c) /\ tdr' = tdr /\ GoodFifo(tx, Bytes, TxSize)
    BY <2>1 DEF WriteByte, IInv
  <2>3. Contents(FifoWriteForce(tx, c)) = Pushed(Contents(tx), TxSize, c)
    BY <2>2, Sizes, WriteForceIsGood
  <2>4. TxChannel!Put(c)
    BY <2>2, <2>3 DEF TxChannel!Put, Pushed
  <2> QED
    BY <2>4
<1>3. CASE Interrupt
  <2>1. CASE tdr = Nothing /\ ~FifoIsEmpty(tx)
    <3>1. tx' = FifoTake(tx) /\ tdr' = FifoFront(tx)
      BY <1>3, <2>1 DEF Interrupt, HandlerSends
    <3>2. GoodFifo(tx, Bytes, TxSize) /\ tx.cnt # 0
      BY <2>1 DEF IInv, FifoIsEmpty
    <3>3. /\ Contents(tx) # << >> /\ FifoFront(tx) = Head(Contents(tx))
          /\ Contents(FifoTake(tx)) = Tail(Contents(tx))
      BY <3>2, Sizes, TakeIsGood
    <3> QED
      BY <2>1, <3>1, <3>3 DEF TxChannel!Take
  <2>2. CASE tdr # Nothing \/ FifoIsEmpty(tx)
    BY <1>3, <2>2 DEF Interrupt, HandlerSends
  <2> QED
    BY <2>1, <2>2
<1>4. CASE Leave
  BY <1>4 DEF Leave, TxChannel!Fetch
<1>5. CASE (\E n \in 0 .. MaxLen : WriteBegin(n)) \/ EnableTx \/ ReadTest \/ ReadTake
           \/ (\E c \in Bytes : Arrive(c)) \/ UNCHANGED vars
  BY <1>5 DEF WriteBegin, EnableTx, ReadTest, ReadTake, Arrive, vars
<1> QED
  BY <1>1, <1>2, <1>3, <1>4, <1>5 DEF Next, Main

(* The receive direction is a bounded queue that drops its oldest byte. *)
THEOREM RxRefines == Spec => RxIsChannel
<1>1. Init => RxChannel!Init
  <2> SUFFICES ASSUME Init PROVE Contents(rx) = << >> /\ got = Nothing
    BY DEF RxChannel!Init
  <2> QED
    BY Sizes, InitIsGood DEF Init
<1> QED
  BY <1>1, RxStep, Invariance, PTL DEF RxIsChannel, RxChannel!Spec, Spec

(* The transmit direction is one too, and a byte in the transmit register  *)
(* is never overwritten.                                                   *)
THEOREM TxRefines == Spec => TxIsChannel
<1>1. Init => TxChannel!Init
  <2> SUFFICES ASSUME Init PROVE Contents(tx) = << >> /\ tdr = Nothing
    BY DEF TxChannel!Init
  <2> QED
    BY Sizes, InitIsGood DEF Init
<1> QED
  BY <1>1, TxStep, Invariance, PTL DEF TxIsChannel, TxChannel!Spec, Spec
=============================================================================
