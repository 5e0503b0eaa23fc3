-------------------------------- MODULE Fifo --------------------------------
(***************************************************************************)
(* The ring buffer of src/src/utils/fifo.c as a record value, one operator *)
(* per critical section.  fifo_write, fifo_write_force and fifo_read each  *)
(* hold interrupts off (CPU_IntDis .. CPU_IntEn) around the section these  *)
(* operators stand for.  The tests fifo_write and fifo_read make BEFORE    *)
(* that section are operators of their own: an interrupt can run between   *)
(* the test and the section, so a client module places them in two steps.  *)
(***************************************************************************)
EXTENDS Integers, Sequences

Blank == "blank"  \* a slot of the static array that was never written

(* fifo_init over an array of n slots. *)
FifoInit(n) == [head |-> 0, tail |-> 0, cnt |-> 0, size |-> n,
                data |-> [i \in 0 .. n-1 |-> Blank]]

(* Every value a fifo over n slots holding elements of S may take. *)
FifoType(S, n) == [head: 0 .. n-1, tail: 0 .. n-1, cnt: 0 .. n, size: {n},
                   data: [0 .. n-1 -> S \cup {Blank}]]

FifoIsFull(f)  == f.cnt = f.size
FifoIsEmpty(f) == f.cnt = 0

(* Bug: an index wraps one slot late. *)
BumpLate(i, n) == IF i + 1 > n THEN 0 ELSE i + 1

(* head++ and tail++ with their wrap to 0. *)
Bump(i, n) == IF i + 1 >= n THEN 0 ELSE i + 1

(* The section of fifo_write: the caller has seen that there is room. *)
FifoWrite(f, c) ==
  [f EXCEPT !.data = [@ EXCEPT ![f.head] = c],
            !.head = Bump(@, f.size),
            !.cnt  = IF @ + 1 > f.size THEN f.size ELSE @ + 1]

(* Bug: the write forgets that reaching the full count moves the tail. *)
FifoWriteForceKeepsTail(f, c) == FifoWrite(f, c)

(* Bug: the write empties a full buffer instead of dropping its oldest. *)
FifoWriteForceClears(f, c) ==
  LET w == FifoWrite(f, c)
  IN  IF FifoIsFull(f) THEN [w EXCEPT !.tail = w.head, !.cnt = 0] ELSE w

(* fifo_write_force: a full buffer loses its oldest byte to the new one. *)
FifoWriteForce(f, c) ==
  LET w == FifoWrite(f, c)
  IN  [w EXCEPT !.tail = IF w.cnt = f.size THEN w.head ELSE @]

(* The section of fifo_read: the byte, and the fifo without it.  cnt is a  *)
(* uint16_t and the section does not look at it again: taking from an      *)
(* empty buffer would wrap it.                                             *)
FifoFront(f) == f.data[f.tail]
FifoTake(f)  ==
  [f EXCEPT !.tail = Bump(@, f.size),
            !.cnt  = IF @ = 0 THEN 65535 ELSE @ - 1]

-----------------------------------------------------------------------------
(* The three indexes say the same thing: head is cnt slots after tail,     *)
(* around the ring.                                                        *)
RingOK(f) == \/ f.head = f.tail + f.cnt
             \/ f.head + f.size = f.tail + f.cnt

(* The slot k places after the tail, and the queue a fifo stands for.      *)
SlotAt(f, k) == IF f.tail + k >= f.size THEN f.tail + k - f.size ELSE f.tail + k
Contents(f)  == [k \in 1 .. f.cnt |-> f.data[SlotAt(f, k-1)]]
=============================================================================
