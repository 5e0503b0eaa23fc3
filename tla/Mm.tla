--------------------------------- MODULE Mm ---------------------------------
(***************************************************************************)
(* The heap of src/src/utils/mm.c: an address-ordered list of free blocks, *)
(* each with its header in front, that mm_malloc carves first-fit and      *)
(* mm_free joins up again.  Callers are tasks of one main loop, so an      *)
(* operation is one action; what varies is the order of the calls.         *)
(*                                                                         *)
(* Addresses are byte offsets into heap[].  A header written over another  *)
(* one, a walk past the end of the list or a write through NULL has no     *)
(* meaning in C: Defined keeps the model to the steps before that.         *)
(***************************************************************************)
EXTENDS SequencesExt, FiniteSetsExt, Functions

CONSTANTS HeapSize,     \* MM_HEAP_SIZE
          Align,        \* MM_BYTE_ALIGNMENT
          Header,       \* BLOCK_STRUCT_SIZE
          Requests      \* sizes passed to mm_malloc

ASSUME HeapAssumption ==
  /\ Align \in Nat \ {0} /\ Header \in Nat \ {0} /\ Header % Align = 0
  /\ HeapSize \in Nat /\ HeapSize >= 2 * Header + Align
  /\ Requests \subseteq Nat \ {0}

Null  == -2             \* NULL compares below every address
Start == -1             \* the static header in front of the heap
End   == ((HeapSize - Header) \div Align) * Align
BlockMin == 2 * Header  \* BLOCK_SIZE_MIN

VARIABLES
  blk,        \* header address -> [next, size]; a granted block has next Null
  remaining,  \* the count mm_malloc tests first
  live,       \* granted block -> the size its caller asked for
  stack,      \* granted blocks of nested callers, the last one on top
  nested,     \* callers free in the reverse order of their allocations
  refused     \* what the last operation asked for and did not get, or 0

vars == <<blk, remaining, live, stack, nested, refused>>

TypeOK ==
  LET Addr == { a \in 0 .. 2 * HeapSize : a % Align = 0 }
  IN  /\ DOMAIN blk \subseteq Addr \cup {Start}
      /\ \A a \in DOMAIN blk : /\ blk[a].next \in Addr \cup {Null}
                               /\ blk[a].size \in -HeapSize .. HeapSize
                               /\ blk[a].size % Align = 0
      /\ remaining \in 0 .. End
      /\ DOMAIN live \subseteq Addr /\ Range(live) \subseteq Requests
      /\ stack \in Seq(DOMAIN live)
      /\ nested \in BOOLEAN
      /\ refused \in Requests \cup {0}

(* mm_init. *)
Init ==
  /\ blk = [a \in {Start, 0, End} |-> CASE a = Start -> [next |-> 0, size |-> 0]
                                       [] a = 0     -> [next |-> End, size |-> End]
                                       [] a = End   -> [next |-> Null, size |-> 0]]
  /\ remaining = End
  /\ live = <<>> /\ stack = <<>>
  /\ nested \in BOOLEAN
  /\ refused = 0

-----------------------------------------------------------------------------
(* The headers met from Start along next, Start first. *)
Chain(h) ==
  LET from[a \in DOMAIN h] ==
        IF h[a].next = Null THEN <<a>> ELSE <<a>> \o from[h[a].next]
  IN  from[Start]

FreeBlocks == Range(Chain(blk)) \ {Start, End}

(* Bug: the size is not rounded up. *)
BlockSizeUnrounded(r) == r + Header

(* Bug: the header is not counted. *)
BlockSizeNoHeader(r) == ((r + Align - 1) \div Align) * Align

(* The block a request needs: header included, rounded up. *)
BlockSize(r) == ((r + Header + Align - 1) \div Align) * Align

(* mm_malloc's walk: the first place in the chain, after Start, whose      *)
(* block is large enough or has no next.                                   *)
FirstFit(h, s) ==
  LET c == Chain(h)
  IN  SelectInSeq(c, LAMBDA a : a # Start /\ (h[a].size >= s \/ h[a].next = Null))

Put(f, x, v) == [a \in DOMAIN f \cup {x} |-> IF a = x THEN v ELSE f[a]]

(* Bug: splitting does not shorten the block handed out. *)
CarveKeepsSize(h, prev, curr, s) ==
  LET rest == h[curr].size - s
  IN  IF rest > BlockMin \/ rest < 0
      THEN Put([h EXCEPT ![prev].next = curr + s, ![curr].next = Null],
               curr + s, [next |-> h[curr].next, size |-> rest])
      ELSE [h EXCEPT ![prev].next = h[curr].next, ![curr].next = Null]

(* Unlink curr, and link what it leaves over in its place unless that is   *)
(* too small.  The subtraction is unsigned: below zero it is huge.         *)
Carve(h, prev, curr, s) ==
  LET rest == h[curr].size - s
  IN  IF rest > BlockMin \/ rest < 0
      THEN Put([h EXCEPT ![prev].next = curr + s,
                         ![curr]      = [next |-> Null, size |-> s]],
               curr + s, [next |-> h[curr].next, size |-> rest])
      ELSE [h EXCEPT ![prev].next = h[curr].next, ![curr].next = Null]

(* Bug: a request for exactly what remains is refused. *)
FitsStrictly(s) == s < remaining

(* The first test of mm_malloc. *)
Fits(s) == s <= remaining

(* No header has been written over memory it does not own, and mm_malloc's *)
(* walk has a block to start from.                                         *)
Defined == blk[Start].next # Null /\ \A a \in DOMAIN blk : blk[a].size >= 0

MallocFails(r) ==
  LET s == BlockSize(r)
  IN  /\ Defined
      /\ Fits(s) => Chain(blk)[FirstFit(blk, s)] = End
      /\ refused' = r
      /\ UNCHANGED <<blk, remaining, live, stack, nested>>

Malloc(r) ==
  LET s    == BlockSize(r)
      i    == FirstFit(blk, s)
      curr == Chain(blk)[i]
  IN  /\ Defined
      /\ Fits(s) /\ curr # End
      /\ blk' = Carve(blk, Chain(blk)[i - 1], curr, s)
      /\ remaining' = remaining - blk'[curr].size
      /\ live' = Put(live, curr, r)
      /\ stack' = IF nested THEN Append(stack, curr) ELSE stack
      /\ refused' = 0
      /\ UNCHANGED nested

-----------------------------------------------------------------------------
(* mm_free's walk: the first header whose next is not below b. *)
Before(h, b) == SelectInSeq(Chain(h), LAMBDA a : h[a].next >= b)

(* Bug: a freed block is never joined to the one in front of it. *)
LinkOnly(h, it, b) == [h EXCEPT ![it].next = b, ![b].next = h[it].next]

(* The freed block joins the one in front of it, or is linked after it. *)
JoinPrevious(h, it, b) ==
  IF it + h[it].size = b
  THEN [Restrict(h, DOMAIN h \ {b}) EXCEPT ![it].size = @ + h[b].size]
  ELSE [h EXCEPT ![it].next = b, ![b].next = h[it].next]

(* b ends where the block behind it, End excepted, starts. *)
Touches(h, b) == b + h[b].size = h[b].next /\ h[b].next # End

(* Bug: the joined block keeps the size it had alone. *)
JoinNextKeepsSize(h, b) ==
  IF Touches(h, b)
  THEN LET n  == h[b].next
           nn == h[n].next
       IN  [Restrict(h, DOMAIN h \ {n}) EXCEPT ![b].next = nn, ![nn].next = Null]
  ELSE h

(* Bug: next is cleared in the absorbed header before it is read. *)
JoinNextClearsFirst(h, b) ==
  IF Touches(h, b)
  THEN LET n == h[b].next
       IN  [Restrict(h, DOMAIN h \ {n}) EXCEPT
              ![b] = [next |-> Null, size |-> h[b].size + h[n].size]]
  ELSE h

(* Then it joins the one behind it.  The last assignment of mm_free,       *)
(* block->next->next = NULL, comes after block->next has moved on: it cuts *)
(* the list behind the block that follows the joined one.                  *)
JoinNext(h, b) ==
  IF Touches(h, b)
  THEN LET n  == h[b].next
           nn == h[n].next
       IN  [Restrict(h, DOMAIN h \ {n}) EXCEPT
              ![b]       = [next |-> nn, size |-> h[b].size + h[n].size],
              ![nn].next = Null]
  ELSE h

(* mm_free(m), b the header of m.  The walk must find its place and the    *)
(* cut must not go through NULL, else C leaves the call undefined.         *)
Free(b) ==
  LET i     == Before(blk, b)
      it    == Chain(blk)[i]
      h     == JoinPrevious(blk, it, b)
      block == IF b \in DOMAIN h THEN b ELSE it
  IN  /\ nested => b = Last(stack)
      /\ Defined /\ i # 0
      /\ Touches(h, block) => h[h[block].next].next # Null
      /\ remaining' = remaining + blk[b].size
      /\ blk' = JoinNext(h, block)
      /\ live' = Restrict(live, DOMAIN live \ {b})
      /\ stack' = IF nested THEN Front(stack) ELSE stack
      /\ refused' = 0
      /\ UNCHANGED nested

Next == \/ \E r \in Requests : Malloc(r) \/ MallocFails(r)
        \/ \E b \in DOMAIN live : Free(b)

Spec == Init /\ [][Next]_vars
-----------------------------------------------------------------------------
(* Correctness.  Intact: the list still ends at End.  NestedStaysIntact    *)
(* and NothingLost say when it does.                                       *)
Intact == Defined /\ Last(Chain(blk)) = End

(* The blocks, free or granted, cover the heap: none overlaps another,     *)
(* none lies outside and no byte belongs to none (headers are only found   *)
(* through sizes and links, so one wrong sum loses or shares memory).      *)
Tiled ==
  Intact =>
    LET blocks == FreeBlocks \cup DOMAIN live
    IN  /\ \A a \in blocks : a + blk[a].size \in blocks \cup {End}
        /\ 0 \in blocks /\ FreeBlocks \cap DOMAIN live = {}
        /\ MapThenSumSet(LAMBDA a : blk[a].size, blocks) = End

(* What a caller was granted holds what it asked for, behind the header,   *)
(* also behind a cut, as long as no header is written over it.             *)
GrantHolds == Defined => \A a \in DOMAIN live : blk[a].size >= Header + live[a]

(* Joining leaves no two free blocks side by side, in whatever order the   *)
(* blocks between them came back.                                          *)
Coalesced ==
  Intact => \A a, b \in FreeBlocks : a + blk[a].size # b

(* remaining, which mm_malloc trusts before it walks, is the free memory.  *)
Accounted ==
  Intact => remaining = MapThenSumSet(LAMBDA a : blk[a].size, FreeBlocks)

(* mm_malloc returns NULL only when no free block is large enough.         *)
NullOnlyWhenFull ==
  Intact /\ refused # 0 =>
    \A a \in FreeBlocks : blk[a].size < BlockSize(refused)

(* Callers that free in reverse order (link_loglink.c, cli.c) never cut    *)
(* the list.                                                               *)
NestedStaysIntact == nested => Intact

(* mm.c:13: "reducing memory fragmentation".  Joining blocks loses none:   *)
(* a block is granted or can still be reached by mm_malloc.                *)
NothingLost == DOMAIN blk = {Start, End} \cup FreeBlocks \cup DOMAIN live
=============================================================================
