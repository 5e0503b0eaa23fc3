------------------------------ MODULE MmProofs ------------------------------
(***************************************************************************)
(* Proofs about Mm, for every size of heap, header, alignment and request  *)
(* HeapAssumption allows.  Five parts: sums of block sizes; the list that  *)
(* Chain reads; what one carving, joining or linking of a well-formed heap *)
(* leaves; the inductive invariant and the steps that keep it; and what    *)
(* follows from it.                                                        *)
(***************************************************************************)
EXTENDS Mm, CommonLemmas, FiniteSetTheorems

-----------------------------------------------------------------------------
(* Sums of sizes.  What MapThenSumSet computes by taking one member after  *)
(* another away is a measure of the sets of blocks.                        *)
Sizes(h, S) == MapThenSumSet(LAMBDA a : h[a].size, S)

Measure(t, h, U) ==
  /\ t \in [SUBSET U -> Nat] /\ t[{}] = 0
  /\ \A x \in U : t[{x}] = h[x].size
  /\ \A A, B \in SUBSET U : A \cap B = {} => t[A \cup B] = t[A] + t[B]

LEMMA MeasureGrows ==
  ASSUME NEW h, NEW V, NEW x, x \notin V, h[x].size \in Nat,
         NEW t, Measure(t, h, V)
  PROVE  \E u : Measure(u, h, V \cup {x})
<1> DEFINE W == V \cup {x}
           w(A) == IF x \in A THEN h[x].size ELSE 0
           u == [A \in SUBSET W |-> t[A \ {x}] + w(A)]
<1>1. \A A \in SUBSET W : A \ {x} \in SUBSET V /\ t[A \ {x}] \in Nat /\ w(A) \in Nat
  BY DEF Measure
<1>2. u \in [SUBSET W -> Nat]
  <2> DEFINE v(A) == t[A \ {x}] + w(A)
  <2>1. \A A \in SUBSET W : v(A) \in Nat
    <3>1. ASSUME NEW A \in SUBSET W PROVE v(A) \in Nat
      <4>1. t[A \ {x}] \in Nat /\ w(A) \in Nat
        BY <1>1
      <4> HIDE DEF w
      <4> QED
        BY <4>1
    <3> QED
      BY <3>1
  <2> HIDE DEF v
  <2>2. [A \in SUBSET W |-> v(A)] \in [SUBSET W -> Nat]
    BY <2>1
  <2> QED
    BY <2>2 DEF v
<1>3. u[{}] = 0
  <2>1. {} \in SUBSET W /\ {} \ {x} = {} /\ w({}) = 0
    OBVIOUS
  <2> QED
    BY <2>1 DEF Measure
<1>4. ASSUME NEW y \in W PROVE u[{y}] = h[y].size
  <2>1. {y} \in SUBSET W
    OBVIOUS
  <2>2. CASE y = x
    <3>1. {y} \ {x} = {} /\ w({y}) = h[x].size
      BY <2>2
    <3> QED
      BY <2>1, <2>2, <3>1 DEF Measure
  <2>3. CASE y # x
    <3>1. {y} \ {x} = {y} /\ w({y}) = 0 /\ y \in V
      BY <2>3
    <3>2. t[{y}] = h[y].size /\ t[{y}] \in Nat
      BY <3>1 DEF Measure
    <3> QED
      BY <2>1, <3>1, <3>2
  <2> QED
    BY <2>2, <2>3
<1>5. ASSUME NEW A \in SUBSET W, NEW B \in SUBSET W, A \cap B = {}
      PROVE  u[A \cup B] = u[A] + u[B]
  <2>1. /\ (A \cup B) \ {x} = (A \ {x}) \cup (B \ {x})
        /\ (A \ {x}) \cap (B \ {x}) = {}
    BY <1>5
  <2>2. t[(A \cup B) \ {x}] = t[A \ {x}] + t[B \ {x}]
    BY <1>1, <2>1 DEF Measure
  <2>3. w(A \cup B) = w(A) + w(B)
    BY <1>5
  <2>4. /\ u[A \cup B] = t[(A \cup B) \ {x}] + w(A \cup B)
        /\ u[A] = t[A \ {x}] + w(A) /\ u[B] = t[B \ {x}] + w(B)
    OBVIOUS
  <2>5. /\ t[A \ {x}] \in Nat /\ t[B \ {x}] \in Nat /\ w(A) \in Nat /\ w(B) \in Nat
    BY <1>1
  <2> HIDE DEF u, w
  <2> QED
    BY <2>2, <2>3, <2>4, <2>5
<1> HIDE DEF u
<1>6. Measure(u, h, W)
  BY <1>2, <1>3, <1>4, <1>5 DEF Measure
<1> QED
  BY <1>6

LEMMA MeasureExists ==
  ASSUME NEW M \in Nat, NEW U \in SUBSET (-1 .. M), NEW h,
         \A a \in U : h[a].size \in Nat
  PROVE  \E t : Measure(t, h, U)
<1> DEFINE V(n) == U \cap (-1 .. n - 2)
           T == {n \in 0 .. M + 2 : \E t : Measure(t, h, V(n))}
<1>1. 0 \in T
  <2> DEFINE t == [A \in {{}} |-> 0]
  <2>1. V(0) = {} /\ SUBSET {} = {{}}
    OBVIOUS
  <2>2. t \in [SUBSET {} -> Nat] /\ t[{}] = 0
    BY <2>1
  <2> HIDE DEF t
  <2>3. \A A, B \in SUBSET {} : t[A \cup B] = t[A] + t[B]
    <3>1. ASSUME NEW A \in SUBSET {}, NEW B \in SUBSET {} PROVE t[A \cup B] = t[A] + t[B]
      <4>1. A = {} /\ B = {} /\ A \cup B = {}
        OBVIOUS
      <4>2. t[{}] = 0 + 0
        BY <2>2
      <4> QED
        BY <2>2, <4>1, <4>2
    <3> QED
      BY <3>1
  <2>4. Measure(t, h, {})
    BY <2>2, <2>3 DEF Measure
  <2> QED
    BY <2>1, <2>4
<1>2. ASSUME NEW n \in 0 .. M + 2 - 1, n \in T PROVE n + 1 \in T
  <2>1. PICK t : Measure(t, h, V(n))
    BY <1>2
  <2>2. n + 1 \in 0 .. M + 2
    OBVIOUS
  <2>3. CASE n - 1 \in U
    <3>1. V(n + 1) = V(n) \cup {n - 1} /\ n - 1 \notin V(n)
      BY <2>3
    <3>2. \E u : Measure(u, h, V(n) \cup {n - 1})
      <4> DEFINE x == n - 1
                 R == V(n)
      <4>1. x \notin R /\ h[x].size \in Nat /\ Measure(t, h, R)
        BY <2>1, <2>3
      <4> HIDE DEF x, R
      <4>2. \E u : Measure(u, h, R \cup {x})
        BY <4>1, MeasureGrows
      <4> QED
        BY <4>2 DEF x, R
    <3> QED
      BY <2>2, <3>1, <3>2
  <2>4. CASE n - 1 \notin U
    <3>1. V(n + 1) = V(n)
      BY <2>4
    <3> QED
      BY <2>1, <2>2, <3>1
  <2> QED
    BY <2>3, <2>4
<1> HIDE DEF T
<1>3. 0 .. M + 2 \subseteq T
  BY <1>1, <1>2, Induction
<1>4. M + 2 \in T
  BY <1>3
<1>5. V(M + 2) = U
  <2>1. M + 2 - 2 = M
    OBVIOUS
  <2>2. U \cap (-1 .. M) = U
    OBVIOUS
  <2> QED
    BY <2>1, <2>2
<1> QED
  BY <1>4, <1>5 DEF T

LEMMA MeasureIsSum ==
  ASSUME NEW h, NEW U, NEW t, Measure(t, h, U), NEW S \in SUBSET U, IsFiniteSet(S)
  PROVE  Sizes(h, S) = t[S]
<1> DEFINE size(a) == h[a].size
           pick(s) == CHOOSE x \in s : TRUE
           Step(g, s) == IF s = {} THEN 0 ELSE LET x == pick(s) IN size(x) + g[s \ {x}]
           Obeys(g) == g = [s \in SUBSET S |-> Step(g, s)]
           iter == CHOOSE g : Obeys(g)
           r == [s \in SUBSET S |-> t[s]]
<1>1. ASSUME NEW s \in SUBSET S, s # {}
      PROVE  /\ pick(s) \in s /\ s \ {pick(s)} \in SUBSET S
             /\ t[s] = size(pick(s)) + t[s \ {pick(s)}]
  <2>1. pick(s) \in s
    BY <1>1
  <2> DEFINE x == pick(s)
  <2> HIDE DEF pick
  <2>2. {x} \cap (s \ {x}) = {} /\ {x} \cup (s \ {x}) = s /\ {x} \in SUBSET U
        /\ s \ {x} \in SUBSET U /\ x \in U
    BY <2>1
  <2> HIDE DEF x
  <2>3. t[s] = t[{x}] + t[s \ {x}] /\ t[{x}] = h[x].size
    BY <2>2 DEF Measure
  <2> QED
    BY <2>1, <2>3 DEF x
<1>2. Obeys(r)
  <2>1. ASSUME NEW s \in SUBSET S PROVE r[s] = Step(r, s)
    <3>1. CASE s = {}
      <4>1. r[s] = 0
        BY <3>1 DEF Measure
      <4> QED
        BY <3>1, <4>1
    <3>2. CASE s # {}
      <4>1. /\ s \ {pick(s)} \in SUBSET S /\ t[s] = size(pick(s)) + t[s \ {pick(s)}]
        BY <1>1, <3>2
      <4>2. r[s] = t[s] /\ r[s \ {pick(s)}] = t[s \ {pick(s)}]
        BY <4>1
      <4> HIDE DEF r, pick, size
      <4> QED
        BY <3>2, <4>1, <4>2
    <3> QED
      BY <3>1, <3>2
  <2>2. r = [s \in SUBSET S |-> r[s]]
    OBVIOUS
  <2> HIDE DEF r, Step
  <2> QED
    BY <2>1, <2>2
<1>3. Obeys(iter)
  <2> HIDE DEF Obeys
  <2> QED
    BY <1>2
<1>4. \A s \in SUBSET S : iter[s] = Step(iter, s)
  <2> HIDE DEF iter, Step
  <2> QED
    BY <1>3
<1>5. Sizes(h, S) = iter[S]
  BY DEF Sizes, MapThenSumSet, MapThenFoldSet
<1> HIDE DEF iter
<1> DEFINE N == Cardinality(S)
           T == {n \in 0 .. N : \A s \in SUBSET S : Cardinality(s) = n => iter[s] = t[s]}
<1>6. N \in Nat /\ \A s \in SUBSET S : IsFiniteSet(s) /\ Cardinality(s) \in Nat
  BY FS_CardinalityType, FS_Subset
<1> HIDE DEF N
<1>7. 0 \in T
  <2>1. ASSUME NEW s \in SUBSET S, Cardinality(s) = 0 PROVE iter[s] = t[s]
    <3>1. s = {}
      BY <1>6, <2>1, FS_EmptySet
    <3>2. iter[s] = 0
      BY <1>4, <3>1
    <3> QED
      BY <3>1, <3>2 DEF Measure
  <2> QED
    BY <1>6, <2>1
<1>8. ASSUME NEW n \in 0 .. N - 1, n \in T PROVE n + 1 \in T
  <2>1. ASSUME NEW s \in SUBSET S, Cardinality(s) = n + 1 PROVE iter[s] = t[s]
    <3> DEFINE x == pick(s)
    <3>1. s # {}
      BY <1>6, <2>1, FS_EmptySet
    <3>2. x \in s /\ s \ {x} \in SUBSET S /\ t[s] = size(x) + t[s \ {x}]
      BY <1>1, <3>1
    <3>3. iter[s] = size(x) + iter[s \ {x}]
      BY <1>4, <3>1
    <3> HIDE DEF x
    <3>4. Cardinality(s \ {x}) = n
      BY <1>6, <2>1, <3>2, FS_RemoveElement
    <3>5. iter[s \ {x}] = t[s \ {x}]
      BY <1>8, <3>2, <3>4
    <3> QED
      BY <3>2, <3>3, <3>5
  <2>2. n + 1 \in 0 .. N
    BY <1>6
  <2> QED
    BY <2>1, <2>2
<1> HIDE DEF T
<1>9. 0 .. N \subseteq T
  BY <1>6, <1>7, <1>8, Induction
<1>10. N \in T
  BY <1>6, <1>9
<1> QED
  BY <1>5, <1>10 DEF T, N

(* The blocks S lie below M, and no size is negative. *)
Sized(h, S, M) == M \in Nat /\ S \in SUBSET (-1 .. M) /\ \A a \in S : h[a].size \in Nat

LEMMA SizesMeasure ==
  ASSUME NEW h, NEW S, NEW M, Sized(h, S, M)
  PROVE  \E t : Measure(t, h, S) /\ \A A \in SUBSET S : Sizes(h, A) = t[A]
<1>1. PICK t : Measure(t, h, S)
  BY MeasureExists DEF Sized
<1>2. IsFiniteSet(-1 .. M)
  BY FS_Interval DEF Sized
<1>3. \A A \in SUBSET S : IsFiniteSet(A)
  BY <1>2, FS_Subset DEF Sized
<1>4. \A A \in SUBSET S : Sizes(h, A) = t[A]
  BY <1>1, <1>3, MeasureIsSum
<1> QED
  BY <1>1, <1>4

LEMMA SizesAdd ==
  ASSUME NEW h, NEW S, NEW M, Sized(h, S, M), NEW A \in SUBSET S, NEW B \in SUBSET S,
         A \cap B = {}
  PROVE  /\ Sizes(h, A) \in Nat /\ Sizes(h, B) \in Nat
         /\ Sizes(h, A \cup B) = Sizes(h, A) + Sizes(h, B)
<1>1. PICK t : Measure(t, h, S) /\ \A C \in SUBSET S : Sizes(h, C) = t[C]
  BY SizesMeasure
<1>2. A \cup B \in SUBSET S
  OBVIOUS
<1>3. t[A] \in Nat /\ t[B] \in Nat /\ t[A \cup B] = t[A] + t[B]
  BY <1>1 DEF Measure
<1> QED
  BY <1>1, <1>2, <1>3

LEMMA SizesOfOne ==
  ASSUME NEW h, NEW x, NEW M, Sized(h, {x}, M)
  PROVE  Sizes(h, {x}) = h[x].size /\ Sizes(h, {}) = 0
<1>1. PICK t : Measure(t, h, {x}) /\ \A C \in SUBSET {x} : Sizes(h, C) = t[C]
  BY SizesMeasure
<1>2. {x} \in SUBSET {x} /\ {} \in SUBSET {x}
  OBVIOUS
<1> QED
  BY <1>1, <1>2 DEF Measure

(* A block more. *)
LEMMA SizesWith ==
  ASSUME NEW h, NEW S, NEW M, Sized(h, S, M), NEW x \in S
  PROVE  /\ Sizes(h, S) \in Nat /\ Sizes(h, S \ {x}) \in Nat
         /\ Sizes(h, S) = Sizes(h, S \ {x}) + h[x].size
         /\ h[x].size <= Sizes(h, S)
<1> DEFINE A == S \ {x}
           B == {x}
<1>1. A \in SUBSET S /\ B \in SUBSET S /\ A \cap B = {} /\ A \cup B = S
  OBVIOUS
<1>2. Sized(h, {x}, M) /\ h[x].size \in Nat
  BY DEF Sized
<1>3. Sizes(h, B) = h[x].size
  BY <1>2, SizesOfOne
<1> HIDE DEF A, B
<1>4. /\ Sizes(h, A) \in Nat /\ Sizes(h, B) \in Nat
      /\ Sizes(h, A \cup B) = Sizes(h, A) + Sizes(h, B)
  BY <1>1, SizesAdd
<1>5. Sizes(h, S) = Sizes(h, A) + h[x].size
  BY <1>1, <1>3, <1>4
<1>6. Sizes(h, S) \in Nat /\ h[x].size <= Sizes(h, S)
  BY <1>2, <1>4, <1>5
<1> QED
  BY <1>4, <1>5, <1>6 DEF A

(* Only the sizes of the members count. *)
LEMMA SizesSame ==
  ASSUME NEW h, NEW k, NEW S, NEW M, Sized(h, S, M),
         \A a \in S : k[a].size = h[a].size
  PROVE  Sizes(k, S) = Sizes(h, S)
<1>1. PICK t : Measure(t, h, S) /\ \A C \in SUBSET S : Sizes(h, C) = t[C]
  BY SizesMeasure
<1>2. Measure(t, k, S)
  BY <1>1 DEF Measure
<1>3. IsFiniteSet(-1 .. M)
  BY FS_Interval DEF Sized
<1>4. IsFiniteSet(S)
  BY <1>3, FS_Subset DEF Sized
<1>5. S \in SUBSET S
  OBVIOUS
<1> QED
  BY <1>1, <1>2, <1>4, <1>5, MeasureIsSum
(* One size changed. *)
LEMMA SizesChange ==
  ASSUME NEW h, NEW k, NEW S, NEW M, Sized(h, S, M), Sized(k, S, M), NEW x \in S,
         \A a \in S \ {x} : k[a].size = h[a].size
  PROVE  /\ Sizes(h, S) \in Nat /\ Sizes(k, S) \in Nat
         /\ Sizes(k, S) = Sizes(h, S) - h[x].size + k[x].size
<1> DEFINE R == S \ {x}
<1>1. /\ Sizes(h, S) \in Nat /\ Sizes(h, R) \in Nat /\ Sizes(k, S) \in Nat
      /\ Sizes(h, S) = Sizes(h, R) + h[x].size
      /\ Sizes(k, S) = Sizes(k, R) + k[x].size
  BY SizesWith
<1>2. Sized(h, R, M) /\ h[x].size \in Nat /\ k[x].size \in Nat
  BY DEF Sized
<1> HIDE DEF R
<1>3. Sizes(k, R) = Sizes(h, R)
  BY <1>2, SizesSame DEF R
<1> QED
  BY <1>1, <1>2, <1>3

-----------------------------------------------------------------------------
(* The list.  Links lead to higher blocks, so that the list from Start is  *)
(* a sequence of blocks, each the next of the one before it.               *)
Linked(h, M) ==
  /\ M \in Nat /\ Start \in DOMAIN h /\ DOMAIN h \in SUBSET (-1 .. M)
  /\ \A a \in DOMAIN h : h[a].next # Null => h[a].next \in DOMAIN h /\ h[a].next > a

Path(c, h, a) ==
  /\ c \in Seq(DOMAIN h) /\ Len(c) >= 1 /\ c[1] = a
  /\ h[c[Len(c)]].next = Null
  /\ \A i \in 1 .. Len(c) - 1 : h[c[i]].next = c[i + 1] /\ c[i] < c[i + 1]

LEMMA PathOfOne ==
  ASSUME NEW h, NEW a \in DOMAIN h, h[a].next = Null
  PROVE  Path(<<a>>, h, a)
BY DEF Path

LEMMA PathGrows ==
  ASSUME NEW h, NEW a \in DOMAIN h, NEW b, h[a].next = b, a < b,
         NEW c, Path(c, h, b)
  PROVE  Path(<<a>> \o c, h, a)
<1> DEFINE d == <<a>> \o c
           n == Len(c)
<1>1. c \in Seq(DOMAIN h) /\ n \in Nat /\ n >= 1 /\ c[1] = b
  BY DEF Path
<1>2. d \in Seq(DOMAIN h) /\ Len(d) = n + 1 /\ d[1] = a
  BY <1>1
<1>3. \A i \in 1 .. n : d[i + 1] = c[i]
  BY <1>1
<1> HIDE DEF d, n
<1>4. h[d[n + 1]].next = Null
  BY <1>1, <1>3 DEF Path, n
<1>5. ASSUME NEW i \in 1 .. n PROVE h[d[i]].next = d[i + 1] /\ d[i] < d[i + 1]
  <2>1. CASE i = 1
    BY <1>1, <1>2, <1>3, <2>1
  <2>2. CASE i # 1
    <3> DEFINE j == i - 1
    <3>1. j \in 1 .. n - 1 /\ j + 1 = i /\ j \in 1 .. n /\ i \in 1 .. n
      BY <2>2, <1>1
    <3> HIDE DEF j
    <3>2. d[i] = c[j] /\ d[i + 1] = c[i]
      BY <1>3, <3>1
    <3>3. h[c[j]].next = c[j + 1] /\ c[j] < c[j + 1]
      BY <3>1 DEF Path, n
    <3> QED
      BY <3>1, <3>2, <3>3
  <2> QED
    BY <2>1, <2>2
<1> QED
  BY <1>1, <1>2, <1>4, <1>5 DEF Path, d

LEMMA ChainIs ==
  ASSUME NEW h, NEW M, Linked(h, M)
  PROVE  Path(Chain(h), h, Start)
<1> DEFINE W(n) == {a \in DOMAIN h : a > M - n}
           Step(f, a) == IF h[a].next = Null THEN <<a>> ELSE <<a>> \o f[h[a].next]
           Obeys(f, n) == f = [a \in W(n) |-> Step(f, a)]
           whole(f) == f = [a \in DOMAIN h |-> Step(f, a)]
           from == CHOOSE f : whole(f)
<1>1. ASSUME NEW n \in Nat, NEW a \in W(n + 1), h[a].next # Null
      PROVE  h[a].next \in W(n)
  BY <1>1 DEF Linked
<1>2. \E f : Obeys(f, M + 2)
  <2> DEFINE T == {n \in 0 .. M + 2 : \E f : Obeys(f, n)}
  <2>1. 0 \in T
    <3>1. W(0) = {}
      BY DEF Linked
    <3> DEFINE f == [a \in {} |-> <<a>>]
    <3>2. f = [a \in {} |-> Step(f, a)]
      OBVIOUS
    <3>3. Obeys(f, 0)
      BY <3>1, <3>2
    <3>4. 0 \in 0 .. M + 2
      BY DEF Linked
    <3> HIDE DEF Obeys
    <3> QED
      BY <3>3, <3>4
  <2>2. ASSUME NEW n \in 0 .. M + 2 - 1, n \in T PROVE n + 1 \in T
    <3>1. PICK f : Obeys(f, n)
      BY <2>2
    <3> DEFINE g == [a \in W(n + 1) |-> Step(f, a)]
    <3>2. n \in Nat /\ n + 1 \in 0 .. M + 2
      BY DEF Linked
    <3>3. ASSUME NEW a \in W(n + 1) PROVE g[a] = Step(g, a)
      <4>1. CASE h[a].next = Null
        BY <4>1
      <4>2. CASE h[a].next # Null
        <5> DEFINE b == h[a].next
        <5>1. b \in W(n)
          BY <1>1, <3>2, <4>2
        <5>2. b \in W(n + 1)
          BY <3>2, <5>1 DEF Linked
        <5>3. f[b] = Step(f, b)
          <6> HIDE DEF b, Step, W
          <6> QED
            BY <3>1, <5>1
        <5>4. g[b] = Step(f, b)
          <6> HIDE DEF b, Step, W
          <6> QED
            BY <5>2
        <5>5. g[a] = <<a>> \o f[b] /\ Step(g, a) = <<a>> \o g[b]
          <6> HIDE DEF g
          <6>1. g[a] = Step(f, a)
            BY DEF g
          <6> QED
            BY <4>2, <6>1
        <5> QED
          BY <5>3, <5>4, <5>5
      <4> QED
        BY <4>1, <4>2
    <3>4. g = [a \in W(n + 1) |-> g[a]]
      OBVIOUS
    <3> HIDE DEF g, Step, W
    <3>5. Obeys(g, n + 1)
      BY <3>3, <3>4
    <3> HIDE DEF Obeys
    <3> QED
      BY <3>2, <3>5
  <2> HIDE DEF T
  <2>3. M \in Nat /\ M + 2 \in Nat
    BY DEF Linked
  <2>4. 0 .. M + 2 \subseteq T
    BY <2>1, <2>2, <2>3, Induction
  <2>5. M + 2 \in T
    BY <2>3, <2>4
  <2> QED
    BY <2>5 DEF T
<1>3. W(M + 2) = DOMAIN h
  BY DEF Linked
<1>4. whole(from)
  <2>1. \E f : whole(f)
    BY <1>2, <1>3
  <2> HIDE DEF whole
  <2> QED
    BY <2>1
<1>5. \A a \in DOMAIN h : from[a] = Step(from, a)
  <2> HIDE DEF from, Step
  <2> QED
    BY <1>4
<1>6. Chain(h) = from[Start]
  BY DEF Chain
<1> HIDE DEF from
<1> DEFINE T == {n \in 0 .. M + 2 : \A a \in W(n) : Path(from[a], h, a)}
<1>7. 0 \in T
  BY DEF Linked
<1>8. ASSUME NEW n \in 0 .. M + 2 - 1, n \in T PROVE n + 1 \in T
  <2>1. n \in Nat /\ n + 1 \in 0 .. M + 2
    BY DEF Linked
  <2>2. ASSUME NEW a \in W(n + 1) PROVE Path(from[a], h, a)
    <3>1. a \in DOMAIN h /\ from[a] = Step(from, a)
      BY <1>5
    <3>2. CASE h[a].next = Null
      BY <3>1, <3>2, PathOfOne
    <3>3. CASE h[a].next # Null
      <4> DEFINE b == h[a].next
      <4>1. b \in W(n) /\ a < b
        BY <1>1, <2>1, <3>1, <3>3 DEF Linked
      <4>2. Path(from[b], h, b)
        BY <1>8, <4>1
      <4>3. from[a] = <<a>> \o from[b]
        BY <3>1, <3>3
      <4> HIDE DEF W, Step, T
      <4> QED
        BY <3>1, <4>1, <4>2, <4>3, PathGrows
    <3> QED
      BY <3>2, <3>3
  <2> HIDE DEF W
  <2> QED
    BY <2>1, <2>2
<1> HIDE DEF T
<1>9. M \in Nat /\ M + 2 \in Nat
  BY DEF Linked
<1>10. 0 .. M + 2 \subseteq T
  BY <1>7, <1>8, <1>9, Induction
<1>11. M + 2 \in T
  BY <1>9, <1>10
<1> HIDE DEF W
<1> QED
  BY <1>3, <1>6, <1>11 DEF T, Linked
(* The first of some places in a list. *)
LEMMA MinIs ==
  ASSUME NEW n \in Nat, NEW I \in SUBSET (1 .. n), I # {}
  PROVE  Min(I) \in I /\ \A i \in I : Min(I) <= i
<1>1. I \in SUBSET Nat
  OBVIOUS
<1>2. \E m \in I : \A i \in I : m <= i
  BY <1>1, Least
<1>3. Min(I) = CHOOSE m \in I : \A i \in I : m <= i
  BY DEF Min
<1> QED
  BY <1>2, <1>3

-----------------------------------------------------------------------------
(* A well-formed heap h in which the blocks g are granted: its blocks are  *)
(* aligned, each ends where another one starts, and none overlaps another. *)
(* The list is over the blocks that are not granted, and leads upwards.    *)
Addresses == {a \in 0 .. End : a % Align = 0}

Blocks(h) == DOMAIN h \ {Start}

InHeap(h) ==
  /\ h \in [DOMAIN h -> [next : Int, size : Nat]]
  /\ {Start, 0, End} \subseteq DOMAIN h /\ Blocks(h) \subseteq Addresses
  /\ \A a \in DOMAIN h : h[a].size % Align = 0

TiledBy(h) ==
  /\ h[Start].size = 0 /\ h[End].size = 0
  /\ \A a \in Blocks(h) \ {End} : h[a].size > 0 /\ a + h[a].size \in Blocks(h)
  /\ \A a, b \in Blocks(h) : a < b => a + h[a].size <= b

ListOf(h, g) ==
  /\ \A a \in DOMAIN h : h[a].next # Null => h[a].next \in DOMAIN h \ g /\ h[a].next > a
  /\ \A a, b \in DOMAIN h : h[a].next = h[b].next => h[a].next = Null \/ a = b
  /\ \A a \in g : h[a].next = Null

Heap(h, g) ==
  /\ InHeap(h) /\ TiledBy(h) /\ ListOf(h, g)
  /\ g \subseteq Blocks(h) \ {End}

(* The list has every block that is not granted, in order. *)
Whole(h, g) ==
  \A a \in DOMAIN h \ g : a # End =>
    /\ h[a].next \in DOMAIN h \ g /\ h[a].next > a
    /\ \A b \in DOMAIN h \ g : b > a => h[a].next <= b

(* Or a part of it, with End in it, hangs together apart from Start. *)
Apart(h, g, L) ==
  /\ L \subseteq DOMAIN h \ g /\ Start \notin L /\ End \in L
  /\ \A a \in DOMAIN h : h[a].next # Null => (a \in L <=> h[a].next \in L)

Severed(h, g) == \E L \in SUBSET DOMAIN h : Apart(h, g, L)

FreeIn(h, g) == DOMAIN h \ (g \cup {Start, End})

(* No two free blocks side by side, but perhaps behind the block x. *)
JoinedBut(h, g, x) ==
  \A a, b \in FreeIn(h, g) : a # x => a + h[a].size # b

LEMMA EndIs ==
  /\ End \in Nat /\ End > 0 /\ End <= HeapSize - Header /\ End % Align = 0
  /\ 0 \in Addresses /\ End \in Addresses
<1> DEFINE n == HeapSize - Header
           q == n \div Align
<1>1. n \in Nat /\ Align \in Nat \ {0} /\ n >= Align /\ n >= Header
  BY HeapAssumption
<1> HIDE DEF n
<1>2. n = Align * q + (n % Align) /\ n % Align \in 0 .. Align - 1 /\ q \in Nat
  BY <1>1, Divides
<1> HIDE DEF q
<1>3. Align * q \in Nat /\ Align * q <= n /\ Align * q > 0
  BY <1>1, <1>2
<1>4. End = q * Align /\ q * Align = Align * q
  BY <1>1, <1>2 DEF End, q, n
<1>5. End = Align * q + 0 /\ 0 \in 0 .. Align - 1
  BY <1>1, <1>3, <1>4
<1>6. End % Align = 0
  BY <1>1, <1>2, <1>5, DivUnique
<1>7. 0 % Align = 0
  BY <1>1
<1> QED
  BY <1>3, <1>4, <1>6, <1>7 DEF n, Addresses

LEMMA HeapIsLinked ==
  ASSUME NEW h, NEW g, InHeap(h), ListOf(h, g)
  PROVE  Linked(h, End) /\ Path(Chain(h), h, Start)
<1>1. Linked(h, End)
  BY EndIs DEF InHeap, ListOf, Linked, Blocks, Addresses, Start
<1> QED
  BY <1>1, ChainIs

(* The list is over the blocks that are not granted. *)
LEMMA ListIsFree ==
  ASSUME NEW h, NEW g, Heap(h, g), NEW c, Path(c, h, Start)
  PROVE  \A i \in 1 .. Len(c) : c[i] \in DOMAIN h \ g
<1>1. c \in Seq(DOMAIN h) /\ c[1] = Start
  BY DEF Path
<1>2. Start \in DOMAIN h \ g
  BY DEF Heap, InHeap, Blocks
<1>3. ASSUME NEW i \in 1 .. Len(c), i # 1 PROVE c[i] \in DOMAIN h \ g
  <2> DEFINE j == i - 1
  <2>1. j \in 1 .. Len(c) - 1 /\ j \in 1 .. Len(c) /\ j + 1 = i
    BY <1>1, <1>3
  <2> HIDE DEF j
  <2>2. h[c[j]].next = c[i] /\ c[j] \in DOMAIN h /\ c[i] \in DOMAIN h
    BY <1>1, <2>1 DEF Path
  <2>3. c[i] # Null
    BY <2>2, EndIs DEF Heap, InHeap, Blocks, Addresses, Null, Start
  <2> QED
    BY <2>2, <2>3 DEF Heap, ListOf
<1> QED
  BY <1>1, <1>2, <1>3
(* A whole list has every block that is not granted, and ends at End. *)
LEMMA WholeIsListed ==
  ASSUME NEW h, NEW g, Heap(h, g), Whole(h, g), NEW c, Path(c, h, Start)
  PROVE  Range(c) = DOMAIN h \ g /\ Last(c) = End
<1>1. c \in Seq(DOMAIN h) /\ Len(c) \in Nat /\ Len(c) >= 1 /\ c[1] = Start
  BY DEF Path
<1>2. \A i \in 1 .. Len(c) : c[i] \in DOMAIN h \ g
  BY ListIsFree
<1>3. /\ \A a \in DOMAIN h : a \in -1 .. End
      /\ End \in Nat
  BY EndIs DEF Heap, InHeap, Blocks, Addresses, Start
<1>4. c[Len(c)] = End
  <2>1. Len(c) \in 1 .. Len(c) /\ h[c[Len(c)]].next = Null
    BY <1>1 DEF Path
  <2>2. c[Len(c)] \in DOMAIN h \ g /\ Null \notin DOMAIN h
    BY <1>2, <1>3, <2>1 DEF Null
  <2> QED
    BY <2>1, <2>2 DEF Whole
<1>5. ASSUME NEW b \in DOMAIN h \ g PROVE \E i \in 1 .. Len(c) : c[i] = b
  <2> DEFINE I == {i \in 1 .. Len(c) : c[i] >= b}
             m == Min(I)
  <2>1. Len(c) \in I
    BY <1>1, <1>3, <1>4
  <2>2. m \in I /\ \A i \in I : m <= i
    <3>1. I \in SUBSET (1 .. Len(c)) /\ I # {}
      BY <2>1
    <3> HIDE DEF I
    <3> QED
      BY <1>1, <3>1, MinIs
  <2> HIDE DEF m
  <2>3. m \in 1 .. Len(c) /\ c[m] >= b /\ b \in -1 .. End
    BY <1>3, <2>2
  <2>4. CASE m = 1
    <3>1. c[m] = Start /\ b = Start
      BY <1>1, <2>3, <2>4 DEF Start
    <3> QED
      BY <2>3, <3>1
  <2>5. CASE m # 1
    <3> DEFINE j == m - 1
    <3>1. j \in 1 .. Len(c) - 1 /\ j \in 1 .. Len(c) /\ j + 1 = m /\ j < m
      BY <1>1, <2>3, <2>5
    <3> HIDE DEF j
    <3>2. j \notin I
      BY <2>2, <3>1
    <3>3. c[j] \in DOMAIN h \ g /\ c[j] < b /\ c[j] # End
      BY <1>2, <1>3, <2>3, <3>1, <3>2
    <3>4. h[c[j]].next = c[m]
      BY <3>1 DEF Path
    <3>5. c[m] <= b
      BY <3>3, <3>4 DEF Whole
    <3>6. c[m] \in -1 .. End
      BY <1>2, <1>3, <2>3
    <3> QED
      BY <2>3, <3>5, <3>6
  <2> QED
    BY <2>4, <2>5
<1>6. Last(c) = End /\ DOMAIN c = 1 .. Len(c)
  BY <1>1, <1>4 DEF Last
<1> QED
  BY <1>2, <1>5, <1>6 DEF Range

(* A severed list does not reach the part that hangs apart. *)
LEMMA ApartIsNotListed ==
  ASSUME NEW h, NEW g, NEW L, Apart(h, g, L), NEW c, Path(c, h, Start), Heap(h, g)
  PROVE  \A i \in 1 .. Len(c) : c[i] \notin L
<1> DEFINE I == {i \in 1 .. Len(c) : c[i] \in L}
           m == Min(I)
<1>1. c \in Seq(DOMAIN h) /\ Len(c) \in Nat /\ c[1] = Start
  BY DEF Path
<1> SUFFICES ASSUME I # {} PROVE FALSE
  OBVIOUS
<1>2. m \in I /\ \A i \in I : m <= i
  <2>1. I \in SUBSET (1 .. Len(c)) /\ I # {}
    OBVIOUS
  <2> HIDE DEF I
  <2> QED
    BY <1>1, <2>1, MinIs
<1> HIDE DEF m
<1>3. m \in 1 .. Len(c) /\ c[m] \in L /\ m # 1
  BY <1>1, <1>2 DEF Apart
<1> DEFINE j == m - 1
<1>4. j \in 1 .. Len(c) - 1 /\ j \in 1 .. Len(c) /\ j + 1 = m /\ j < m
  BY <1>1, <1>3
<1> HIDE DEF j
<1>5. c[j] \notin L
  BY <1>2, <1>4
<1>6. h[c[j]].next = c[m] /\ c[j] \in DOMAIN h
  BY <1>1, <1>4 DEF Path
<1>7. c[m] # Null
  <2>1. c[m] \in DOMAIN h
    BY <1>1, <1>3
  <2> QED
    BY <2>1, EndIs DEF Heap, InHeap, Blocks, Addresses, Null, Start
<1> QED
  BY <1>3, <1>5, <1>6, <1>7 DEF Apart

LEMMA SeveredIsShort ==
  ASSUME NEW h, NEW g, Severed(h, g), NEW c, Path(c, h, Start), Heap(h, g)
  PROVE  Last(c) # End
<1>1. PICK L : Apart(h, g, L)
  BY DEF Severed
<1>2. c \in Seq(DOMAIN h) /\ Len(c) \in 1 .. Len(c) /\ Last(c) = c[Len(c)]
  BY DEF Path, Last
<1>3. c[Len(c)] \notin L
  BY <1>1, <1>2, ApartIsNotListed
<1> QED
  BY <1>1, <1>2, <1>3 DEF Apart

(* Where mm_malloc's walk stops: at a block that is large enough, or at    *)
(* the last one, and none before is.                                       *)
Stop(h, g, s, c, i) ==
  /\ i \in 2 .. Len(c)
  /\ h[c[i]].size >= s \/ h[c[i]].next = Null
  /\ \A j \in 2 .. i - 1 : h[c[j]].size < s
  /\ c[i - 1] \in DOMAIN h \ g /\ c[i] \in DOMAIN h \ g
  /\ h[c[i - 1]].next = c[i]

LEMMA FirstFitIs ==
  ASSUME NEW h, NEW g, Heap(h, g), h[Start].next # Null, NEW s \in Nat,
         NEW c, c = Chain(h), NEW i, i = FirstFit(h, s)
  PROVE  Stop(h, g, s, c, i)
<1> DEFINE Stops(a) == a # Start /\ (h[a].size >= s \/ h[a].next = Null)
           I == {k \in 1 .. Len(c) : Stops(c[k])}
<1>1. Path(c, h, Start)
  BY HeapIsLinked DEF Heap
<1>2. c \in Seq(DOMAIN h) /\ Len(c) \in Nat /\ Len(c) >= 1 /\ c[1] = Start
  BY <1>1 DEF Path
<1>3. \A k \in 1 .. Len(c) : c[k] \in DOMAIN h \ g
  BY <1>1, ListIsFree
<1>4. c[Len(c)] # Start
  BY <1>1 DEF Path
<1>5. Len(c) \in I
  BY <1>1, <1>2, <1>4 DEF Path
<1>6. i = Min(I)
  <2>1. i = IF I # {} THEN Min(I) ELSE 0
    BY DEF FirstFit, SelectInSeq
  <2> HIDE DEF I
  <2> QED
    BY <1>5, <2>1
<1>7. i \in I /\ \A k \in I : i <= k
  <2>1. I \in SUBSET (1 .. Len(c)) /\ I # {}
    BY <1>5
  <2> HIDE DEF I
  <2>2. Min(I) \in I /\ \A k \in I : Min(I) <= k
    BY <1>2, <2>1, MinIs
  <2> QED
    BY <1>6, <2>2
<1>8. i \in 2 .. Len(c) /\ Stops(c[i])
  BY <1>2, <1>7
<1>9. ASSUME NEW j \in 2 .. i - 1 PROVE h[c[j]].size < s
  <2>1. j \in 1 .. Len(c) /\ j < i
    BY <1>2, <1>8
  <2>2. ~Stops(c[j])
    BY <1>7, <2>1
  <2>3. c[j] # Start
    <3> DEFINE k == j - 1
    <3>1. k \in 1 .. Len(c) - 1 /\ k + 1 = j /\ k \in 1 .. Len(c)
      BY <1>2, <1>8
    <3> HIDE DEF k
    <3>2. c[k] < c[j] /\ c[k] \in DOMAIN h
      BY <1>1, <1>3, <3>1 DEF Path
    <3> QED
      BY <3>2, EndIs DEF Heap, InHeap, Blocks, Addresses, Start
  <2>4. h[c[j]].size \in Nat
    BY <1>3, <2>1 DEF Heap, InHeap
  <2> QED
    BY <2>2, <2>3, <2>4
<1>10. i - 1 \in 1 .. Len(c) - 1 /\ i - 1 \in 1 .. Len(c) /\ i - 1 + 1 = i /\ i \in 1 .. Len(c)
  BY <1>2, <1>8
<1>11. h[c[i - 1]].next = c[i]
  <2>1. \A k \in 1 .. Len(c) - 1 : h[c[k]].next = c[k + 1]
    BY <1>1 DEF Path
  <2>2. h[c[i - 1]].next = c[i - 1 + 1]
    BY <1>10, <2>1
  <2> QED
    BY <1>10, <2>2
<1> QED
  BY <1>3, <1>8, <1>9, <1>10, <1>11 DEF Stop

(* Where mm_free's walk stops. *)
LEMMA BeforeIs ==
  ASSUME NEW h, NEW g, Heap(h, g), NEW b \in g,
         NEW c, c = Chain(h), NEW i, i = Before(h, b), i # 0
  PROVE  /\ i \in 1 .. Len(c)
         /\ c[i] \in DOMAIN h \ g /\ c[i] < b /\ h[c[i]].next > b
<1> DEFINE Stops(a) == h[a].next >= b
           I == {k \in 1 .. Len(c) : Stops(c[k])}
<1>1. Path(c, h, Start)
  BY HeapIsLinked DEF Heap
<1>2. c \in Seq(DOMAIN h) /\ Len(c) \in Nat /\ Len(c) >= 1 /\ c[1] = Start
  BY <1>1 DEF Path
<1>3. \A k \in 1 .. Len(c) : c[k] \in DOMAIN h \ g
  BY <1>1, ListIsFree
<1>4. i \in I /\ \A k \in I : i <= k
  <2>1. i = IF I # {} THEN Min(I) ELSE 0
    BY DEF Before, SelectInSeq
  <2>2. I \in SUBSET (1 .. Len(c))
    OBVIOUS
  <2> HIDE DEF I
  <2>3. I # {} /\ i = Min(I)
    BY <2>1
  <2>4. Min(I) \in I /\ \A k \in I : Min(I) <= k
    BY <1>2, <2>2, <2>3, MinIs
  <2> QED
    BY <2>3, <2>4
<1>5. i \in 1 .. Len(c) /\ h[c[i]].next >= b
  BY <1>4
<1>6. /\ b \in Nat /\ b \in DOMAIN h /\ Null = -2 /\ Start = -1
      /\ \A a \in DOMAIN h : a \in -1 .. End /\ End \in Nat
  BY EndIs DEF Heap, InHeap, Blocks, Addresses, Start, Null
<1>7. h[c[i]].next > b
  <2>1. c[i] \in DOMAIN h \ g
    BY <1>3, <1>5
  <2>2. h[c[i]].next # Null
    BY <1>5, <1>6
  <2>3. h[c[i]].next \in DOMAIN h \ g
    BY <2>1, <2>2 DEF Heap, ListOf
  <2> QED
    BY <1>5, <1>6, <2>3
<1>8. c[i] < b
  <2>1. CASE i = 1
    BY <1>2, <1>6, <2>1
  <2>2. CASE i # 1
    <3> DEFINE j == i - 1
    <3>1. j \in 1 .. Len(c) - 1 /\ j + 1 = i /\ j \in 1 .. Len(c) /\ j < i
      BY <1>2, <1>5, <2>2
    <3> HIDE DEF j
    <3>2. h[c[j]].next = c[i] /\ c[i] \in DOMAIN h \ g
      BY <1>1, <1>3, <1>5, <3>1 DEF Path
    <3>3. ~(c[i] >= b)
      BY <1>4, <3>1, <3>2
    <3> QED
      BY <1>6, <3>2, <3>3
  <2> QED
    BY <2>1, <2>2
<1> QED
  BY <1>3, <1>5, <1>7, <1>8
-----------------------------------------------------------------------------
(* Multiples of the alignment. *)
LEMMA Multiple ==
  ASSUME NEW a \in Int
  PROVE  a % Align = 0 <=> \E q \in Int : a = Align * q
<1> DEFINE d == Align
<1>1. d \in Nat \ {0}
  BY HeapAssumption
<1> HIDE DEF d
<1>2. d \in Int /\ d > 0
  BY <1>1
<1>3. a = d * (a \div d) + (a % d) /\ a \div d \in Int
  BY <1>2
<1>4. ASSUME a % d = 0 PROVE \E q \in Int : a = d * q
  <2> DEFINE q == a \div d
  <2>1. q \in Int /\ d * q \in Int /\ a = d * q + 0
    BY <1>2, <1>3, <1>4
  <2> HIDE DEF q
  <2>2. a = d * q
    BY <2>1
  <2> QED
    BY <2>1, <2>2
<1>5. ASSUME NEW q \in Int, a = d * q PROVE a % d = 0
  <2> DEFINE p == a \div d
             r == a % d
  <2>1. r \in 0 .. d - 1 /\ a = d * p + r /\ p \in Int
    BY <1>2
  <2> HIDE DEF p, r
  <2>2. ~(p < q) /\ ~(q < p)
    <3>1. p < q => d * p + d <= d * q
      BY <1>1, <2>1, MoreIsMore
    <3>2. q < p => d * q + d <= d * p
      BY <1>1, <2>1, MoreIsMore
    <3>3. d * q \in Int /\ d * p \in Int
      BY <1>2, <2>1
    <3> QED
      BY <1>2, <1>5, <2>1, <3>1, <3>2, <3>3
  <2>3. p = q /\ d * p \in Int
    BY <1>2, <2>1, <2>2
  <2>4. r = 0
    BY <1>5, <2>1, <2>3
  <2> QED
    BY <2>4 DEF r
<1> QED
  BY <1>4, <1>5 DEF d

LEMMA AlignedSum ==
  ASSUME NEW a \in Int, NEW b \in Int, a % Align = 0, b % Align = 0, NEW m, m = a + b
  PROVE  m % Align = 0
<1> DEFINE d == Align
<1>1. d \in Int
  BY HeapAssumption
<1>2. PICK p \in Int : a = d * p
  BY Multiple
<1>3. PICK q \in Int : b = d * q
  BY Multiple
<1> HIDE DEF d
<1>4. m = d * (p + q) /\ m \in Int /\ p + q \in Int
  BY <1>1, <1>2, <1>3
<1> QED
  BY <1>4, Multiple DEF d

LEMMA AlignedDifference ==
  ASSUME NEW a \in Int, NEW b \in Int, a % Align = 0, b % Align = 0, NEW m, m = a - b
  PROVE  m % Align = 0
<1> DEFINE d == Align
<1>1. d \in Int
  BY HeapAssumption
<1>2. PICK p \in Int : a = d * p
  BY Multiple
<1>3. PICK q \in Int : b = d * q
  BY Multiple
<1> HIDE DEF d
<1>4. m = d * (p - q) /\ m \in Int /\ p - q \in Int
  BY <1>1, <1>2, <1>3
<1> QED
  BY <1>4, Multiple DEF d

(* What a request takes: a positive multiple of the alignment that holds   *)
(* the header and what was asked for.                                      *)
LEMMA BlockSizeIs ==
  ASSUME NEW r \in Requests
  PROVE  /\ BlockSize(r) \in Nat /\ BlockSize(r) % Align = 0
         /\ BlockSize(r) >= Header + r /\ BlockSize(r) > 0
<1> DEFINE d == Align
           n == r + Header + d - 1
           q == n \div d
<1>1. d \in Nat \ {0} /\ Header \in Nat \ {0} /\ r \in Nat \ {0} /\ n \in Nat
  BY HeapAssumption
<1> HIDE DEF n
<1>2. n = d * q + (n % d) /\ n % d \in 0 .. d - 1 /\ q \in Nat
  BY <1>1, Divides
<1> HIDE DEF q
<1>3. q * d = d * q /\ d * q \in Nat
  BY <1>1, <1>2
<1>4. d * q > n - d
  BY <1>1, <1>2, <1>3
<1>5. d * q >= r + Header
  BY <1>1, <1>3, <1>4 DEF n
<1>6. BlockSize(r) = d * q
  BY <1>3 DEF BlockSize, q, n
<1> HIDE DEF d
<1> DEFINE b == BlockSize(r)
<1>7. b \in Int /\ b = d * q /\ q \in Int
  BY <1>2, <1>3, <1>6
<1> HIDE DEF b
<1>8. b % Align = 0
  BY <1>7, Multiple DEF d
<1> QED
  BY <1>1, <1>3, <1>5, <1>6, <1>8 DEF b

-----------------------------------------------------------------------------
(* What the steps of mm_malloc and mm_free make of a heap, field by field. *)
Record(nx, sz) == [next |-> nx, size |-> sz]

(* c, after p, split at n, the rest linked in its place. *)
SplitAt(h, p, c, s, n, rest) ==
  [a \in DOMAIN h \cup {n} |->
    Record(IF a = n THEN h[c].next ELSE IF a = c THEN Null ELSE IF a = p THEN n ELSE h[a].next,
           IF a = n THEN rest ELSE IF a = c THEN s ELSE h[a].size)]

(* c taken out of the list after p. *)
TakenOut(h, p, c) ==
  [a \in DOMAIN h |->
    Record(IF a = c THEN Null ELSE IF a = p THEN h[c].next ELSE h[a].next, h[a].size)]

(* b joined to t, which ends where b starts. *)
JoinedTo(h, t, b) ==
  [a \in DOMAIN h \ {b} |->
    Record(h[a].next, IF a = t THEN h[t].size + h[b].size ELSE h[a].size)]

(* b linked after t. *)
LinkedAfter(h, t, b) ==
  [a \in DOMAIN h |->
    Record(IF a = b THEN h[t].next ELSE IF a = t THEN b ELSE h[a].next, h[a].size)]

(* n, the next of b, joined to it, and the list cut behind nn. *)
NextJoined(h, b, n, nn) ==
  [a \in DOMAIN h \ {n} |->
    Record(IF a = nn THEN Null ELSE IF a = b THEN nn ELSE h[a].next,
           IF a = b THEN h[b].size + h[n].size ELSE h[a].size)]

LEMMA SplitIs ==
  ASSUME NEW h, h \in [DOMAIN h -> [next : Int, size : Int]],
         NEW p \in DOMAIN h, NEW c \in DOMAIN h, p # c, NEW s \in Int, NEW n, n = c + s,
         NEW rest, rest = h[c].size - s, rest > BlockMin \/ rest < 0
  PROVE  Carve(h, p, c, s) = SplitAt(h, p, c, s, n, rest)
<1> DEFINE e == [h EXCEPT ![p].next = n, ![c] = [next |-> Null, size |-> s]]
           o == [next |-> h[c].next, size |-> rest]
<1>1. Carve(h, p, c, s) = Put(e, n, o)
  BY DEF Carve
<1>2. /\ DOMAIN e = DOMAIN h
      /\ \A a \in DOMAIN h : e[a] = [next |-> IF a = c THEN Null ELSE IF a = p THEN n ELSE h[a].next,
                                     size |-> IF a = c THEN s ELSE h[a].size]
  OBVIOUS
<1> HIDE DEF e
<1> QED
  BY <1>1, <1>2 DEF Put, Record, SplitAt

LEMMA TakeIs ==
  ASSUME NEW h, h \in [DOMAIN h -> [next : Int, size : Int]],
         NEW p \in DOMAIN h, NEW c \in DOMAIN h, p # c, NEW s \in Int,
         ~(h[c].size - s > BlockMin \/ h[c].size - s < 0)
  PROVE  Carve(h, p, c, s) = TakenOut(h, p, c)
<1> DEFINE e == [h EXCEPT ![p].next = h[c].next, ![c].next = Null]
<1>1. Carve(h, p, c, s) = e
  BY DEF Carve
<1>2. \A a \in DOMAIN h : e[a] = [next |-> IF a = c THEN Null
                                           ELSE IF a = p THEN h[c].next ELSE h[a].next,
                                  size |-> h[a].size]
  OBVIOUS
<1>3. e = [a \in DOMAIN h |-> e[a]]
  OBVIOUS
<1> HIDE DEF e
<1> QED
  BY <1>1, <1>2, <1>3 DEF Record, TakenOut

LEMMA JoinIs ==
  ASSUME NEW h, h \in [DOMAIN h -> [next : Int, size : Int]],
         NEW t \in DOMAIN h, NEW b \in DOMAIN h, t # b, t + h[t].size = b
  PROVE  JoinPrevious(h, t, b) = JoinedTo(h, t, b)
<1> DEFINE S == DOMAIN h \ {b}
           r == [a \in S |-> h[a]]
           e == [r EXCEPT ![t].size = @ + h[b].size]
<1>1. JoinPrevious(h, t, b) = e
  BY DEF JoinPrevious, Restrict
<1>2. \A a \in S : r[a] = h[a] /\ h[a] = [next |-> h[a].next, size |-> h[a].size]
  OBVIOUS
<1>3. t \in S /\ DOMAIN r = S
  OBVIOUS
<1>4. \A a \in S : e[a] = [next |-> h[a].next,
                           size |-> IF a = t THEN h[t].size + h[b].size ELSE h[a].size]
  <2> HIDE DEF r, S
  <2> QED
    BY <1>2, <1>3
<1>5. e = [a \in S |-> e[a]]
  BY <1>3
<1> HIDE DEF e
<1> QED
  BY <1>1, <1>4, <1>5 DEF Record, JoinedTo

LEMMA LinkIs ==
  ASSUME NEW h, h \in [DOMAIN h -> [next : Int, size : Int]],
         NEW t \in DOMAIN h, NEW b \in DOMAIN h, t # b, t + h[t].size # b
  PROVE  JoinPrevious(h, t, b) = LinkedAfter(h, t, b)
<1> DEFINE e == [h EXCEPT ![t].next = b, ![b].next = h[t].next]
<1>1. JoinPrevious(h, t, b) = e
  BY DEF JoinPrevious
<1>2. \A a \in DOMAIN h : e[a] = [next |-> IF a = b THEN h[t].next
                                           ELSE IF a = t THEN b ELSE h[a].next,
                                  size |-> h[a].size]
  OBVIOUS
<1>3. e = [a \in DOMAIN h |-> e[a]]
  OBVIOUS
<1> HIDE DEF e
<1> QED
  BY <1>1, <1>2, <1>3 DEF Record, LinkedAfter

LEMMA NextIs ==
  ASSUME NEW h, h \in [DOMAIN h -> [next : Int, size : Int]],
         NEW b \in DOMAIN h, Touches(h, b),
         NEW n \in DOMAIN h, n = h[b].next, NEW nn \in DOMAIN h, nn = h[n].next,
         n # b, nn # b, nn # n
  PROVE  JoinNext(h, b) = NextJoined(h, b, n, nn)
<1> DEFINE S == DOMAIN h \ {n}
           r == [a \in S |-> h[a]]
           e == [r EXCEPT ![b] = [next |-> nn, size |-> h[b].size + h[n].size],
                          ![nn].next = Null]
<1>1. JoinNext(h, b) = e
  BY DEF JoinNext, Restrict
<1>2. \A a \in S : r[a] = h[a] /\ h[a] = [next |-> h[a].next, size |-> h[a].size]
  OBVIOUS
<1>3. b \in S /\ nn \in S /\ DOMAIN r = S
  OBVIOUS
<1>4. \A a \in S : e[a] = [next |-> IF a = nn THEN Null ELSE IF a = b THEN nn ELSE h[a].next,
                           size |-> IF a = b THEN h[b].size + h[n].size ELSE h[a].size]
  <2> HIDE DEF r, S
  <2> QED
    BY <1>2, <1>3
<1>5. e = [a \in S |-> e[a]]
  BY <1>3
<1> HIDE DEF e
<1> QED
  BY <1>1, <1>4, <1>5 DEF Record, NextJoined

-----------------------------------------------------------------------------
(* What a well-formed heap says of one block, and of two. *)
LEMMA HeapFacts ==
  ASSUME NEW h, NEW g, Heap(h, g)
  PROVE  /\ Start = -1 /\ Null = -2 /\ End \in Nat /\ End > 0 /\ End % Align = 0
         /\ {Start, 0, End} \subseteq DOMAIN h
         /\ Blocks(h) = DOMAIN h \ {Start} /\ g \subseteq Blocks(h) \ {End}
         /\ h[Start].size = 0 /\ h[End].size = 0
         /\ \A a \in DOMAIN h : /\ a \in Int /\ h[a].next \in Int
                                /\ h[a].size \in Nat /\ h[a].size % Align = 0
                                /\ a # Start => a \in 0 .. End /\ a % Align = 0
BY EndIs DEF Heap, InHeap, TiledBy, Blocks, Addresses, Start, Null

LEMMA HeapSized ==
  ASSUME NEW h, NEW g, Heap(h, g)
  PROVE  Sized(h, DOMAIN h, End)
BY HeapFacts DEF Sized

(* The list ends at End, if it gets there. *)
LEMMA EndIsLast ==
  ASSUME NEW h, NEW g, Heap(h, g)
  PROVE  h[End].next = Null
BY HeapFacts DEF Heap, ListOf

(* A block of s is carved off c, which p links to: what is left, k, is a   *)
(* heap in which c is granted too.                                         *)
Carved(h, g, p, c, s, k) ==
  /\ Heap(k, g \cup {c})
  /\ DOMAIN k \subseteq DOMAIN h \cup {c + s}
  /\ k[c].size >= s /\ \A a \in g : k[a].size = h[a].size
  /\ Sizes(k, g \cup {c}) = Sizes(h, g) + k[c].size
  /\ Sizes(k, DOMAIN k \ (g \cup {c})) = Sizes(h, DOMAIN h \ g) - k[c].size
  /\ Whole(h, g) => Whole(k, g \cup {c})
  /\ JoinedBut(h, g, End) => JoinedBut(k, g \cup {c}, End)
  /\ \A L : Apart(h, g, L) /\ p \notin L => Apart(k, g \cup {c}, L)

LEMMA SplitKeeps ==
  ASSUME NEW h, NEW g, Heap(h, g), NEW p \in DOMAIN h \ g, NEW c, c = h[p].next,
         c # Null, c # End, NEW s \in Nat, s > 0, s % Align = 0,
         h[c].size - s > BlockMin, NEW k, k = Carve(h, p, c, s)
  PROVE  Carved(h, g, p, c, s, k)
<1> DEFINE n == c + s
           rest == h[c].size - s
           f == g \cup {c}
<1>0. /\ Start = -1 /\ Null = -2 /\ End \in Nat /\ End > 0 /\ End % Align = 0
      /\ {Start, 0, End} \subseteq DOMAIN h
      /\ Blocks(h) = DOMAIN h \ {Start} /\ g \subseteq Blocks(h) \ {End}
      /\ h[Start].size = 0 /\ h[End].size = 0
      /\ \A a \in DOMAIN h : /\ a \in Int /\ h[a].next \in Int
                             /\ h[a].size \in Nat /\ h[a].size % Align = 0
                             /\ a # Start => a \in 0 .. End /\ a % Align = 0
  BY HeapFacts
<1> USE <1>0
<1>1. c \in Blocks(h) \ {End} /\ c \notin g /\ c > p /\ c # p
  BY DEF Heap, ListOf
<1>2. /\ c \in Nat /\ rest \in Nat /\ rest > 0 /\ n \in Nat /\ n > c /\ n + rest = c + h[c].size
      /\ c + h[c].size \in Blocks(h) /\ n < c + h[c].size /\ s = h[c].size - rest
  <2>1. BlockMin \in Nat
    BY HeapAssumption DEF BlockMin
  <2> QED
    BY <1>1, <2>1 DEF Heap, TiledBy
<1>3. n \in 0 .. End
  BY <1>2
<1>4. n % Align = 0 /\ rest % Align = 0
  <2> DEFINE z == h[c].size
  <2>1. z \in Int /\ z % Align = 0 /\ c \in Int /\ c % Align = 0
    BY <1>1
  <2> HIDE DEF z
  <2>2. n % Align = 0
    <3>1. n = c + s /\ c \in Int /\ s \in Int /\ c % Align = 0 /\ s % Align = 0
      BY <2>1
    <3> HIDE DEF n
    <3> QED
      BY ONLY <3>1, AlignedSum
  <2>3. rest % Align = 0
    <3>1. rest = z - s
      BY DEF z
    <3> HIDE DEF rest
    <3> QED
      BY <2>1, <3>1, AlignedDifference
  <2> QED
    BY <2>2, <2>3
<1>5. /\ \A a \in Blocks(h) : a < c => a + h[a].size <= c
      /\ \A a \in Blocks(h) : a > c => a >= c + h[c].size
  BY <1>1 DEF Heap, TiledBy
<1>6. n \notin DOMAIN h
  BY <1>2, <1>5
<1> HIDE DEF n, rest
<1>20. k = SplitAt(h, p, c, s, n, rest)
  <2>1. h \in [DOMAIN h -> [next : Int, size : Int]]
    BY DEF Heap, InHeap
  <2>2. n = c + s /\ rest = h[c].size - s /\ rest > BlockMin
    BY DEF n, rest
  <2>3. c \in DOMAIN h
    BY <1>1
  <2> QED
    BY <1>1, <2>1, <2>2, <2>3, SplitIs
<1>7. /\ DOMAIN k = DOMAIN h \cup {n}
      /\ \A a \in DOMAIN k :
           /\ k[a].next = IF a = n THEN h[c].next ELSE IF a = c THEN Null
                          ELSE IF a = p THEN n ELSE h[a].next
           /\ k[a].size = IF a = n THEN rest ELSE IF a = c THEN s ELSE h[a].size
  BY <1>20 DEF Record, SplitAt
<1>8. InHeap(k)
  <2>1. \A a \in DOMAIN k : k[a] \in [next : Int, size : Nat]
    <3>1. \A a \in DOMAIN k : k[a].next \in Int /\ k[a].size \in Nat
      BY <1>1, <1>2, <1>7
    <3>2. \A a \in DOMAIN k : k[a] = [next |-> k[a].next, size |-> k[a].size]
      BY <1>20 DEF Record, SplitAt
    <3>3. ASSUME NEW a \in DOMAIN k PROVE k[a] \in [next : Int, size : Nat]
      <4> DEFINE x == k[a].next
                 z == k[a].size
      <4>1. x \in Int /\ z \in Nat /\ k[a] = [next |-> x, size |-> z]
        BY <3>1, <3>2
      <4> HIDE DEF x, z
      <4> QED
        BY <4>1
    <3> QED
      BY <3>3
  <2>2. Blocks(k) \subseteq Addresses
    BY <1>3, <1>4, <1>7 DEF Blocks, Addresses
  <2>3. \A a \in DOMAIN k : k[a].size % Align = 0
    BY <1>4, <1>7
  <2>4. k \in [DOMAIN k -> [next : Int, size : Nat]]
    <3>1. k = [a \in DOMAIN k |-> k[a]]
      BY <1>20 DEF SplitAt
    <3> QED
      BY <2>1, <3>1
  <2> QED
    BY <1>7, <2>2, <2>3, <2>4 DEF InHeap
<1>9. TiledBy(k)
  <2>1. k[Start].size = 0 /\ k[End].size = 0
    BY <1>1, <1>2, <1>6, <1>7
  <2>2. ASSUME NEW a \in Blocks(k) \ {End} PROVE k[a].size > 0 /\ a + k[a].size \in Blocks(k)
    <3>1. CASE a = n
      BY <1>2, <1>7, <3>1 DEF Blocks
    <3>2. CASE a = c
      BY <1>2, <1>6, <1>1, <1>7, <3>2 DEF Blocks, n
    <3>3. CASE a \notin {n, c}
      BY <1>7, <2>2, <3>3 DEF Blocks, Heap, TiledBy
    <3> QED
      BY <3>1, <3>2, <3>3
  <2>3. ASSUME NEW a \in Blocks(k), NEW b \in Blocks(k), a < b PROVE a + k[a].size <= b
    <3>1. CASE a = n /\ b # n
      BY <1>2, <1>5, <1>7, <2>3, <3>1 DEF Blocks
    <3>2. CASE b = n /\ a # c /\ a # n
      <4>1. a \in Blocks(h) /\ k[a].size = h[a].size /\ ~(a > c)
        BY <1>2, <1>5, <1>7, <2>3, <3>2 DEF Blocks
      <4> QED
        BY <1>2, <1>5, <3>2, <4>1
    <3>3. CASE a = c
      BY <1>2, <1>5, <1>6, <1>7, <2>3, <3>3 DEF Blocks, n
    <3>4. CASE a \notin {n, c} /\ b # n
      <4>1. a \in Blocks(h) /\ b \in Blocks(h) /\ k[a].size = h[a].size
        BY <1>7, <3>4 DEF Blocks
      <4> QED
        BY <2>3, <4>1 DEF Heap, TiledBy
    <3>5. ~(a = n /\ b = n)
      BY <1>2, <2>3
    <3> QED
      BY <3>1, <3>2, <3>3, <3>4, <3>5
  <2> QED
    BY <2>1, <2>2, <2>3 DEF TiledBy
<1>10. h[c].next # Null => h[c].next \in DOMAIN h \ f /\ h[c].next > n
  <2> SUFFICES ASSUME h[c].next # Null PROVE h[c].next \in DOMAIN h \ f /\ h[c].next > n
    OBVIOUS
  <2>1. h[c].next \in DOMAIN h \ g /\ h[c].next > c
    BY <1>1 DEF Heap, ListOf
  <2>2. h[c].next \in Blocks(h)
    BY <1>2, <2>1
  <2> QED
    BY <1>2, <1>5, <2>1, <2>2
<1>11. ListOf(k, f)
  <2>1. ASSUME NEW a \in DOMAIN k, k[a].next # Null
        PROVE  k[a].next \in DOMAIN k \ f /\ k[a].next > a
    <3>1. CASE a = n
      BY <1>7, <1>10, <2>1, <3>1
    <3>2. CASE a = p
      BY <1>1, <1>2, <1>6, <1>7, <3>2
    <3>3. CASE a \notin {n, c, p}
      BY <1>7, <2>1, <3>3 DEF Heap, ListOf
    <3> QED
      BY <1>7, <2>1, <3>1, <3>2, <3>3
  <2>2. ASSUME NEW a \in DOMAIN k, NEW b \in DOMAIN k, k[a].next = k[b].next
        PROVE  k[a].next = Null \/ a = b
    <3>1. \A x, y \in DOMAIN h : h[x].next = h[y].next => h[x].next = Null \/ x = y
      BY DEF Heap, ListOf
    <3>2. \A x \in DOMAIN h : h[x].next # n
      BY <1>2, <1>6 DEF Heap, ListOf
    <3> QED
      BY <1>1, <1>6, <1>7, <2>2, <3>1, <3>2
  <2>3. ASSUME NEW a \in f PROVE k[a].next = Null
    BY <1>1, <1>6, <1>7 DEF Heap, ListOf
  <2> QED
    BY <2>1, <2>2, <2>3 DEF ListOf
<1>12. Heap(k, f)
  BY <1>1, <1>7, <1>8, <1>9, <1>11 DEF Heap, Blocks
<1>13. k[c].size = s /\ \A a \in g : k[a].size = h[a].size
  BY <1>1, <1>6, <1>7
<1>14. ASSUME Whole(h, g) PROVE Whole(k, f)
  <2>1. /\ h[c].next \in DOMAIN h \ g /\ h[c].next > c
        /\ \A b \in DOMAIN h \ g : b > c => h[c].next <= b
    BY <1>1, <1>14 DEF Whole
  <2>2. \A b \in DOMAIN h \ g : b > p => c <= b
    BY <1>1, <1>14 DEF Whole
  <2>3. ASSUME NEW a \in DOMAIN k \ f, a # End
        PROVE  /\ k[a].next \in DOMAIN k \ f /\ k[a].next > a
               /\ \A b \in DOMAIN k \ f : b > a => k[a].next <= b
    <3>1. CASE a = n
      BY <1>2, <1>7, <1>10, <2>1, <3>1
    <3>2. CASE a = p
      <4>1. k[a].next = n /\ n \in DOMAIN k \ f /\ n > a
        BY <1>1, <1>2, <1>6, <1>7, <3>2
      <4>2. ASSUME NEW b \in DOMAIN k \ f, b > a PROVE n <= b
        <5>1. CASE b # n
          <6>1. b \in DOMAIN h \ g /\ b > c /\ b \in Blocks(h)
            BY <1>1, <1>2, <1>7, <2>2, <3>2, <4>2, <5>1
          <6> QED
            BY <1>2, <1>5, <6>1
        <5> QED
          BY <1>2, <5>1
      <4> QED
        BY <4>1, <4>2
    <3>3. CASE a \notin {n, p}
      <4>1. /\ a \in DOMAIN h \ g /\ k[a].next = h[a].next
            /\ h[a].next \in DOMAIN h \ g /\ h[a].next > a
            /\ \A b \in DOMAIN h \ g : b > a => h[a].next <= b
        BY <1>7, <1>14, <2>3, <3>3 DEF Whole
      <4>2. h[a].next # c
        BY <1>1, <3>3, <4>1 DEF Heap, ListOf
      <4>3. n > a => h[a].next <= n
        BY <1>1, <1>2, <1>5, <2>3, <4>1
      <4> QED
        BY <1>7, <4>1, <4>2, <4>3
    <3> QED
      BY <3>1, <3>2, <3>3
  <2> QED
    BY <2>3 DEF Whole
<1>15. ASSUME JoinedBut(h, g, End) PROVE JoinedBut(k, f, End)
  <2>1. ASSUME NEW a \in FreeIn(k, f), NEW b \in FreeIn(k, f), a # End PROVE a + k[a].size # b
    <3>1. CASE a = n
      <4>1. a + k[a].size = c + h[c].size /\ c \in FreeIn(h, g)
        BY <1>1, <1>2, <1>7, <3>1 DEF FreeIn
      <4>2. b # n => b \in FreeIn(h, g)
        BY <1>7, <2>1 DEF FreeIn
      <4> QED
        BY <1>1, <1>2, <1>15, <4>1, <4>2 DEF JoinedBut
    <3>2. CASE a # n
      <4>1. a \in FreeIn(h, g) /\ k[a].size = h[a].size /\ a \in Blocks(h) \ {End}
        BY <1>7, <2>1, <3>2 DEF FreeIn
      <4>2. a + h[a].size \in DOMAIN h
        BY <4>1 DEF Heap, TiledBy
      <4>3. b # n => b \in FreeIn(h, g)
        BY <1>7, <2>1 DEF FreeIn
      <4> QED
        BY <1>6, <1>15, <2>1, <4>1, <4>2, <4>3 DEF JoinedBut
    <3> QED
      BY <3>1, <3>2
  <2> QED
    BY <2>1 DEF JoinedBut
<1>16. ASSUME NEW L, Apart(h, g, L), p \notin L PROVE Apart(k, f, L)
  <2>1. c \notin L /\ n \notin L
    BY <1>1, <1>6, <1>16 DEF Apart
  <2>2. h[c].next # Null => h[c].next \notin L
    BY <1>1, <1>16, <2>1 DEF Apart
  <2> QED
    BY <1>1, <1>7, <1>16, <2>1, <2>2 DEF Apart
<1>17. Sized(h, DOMAIN h, End) /\ Sized(k, DOMAIN k, End)
  BY <1>12, HeapSized
<1>18. Sizes(k, f) = Sizes(h, g) + k[c].size
  <2>1. Sized(k, f, End) /\ Sized(h, g, End) /\ f \ {c} = g
    BY <1>1, <1>7, <1>17 DEF Sized
  <2>2. Sizes(k, f) = Sizes(k, f \ {c}) + k[c].size
    BY <2>1, SizesWith
  <2>3. Sizes(k, g) = Sizes(h, g)
    BY <1>13, <2>1, SizesSame
  <2> QED
    BY <2>1, <2>2, <2>3
<1>19. Sizes(k, DOMAIN k \ f) = Sizes(h, DOMAIN h \ g) - k[c].size
  <2> DEFINE S == DOMAIN k \ f
             T == DOMAIN h \ g
  <2>1. S \ {n} = T \ {c} /\ n \in S /\ c \in T
    BY <1>1, <1>2, <1>6, <1>7
  <2>2. Sized(k, S, End) /\ Sized(h, T, End) /\ Sized(h, T \ {c}, End)
    BY <1>17 DEF Sized
  <2>3. k[n].size = rest /\ \A a \in T \ {c} : k[a].size = h[a].size
    BY <1>1, <1>6, <1>7
  <2> HIDE DEF S, T
  <2>4. Sizes(k, S) = Sizes(k, S \ {n}) + k[n].size
    BY <2>1, <2>2, SizesWith
  <2>5. Sizes(h, T) = Sizes(h, T \ {c}) + h[c].size /\ Sizes(h, T \ {c}) \in Nat
    BY <2>1, <2>2, SizesWith
  <2>6. Sizes(k, T \ {c}) = Sizes(h, T \ {c})
    BY <2>2, <2>3, SizesSame
  <2>7. Sizes(k, S) = Sizes(h, T \ {c}) + rest
    BY <2>1, <2>3, <2>4, <2>6
  <2>8. k[c].size = h[c].size - rest /\ h[c].size \in Nat
    BY <1>1, <1>2, <1>13
  <2>9. Sizes(k, S) = Sizes(h, T) - k[c].size
    BY <1>2, <2>5, <2>7, <2>8
  <2> QED
    BY <2>9 DEF S, T
<1> HIDE DEF f
<1>21. k[c].size >= s /\ DOMAIN k \subseteq DOMAIN h \cup {c + s}
  BY <1>7, <1>13 DEF n
<1> QED
  BY <1>12, <1>13, <1>14, <1>15, <1>16, <1>18, <1>19, <1>21 DEF Carved, f
LEMMA TakeKeeps ==
  ASSUME NEW h, NEW g, Heap(h, g), NEW p \in DOMAIN h \ g, NEW c, c = h[p].next,
         c # Null, c # End, NEW s \in Nat,
         h[c].size - s >= 0, h[c].size - s <= BlockMin, NEW k, k = Carve(h, p, c, s)
  PROVE  Carved(h, g, p, c, s, k)
<1> DEFINE f == g \cup {c}
<1>0. /\ Start = -1 /\ Null = -2 /\ End \in Nat /\ End > 0 /\ End % Align = 0
      /\ {Start, 0, End} \subseteq DOMAIN h
      /\ Blocks(h) = DOMAIN h \ {Start} /\ g \subseteq Blocks(h) \ {End}
      /\ h[Start].size = 0 /\ h[End].size = 0
      /\ \A a \in DOMAIN h : /\ a \in Int /\ h[a].next \in Int
                             /\ h[a].size \in Nat /\ h[a].size % Align = 0
                             /\ a # Start => a \in 0 .. End /\ a % Align = 0
  BY HeapFacts
<1> USE <1>0
<1>1. c \in Blocks(h) \ {End} /\ c \notin g /\ c > p /\ c # p
  BY DEF Heap, ListOf
<1>2. k = TakenOut(h, p, c)
  <2>1. h \in [DOMAIN h -> [next : Int, size : Int]]
    BY DEF Heap, InHeap
  <2>2. ~(h[c].size - s > BlockMin \/ h[c].size - s < 0) /\ c \in DOMAIN h
    BY <1>1, HeapAssumption DEF BlockMin
  <2> QED
    BY <1>1, <2>1, <2>2, TakeIs
<1>3. /\ DOMAIN k = DOMAIN h
      /\ \A a \in DOMAIN h :
           /\ k[a].next = IF a = c THEN Null ELSE IF a = p THEN h[c].next ELSE h[a].next
           /\ k[a].size = h[a].size
  BY <1>2 DEF TakenOut, Record
<1>4. InHeap(k)
  <2>1. \A a \in DOMAIN k : k[a] \in [next : Int, size : Nat]
    <3>1. \A a \in DOMAIN k : k[a].next \in Int /\ k[a].size \in Nat
      BY <1>1, <1>3
    <3>2. \A a \in DOMAIN k : k[a] = [next |-> k[a].next, size |-> k[a].size]
      BY <1>2 DEF TakenOut, Record
    <3>3. ASSUME NEW a \in DOMAIN k PROVE k[a] \in [next : Int, size : Nat]
      <4> DEFINE x == k[a].next
                 z == k[a].size
      <4>1. x \in Int /\ z \in Nat /\ k[a] = [next |-> x, size |-> z]
        BY <3>1, <3>2
      <4> HIDE DEF x, z
      <4> QED
        BY <4>1
    <3> QED
      BY <3>3
  <2>2. k \in [DOMAIN k -> [next : Int, size : Nat]]
    <3>1. k = [a \in DOMAIN k |-> k[a]]
      BY <1>2 DEF TakenOut
    <3> QED
      BY <2>1, <3>1
  <2> QED
    BY <1>3, <2>2 DEF Heap, InHeap, Blocks
<1>5. TiledBy(k)
  BY <1>3 DEF Heap, TiledBy, Blocks
<1>6. h[c].next # Null => h[c].next \in DOMAIN h \ f /\ h[c].next > c
  BY <1>1 DEF Heap, ListOf
<1>7. ListOf(k, f)
  <2>1. ASSUME NEW a \in DOMAIN k, k[a].next # Null
        PROVE  k[a].next \in DOMAIN k \ f /\ k[a].next > a
    <3>1. CASE a = p
      BY <1>1, <1>3, <1>6, <2>1, <3>1
    <3>2. CASE a \notin {c, p}
      BY <1>3, <2>1, <3>2 DEF Heap, ListOf
    <3> QED
      BY <1>3, <2>1, <3>1, <3>2
  <2>2. ASSUME NEW a \in DOMAIN k, NEW b \in DOMAIN k, k[a].next = k[b].next
        PROVE  k[a].next = Null \/ a = b
    <3>1. \A x, y \in DOMAIN h : h[x].next = h[y].next => h[x].next = Null \/ x = y
      BY DEF Heap, ListOf
    <3> QED
      BY <1>1, <1>3, <2>2, <3>1
  <2>3. ASSUME NEW a \in f PROVE k[a].next = Null
    BY <1>1, <1>3 DEF Heap, ListOf
  <2> QED
    BY <2>1, <2>2, <2>3 DEF ListOf
<1>8. Heap(k, f)
  BY <1>1, <1>3, <1>4, <1>5, <1>7 DEF Heap, Blocks
<1>9. k[c].size >= s /\ \A a \in DOMAIN h : k[a].size = h[a].size
  BY <1>1, <1>3
<1>10. ASSUME Whole(h, g) PROVE Whole(k, f)
  <2>1. /\ h[c].next \in DOMAIN h \ g /\ h[c].next > c
        /\ \A b \in DOMAIN h \ g : b > c => h[c].next <= b
    BY <1>1, <1>10 DEF Whole
  <2>2. \A b \in DOMAIN h \ g : b > p => c <= b
    BY <1>1, <1>10 DEF Whole
  <2>3. ASSUME NEW a \in DOMAIN k \ f, a # End
        PROVE  /\ k[a].next \in DOMAIN k \ f /\ k[a].next > a
               /\ \A b \in DOMAIN k \ f : b > a => k[a].next <= b
    <3>1. CASE a = p
      <4>1. k[a].next = h[c].next /\ h[c].next \in DOMAIN k \ f /\ h[c].next > a
        BY <1>1, <1>3, <2>1, <3>1
      <4>2. ASSUME NEW b \in DOMAIN k \ f, b > a PROVE h[c].next <= b
        <5>1. b \in DOMAIN h \ g /\ b > c
          BY <1>1, <1>3, <2>2, <3>1, <4>2
        <5> QED
          BY <2>1, <5>1
      <4> QED
        BY <4>1, <4>2
    <3>2. CASE a # p
      <4>1. /\ a \in DOMAIN h \ g /\ k[a].next = h[a].next
            /\ h[a].next \in DOMAIN h \ g /\ h[a].next > a
            /\ \A b \in DOMAIN h \ g : b > a => h[a].next <= b
        BY <1>3, <1>10, <2>3, <3>2 DEF Whole
      <4>2. h[a].next # c
        BY <1>1, <3>2, <4>1 DEF Heap, ListOf
      <4> QED
        BY <1>3, <4>1, <4>2
    <3> QED
      BY <3>1, <3>2
  <2> QED
    BY <2>3 DEF Whole
<1>11. ASSUME JoinedBut(h, g, End) PROVE JoinedBut(k, f, End)
  BY <1>3, <1>11 DEF JoinedBut, FreeIn
<1>12. ASSUME NEW L, Apart(h, g, L), p \notin L PROVE Apart(k, f, L)
  <2>1. c \notin L
    BY <1>1, <1>12 DEF Apart
  <2>2. h[c].next # Null => h[c].next \notin L
    BY <1>1, <1>12, <2>1 DEF Apart
  <2> QED
    BY <1>1, <1>3, <1>12, <2>1, <2>2 DEF Apart
<1>13. Sized(h, DOMAIN h, End) /\ Sized(k, DOMAIN k, End)
  BY <1>8, HeapSized
<1>14. Sizes(k, f) = Sizes(h, g) + k[c].size
  <2>1. Sized(k, f, End) /\ Sized(h, g, End) /\ f \ {c} = g
    BY <1>1, <1>3, <1>13 DEF Sized
  <2>2. Sizes(k, f) = Sizes(k, f \ {c}) + k[c].size
    BY <2>1, SizesWith
  <2>3. Sizes(k, g) = Sizes(h, g)
    BY <1>9, <2>1, SizesSame
  <2> QED
    BY <2>1, <2>2, <2>3
<1>15. Sizes(k, DOMAIN k \ f) = Sizes(h, DOMAIN h \ g) - k[c].size
  <2> DEFINE S == DOMAIN k \ f
             T == DOMAIN h \ g
  <2>1. S = T \ {c} /\ c \in T
    BY <1>1, <1>3
  <2>2. Sized(h, T, End) /\ Sized(h, T \ {c}, End)
    BY <1>13 DEF Sized
  <2>3. \A a \in T \ {c} : k[a].size = h[a].size
    BY <1>3
  <2> HIDE DEF S, T
  <2>4. Sizes(h, T) = Sizes(h, T \ {c}) + h[c].size /\ Sizes(h, T \ {c}) \in Nat
    BY <2>1, <2>2, SizesWith
  <2>5. Sizes(k, S) = Sizes(h, T \ {c})
    BY <2>1, <2>2, <2>3, SizesSame
  <2>6. k[c].size = h[c].size /\ h[c].size \in Nat
    BY <1>1, <1>3
  <2>7. Sizes(k, S) = Sizes(h, T) - k[c].size
    BY <2>4, <2>5, <2>6
  <2> QED
    BY <2>7 DEF S, T
<1> HIDE DEF f
<1>16. (\A a \in g : k[a].size = h[a].size) /\ DOMAIN k \subseteq DOMAIN h \cup {c + s}
  BY <1>3, <1>9
<1> QED
  BY <1>8, <1>9, <1>10, <1>11, <1>12, <1>14, <1>15, <1>16 DEF Carved, f
-----------------------------------------------------------------------------
(* b, which was granted, is free again in k: joined to the block t in      *)
(* front of it, or linked after t.  In the first case block is t, in the   *)
(* second it is b.                                                         *)
Freed(h, g, t, b, k, block) ==
  /\ Heap(k, g \ {b}) /\ DOMAIN k \subseteq DOMAIN h
  /\ block \in DOMAIN k \ (g \ {b}) /\ block \notin {Start, End}
  /\ k[block].next = h[t].next
  /\ \A a \in g \ {b} : k[a].size = h[a].size
  /\ Sizes(k, g \ {b}) = Sizes(h, g) - h[b].size
  /\ Sizes(k, DOMAIN k \ (g \ {b})) = Sizes(h, DOMAIN h \ g) + h[b].size
  /\ Whole(h, g) => Whole(k, g \ {b})
  /\ Whole(h, g) /\ JoinedBut(h, g, End) => JoinedBut(k, g \ {b}, block)
  /\ \A L : Apart(h, g, L) /\ t \notin L => Apart(k, g \ {b}, L) /\ block \notin L

LEMMA MergeKeeps ==
  ASSUME NEW h, NEW g, Heap(h, g), NEW b \in g, NEW t \in DOMAIN h \ g, t < b,
         h[t].next > b, t + h[t].size = b, NEW k, k = JoinPrevious(h, t, b)
  PROVE  b \notin DOMAIN k /\ Freed(h, g, t, b, k, t)
<1> DEFINE f == g \ {b}
<1>0. /\ Start = -1 /\ Null = -2 /\ End \in Nat /\ End > 0 /\ End % Align = 0
      /\ {Start, 0, End} \subseteq DOMAIN h
      /\ Blocks(h) = DOMAIN h \ {Start} /\ g \subseteq Blocks(h) \ {End}
      /\ h[Start].size = 0 /\ h[End].size = 0
      /\ \A a \in DOMAIN h : /\ a \in Int /\ h[a].next \in Int
                             /\ h[a].size \in Nat /\ h[a].size % Align = 0
                             /\ a # Start => a \in 0 .. End /\ a % Align = 0
  BY HeapFacts
<1> USE <1>0
<1>1. b \in Blocks(h) \ {End} /\ t # b /\ t \in Blocks(h) \ {End}
  OBVIOUS
<1>2. k = JoinedTo(h, t, b)
  <2>1. h \in [DOMAIN h -> [next : Int, size : Int]]
    BY DEF Heap, InHeap
  <2> QED
    BY <1>1, <2>1, JoinIs
<1>3. /\ DOMAIN k = DOMAIN h \ {b}
      /\ \A a \in DOMAIN k :
           /\ k[a].next = h[a].next
           /\ k[a].size = IF a = t THEN h[t].size + h[b].size ELSE h[a].size
  BY <1>2 DEF JoinedTo, Record
<1>4. InHeap(k)
  <2>1. \A a \in DOMAIN k : k[a] \in [next : Int, size : Nat]
    <3>1. \A a \in DOMAIN k : k[a].next \in Int /\ k[a].size \in Nat
      BY <1>1, <1>3
    <3>2. \A a \in DOMAIN k : k[a] = [next |-> k[a].next, size |-> k[a].size]
      BY <1>2 DEF JoinedTo, Record
    <3>3. ASSUME NEW a \in DOMAIN k PROVE k[a] \in [next : Int, size : Nat]
      <4> DEFINE x == k[a].next
                 z == k[a].size
      <4>1. x \in Int /\ z \in Nat /\ k[a] = [next |-> x, size |-> z]
        BY <3>1, <3>2
      <4> HIDE DEF x, z
      <4> QED
        BY <4>1
    <3> QED
      BY <3>3
  <2>2. k \in [DOMAIN k -> [next : Int, size : Nat]]
    <3>1. k = [a \in DOMAIN k |-> k[a]]
      BY <1>2 DEF JoinedTo
    <3> QED
      BY <2>1, <3>1
  <2>3. \A a \in DOMAIN k : k[a].size % Align = 0
    <3> DEFINE x == h[t].size
               y == h[b].size
               z == k[t].size
    <3>1. x \in Int /\ x % Align = 0 /\ y \in Int /\ y % Align = 0 /\ z = x + y
      BY <1>1, <1>3
    <3> HIDE DEF x, y, z
    <3>2. z % Align = 0
      BY ONLY <3>1, AlignedSum
    <3> QED
      BY <1>3, <3>2 DEF z
  <2> QED
    BY <1>1, <1>3, <2>2, <2>3 DEF Heap, InHeap, Blocks
<1>5. /\ \A a \in Blocks(h) \ {End} : h[a].size > 0 /\ a + h[a].size \in Blocks(h)
      /\ \A a, c \in Blocks(h) : a < c => a + h[a].size <= c
  BY DEF Heap, TiledBy
<1>6. TiledBy(k)
  <2>1. ASSUME NEW a \in Blocks(k) \ {End} PROVE k[a].size > 0 /\ a + k[a].size \in Blocks(k)
    <3>1. CASE a = t
      BY <1>1, <1>3, <1>5, <3>1 DEF Blocks
    <3>2. CASE a # t
      <4>1. a \in Blocks(h) \ {End} /\ a # b /\ k[a].size = h[a].size
        BY <1>3, <3>2 DEF Blocks
      <4>2. a + h[a].size # b
        BY <1>1, <1>5, <3>2, <4>1
      <4> QED
        BY <1>3, <1>5, <4>1, <4>2 DEF Blocks
    <3> QED
      BY <3>1, <3>2
  <2>2. ASSUME NEW a \in Blocks(k), NEW c \in Blocks(k), a < c PROVE a + k[a].size <= c
    <3>1. a \in Blocks(h) /\ c \in Blocks(h) /\ c # b /\ a # b
      BY <1>3 DEF Blocks
    <3>2. CASE a = t
      <4>1. c > b
        BY <1>1, <1>5, <2>2, <3>1, <3>2
      <4>2. b + h[b].size <= c
        BY <1>1, <1>5, <3>1, <4>1
      <4>3. k[a].size = h[t].size + h[b].size
        BY <1>1, <1>3, <3>2
      <4> QED
        BY <1>1, <3>2, <4>2, <4>3
    <3>3. CASE a # t
      BY <1>3, <1>5, <2>2, <3>1, <3>3
    <3> QED
      BY <3>2, <3>3
  <2>3. k[Start].size = 0 /\ k[End].size = 0
    BY <1>1, <1>3
  <2> QED
    BY <2>1, <2>2, <2>3 DEF TiledBy
<1>7. ListOf(k, f)
  <2>1. \A a \in DOMAIN h : h[a].next # b
    BY <1>1 DEF Heap, ListOf
  <2> QED
    BY <1>1, <1>3, <2>1 DEF Heap, ListOf
<1>8. Heap(k, f)
  BY <1>1, <1>3, <1>4, <1>6, <1>7 DEF Heap, Blocks
<1>9. \A a \in f : k[a].size = h[a].size
  BY <1>1, <1>3
<1>10. DOMAIN k \ f = DOMAIN h \ g
  BY <1>1, <1>3
<1>11. ASSUME Whole(h, g) PROVE Whole(k, f)
  BY <1>3, <1>10, <1>11 DEF Whole
<1>12. ASSUME JoinedBut(h, g, End) PROVE JoinedBut(k, f, t)
  <2>1. FreeIn(k, f) = FreeIn(h, g)
    BY <1>10 DEF FreeIn
  <2>2. \A a \in FreeIn(h, g) : a # t => k[a].size = h[a].size
    BY <1>1, <1>3 DEF FreeIn
  <2>3. End \notin FreeIn(h, g)
    BY DEF FreeIn
  <2> QED
    BY <1>12, <2>1, <2>2, <2>3 DEF JoinedBut
<1>13. ASSUME NEW L, Apart(h, g, L) PROVE Apart(k, f, L)
  BY <1>1, <1>3, <1>10, <1>13 DEF Apart
<1>14. Sized(h, DOMAIN h, End) /\ Sized(k, DOMAIN k, End)
  BY <1>8, HeapSized
<1>15. Sizes(k, f) = Sizes(h, g) - h[b].size
  <2>1. Sized(h, f, End) /\ Sized(h, g, End) /\ h[b].size \in Nat
    BY <1>1, <1>14 DEF Sized
  <2>2. Sizes(h, g) = Sizes(h, f) + h[b].size /\ Sizes(h, f) \in Nat
    BY <2>1, SizesWith
  <2>3. Sizes(k, f) = Sizes(h, f)
    BY <1>9, <2>1, SizesSame
  <2> QED
    BY <2>1, <2>2, <2>3
<1>16. Sizes(k, DOMAIN k \ f) = Sizes(h, DOMAIN h \ g) + h[b].size
  <2> DEFINE T == DOMAIN h \ g
  <2>1. DOMAIN k \ f = T /\ t \in T
    BY <1>10
  <2>2. Sized(h, T, End) /\ Sized(k, T, End)
    BY <1>10, <1>14 DEF Sized
  <2>3. \A a \in T \ {t} : k[a].size = h[a].size
    BY <1>1, <1>3
  <2>4. k[t].size = h[t].size + h[b].size /\ h[t].size \in Nat /\ h[b].size \in Nat
    BY <1>1, <1>3
  <2> HIDE DEF T
  <2>5. Sizes(k, T) = Sizes(h, T) - h[t].size + k[t].size /\ Sizes(h, T) \in Nat
    BY <2>1, <2>2, <2>3, SizesChange
  <2>6. Sizes(k, T) = Sizes(h, T) + h[b].size
    BY <2>4, <2>5
  <2>7. Sizes(k, DOMAIN k \ f) = Sizes(k, T)
    BY <2>1
  <2> QED
    BY <2>6, <2>7 DEF T
<1>17. t \in DOMAIN k \ f /\ t \in Blocks(k) \ (g \cup {End}) /\ k[t].next = h[t].next
  BY <1>1, <1>3 DEF Blocks
<1>18. b \notin DOMAIN k /\ t \notin {Start, End} /\ DOMAIN k \subseteq DOMAIN h
  BY <1>1, <1>3
<1> HIDE DEF f
<1> QED
  BY <1>8, <1>9, <1>11, <1>12, <1>13, <1>15, <1>16, <1>17, <1>18 DEF Freed, f
LEMMA LinkKeeps ==
  ASSUME NEW h, NEW g, Heap(h, g), NEW b \in g, NEW t \in DOMAIN h \ g, t < b,
         h[t].next > b, t + h[t].size # b, NEW k, k = JoinPrevious(h, t, b)
  PROVE  b \in DOMAIN k /\ Freed(h, g, t, b, k, b)
<1> DEFINE f == g \ {b}
<1>0. /\ Start = -1 /\ Null = -2 /\ End \in Nat /\ End > 0 /\ End % Align = 0
      /\ {Start, 0, End} \subseteq DOMAIN h
      /\ Blocks(h) = DOMAIN h \ {Start} /\ g \subseteq Blocks(h) \ {End}
      /\ h[Start].size = 0 /\ h[End].size = 0
      /\ \A a \in DOMAIN h : /\ a \in Int /\ h[a].next \in Int
                             /\ h[a].size \in Nat /\ h[a].size % Align = 0
                             /\ a # Start => a \in 0 .. End /\ a % Align = 0
  BY HeapFacts
<1> USE <1>0
<1>1. b \in Blocks(h) \ {End} /\ t # b /\ t \in DOMAIN h /\ t # End
  OBVIOUS
<1>2. k = LinkedAfter(h, t, b)
  <2>1. h \in [DOMAIN h -> [next : Int, size : Int]]
    BY DEF Heap, InHeap
  <2> QED
    BY <1>1, <2>1, LinkIs
<1>3. /\ DOMAIN k = DOMAIN h
      /\ \A a \in DOMAIN h :
           /\ k[a].next = IF a = b THEN h[t].next ELSE IF a = t THEN b ELSE h[a].next
           /\ k[a].size = h[a].size
  BY <1>2 DEF LinkedAfter, Record
<1>4. InHeap(k)
  <2>1. \A a \in DOMAIN k : k[a] \in [next : Int, size : Nat]
    <3>1. \A a \in DOMAIN k : k[a].next \in Int /\ k[a].size \in Nat
      BY <1>1, <1>3
    <3>2. \A a \in DOMAIN k : k[a] = [next |-> k[a].next, size |-> k[a].size]
      BY <1>2 DEF LinkedAfter, Record
    <3>3. ASSUME NEW a \in DOMAIN k PROVE k[a] \in [next : Int, size : Nat]
      <4> DEFINE x == k[a].next
                 z == k[a].size
      <4>1. x \in Int /\ z \in Nat /\ k[a] = [next |-> x, size |-> z]
        BY <3>1, <3>2
      <4> HIDE DEF x, z
      <4> QED
        BY <4>1
    <3> QED
      BY <3>3
  <2>2. k \in [DOMAIN k -> [next : Int, size : Nat]]
    <3>1. k = [a \in DOMAIN k |-> k[a]]
      BY <1>2 DEF LinkedAfter
    <3> QED
      BY <2>1, <3>1
  <2> QED
    BY <1>3, <2>2 DEF Heap, InHeap, Blocks
<1>5. /\ \A a \in Blocks(h) \ {End} : h[a].size > 0 /\ a + h[a].size \in Blocks(h)
      /\ \A a, c \in Blocks(h) : a < c => a + h[a].size <= c
  BY DEF Heap, TiledBy
<1>6. TiledBy(k)
  BY <1>3 DEF Heap, TiledBy, Blocks
<1>7. h[t].next \in DOMAIN h \ g /\ h[t].next # b
  BY <1>1 DEF Heap, ListOf
<1>8. ListOf(k, f)
  <2>1. \A a \in DOMAIN h : h[a].next # b
    BY <1>1 DEF Heap, ListOf
  <2>2. \A a \in DOMAIN h : h[a].next # Null => h[a].next \in DOMAIN h \ g /\ h[a].next > a
    BY DEF Heap, ListOf
  <2>3. \A x, y \in DOMAIN h : h[x].next = h[y].next => h[x].next = Null \/ x = y
    BY DEF Heap, ListOf
  <2>4. \A a \in g : h[a].next = Null
    BY DEF Heap, ListOf
  <2>5. \A a \in DOMAIN k : k[a].next # Null => k[a].next \in DOMAIN k \ f /\ k[a].next > a
    BY <1>1, <1>3, <1>7, <2>2
  <2>6. ASSUME NEW x \in DOMAIN k, NEW y \in DOMAIN k, k[x].next = k[y].next
        PROVE  k[x].next = Null \/ x = y
    BY <1>1, <1>3, <1>7, <2>1, <2>3, <2>6
  <2>7. \A a \in f : k[a].next = Null
    BY <1>1, <1>3, <2>4
  <2> QED
    BY <2>5, <2>6, <2>7 DEF ListOf
<1>9. Heap(k, f)
  BY <1>1, <1>3, <1>4, <1>6, <1>8 DEF Heap, Blocks
<1>10. \A a \in f : k[a].size = h[a].size
  BY <1>1, <1>3
<1>11. DOMAIN k \ f = (DOMAIN h \ g) \cup {b} /\ b \notin DOMAIN h \ g
  BY <1>1, <1>3
<1>12. ASSUME Whole(h, g) PROVE Whole(k, f)
  <2>1. \A c \in DOMAIN h \ g : c > t => h[t].next <= c
    BY <1>1, <1>12 DEF Whole
  <2>2. ASSUME NEW a \in DOMAIN k \ f, a # End
        PROVE  /\ k[a].next \in DOMAIN k \ f /\ k[a].next > a
               /\ \A c \in DOMAIN k \ f : c > a => k[a].next <= c
    <3>1. CASE a = b
      <4>1. k[a].next = h[t].next
        BY <1>1, <1>3, <3>1
      <4>2. ASSUME NEW c \in DOMAIN k \ f, c > a PROVE h[t].next <= c
        BY <1>1, <1>11, <2>1, <3>1, <4>2
      <4> QED
        BY <1>1, <1>7, <1>11, <3>1, <4>1, <4>2
    <3>2. CASE a = t
      <4>1. k[a].next = b
        BY <1>1, <1>3, <3>2
      <4>2. ASSUME NEW c \in DOMAIN k \ f, c > a PROVE b <= c
        <5>1. c # b => c \in DOMAIN h \ g /\ h[t].next <= c
          BY <1>11, <2>1, <3>2, <4>2
        <5> QED
          BY <1>1, <1>7, <5>1
      <4> QED
        BY <1>1, <1>11, <3>2, <4>1, <4>2
    <3>3. CASE a \notin {b, t}
      <4>1. /\ a \in DOMAIN h \ g /\ k[a].next = h[a].next
            /\ h[a].next \in DOMAIN h \ g /\ h[a].next > a
            /\ \A c \in DOMAIN h \ g : c > a => h[a].next <= c
        BY <1>3, <1>11, <1>12, <2>2, <3>3 DEF Whole
      <4>2. b > a => h[a].next <= b
        <5> SUFFICES ASSUME b > a PROVE h[a].next <= b
          OBVIOUS
        <5>1. a < t
          BY <1>1, <1>7, <2>1, <3>3, <4>1
        <5> QED
          BY <1>1, <4>1, <5>1
      <4> QED
        BY <1>11, <4>1, <4>2
    <3> QED
      BY <3>1, <3>2, <3>3
  <2> QED
    BY <2>2 DEF Whole
<1>13. ASSUME Whole(h, g), JoinedBut(h, g, End) PROVE JoinedBut(k, f, b)
  <2>1. ASSUME NEW a \in FreeIn(k, f), NEW c \in FreeIn(k, f), a # b PROVE a + k[a].size # c
    <3>1. a \in FreeIn(h, g) /\ k[a].size = h[a].size /\ a \in Blocks(h) \ {End} /\ a # End
      BY <1>3, <1>11, <2>1 DEF FreeIn
    <3>2. CASE c # b
      <4>1. c \in FreeIn(h, g)
        BY <1>11, <3>2 DEF FreeIn
      <4> QED
        BY <1>13, <3>1, <4>1 DEF JoinedBut
    <3>3. CASE c = b
      <4>1. SUFFICES ASSUME a + h[a].size = b PROVE FALSE
        BY <3>1, <3>3
      <4>2. a < b
        BY <1>1, <1>5, <3>1, <4>1
      <4>3. ~(a > t)
        <5>1. a > t => h[t].next <= a
          BY <1>1, <1>13, <3>1 DEF Whole, FreeIn
        <5> QED
          BY <1>1, <1>7, <3>1, <4>2, <5>1
      <4>4. a # t
        BY <4>1
      <4>5. a < t /\ t \in Blocks(h)
        BY <1>1, <3>1, <4>3, <4>4
      <4>6. a + h[a].size <= t
        BY <1>5, <3>1, <4>5
      <4> QED
        BY <1>1, <4>1, <4>6
    <3> QED
      BY <3>2, <3>3
  <2> QED
    BY <2>1 DEF JoinedBut
<1>14. ASSUME NEW L, Apart(h, g, L), t \notin L PROVE Apart(k, f, L) /\ b \notin L
  <2>1. b \notin L /\ h[t].next \notin L
    BY <1>1, <1>7, <1>14 DEF Apart
  <2> QED
    BY <1>1, <1>3, <1>7, <1>11, <1>14, <2>1 DEF Apart
<1>15. Sized(h, DOMAIN h, End) /\ Sized(k, DOMAIN k, End)
  BY <1>9, HeapSized
<1>16. Sizes(k, f) = Sizes(h, g) - h[b].size
  <2>1. Sized(h, f, End) /\ Sized(h, g, End) /\ h[b].size \in Nat
    BY <1>1, <1>15 DEF Sized
  <2>2. Sizes(h, g) = Sizes(h, f) + h[b].size /\ Sizes(h, f) \in Nat
    BY <2>1, SizesWith
  <2>3. Sizes(k, f) = Sizes(h, f)
    BY <1>10, <2>1, SizesSame
  <2> QED
    BY <2>1, <2>2, <2>3
<1>17. Sizes(k, DOMAIN k \ f) = Sizes(h, DOMAIN h \ g) + h[b].size
  <2> DEFINE T == DOMAIN h \ g
             S == DOMAIN k \ f
  <2>1. S \ {b} = T /\ b \in S
    BY <1>11
  <2>2. Sized(h, T, End) /\ Sized(k, S, End)
    BY <1>15 DEF Sized
  <2>3. k[b].size = h[b].size /\ \A a \in T : k[a].size = h[a].size
    BY <1>1, <1>3
  <2> HIDE DEF T, S
  <2>4. Sizes(k, S) = Sizes(k, S \ {b}) + k[b].size
    BY <2>1, <2>2, SizesWith
  <2>5. Sizes(k, T) = Sizes(h, T)
    BY <2>2, <2>3, SizesSame
  <2>6. Sizes(k, S) = Sizes(h, T) + h[b].size
    BY <2>1, <2>3, <2>4, <2>5
  <2> QED
    BY <2>6 DEF S, T
<1>18. b \in DOMAIN k \ f /\ b \notin {Start, End} /\ k[b].next = h[t].next /\ b \in DOMAIN k
      /\ DOMAIN k \subseteq DOMAIN h
  BY <1>1, <1>3
<1> HIDE DEF f
<1> QED
  BY <1>9, <1>10, <1>12, <1>13, <1>14, <1>16, <1>17, <1>18 DEF Freed, f

(* The block behind b, and adjacent to it, is joined to it.  The list is   *)
(* cut unless the one behind that is End.                                  *)
Absorbed(h, g, b, nn, k) ==
  /\ Heap(k, g) /\ DOMAIN k \subseteq DOMAIN h
  /\ \A a \in g : k[a].size = h[a].size
  /\ Sizes(k, g) = Sizes(h, g)
  /\ Sizes(k, DOMAIN k \ g) = Sizes(h, DOMAIN h \ g)
  /\ Whole(h, g) /\ nn = End => Whole(k, g)
  /\ Whole(h, g) /\ nn # End => Severed(k, g)
  /\ JoinedBut(h, g, b) => JoinedBut(k, g, End)
  /\ \A L : Apart(h, g, L) /\ b \notin L => Apart(k, g, L)

LEMMA NextKeeps ==
  ASSUME NEW h, NEW g, Heap(h, g), NEW b \in DOMAIN h \ g, b \notin {Start, End},
         Touches(h, b), NEW n, n = h[b].next, n # Null,
         NEW nn, nn = h[n].next, nn # Null, NEW k, k = JoinNext(h, b)
  PROVE  Absorbed(h, g, b, nn, k)
<1>0. /\ Start = -1 /\ Null = -2 /\ End \in Nat /\ End > 0 /\ End % Align = 0
      /\ {Start, 0, End} \subseteq DOMAIN h
      /\ Blocks(h) = DOMAIN h \ {Start} /\ g \subseteq Blocks(h) \ {End}
      /\ h[Start].size = 0 /\ h[End].size = 0
      /\ \A a \in DOMAIN h : /\ a \in Int /\ h[a].next \in Int
                             /\ h[a].size \in Nat /\ h[a].size % Align = 0
                             /\ a # Start => a \in 0 .. End /\ a % Align = 0
  BY HeapFacts
<1> USE <1>0
<1>1. /\ b \in Blocks(h) \ {End} /\ b + h[b].size = n /\ n # End
      /\ n \in Blocks(h) \ {End} /\ n \notin g /\ n > b
      /\ nn \in Blocks(h) /\ nn \notin g /\ nn > n
  BY DEF Heap, ListOf, Touches
<1>2. k = NextJoined(h, b, n, nn)
  <2>1. h \in [DOMAIN h -> [next : Int, size : Int]]
    BY DEF Heap, InHeap
  <2>2. /\ b \in DOMAIN h /\ n \in DOMAIN h /\ nn \in DOMAIN h
        /\ n # b /\ nn # b /\ nn # n
    BY <1>1
  <2> QED
    BY ONLY <2>1, <2>2, Touches(h, b), n = h[b].next, nn = h[n].next, k = JoinNext(h, b), NextIs
<1>3. /\ DOMAIN k = DOMAIN h \ {n}
      /\ \A a \in DOMAIN k :
           /\ k[a].next = IF a = nn THEN Null ELSE IF a = b THEN nn ELSE h[a].next
           /\ k[a].size = IF a = b THEN h[b].size + h[n].size ELSE h[a].size
  BY <1>2 DEF NextJoined, Record
<1>4. InHeap(k)
  <2>1. \A a \in DOMAIN k : k[a] \in [next : Int, size : Nat]
    <3>1. \A a \in DOMAIN k : k[a].next \in Int /\ k[a].size \in Nat
      BY <1>1, <1>3
    <3>2. \A a \in DOMAIN k : k[a] = [next |-> k[a].next, size |-> k[a].size]
      BY <1>2 DEF NextJoined, Record
    <3>3. ASSUME NEW a \in DOMAIN k PROVE k[a] \in [next : Int, size : Nat]
      <4> DEFINE x == k[a].next
                 z == k[a].size
      <4>1. x \in Int /\ z \in Nat /\ k[a] = [next |-> x, size |-> z]
        BY <3>1, <3>2
      <4> HIDE DEF x, z
      <4> QED
        BY <4>1
    <3> QED
      BY <3>3
  <2>2. k \in [DOMAIN k -> [next : Int, size : Nat]]
    <3>1. k = [a \in DOMAIN k |-> k[a]]
      BY <1>2 DEF NextJoined
    <3> QED
      BY <2>1, <3>1
  <2>3. \A a \in DOMAIN k : k[a].size % Align = 0
    <3> DEFINE x == h[b].size
               y == h[n].size
               z == k[b].size
    <3>1. x \in Int /\ x % Align = 0 /\ y \in Int /\ y % Align = 0 /\ z = x + y
      BY <1>1, <1>3
    <3> HIDE DEF x, y, z
    <3>2. z % Align = 0
      BY ONLY <3>1, AlignedSum
    <3> QED
      BY <1>3, <3>2 DEF z
  <2>4. 0 # n
    BY <1>1
  <2> QED
    BY <1>1, <1>3, <2>2, <2>3, <2>4 DEF Heap, InHeap, Blocks
<1>5. /\ \A a \in Blocks(h) \ {End} : h[a].size > 0 /\ a + h[a].size \in Blocks(h)
      /\ \A a, c \in Blocks(h) : a < c => a + h[a].size <= c
  BY DEF Heap, TiledBy
<1>6. k[b].size = h[b].size + h[n].size /\ b + k[b].size = n + h[n].size
  BY <1>1, <1>3
<1>7. TiledBy(k)
  <2>1. ASSUME NEW a \in Blocks(k) \ {End} PROVE k[a].size > 0 /\ a + k[a].size \in Blocks(k)
    <3>1. CASE a = b
      BY <1>1, <1>3, <1>5, <1>6, <3>1 DEF Blocks
    <3>2. CASE a # b
      <4>1. a \in Blocks(h) \ {End} /\ a # n /\ k[a].size = h[a].size
        BY <1>3, <3>2 DEF Blocks
      <4>2. a + h[a].size # n
        BY <1>1, <1>5, <3>2, <4>1
      <4> QED
        BY <1>3, <1>5, <4>1, <4>2 DEF Blocks
    <3> QED
      BY <3>1, <3>2
  <2>2. ASSUME NEW a \in Blocks(k), NEW c \in Blocks(k), a < c PROVE a + k[a].size <= c
    <3>1. a \in Blocks(h) /\ c \in Blocks(h) /\ c # n /\ a # n
      BY <1>3 DEF Blocks
    <3>2. CASE a = b
      <4>1. c > n
        BY <1>1, <1>5, <2>2, <3>1, <3>2
      <4>2. n + h[n].size <= c
        BY <1>1, <1>5, <3>1, <4>1
      <4> QED
        BY <1>6, <3>2, <4>2
    <3>3. CASE a # b
      BY <1>3, <1>5, <2>2, <3>1, <3>3
    <3> QED
      BY <3>2, <3>3
  <2>3. k[Start].size = 0 /\ k[End].size = 0
    BY <1>1, <1>3
  <2> QED
    BY <2>1, <2>2, <2>3 DEF TiledBy
<1>8. /\ \A a \in DOMAIN h : h[a].next # Null => h[a].next \in DOMAIN h \ g /\ h[a].next > a
      /\ \A x, y \in DOMAIN h : h[x].next = h[y].next => h[x].next = Null \/ x = y
      /\ \A a \in g : h[a].next = Null
  BY DEF Heap, ListOf
<1>9. \A a \in DOMAIN k : a # b => h[a].next # n /\ h[a].next # nn
  BY <1>1, <1>3, <1>8
<1>10. ListOf(k, g)
  <2>1. \A a \in DOMAIN k : k[a].next # Null => k[a].next \in DOMAIN k \ g /\ k[a].next > a
    BY <1>1, <1>3, <1>8, <1>9
  <2>2. ASSUME NEW x \in DOMAIN k, NEW y \in DOMAIN k, k[x].next = k[y].next
        PROVE  k[x].next = Null \/ x = y
    BY <1>1, <1>3, <1>8, <1>9, <2>2
  <2>3. \A a \in g : k[a].next = Null
    BY <1>1, <1>3, <1>8
  <2> QED
    BY <2>1, <2>2, <2>3 DEF ListOf
<1>11. Heap(k, g)
  BY <1>1, <1>3, <1>4, <1>7, <1>10 DEF Heap, Blocks
<1>12. \A a \in g : k[a].size = h[a].size
  BY <1>1, <1>3
<1>13. DOMAIN k \ g = (DOMAIN h \ g) \ {n} /\ n \in DOMAIN h \ g /\ b \in DOMAIN k \ g
  BY <1>1, <1>3
<1>14. ASSUME Whole(h, g), nn = End PROVE Whole(k, g)
  <2>1. \A c \in DOMAIN h \ g : c > n => nn <= c
    BY <1>1, <1>14 DEF Whole
  <2>2. \A c \in DOMAIN h \ g : c > b => n <= c
    BY <1>1, <1>14 DEF Whole
  <2>3. ASSUME NEW a \in DOMAIN k \ g, a # End
        PROVE  /\ k[a].next \in DOMAIN k \ g /\ k[a].next > a
               /\ \A c \in DOMAIN k \ g : c > a => k[a].next <= c
    <3>1. CASE a = b
      <4>1. k[a].next = nn /\ nn \in DOMAIN k \ g /\ nn > a
        BY <1>1, <1>3, <3>1
      <4>2. ASSUME NEW c \in DOMAIN k \ g, c > a PROVE nn <= c
        BY <1>1, <1>13, <2>1, <2>2, <3>1, <4>2
      <4> QED
        BY <4>1, <4>2
    <3>2. CASE a # b
      BY <1>1, <1>3, <1>9, <1>13, <1>14, <2>3, <3>2 DEF Whole
    <3> QED
      BY <3>1, <3>2
  <2> QED
    BY <2>3 DEF Whole
<1>15. ASSUME Whole(h, g), nn # End PROVE Severed(k, g)
  <2> DEFINE L == {a \in DOMAIN k \ g : a > nn}
  <2>1. Start \notin L /\ End \in L /\ nn \notin L /\ b \notin L
    BY <1>1, <1>3, <1>15
  <2>2. ASSUME NEW a \in DOMAIN k, k[a].next # Null PROVE a \in L <=> k[a].next \in L
    <3>1. CASE a = b
      BY <1>1, <1>3, <2>1, <2>2, <3>1
    <3>2. CASE a # b
      <4>1. a # nn /\ k[a].next = h[a].next /\ h[a].next \in DOMAIN k \ g /\ h[a].next > a
            /\ a \notin g /\ a # End
        BY <1>1, <1>3, <1>8, <1>9, <2>2, <3>2, EndIsLast
      <4>2. nn > a => h[a].next <= nn
        BY <1>1, <1>3, <1>15, <4>1 DEF Whole
      <4> QED
        BY <1>1, <1>3, <4>1, <4>2
    <3> QED
      BY <3>1, <3>2
  <2>3. L \in SUBSET DOMAIN k /\ L \subseteq DOMAIN k \ g
    OBVIOUS
  <2> HIDE DEF L
  <2>4. Apart(k, g, L)
    BY <2>1, <2>2, <2>3 DEF Apart
  <2> QED
    BY <2>3, <2>4 DEF Severed
<1>16. ASSUME JoinedBut(h, g, b) PROVE JoinedBut(k, g, End)
  <2>1. ASSUME NEW a \in FreeIn(k, g), NEW c \in FreeIn(k, g) PROVE a + k[a].size # c
    <3>1. /\ a \in FreeIn(h, g) /\ c \in FreeIn(h, g)
          /\ n \in FreeIn(h, g) /\ n # b
      BY <1>1, <1>13 DEF FreeIn
    <3>2. CASE a = b
      BY <1>6, <1>16, <3>1, <3>2 DEF JoinedBut
    <3>3. CASE a # b
      BY <1>3, <1>16, <3>1, <3>3 DEF JoinedBut, FreeIn
    <3> QED
      BY <3>2, <3>3
  <2> QED
    BY <2>1 DEF JoinedBut
<1>17. ASSUME NEW L, Apart(h, g, L), b \notin L PROVE Apart(k, g, L)
  <2>1. n \notin L /\ nn \notin L
    BY <1>1, <1>17 DEF Apart
  <2> QED
    BY <1>1, <1>3, <1>13, <1>17, <2>1 DEF Apart
<1>18. Sized(h, DOMAIN h, End) /\ Sized(k, DOMAIN k, End)
  BY <1>11, HeapSized
<1>19. Sizes(k, g) = Sizes(h, g)
  <2>1. Sized(h, g, End)
    BY <1>18 DEF Sized
  <2> QED
    BY <1>12, <2>1, SizesSame
<1>20. Sizes(k, DOMAIN k \ g) = Sizes(h, DOMAIN h \ g)
  <2> DEFINE T == DOMAIN h \ g
             S == DOMAIN k \ g
  <2>1. S = T \ {n} /\ b \in S /\ n \in T
    BY <1>1, <1>13
  <2>2. Sized(h, T, End) /\ Sized(h, S, End) /\ Sized(k, S, End)
    BY <1>18, <1>13 DEF Sized
  <2>3. \A a \in S \ {b} : k[a].size = h[a].size
    BY <1>3
  <2>4. h[n].size \in Nat /\ h[b].size \in Nat
    BY <1>1
  <2> HIDE DEF T, S
  <2>5. Sizes(h, T) = Sizes(h, T \ {n}) + h[n].size /\ Sizes(h, T \ {n}) \in Nat
    BY <2>1, <2>2, SizesWith
  <2>6. Sizes(k, S) = Sizes(h, S) - h[b].size + k[b].size
    BY <2>1, <2>2, <2>3, SizesChange
  <2>7. Sizes(h, T \ {n}) = Sizes(h, S)
    BY <2>1
  <2>8. Sizes(k, S) = Sizes(h, T)
    BY <1>6, <2>4, <2>5, <2>6, <2>7
  <2> QED
    BY <2>8 DEF S, T
<1>21. DOMAIN k \subseteq DOMAIN h
  BY <1>3
<1> QED
  BY <1>11, <1>12, <1>14, <1>15, <1>16, <1>17, <1>19, <1>20, <1>21 DEF Absorbed

(* A block that does not touch the next one of a whole list touches none.  *)
LEMMA ApartFromNext ==
  ASSUME NEW h, NEW g, Heap(h, g), NEW b \in DOMAIN h \ g, b \notin {Start, End},
         ~Touches(h, b), Whole(h, g), JoinedBut(h, g, b)
  PROVE  JoinedBut(h, g, End)
<1>0. /\ Start = -1 /\ Null = -2 /\ End \in Nat /\ End > 0 /\ End % Align = 0
      /\ {Start, 0, End} \subseteq DOMAIN h
      /\ Blocks(h) = DOMAIN h \ {Start} /\ g \subseteq Blocks(h) \ {End}
      /\ h[Start].size = 0 /\ h[End].size = 0
      /\ \A a \in DOMAIN h : /\ a \in Int /\ h[a].next \in Int
                             /\ h[a].size \in Nat /\ h[a].size % Align = 0
                             /\ a # Start => a \in 0 .. End /\ a % Align = 0
  BY HeapFacts
<1> USE <1>0
<1>1. ASSUME NEW c \in FreeIn(h, g), b + h[b].size = c PROVE FALSE
  <2> DEFINE n == h[b].next
  <2>1. b \in Blocks(h) \ {End} /\ c \in Blocks(h) \ {End} /\ c \in DOMAIN h \ g
    BY DEF FreeIn
  <2>2. c > b
    BY <1>1, <2>1 DEF Heap, TiledBy
  <2>3. n \in Blocks(h) /\ n > b /\ n <= c
    BY <2>1, <2>2 DEF Whole
  <2>4. b + h[b].size <= n
    BY <2>1, <2>3 DEF Heap, TiledBy
  <2>5. c = n
    BY <1>1, <2>1, <2>3, <2>4
  <2> QED
    BY <1>1, <2>1, <2>5 DEF Touches
<1> QED
  BY <1>1 DEF JoinedBut
-----------------------------------------------------------------------------
(* The inductive invariant.  Once a header is written over memory that is  *)
(* not its own, a size is negative and nothing is claimed of the heap:     *)
(* until then it is well-formed, what is granted holds what was asked for, *)
(* and remaining is what is not granted.                                   *)
Granted == DOMAIN live

Sane == \A a \in DOMAIN blk : blk[a].size >= 0

HeapState ==
  /\ Heap(blk, Granted)
  /\ \A a \in Granted : blk[a].size >= Header + live[a]
  /\ Sizes(blk, DOMAIN blk \ Granted) = remaining
  /\ Sizes(blk, Granted) = End - remaining
  /\ \/ Whole(blk, Granted) /\ JoinedBut(blk, Granted, End)
     \/ Severed(blk, Granted)

(* Callers that free in reverse order: what is granted is a stack, below   *)
(* what is free.                                                           *)
Stacked ==
  /\ Sane /\ Whole(blk, Granted) /\ JoinedBut(blk, Granted, End)
  /\ Range(stack) = Granted
  /\ \A i, j \in 1 .. Len(stack) : i < j => stack[i] < stack[j]
  /\ \A a \in FreeIn(blk, Granted) : \A l \in Granted : l < a

Refusal ==
  refused # 0 /\ Sane /\ Whole(blk, Granted) =>
    \A a \in FreeIn(blk, Granted) : blk[a].size < BlockSize(refused)

Types ==
  /\ TypeOK
  /\ blk \in [DOMAIN blk -> [next : Int, size : Int]]
  /\ live \in [DOMAIN live -> Requests]
  /\ ~nested => stack = <<>>

IInv == Types /\ (Sane => HeapState) /\ (nested => Stacked) /\ Refusal

AllAddr == { a \in 0 .. 2 * HeapSize : a % Align = 0 }

BlkTypes(h) ==
  /\ DOMAIN h \subseteq AllAddr \cup {Start}
  /\ \A a \in DOMAIN h : /\ h[a].next \in AllAddr \cup {Null}
                         /\ h[a].size \in -HeapSize .. HeapSize
                         /\ h[a].size % Align = 0
  /\ h \in [DOMAIN h -> [next : Int, size : Int]]

LEMMA TypesAre ==
  Types <=> /\ BlkTypes(blk)
            /\ remaining \in 0 .. End
            /\ Granted \subseteq AllAddr /\ live \in [Granted -> Requests]
            /\ stack \in Seq(Granted) /\ (~nested => stack = <<>>)
            /\ nested \in BOOLEAN
            /\ refused \in Requests \cup {0}
<1>1. live \in [Granted -> Requests] => Range(live) \subseteq Requests
  BY DEF Range, Granted
<1> QED
  BY <1>1 DEF Types, TypeOK, BlkTypes, AllAddr, Granted

LEMMA TypesNext ==
  ASSUME BlkTypes(blk'), remaining' \in 0 .. End,
         Granted' \subseteq AllAddr, live' \in [Granted' -> Requests],
         stack' \in Seq(Granted'), ~nested' => stack' = <<>>,
         nested' \in BOOLEAN, refused' \in Requests \cup {0}
  PROVE  Types'
<1>1. Range(live') \subseteq Requests
  BY DEF Range, Granted
<1> QED
  BY <1>1 DEF Types, TypeOK, BlkTypes, AllAddr, Granted

LEMMA HeapTyped ==
  ASSUME NEW h, NEW g, Heap(h, g)
  PROVE  BlkTypes(h) /\ g \subseteq AllAddr
<1>0. /\ Start = -1 /\ Null = -2 /\ End \in Nat /\ End > 0 /\ End % Align = 0
      /\ {Start, 0, End} \subseteq DOMAIN h
      /\ Blocks(h) = DOMAIN h \ {Start} /\ g \subseteq Blocks(h) \ {End}
      /\ h[Start].size = 0 /\ h[End].size = 0
      /\ \A a \in DOMAIN h : /\ a \in Int /\ h[a].next \in Int
                             /\ h[a].size \in Nat /\ h[a].size % Align = 0
                             /\ a # Start => a \in 0 .. End /\ a % Align = 0
  BY HeapFacts
<1> USE <1>0
<1>1. End <= HeapSize /\ HeapSize \in Nat
  BY EndIs, HeapAssumption
<1>2. \A a \in Blocks(h) : a \in AllAddr
  BY <1>1 DEF AllAddr
<1>3. ASSUME NEW a \in DOMAIN h
      PROVE  /\ h[a].next \in AllAddr \cup {Null}
             /\ h[a].size \in -HeapSize .. HeapSize
  <2>1. h[a].next # Null => h[a].next \in Blocks(h)
    BY DEF Heap, ListOf
  <2>2. a \in Blocks(h) \ {End} => a + h[a].size \in Blocks(h)
    BY DEF Heap, TiledBy
  <2>3. h[a].size <= End
    BY <2>2
  <2> QED
    BY <1>1, <1>2, <2>1, <2>3
<1>4. h \in [DOMAIN h -> [next : Int, size : Int]]
  BY DEF Heap, InHeap
<1> QED
  BY <1>2, <1>3, <1>4 DEF BlkTypes

(* A defined heap is a well-formed one. *)
LEMMA DefinedIs ==
  ASSUME IInv, Defined
  PROVE  Sane /\ HeapState /\ blk[Start].next # Null
BY DEF IInv, Defined, Sane

(* What is granted and what is not add up to the heap. *)
LEMMA SumsBound ==
  ASSUME NEW h, NEW g, NEW n, Heap(h, g), n \in Int,
         Sizes(h, DOMAIN h \ g) = n, Sizes(h, g) = End - n
  PROVE  n \in 0 .. End
<1> DEFINE S == DOMAIN h
           F == S \ g
<1>1. End \in Nat
  BY EndIs
<1>2. Sized(h, S, End) /\ F \in SUBSET S /\ g \in SUBSET S /\ F \cap g = {}
  BY HeapSized, HeapFacts DEF Heap, Blocks
<1>3. Sizes(h, F) \in Nat /\ Sizes(h, g) \in Nat
  <2> HIDE DEF S, F
  <2> QED
    BY <1>2, SizesAdd
<1> QED
  BY <1>1, <1>3

(* With free blocks above all granted ones, there is one at most. *)
LEMMA OneFree ==
  ASSUME NEW h, NEW g, Heap(h, g), JoinedBut(h, g, End),
         \A a \in FreeIn(h, g) : \A l \in g : l < a,
         NEW x \in FreeIn(h, g), NEW y \in FreeIn(h, g)
  PROVE  x = y
<1>0. /\ Start = -1 /\ Null = -2 /\ End \in Nat /\ End > 0 /\ End % Align = 0
      /\ {Start, 0, End} \subseteq DOMAIN h
      /\ Blocks(h) = DOMAIN h \ {Start} /\ g \subseteq Blocks(h) \ {End}
      /\ h[Start].size = 0 /\ h[End].size = 0
      /\ \A a \in DOMAIN h : /\ a \in Int /\ h[a].next \in Int
                             /\ h[a].size \in Nat /\ h[a].size % Align = 0
                             /\ a # Start => a \in 0 .. End /\ a % Align = 0
  BY HeapFacts
<1> USE <1>0
<1>1. ASSUME NEW a \in FreeIn(h, g), NEW b \in FreeIn(h, g), a < b PROVE FALSE
  <2> DEFINE c == a + h[a].size
  <2>1. a \in Blocks(h) \ {End} /\ b \in Blocks(h) \ {End} /\ a \notin g
    BY DEF FreeIn
  <2>2. c \in Blocks(h) /\ c > a /\ c <= b
    BY <1>1, <2>1 DEF Heap, TiledBy
  <2>3. c # End /\ c # Start
    BY <2>1, <2>2
  <2> HIDE DEF c
  <2>4. c \notin g
    BY <2>1, <2>2, HeapFacts
  <2>5. c \in FreeIn(h, g)
    BY <2>2, <2>3, <2>4 DEF FreeIn
  <2> QED
    BY <2>1, <2>5 DEF JoinedBut, c
<1>2. x \in Int /\ y \in Int
  BY DEF FreeIn
<1> QED
  BY <1>1, <1>2
-----------------------------------------------------------------------------
(* The steps keep the invariant. *)
LEMMA InitKeeps ==
  ASSUME Init
  PROVE  IInv
<1>0. Start = -1 /\ Null = -2 /\ End \in Nat /\ End > 0 /\ End % Align = 0
  BY EndIs DEF Start, Null
<1> USE <1>0
<1>1. /\ DOMAIN blk = {Start, 0, End}
      /\ blk[Start] = [next |-> 0, size |-> 0]
      /\ blk[0] = [next |-> End, size |-> End]
      /\ blk[End] = [next |-> Null, size |-> 0]
  <2> DEFINE val(a) == CASE a = Start -> [next |-> 0, size |-> 0]
                         [] a = 0     -> [next |-> End, size |-> End]
                         [] a = End   -> [next |-> Null, size |-> 0]
  <2>1. blk = [a \in {Start, 0, End} |-> val(a)]
    BY DEF Init
  <2>2. /\ val(Start) = [next |-> 0, size |-> 0]
        /\ val(0) = [next |-> End, size |-> End]
        /\ val(End) = [next |-> Null, size |-> 0]
    OBVIOUS
  <2> HIDE DEF val
  <2> QED
    BY <2>1, <2>2
<1>2. Granted = {} /\ live = <<>> /\ stack = <<>> /\ remaining = End /\ refused = 0
  BY DEF Init, Granted
<1>3. \A a \in DOMAIN blk : /\ a = Start \/ a = 0 \/ a = End
                            /\ blk[a].next \in {0, End, Null} /\ blk[a].size \in {0, End}
  BY <1>1
<1>4. InHeap(blk)
  <2>1. \A a \in DOMAIN blk : blk[a] \in [next : Int, size : Nat]
    BY <1>1
  <2>2. blk = [a \in DOMAIN blk |-> blk[a]]
    BY DEF Init
  <2>3. blk \in [DOMAIN blk -> [next : Int, size : Nat]]
    BY <2>1, <2>2
  <2>4. Blocks(blk) \subseteq Addresses
    BY <1>1, EndIs DEF Blocks
  <2>5. 0 % Align = 0
    BY EndIs DEF Addresses
  <2> QED
    BY <1>1, <1>3, <2>3, <2>4, <2>5 DEF InHeap
<1>5. TiledBy(blk)
  <2>1. Blocks(blk) = {0, End}
    BY <1>1 DEF Blocks
  <2> QED
    BY <1>1, <2>1 DEF TiledBy
<1>6. ListOf(blk, Granted)
  BY <1>1, <1>2, <1>3 DEF ListOf
<1>7. Heap(blk, Granted)
  BY <1>2, <1>4, <1>5, <1>6 DEF Heap
<1>8. FreeIn(blk, Granted) = {0}
  BY <1>1, <1>2 DEF FreeIn
<1>9. Whole(blk, Granted) /\ JoinedBut(blk, Granted, End)
  <2>1. Whole(blk, Granted)
    BY <1>1, <1>2 DEF Whole
  <2>2. JoinedBut(blk, Granted, End)
    BY <1>1, <1>8 DEF JoinedBut
  <2> QED
    BY <2>1, <2>2
<1>10. Sizes(blk, DOMAIN blk \ Granted) = remaining /\ Sizes(blk, Granted) = End - remaining
  <2> DEFINE A == {Start, 0, End}
             B == {Start, 0}
             C == {Start}
  <2>1. Sized(blk, A, End) /\ Sized(blk, B, End) /\ Sized(blk, C, End)
    BY <1>1 DEF Sized
  <2>2. A \ {End} = B /\ B \ {0} = C /\ End \in A /\ 0 \in B
    OBVIOUS
  <2>3. Sizes(blk, C) = blk[Start].size /\ Sizes(blk, {}) = 0
    BY <2>1, SizesOfOne
  <2> HIDE DEF A, B, C
  <2>4. Sizes(blk, B) = Sizes(blk, C) + blk[0].size
    BY <2>1, <2>2, SizesWith
  <2>5. Sizes(blk, A) = Sizes(blk, B) + blk[End].size
    BY <2>1, <2>2, SizesWith
  <2>6. Sizes(blk, A) = End
    BY <1>1, <2>3, <2>4, <2>5
  <2>7. DOMAIN blk \ Granted = A
    BY <1>1, <1>2 DEF A
  <2> QED
    BY <1>2, <2>3, <2>6, <2>7
<1>11. HeapState /\ Sane
  BY <1>1, <1>2, <1>3, <1>7, <1>9, <1>10 DEF HeapState, Sane
<1>12. Types
  <2>1. BlkTypes(blk)
    BY <1>7, HeapTyped
  <2>2. nested \in BOOLEAN
    BY DEF Init
  <2>3. live \in [Granted -> Requests] /\ stack \in Seq(Granted)
    BY <1>2
  <2> QED
    BY <1>2, <2>1, <2>2, <2>3, TypesAre
<1>13. Stacked
  <2>1. Range(stack) = {} /\ Len(stack) = 0
    BY <1>2 DEF Range
  <2> QED
    BY <1>2, <1>9, <1>11, <2>1 DEF Stacked
<1> QED
  BY <1>2, <1>11, <1>12, <1>13 DEF IInv, Refusal

LEMMA MallocFailsKeeps ==
  ASSUME IInv, NEW r \in Requests, MallocFails(r)
  PROVE  IInv'
<1> DEFINE s == BlockSize(r)
           g == Granted
           c == Chain(blk)
           i == FirstFit(blk, s)
<1>1. Defined /\ refused' = r /\ UNCHANGED <<blk, remaining, live, stack, nested>>
  BY DEF MallocFails
<1>2. Sane /\ HeapState /\ blk[Start].next # Null
  BY <1>1, DefinedIs
<1>3. Heap(blk, g) /\ s \in Nat /\ s > 0
  BY <1>2, BlockSizeIs DEF HeapState
<1>4. ASSUME Whole(blk, g), NEW a \in FreeIn(blk, g) PROVE blk[a].size < s
  <2>1. a \in DOMAIN blk \ g /\ a # End /\ a # Start /\ blk[a].size \in Nat
    BY <1>3, HeapFacts DEF FreeIn
  <2>2. CASE ~Fits(s)
    <3> DEFINE S == DOMAIN blk \ g
    <3>1. Sized(blk, S, End)
      BY <1>3, HeapSized DEF Sized
    <3>2. a \in S
      BY <2>1
    <3>3. blk[a].size <= Sizes(blk, S)
      <4> HIDE DEF S
      <4> QED
        BY <3>1, <3>2, SizesWith
    <3>4. blk[a].size <= remaining /\ remaining \in Nat
      BY <1>2, <3>3, TypesAre, EndIs DEF HeapState, IInv
    <3> QED
      BY <1>3, <2>1, <2>2, <3>4 DEF Fits
  <2>3. CASE Fits(s)
    <3>1. c[i] = End
      BY <2>3 DEF MallocFails
    <3>2. Path(c, blk, Start)
      BY <1>3, HeapIsLinked DEF Heap
    <3>3. Range(c) = DOMAIN blk \ g /\ Len(c) \in Nat /\ DOMAIN c = 1 .. Len(c) /\ c[1] = Start
      BY <1>3, <1>4, <3>2, WholeIsListed DEF Path
    <3>4. PICK j \in 1 .. Len(c) : c[j] = a
      BY <2>1, <3>3 DEF Range
    <3>5. i \in 2 .. Len(c) /\ \A m \in 2 .. i - 1 : blk[c[m]].size < s
      <4> HIDE DEF i, s, c
      <4> QED
        BY <1>2, <1>3, FirstFitIs DEF i, c, Stop
    <3> HIDE DEF c, i
    <3>6. j # 1
      BY <2>1, <3>3, <3>4
    <3>7. ~(j > i)
      <4> SUFFICES ASSUME j > i PROVE FALSE
        OBVIOUS
      <4>1. i \in 1 .. Len(c) - 1
        BY <3>3, <3>4, <3>5
      <4>2. blk[c[i]].next = c[i + 1] /\ c[i + 1] \in DOMAIN blk
        <5>1. i + 1 \in 1 .. Len(c) /\ c \in Seq(DOMAIN blk)
          BY <3>2, <4>1 DEF Path
        <5> QED
          BY <3>2, <4>1, <5>1 DEF Path
      <4>3. blk[End].next = Null
        BY <1>3, EndIsLast
      <4>4. Null \notin DOMAIN blk
        BY <1>3, HeapFacts
      <4> QED
        BY <3>1, <4>2, <4>3, <4>4
    <3>8. j # i
      BY <2>1, <3>1, <3>4
    <3>9. j \in 2 .. i - 1
      BY <3>3, <3>4, <3>5, <3>6, <3>7, <3>8
    <3> QED
      BY <3>4, <3>5, <3>9
  <2> QED
    BY <2>2, <2>3
<1>5. Refusal'
  BY <1>1, <1>4 DEF Refusal, Granted
<1>6. Types'
  BY <1>1 DEF IInv, Types, TypeOK
<1>7. (Sane => HeapState)' /\ (nested => Stacked)'
  BY <1>1 DEF IInv, Sane, HeapState, Stacked, Granted
<1> QED
  BY <1>5, <1>6, <1>7 DEF IInv
(* Where mm_malloc finds its block, c, and what stands before it, p. *)
Found(p, c, s) ==
  /\ p \in DOMAIN blk \ Granted /\ c = blk[p].next /\ c # Null
  /\ blk[c].size >= s \/ blk[c].next = Null
  /\ \A L : Apart(blk, Granted, L) => p \notin L

LEMMA MallocFinds ==
  ASSUME IInv, Defined, NEW s \in Nat
  PROVE  Found(Chain(blk)[FirstFit(blk, s) - 1], Chain(blk)[FirstFit(blk, s)], s)
<1> DEFINE c == Chain(blk)
           i == FirstFit(blk, s)
<1>1. HeapState /\ blk[Start].next # Null
  BY DefinedIs
<1>2. Heap(blk, Granted)
  BY <1>1 DEF HeapState
<1>3. /\ i \in 2 .. Len(c)
      /\ blk[c[i]].size >= s \/ blk[c[i]].next = Null
      /\ c[i - 1] \in DOMAIN blk \ Granted /\ c[i] \in DOMAIN blk \ Granted
      /\ blk[c[i - 1]].next = c[i]
  <2> DEFINE g == Granted
  <2>1. c = Chain(blk) /\ i = FirstFit(blk, s) /\ Heap(blk, g)
    BY <1>2
  <2> HIDE DEF c, i, g
  <2>2. Stop(blk, g, s, c, i)
    BY <1>1, <2>1, FirstFitIs
  <2> QED
    BY <2>2 DEF g, Stop
<1>4. Path(c, blk, Start)
  BY <1>2, HeapIsLinked DEF Heap
<1> HIDE DEF c, i
<1>5. c[i] # Null
  <2>1. Null \notin DOMAIN blk
    BY <1>2, HeapFacts
  <2> QED
    BY <1>3, <2>1
<1>6. ASSUME NEW L, Apart(blk, Granted, L) PROVE c[i - 1] \notin L
  <2>1. Len(c) \in Nat /\ i - 1 \in 1 .. Len(c)
    BY <1>3, <1>4 DEF Path
  <2> QED
    BY <1>2, <1>4, <1>6, <2>1, ApartIsNotListed
<1> QED
  BY <1>3, <1>5, <1>6 DEF Found, c, i

LEMMA MallocKeeps ==
  ASSUME IInv, NEW r \in Requests, Malloc(r)
  PROVE  IInv'
<1> DEFINE s == BlockSize(r)
           p == Chain(blk)[FirstFit(blk, s) - 1]
           c == Chain(blk)[FirstFit(blk, s)]
           g == Granted
           f == Granted \cup {c}
<1>1. Sane /\ HeapState /\ Heap(blk, g) /\ blk[Start].next # Null
  BY DefinedIs DEF Malloc, HeapState
<1>2. s \in Nat /\ s > 0 /\ s % Align = 0 /\ s >= Header + r /\ Header \in Nat /\ r \in Nat
  BY BlockSizeIs, HeapAssumption
<1>3. /\ s <= remaining /\ c # End
      /\ blk' = Carve(blk, p, c, s)
      /\ remaining' = remaining - blk'[c].size
      /\ live' = Put(live, c, r)
      /\ stack' = IF nested THEN Append(stack, c) ELSE stack
      /\ refused' = 0 /\ nested' = nested
  BY DEF Malloc, Fits
<1>4. Found(p, c, s)
  BY <1>2, MallocFinds DEF Malloc
<1> HIDE DEF s, p, c
<1>5. /\ p \in DOMAIN blk \ g /\ c = blk[p].next /\ c # Null /\ c # p
      /\ c \in Blocks(blk) \ {End} /\ c \notin g /\ c \in Nat
      /\ blk[c].size \in Nat /\ c \in FreeIn(blk, g) /\ c \in DOMAIN blk /\ p # c
  <2>1. p \in DOMAIN blk \ g /\ c = blk[p].next /\ c # Null
    BY <1>4 DEF Found
  <2>2. c \in DOMAIN blk \ g /\ c > p
    BY <1>1, <2>1 DEF Heap, ListOf
  <2> QED
    BY <1>1, <1>3, <2>1, <2>2, HeapFacts DEF FreeIn
<1>6. /\ Granted' = f
      /\ live' = [a \in f |-> IF a = c THEN r ELSE live[a]]
  BY <1>3 DEF Granted, Put
<1>7. /\ live \in [g -> Requests] /\ stack \in Seq(g) /\ (~nested => stack = <<>>)
      /\ nested \in BOOLEAN /\ remaining \in 0 .. End /\ g \subseteq AllAddr /\ BlkTypes(blk)
  BY TypesAre DEF IInv
<1>8. /\ live' \in [f -> Requests] /\ stack' \in Seq(f) /\ (~nested' => stack' = <<>>)
      /\ nested' \in BOOLEAN /\ refused' = 0
  <2>1. stack \in Seq(f)
    BY <1>7
  <2> QED
    BY <1>3, <1>6, <1>7, <2>1
<1>9. CASE blk[c].size >= s
  <2>1. Carved(blk, g, p, c, s, blk')
    <3> DEFINE k == blk'
               h == blk
    <3>1. /\ Heap(h, g) /\ p \in DOMAIN h \ g /\ c = h[p].next /\ c # Null /\ c # End
          /\ s \in Nat /\ s > 0 /\ s % Align = 0 /\ k = Carve(h, p, c, s)
      BY <1>1, <1>2, <1>3, <1>5
    <3>2. BlockMin \in Nat /\ h[c].size \in Nat /\ h[c].size >= s
      BY <1>5, <1>9, HeapAssumption DEF BlockMin
    <3> HIDE DEF g, h, k
    <3>3. CASE h[c].size - s > BlockMin
      BY <3>1, <3>3, SplitKeeps DEF h, k
    <3>4. CASE h[c].size - s <= BlockMin
      <4>1. h[c].size - s >= 0
        BY <1>2, <3>2
      <4> QED
        BY <3>1, <3>4, <4>1, TakeKeeps DEF h, k
    <3>5. h[c].size - s > BlockMin \/ h[c].size - s <= BlockMin
      BY <1>2, <3>2
    <3> QED
      BY <3>3, <3>4, <3>5
  <2>2. Heap(blk', f) /\ blk'[c].size >= s /\ \A a \in g : blk'[a].size = blk[a].size
    BY <2>1 DEF Carved
  <2>3. blk'[c].size \in Nat
    BY <2>2, HeapFacts
  <2>4. HeapState'
    <3>1. Sizes(blk', DOMAIN blk' \ f) = remaining' /\ Sizes(blk', f) = End - remaining'
      <4>1. /\ Sizes(blk', f) = Sizes(blk, g) + blk'[c].size
            /\ Sizes(blk', DOMAIN blk' \ f) = Sizes(blk, DOMAIN blk \ g) - blk'[c].size
        BY <2>1 DEF Carved
      <4>2. Sizes(blk, DOMAIN blk \ g) = remaining /\ Sizes(blk, g) = End - remaining
        BY <1>1 DEF HeapState
      <4>3. End \in Nat /\ remaining \in Nat
        BY <1>7, EndIs
      <4> QED
        BY <1>3, <2>3, <4>1, <4>2, <4>3
    <3>2. ASSUME NEW a \in f PROVE blk'[a].size >= Header + live'[a]
      <4>1. CASE a = c
        BY <1>2, <1>6, <2>2, <2>3, <4>1
      <4>2. CASE a # c
        BY <1>1, <1>6, <2>2, <4>2 DEF HeapState
      <4> QED
        BY <4>1, <4>2
    <3>3. \/ Whole(blk', f) /\ JoinedBut(blk', f, End)
          \/ Severed(blk', f)
      <4>1. CASE Whole(blk, g) /\ JoinedBut(blk, g, End)
        BY <2>1, <4>1 DEF Carved
      <4>2. CASE Severed(blk, g)
        <5>1. PICK L : Apart(blk, g, L)
          BY <4>2 DEF Severed
        <5>2. Apart(blk', f, L)
          BY <1>4, <2>1, <5>1 DEF Carved, Found
        <5> QED
          BY <5>2 DEF Severed, Apart
      <4> QED
        BY <1>1, <4>1, <4>2 DEF HeapState
    <3> HIDE DEF f
    <3> QED
      BY <1>6, <2>2, <3>1, <3>2, <3>3 DEF HeapState
  <2>5. Sane'
    BY <2>2, HeapFacts DEF Sane
  <2>6. Types'
    <3>1. BlkTypes(blk') /\ f \subseteq AllAddr
      BY <2>2, HeapTyped
    <3>2. remaining' \in 0 .. End
      <4>1. Sizes(blk', DOMAIN blk' \ f) = remaining' /\ Sizes(blk', f) = End - remaining'
        BY <1>6, <2>4 DEF HeapState
      <4>2. remaining' \in Int
        BY <1>3, <1>7, <2>3
      <4> HIDE DEF f
      <4> QED
        BY <2>2, <4>1, <4>2, SumsBound
    <3> HIDE DEF f
    <3> QED
      BY <1>6, <1>8, <3>1, <3>2, TypesNext
  <2>7. ASSUME nested PROVE Stacked'
    <3>1. Stacked
      BY <2>7 DEF IInv
    <3>2. Whole(blk', f) /\ JoinedBut(blk', f, End)
      BY <2>1, <3>1 DEF Carved, Stacked
    <3>3. \A l \in g : l < c
      BY <1>5, <3>1 DEF Stacked
    <3>4. stack' = Append(stack, c) /\ Len(stack) \in Nat /\ Range(stack) = g
      BY <1>3, <1>7, <2>7, <3>1 DEF Stacked
    <3>5. /\ Len(stack') = Len(stack) + 1 /\ stack'[Len(stack) + 1] = c
          /\ \A j \in 1 .. Len(stack) : stack'[j] = stack[j] /\ stack[j] \in g
      BY <1>7, <3>4
    <3>6. Range(stack') = f
      <4>1. DOMAIN stack = 1 .. Len(stack) /\ DOMAIN stack' = 1 .. Len(stack) + 1
        BY <1>7, <1>8, <3>4, <3>5
      <4>2. \A j \in DOMAIN stack' : stack'[j] \in f
        BY <3>4, <3>5, <4>1
      <4>3. ASSUME NEW a \in f PROVE \E j \in DOMAIN stack' : stack'[j] = a
        <5>1. CASE a = c
          BY <3>4, <3>5, <4>1, <5>1
        <5>2. CASE a \in g
          <6>1. PICK j \in DOMAIN stack : stack[j] = a
            BY <3>4, <5>2 DEF Range
          <6> QED
            BY <3>4, <3>5, <4>1, <6>1
        <5> QED
          BY <5>1, <5>2
      <4> HIDE DEF f
      <4> QED
        BY <4>2, <4>3 DEF Range
    <3>7. ASSUME NEW a \in 1 .. Len(stack'), NEW b \in 1 .. Len(stack'), a < b
          PROVE  stack'[a] < stack'[b]
      <4>1. a \in 1 .. Len(stack)
        BY <3>4, <3>5, <3>7
      <4>2. CASE b = Len(stack) + 1
        BY <3>3, <3>5, <4>1, <4>2
      <4>3. CASE b # Len(stack) + 1
        <5>1. b \in 1 .. Len(stack)
          BY <3>4, <3>5, <4>3
        <5>2. stack[a] < stack[b]
          BY <3>1, <3>7, <4>1, <5>1 DEF Stacked
        <5> QED
          BY <3>5, <4>1, <5>1, <5>2
      <4> QED
        BY <4>2, <4>3
    <3>8. ASSUME NEW a \in FreeIn(blk', f), NEW l \in f PROVE l < a
      <4>1. a \in DOMAIN blk \cup {c + s} /\ a \notin f /\ a # Start /\ a # End
        BY <2>1, <3>8 DEF Carved, FreeIn
      <4>2. a = c + s
        <5> SUFFICES ASSUME a # c + s PROVE FALSE
          OBVIOUS
        <5>1. a \in FreeIn(blk, g) /\ a # c
          BY <4>1 DEF FreeIn
        <5>2. a = c
          BY <1>1, <1>5, <3>1, <5>1, OneFree DEF Stacked
        <5> QED
          BY <5>1, <5>2
      <4>3. l \in Int
        BY <2>2, HeapFacts
      <4> QED
        BY <1>2, <1>5, <3>3, <4>2, <4>3
    <3> HIDE DEF f
    <3> QED
      BY <1>6, <2>5, <3>2, <3>6, <3>7, <3>8 DEF Stacked
  <2>8. Refusal'
    BY <1>3 DEF Refusal
  <2> QED
    BY <1>3, <2>4, <2>6, <2>7, <2>8 DEF IInv
<1>10. CASE blk[c].size < s
  <2> DEFINE n == c + s
             rest == blk[c].size - s
  <2>0. End \in Nat /\ End <= HeapSize - Header /\ HeapSize \in Nat /\ Start = -1 /\ Null = -2
    BY EndIs, HeapAssumption DEF Start, Null
  <2>1. blk[c].next = Null /\ rest < 0 /\ rest \in Int /\ n \in Nat /\ n # c
    BY <1>2, <1>4, <1>5, <1>10 DEF Found
  <2>2. n % Align = 0 /\ rest % Align = 0 /\ n \in 0 .. 2 * HeapSize /\ rest \in -HeapSize .. HeapSize
    <3> DEFINE z == blk[c].size
    <3>1. z \in Int /\ z % Align = 0 /\ c \in Int /\ c % Align = 0 /\ c <= End /\ s \in Int /\ s % Align = 0
      BY <1>1, <1>2, <1>5, HeapFacts
    <3>2. n = c + s /\ rest = z - s
      OBVIOUS
    <3>3. n \in 0 .. 2 * HeapSize /\ rest \in -HeapSize .. HeapSize
      <4>1. s <= End /\ End <= HeapSize /\ z \in Nat /\ z < s /\ c \in Nat /\ s \in Nat
        BY <1>2, <1>3, <1>5, <1>7, <1>10, <2>0, HeapAssumption
      <4> HIDE DEF z
      <4> QED
        BY <2>0, <3>1, <3>2, <4>1
    <3> HIDE DEF z, n, rest
    <3>4. n % Align = 0
      BY ONLY <3>1, <3>2, AlignedSum
    <3>5. rest % Align = 0
      BY ONLY <3>1, <3>2, AlignedDifference
    <3> QED
      BY <3>3, <3>4, <3>5
  <2>3. blk' = SplitAt(blk, p, c, s, n, rest)
    <3>1. blk \in [DOMAIN blk -> [next : Int, size : Int]] /\ c \in DOMAIN blk /\ p \in DOMAIN blk
      BY <1>5, <1>7 DEF BlkTypes
    <3>2. n = c + s /\ rest = blk[c].size - s /\ rest < 0 /\ s \in Int
      BY <1>2, <2>1
    <3> HIDE DEF n, rest
    <3> QED
      BY <1>3, <1>5, <3>1, <3>2, SplitIs
  <2> HIDE DEF n, rest
  <2>4. /\ DOMAIN blk' = DOMAIN blk \cup {n}
        /\ \A a \in DOMAIN blk' :
             /\ blk'[a].next = IF a = n THEN blk[c].next ELSE IF a = c THEN Null
                               ELSE IF a = p THEN n ELSE blk[a].next
             /\ blk'[a].size = IF a = n THEN rest ELSE IF a = c THEN s ELSE blk[a].size
    BY <2>3 DEF SplitAt, Record
  <2>5. BlkTypes(blk')
    <3>1. \A a \in DOMAIN blk' : blk'[a] = [next |-> blk'[a].next, size |-> blk'[a].size]
      BY <2>3 DEF SplitAt, Record
    <3>2. s \in -HeapSize .. HeapSize /\ n \in AllAddr
      BY <1>2, <1>3, <1>7, <2>0, <2>2, HeapAssumption DEF AllAddr
    <3>3. \A a \in DOMAIN blk' : /\ blk'[a].next \in AllAddr \cup {Null}
                                 /\ blk'[a].size \in -HeapSize .. HeapSize
                                 /\ blk'[a].size % Align = 0
      <4>1. \A a \in DOMAIN blk : /\ blk[a].next \in AllAddr \cup {Null}
                                 /\ blk[a].size \in -HeapSize .. HeapSize
                                 /\ blk[a].size % Align = 0
        BY <1>7 DEF BlkTypes
      <4>2. blk[c].next \in AllAddr \cup {Null} /\ s % Align = 0 /\ rest % Align = 0
            /\ rest \in -HeapSize .. HeapSize
        BY <1>2, <1>5, <2>2, <4>1
      <4> QED
        BY <2>4, <3>2, <4>1, <4>2
    <3>4. ASSUME NEW a \in DOMAIN blk' PROVE blk'[a] \in [next : Int, size : Int]
      <4> DEFINE x == blk'[a].next
                 z == blk'[a].size
      <4>1. x \in Int /\ z \in Int /\ blk'[a] = [next |-> x, size |-> z]
        BY <3>1, <3>3, <2>0 DEF AllAddr
      <4> HIDE DEF x, z
      <4> QED
        BY <4>1
    <3>5. blk' = [a \in DOMAIN blk' |-> blk'[a]]
      BY <2>3 DEF SplitAt
    <3>6. blk' \in [DOMAIN blk' -> [next : Int, size : Int]]
      BY <3>4, <3>5
    <3>7. DOMAIN blk' \subseteq AllAddr \cup {Start}
      BY <1>7, <2>4, <3>2 DEF BlkTypes
    <3> QED
      BY <3>3, <3>6, <3>7 DEF BlkTypes
  <2>6. remaining' \in 0 .. End
    <3>1. blk'[c].size = s
      BY <1>5, <2>1, <2>4
    <3> QED
      BY <1>2, <1>3, <1>7, <2>0, <3>1
  <2>7. Types'
    <3>1. f \subseteq AllAddr
      BY <1>5, <1>7 DEF BlkTypes, Blocks
    <3> HIDE DEF f
    <3> QED
      BY <1>6, <1>8, <2>5, <2>6, <3>1, TypesNext
  <2>8. ~Sane'
    <3>1. n \in DOMAIN blk' /\ blk'[n].size = rest
      BY <2>4
    <3> QED
      BY <2>1, <3>1 DEF Sane
  <2>9. ~nested
    <3> SUFFICES ASSUME nested PROVE FALSE
      OBVIOUS
    <3>1. blk[c].next \in DOMAIN blk
      BY <1>5 DEF IInv, Stacked, Whole
    <3> QED
      BY <1>1, <2>0, <2>1, <3>1, HeapFacts
  <2> QED
    BY <1>3, <2>7, <2>8, <2>9 DEF IInv, Refusal
<1> QED
  BY <1>2, <1>5, <1>9, <1>10
(* What mm_free(b) leaves, before it looks at the block behind: k, with    *)
(* block where b was joined or linked, behind t.                           *)
LEMMA FreePlaces ==
  ASSUME IInv, NEW b \in Granted, Free(b)
  PROVE  \E t, k, block :
           /\ t \in DOMAIN blk \ Granted /\ t < b /\ blk[t].next > b
           /\ \A L : Apart(blk, Granted, L) => t \notin L
           /\ Freed(blk, Granted, t, b, k, block)
           /\ t = Start => block = b
           /\ blk' = JoinNext(k, block)
           /\ Touches(k, block) => k[k[block].next].next # Null
<1> DEFINE c == Chain(blk)
           i == Before(blk, b)
           t == c[i]
           k == JoinPrevious(blk, t, b)
           block == IF b \in DOMAIN k THEN b ELSE t
<1>1. /\ Defined /\ i # 0 /\ blk' = JoinNext(k, block)
      /\ Touches(k, block) => k[k[block].next].next # Null
  BY DEF Free
<1>2. HeapState
  BY <1>1, DefinedIs
<1>3. Heap(blk, Granted) /\ Path(c, blk, Start)
  BY <1>2, HeapIsLinked DEF HeapState, Heap
<1>4. i \in 1 .. Len(c) /\ t \in DOMAIN blk \ Granted /\ t < b /\ blk[t].next > b
  <2>1. c = Chain(blk) /\ i = Before(blk, b)
    OBVIOUS
  <2> HIDE DEF c, i
  <2> QED
    BY <1>1, <1>3, <2>1, BeforeIs
<1>5. \A L : Apart(blk, Granted, L) => t \notin L
  <2> HIDE DEF c, i
  <2> QED
    BY <1>3, <1>4, ApartIsNotListed
<1> HIDE DEF t
<1>6. CASE t + blk[t].size = b
  <2>1. b \notin DOMAIN k /\ Freed(blk, Granted, t, b, k, t)
    BY <1>3, <1>4, <1>6, MergeKeeps
  <2>2. block = t
    BY <2>1
  <2>3. t # Start
    BY <2>1 DEF Freed
  <2> HIDE DEF k, block
  <2> QED
    BY <1>1, <1>4, <1>5, <2>1, <2>2, <2>3
<1>7. CASE t + blk[t].size # b
  <2>1. b \in DOMAIN k /\ Freed(blk, Granted, t, b, k, b)
    BY <1>3, <1>4, <1>7, LinkKeeps
  <2>2. block = b
    BY <2>1
  <2> HIDE DEF k, block
  <2> QED
    BY <1>1, <1>4, <1>5, <2>1, <2>2
<1> QED
  BY <1>6, <1>7

LEMMA FreeKeeps ==
  ASSUME IInv, NEW b \in DOMAIN live, Free(b)
  PROVE  IInv'
<1> DEFINE g == Granted
           f == Granted \ {b}
<1>0. b \in g
  BY DEF Granted
<1>1. Sane /\ HeapState /\ Heap(blk, g)
  BY DefinedIs DEF Free, HeapState
<1>2. PICK t, k, block :
           /\ t \in DOMAIN blk \ g /\ t < b /\ blk[t].next > b
           /\ \A L : Apart(blk, g, L) => t \notin L
           /\ Freed(blk, g, t, b, k, block)
           /\ t = Start => block = b
           /\ blk' = JoinNext(k, block)
           /\ Touches(k, block) => k[k[block].next].next # Null
  BY <1>0, FreePlaces
<1>3. /\ remaining' = remaining + blk[b].size
      /\ live' = Restrict(live, DOMAIN live \ {b})
      /\ stack' = IF nested THEN Front(stack) ELSE stack
      /\ refused' = 0 /\ nested' = nested
      /\ nested => b = Last(stack)
  BY DEF Free
<1>4. /\ live \in [g -> Requests] /\ stack \in Seq(g) /\ (~nested => stack = <<>>)
      /\ nested \in BOOLEAN /\ remaining \in 0 .. End
  BY TypesAre DEF IInv
<1>5. Granted' = f /\ \A a \in f : live'[a] = live[a]
  BY <1>3 DEF Granted, Restrict
<1>6. b \in Blocks(blk) \ {End} /\ b \in DOMAIN blk /\ blk[b].size \in Nat /\ b \in Nat
      /\ End \in Nat /\ Start = -1 /\ t \in Int
  BY <1>0, <1>1, <1>2, HeapFacts
<1>7. /\ Heap(k, f) /\ DOMAIN k \subseteq DOMAIN blk
      /\ block \in DOMAIN k \ f /\ block \notin {Start, End}
      /\ k[block].next = blk[t].next
      /\ \A a \in f : k[a].size = blk[a].size
      /\ Sizes(k, f) = Sizes(blk, g) - blk[b].size
      /\ Sizes(k, DOMAIN k \ f) = Sizes(blk, DOMAIN blk \ g) + blk[b].size
      /\ Whole(blk, g) => Whole(k, f)
      /\ Whole(blk, g) /\ JoinedBut(blk, g, End) => JoinedBut(k, f, block)
      /\ \A L : Apart(blk, g, L) => Apart(k, f, L) /\ block \notin L
  BY <1>2 DEF Freed
<1> DEFINE n == k[block].next
           nn == k[n].next
<1>8. n # Null /\ n > b
  BY <1>1, <1>2, <1>6, <1>7, HeapFacts
(* What is left after the block behind has been looked at. *)
<1>9. /\ Heap(blk', f) /\ DOMAIN blk' \subseteq DOMAIN k
      /\ \A a \in f : blk'[a].size = k[a].size
      /\ Sizes(blk', f) = Sizes(k, f)
      /\ Sizes(blk', DOMAIN blk' \ f) = Sizes(k, DOMAIN k \ f)
      /\ \A L : Apart(k, f, L) /\ block \notin L => Apart(blk', f, L)
      /\ Whole(k, f) /\ JoinedBut(k, f, block) =>
           \/ Whole(blk', f) /\ JoinedBut(blk', f, End)
           \/ Severed(blk', f)
      /\ Whole(k, f) /\ JoinedBut(k, f, block) /\ (Touches(k, block) => nn = End) =>
           Whole(blk', f) /\ JoinedBut(blk', f, End)
  <2>1. CASE Touches(k, block)
    <3>1. nn # Null
      BY <1>2, <2>1
    <3>2. Absorbed(k, f, block, nn, blk')
      <4> HIDE DEF f
      <4> QED
        BY <1>2, <1>7, <1>8, <2>1, <3>1, NextKeeps
    <3> HIDE DEF f, n, nn
    <3> QED
      BY <2>1, <3>2 DEF Absorbed
  <2>2. CASE ~Touches(k, block)
    <3>1. blk' = k
      BY <1>2, <2>2 DEF JoinNext
    <3>2. Whole(k, f) /\ JoinedBut(k, f, block) => JoinedBut(k, f, End)
      <4> HIDE DEF f
      <4> QED
        BY <1>7, <2>2, ApartFromNext
    <3> HIDE DEF f, n, nn
    <3> QED
      BY <1>7, <3>1, <3>2
  <2> QED
    BY <2>1, <2>2
<1>10. HeapState'
  <2>1. Sizes(blk', DOMAIN blk' \ f) = remaining' /\ Sizes(blk', f) = End - remaining'
    <3>1. Sizes(blk, DOMAIN blk \ g) = remaining /\ Sizes(blk, g) = End - remaining
      BY <1>1 DEF HeapState
    <3>2. /\ Sizes(blk', f) = Sizes(blk, g) - blk[b].size
          /\ Sizes(blk', DOMAIN blk' \ f) = Sizes(blk, DOMAIN blk \ g) + blk[b].size
      BY <1>7, <1>9
    <3> QED
      BY <1>3, <1>4, <1>6, <3>1, <3>2
  <2>2. \A a \in f : blk'[a].size >= Header + live'[a]
    BY <1>1, <1>5, <1>7, <1>9 DEF HeapState
  <2>3. \/ Whole(blk', f) /\ JoinedBut(blk', f, End)
        \/ Severed(blk', f)
    <3>1. CASE Whole(blk, g) /\ JoinedBut(blk, g, End)
      BY <1>7, <1>9, <3>1
    <3>2. CASE Severed(blk, g)
      <4>1. PICK L : Apart(blk, g, L)
        BY <3>2 DEF Severed
      <4>2. Apart(blk', f, L)
        BY <1>7, <1>9, <4>1
      <4> QED
        BY <4>2 DEF Severed, Apart
    <3> QED
      BY <1>1, <3>1, <3>2 DEF HeapState
  <2> HIDE DEF f
  <2> QED
    BY <1>5, <1>9, <2>1, <2>2, <2>3 DEF HeapState
<1>11. Sane'
  BY <1>9, HeapFacts DEF Sane
<1>12. ASSUME nested
       PROVE  /\ Stacked /\ Len(stack) \in Nat /\ Len(stack) >= 1 /\ stack[Len(stack)] = b
              /\ Front(stack) \in Seq(f) /\ Len(Front(stack)) = Len(stack) - 1
              /\ \A j \in 1 .. Len(stack) - 1 : Front(stack)[j] = stack[j]
              /\ \A l \in f : l < b
              /\ Range(Front(stack)) = f
  <2>1. Stacked /\ Last(stack) = b /\ Len(stack) \in Nat /\ DOMAIN stack = 1 .. Len(stack)
    BY <1>3, <1>4, <1>12 DEF IInv
  <2>2. Len(stack) >= 1
    <3>1. b \in Range(stack)
      BY <1>0, <2>1 DEF Stacked
    <3> QED
      BY <2>1, <3>1 DEF Range
  <2>3. stack[Len(stack)] = b
    BY <2>1 DEF Last
  <2>4. \A j \in 1 .. Len(stack) - 1 : stack[j] \in f /\ stack[j] < b
    <3>1. ASSUME NEW j \in 1 .. Len(stack) - 1 PROVE stack[j] \in f /\ stack[j] < b
      <4>1. j \in 1 .. Len(stack) /\ Len(stack) \in 1 .. Len(stack) /\ j < Len(stack)
        BY <2>1, <2>2
      <4>2. stack[j] < b
        BY <2>1, <2>3, <4>1 DEF Stacked
      <4>3. stack[j] \in g
        BY <1>4, <4>1
      <4> QED
        BY <1>6, <4>2, <4>3
    <3> QED
      BY <3>1
  <2>5. /\ Front(stack) = SubSeq(stack, 1, Len(stack) - 1)
        /\ Len(Front(stack)) = Len(stack) - 1
        /\ \A j \in 1 .. Len(stack) - 1 : Front(stack)[j] = stack[j]
    BY <1>4, <2>1, <2>2 DEF Front
  <2>6. Front(stack) \in Seq(f)
    <3> DEFINE m == Len(stack) - 1
    <3>1. m \in Nat /\ Front(stack) = [j \in 1 .. m |-> stack[j]]
      BY <1>4, <2>1, <2>2, <2>5
    <3> HIDE DEF m
    <3>2. \A j \in 1 .. m : stack[j] \in f
      BY <2>4 DEF m
    <3> HIDE DEF f
    <3> QED
      BY <3>1, <3>2
  <2>7. Range(Front(stack)) = f
    <3>1. DOMAIN Front(stack) = 1 .. Len(stack) - 1
      BY <2>5, <2>6
    <3>2. ASSUME NEW a \in f PROVE \E j \in 1 .. Len(stack) - 1 : stack[j] = a
      <4>1. PICK j \in 1 .. Len(stack) : stack[j] = a
        BY <2>1 DEF Stacked, Range
      <4>2. a # b
        BY DEF f
      <4>3. j # Len(stack)
        BY <2>3, <4>1, <4>2
      <4>4. j \in 1 .. Len(stack) - 1
        <5> DEFINE m == Len(stack)
        <5>1. m \in Nat /\ j \in 1 .. m /\ j # m
          BY <2>1, <4>1, <4>3
        <5> HIDE DEF m
        <5>2. j \in 1 .. m - 1
          BY ONLY <5>1
        <5> QED
          BY <5>2 DEF m
      <4> QED
        BY <4>1, <4>4
    <3> HIDE DEF f
    <3> QED
      BY <2>4, <2>5, <3>1, <3>2 DEF Range
  <2>8. \A l \in f : l < b
    <3>1. ASSUME NEW l \in f PROVE l < b
      <4>1. PICK j \in DOMAIN Front(stack) : Front(stack)[j] = l
        BY <2>7 DEF Range
      <4>2. j \in 1 .. Len(stack) - 1
        BY <2>5, <2>6, <4>1
      <4> QED
        BY <2>4, <2>5, <4>1, <4>2
    <3> QED
      BY <3>1
  <2> HIDE DEF f
  <2> QED
    BY <2>1, <2>2, <2>3, <2>5, <2>6, <2>7, <2>8
<1>13. Types'
  <2>1. BlkTypes(blk') /\ f \subseteq AllAddr
    BY <1>9, HeapTyped
  <2>2. remaining' \in 0 .. End
    <3>1. Sizes(blk', DOMAIN blk' \ f) = remaining' /\ Sizes(blk', f) = End - remaining'
      BY <1>5, <1>10 DEF HeapState
    <3>2. remaining' \in Int
      BY <1>3, <1>4, <1>6
    <3> HIDE DEF f
    <3> QED
      BY <1>9, <3>1, <3>2, SumsBound
  <2>3. live' \in [f -> Requests]
    BY <1>3, <1>4 DEF Restrict, Granted
  <2>4. stack' \in Seq(f) /\ (~nested' => stack' = <<>>)
    <3>1. CASE nested
      BY <1>3, <1>12, <3>1
    <3>2. CASE ~nested
      BY <1>3, <1>4, <3>2
    <3> QED
      BY <3>1, <3>2
  <2> HIDE DEF f
  <2> QED
    BY <1>3, <1>4, <1>5, <2>1, <2>2, <2>3, <2>4, TypesNext
<1>14. ASSUME nested PROVE Stacked'
  <2>1. Stacked
    BY <1>12, <1>14
  <2>2. t = Start /\ block = b
    <3> SUFFICES ASSUME t # Start PROVE FALSE
      BY <1>2
    <3>1. t \in FreeIn(blk, g) /\ t # End
      BY <1>1, <1>2, <1>6, HeapFacts DEF FreeIn
    <3>2. b < t
      BY <1>0, <2>1, <3>1 DEF Stacked
    <3> QED
      BY <1>2, <1>6, <3>2
  <2>3. \A x, y \in FreeIn(blk, g) : x = y
    BY <1>1, <2>1, OneFree DEF Stacked
  <2>4. \A a \in FreeIn(k, f) : a # b => a \in FreeIn(blk, g)
    BY <1>7 DEF FreeIn
  <2>5. Touches(k, block) => nn = End
    <3> SUFFICES ASSUME Touches(k, block), nn # End PROVE FALSE
      OBVIOUS
    <3>1. /\ n \in DOMAIN k \ f /\ n # End
          /\ nn \in DOMAIN k \ f /\ nn > n
      <4>1. n \in DOMAIN k \ f
        BY <1>7, <1>8 DEF Heap, ListOf
      <4>2. n # End
        BY DEF Touches
      <4>3. nn # Null
        BY <1>2
      <4>4. nn \in DOMAIN k \ f /\ nn > n
        BY <1>7, <4>1, <4>3 DEF Heap, ListOf
      <4> QED
        BY <4>1, <4>2, <4>4
    <3>2. n \in Int /\ nn \in Int
      BY <1>7, <3>1, HeapFacts
    <3> HIDE DEF n, nn, f
    <3>3. n # b /\ n # Start /\ nn # b /\ nn # Start
      BY <1>6, <1>8, <3>1, <3>2
    <3>4. n \in FreeIn(k, f) /\ nn \in FreeIn(k, f)
      BY <3>1, <3>3 DEF FreeIn
    <3>5. n = nn
      BY <2>3, <2>4, <3>3, <3>4
    <3> QED
      BY <3>1, <3>2, <3>5
  <2>6. Whole(blk', f) /\ JoinedBut(blk', f, End)
    BY <1>7, <1>9, <2>1, <2>5 DEF Stacked
  <2>7. stack' = Front(stack) /\ Range(stack') = f
    BY <1>3, <1>12, <1>14
  <2>8. ASSUME NEW i \in 1 .. Len(stack'), NEW j \in 1 .. Len(stack'), i < j
        PROVE  stack'[i] < stack'[j]
    <3>1. i \in 1 .. Len(stack) - 1 /\ j \in 1 .. Len(stack) - 1
      BY <1>12, <1>14, <2>7
    <3>2. i \in 1 .. Len(stack) /\ j \in 1 .. Len(stack)
      BY <1>12, <1>14, <3>1
    <3>3. stack[i] < stack[j]
      BY <2>1, <2>8, <3>2 DEF Stacked
    <3> QED
      BY <1>12, <1>14, <2>7, <3>1, <3>3
  <2>9. ASSUME NEW a \in FreeIn(blk', f), NEW l \in f PROVE l < a
    <3>1. a \in FreeIn(k, f)
      BY <1>9, <2>9 DEF FreeIn
    <3>2. CASE a = b
      BY <1>12, <1>14, <3>2
    <3>3. CASE a # b
      BY <2>1, <2>4, <3>1, <3>3 DEF Stacked
    <3> QED
      BY <3>2, <3>3
  <2> HIDE DEF f
  <2> QED
    BY <1>5, <1>11, <2>6, <2>7, <2>8, <2>9 DEF Stacked
<1>15. Refusal'
  BY <1>3 DEF Refusal
<1> QED
  BY <1>3, <1>10, <1>13, <1>14, <1>15 DEF IInv

(* The invariant holds of every state.                                     *)
THEOREM HeapInvariant == Spec => []IInv
<1>1. Init => IInv
  BY InitKeeps
<1>2. IInv /\ [Next]_vars => IInv'
  <2> SUFFICES ASSUME IInv, [Next]_vars PROVE IInv'
    OBVIOUS
  <2>1. CASE \E r \in Requests : Malloc(r) \/ MallocFails(r)
    BY <2>1, MallocKeeps, MallocFailsKeeps
  <2>2. CASE \E b \in DOMAIN live : Free(b)
    BY <2>2, FreeKeeps
  <2>3. CASE UNCHANGED vars
    BY <2>3 DEF vars, IInv, Types, TypeOK, Sane, HeapState, Stacked, Refusal, Granted
  <2> QED
    BY <2>1, <2>2, <2>3 DEF Next
<1> QED
  BY <1>1, <1>2, PTL DEF Spec

(* While the list ends at End it has every free block, none of them beside *)
(* another.                                                                *)
LEMMA IntactIs ==
  ASSUME IInv, Intact
  PROVE  /\ HeapState /\ Sane /\ Heap(blk, Granted) /\ Whole(blk, Granted)
         /\ JoinedBut(blk, Granted, End)
         /\ FreeBlocks = FreeIn(blk, Granted)
<1>1. HeapState /\ Sane /\ Heap(blk, Granted)
  BY DefinedIs DEF Intact, HeapState
<1>2. Path(Chain(blk), blk, Start)
  BY <1>1, HeapIsLinked DEF Heap
<1>3. ~Severed(blk, Granted)
  BY <1>1, <1>2, SeveredIsShort DEF Intact
<1>4. Whole(blk, Granted) /\ JoinedBut(blk, Granted, End)
  BY <1>1, <1>3 DEF HeapState
<1>5. Range(Chain(blk)) = DOMAIN blk \ Granted
  BY <1>1, <1>2, <1>4, WholeIsListed
<1>6. FreeBlocks = FreeIn(blk, Granted)
  BY <1>5 DEF FreeBlocks, FreeIn
<1> QED
  BY <1>1, <1>4, <1>6

(* Start and End have no size: the free blocks are all that counts.        *)
LEMMA FreeSizes ==
  ASSUME NEW h, NEW g, Heap(h, g)
  PROVE  Sizes(h, FreeIn(h, g)) = Sizes(h, DOMAIN h \ g)
<1> DEFINE S == DOMAIN h \ g
           T == S \ {Start}
           F == T \ {End}
<1>1. /\ h[Start].size = 0 /\ h[End].size = 0 /\ Start # End
      /\ Start \in S /\ End \in T /\ S \subseteq DOMAIN h
  BY HeapFacts
<1>2. Sized(h, S, End) /\ Sized(h, T, End)
  BY <1>1, HeapSized DEF Sized
<1>3. FreeIn(h, g) = F
  BY DEF FreeIn
<1> HIDE DEF S
<1>4. Sizes(h, S) \in Nat /\ Sizes(h, S) = Sizes(h, T) + h[Start].size /\ Sizes(h, T) \in Nat
  BY <1>1, <1>2, SizesWith
<1> HIDE DEF T
<1>5. Sizes(h, T) = Sizes(h, F) + h[End].size /\ Sizes(h, F) \in Nat
  BY <1>1, <1>2, SizesWith
<1>6. Sizes(h, F) = Sizes(h, S)
  BY <1>1, <1>4, <1>5
<1> QED
  BY <1>3, <1>6 DEF S
-----------------------------------------------------------------------------
(* What the heap promises.                                                 *)

(* The headers, the count and what the callers hold keep their types,      *)
(* whatever is asked for, given back, cut off or overwritten.              *)
THEOREM HeapTypes == Spec => []TypeOK
<1>1. IInv => TypeOK
  BY DEF IInv, Types
<1> QED
  BY <1>1, HeapInvariant, PTL

(* mm_malloc and mm_free keep the heap tiled, byte for byte, for every     *)
(* size of heap, header and alignment and every order of calls, up to the  *)
(* cut that mm_free makes in the list.                                     *)
THEOREM HeapIsTiled == Spec => []Tiled
<1>1. ASSUME IInv, Intact
      PROVE  LET blocks == FreeBlocks \cup DOMAIN live
             IN  /\ \A a \in blocks : a + blk[a].size \in blocks \cup {End}
                 /\ 0 \in blocks /\ FreeBlocks \cap DOMAIN live = {}
                 /\ MapThenSumSet(LAMBDA a : blk[a].size, blocks) = End
  <2> DEFINE F == FreeBlocks
             G == DOMAIN live
             blocks == F \cup G
  <2>1. /\ HeapState /\ Heap(blk, G) /\ F = FreeIn(blk, G) /\ G = Granted
    BY <1>1, IntactIs DEF Granted
  <2> HIDE DEF F, G
  <2>2. /\ blocks = DOMAIN blk \ {Start, End} /\ F \cap G = {}
        /\ Blocks(blk) = DOMAIN blk \ {Start}
        /\ 0 \in DOMAIN blk /\ 0 # Start /\ 0 # End
        /\ F \subseteq DOMAIN blk /\ G \subseteq DOMAIN blk
    BY <2>1, HeapFacts DEF FreeIn
  <2>3. \A a \in blocks : a + blk[a].size \in blocks \cup {End}
    BY <2>1, <2>2 DEF Heap, TiledBy
  <2>4. Sizes(blk, blocks) = End
    <3> DEFINE D == DOMAIN blk
    <3>1. Sized(blk, D, End) /\ F \in SUBSET D /\ G \in SUBSET D /\ F \cap G = {}
      BY <2>1, <2>2, HeapSized
    <3> HIDE DEF D, blocks
    <3>2. /\ Sizes(blk, F) \in Nat /\ Sizes(blk, G) \in Nat
          /\ Sizes(blk, F \cup G) = Sizes(blk, F) + Sizes(blk, G)
      BY <3>1, SizesAdd
    <3>3. Sizes(blk, F) = remaining
      BY <2>1, FreeSizes DEF HeapState
    <3>4. Sizes(blk, G) = End - remaining
      BY <2>1 DEF HeapState
    <3>5. End \in Nat
      BY EndIs
    <3> QED
      BY <3>2, <3>3, <3>4, <3>5 DEF blocks
  <2>5. MapThenSumSet(LAMBDA a : blk[a].size, blocks) = End
    BY <2>4 DEF Sizes
  <2> QED
    BY <2>2, <2>3, <2>5 DEF F, G
<1>2. IInv => Tiled
  BY <1>1 DEF Tiled
<1> QED
  BY <1>2, HeapInvariant, PTL

(* What mm_malloc granted keeps the room its caller asked for until it is  *)
(* freed, also behind a cut: no later split or join shortens it.           *)
THEOREM GrantsHold == Spec => []GrantHolds
<1>1. IInv => GrantHolds
  BY DefinedIs DEF GrantHolds, HeapState, Granted
<1> QED
  BY <1>1, HeapInvariant, PTL

(* mm_free leaves no two free blocks side by side.                         *)
THEOREM HeapIsCoalesced == Spec => []Coalesced
<1>1. IInv => Coalesced
  <2> SUFFICES ASSUME IInv, Intact, NEW a \in FreeBlocks, NEW b \in FreeBlocks
               PROVE  a + blk[a].size # b
    BY DEF Coalesced
  <2>1. JoinedBut(blk, Granted, End) /\ FreeBlocks = FreeIn(blk, Granted)
    BY IntactIs
  <2>2. a # End
    BY <2>1 DEF FreeIn
  <2> QED
    BY <2>1, <2>2 DEF JoinedBut
<1> QED
  BY <1>1, HeapInvariant, PTL

(* The count that mm_malloc tests is the memory that is free.              *)
THEOREM HeapIsAccounted == Spec => []Accounted
<1>1. ASSUME IInv, Intact
      PROVE  remaining = MapThenSumSet(LAMBDA a : blk[a].size, FreeBlocks)
  <2>1. HeapState /\ Heap(blk, Granted) /\ FreeBlocks = FreeIn(blk, Granted)
    BY <1>1, IntactIs
  <2>2. remaining = Sizes(blk, FreeBlocks)
    BY <2>1, FreeSizes DEF HeapState
  <2> QED
    BY <2>2 DEF Sizes
<1>2. IInv => Accounted
  BY <1>1 DEF Accounted
<1> QED
  BY <1>2, HeapInvariant, PTL

(* mm_malloc returns NULL only when no free block is large enough.         *)
THEOREM NullMeansFull == Spec => []NullOnlyWhenFull
<1>1. IInv => NullOnlyWhenFull
  <2> SUFFICES ASSUME IInv, Intact, refused # 0, NEW a \in FreeBlocks
               PROVE  blk[a].size < BlockSize(refused)
    BY DEF NullOnlyWhenFull
  <2>1. Sane /\ Whole(blk, Granted) /\ FreeBlocks = FreeIn(blk, Granted)
    BY IntactIs
  <2> QED
    BY <2>1 DEF IInv, Refusal
<1> QED
  BY <1>1, HeapInvariant, PTL

(* Callers that free in the reverse order of their allocations, as those   *)
(* in src/ do, never let mm_free cut its list.                             *)
THEOREM NestedCallersKeepTheList == Spec => []NestedStaysIntact
<1>1. IInv => NestedStaysIntact
  <2> SUFFICES ASSUME IInv, nested PROVE Intact
    BY DEF NestedStaysIntact
  <2>1. Sane /\ HeapState /\ Heap(blk, Granted) /\ Whole(blk, Granted)
    BY DEF IInv, Stacked, HeapState
  <2>2. blk[Start].next # Null
    <3>1. Start \in DOMAIN blk \ Granted /\ Start # End /\ Null \notin DOMAIN blk
      BY <2>1, HeapFacts
    <3> QED
      BY <2>1, <3>1 DEF Whole
  <2>3. Defined
    BY <2>1, <2>2 DEF Defined, Sane
  <2>4. Path(Chain(blk), blk, Start)
    BY <2>1, HeapIsLinked DEF Heap
  <2>5. Last(Chain(blk)) = End
    BY <2>1, <2>4, WholeIsListed
  <2> QED
    BY <2>3, <2>5 DEF Intact
<1> QED
  BY <1>1, HeapInvariant, PTL
=============================================================================
