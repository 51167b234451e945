--------------------------- MODULE TimerHeapProofs ---------------------------
(***************************************************************************)
(* Theorems about TimerHeap, for any operations and a heap of any length:  *)
(* the list stays in heap order, and it implements TimerSet.               *)
(***************************************************************************)
EXTENDS TimerHeap, SequenceTheorems, WellFoundedInduction, TLAPS

Ordered(h, j) == h[Parent(j)].at <= h[j].at

\* What an item that moves from p towards the root meets: everything is in order
\* but the item and its parent, and its children are not before its parent.
Rising(h, p) ==
  /\ \A j \in 2..Len(h) : j # p => Ordered(h, j)
  /\ \A c \in 2..Len(h) : Parent(c) = p /\ p # 1 => h[Parent(p)].at <= h[c].at

\* What an item that moves from p towards the leaves meets: it need not be in order
\* with its children either.
Sinking(h, p) ==
  /\ \A j \in 2..Len(h) : j # p /\ Parent(j) # p => Ordered(h, j)
  /\ \A c \in 2..Len(h) : Parent(c) = p /\ p # 1 => h[Parent(p)].at <= h[c].at

\* The positions below start, and start itself.
Closed(S, n) == \A j \in 2..n : Parent(j) \in S => j \in S
Below(start, n) == {p \in start..n : \A S \in SUBSET (1..n) : start \in S /\ Closed(S, n) => p \in S}

\* g is h in another order.
Rearranged(g, h) ==
  /\ g \in Seq(Ops) /\ Len(g) = Len(h) /\ ToSet(g) = ToSet(h)
  /\ IsInjective(h) => IsInjective(g)

\* The loop of heapq._siftdown has ended.
Settled(r, start) == r.pos <= start \/ Ordered(r.heap, r.pos)

\* The states of a loop that moves an item of h.
Sifts(h) == {r \in [heap : Seq(Ops), pos : Nat] : Rearranged(r.heap, h) /\ r.pos \in 1..Len(h)}

\* f is the course of a loop that starts in s and takes n turns, each of which is t.
IsCourse(f, S, t, s, n) ==
  f \in [0..n -> S] /\ f[0] = s /\ \A k \in 1..n : f[k] = t[f[k - 1]]
-----------------------------------------------------------------------------
\* A set of numbers has a least one.
LEMMA LeastNumber ==
  ASSUME NEW S \in SUBSET Nat, S # {}
  PROVE  \E x \in S : \A y \in S : x <= y
<1>. DEFINE R == {p \in Nat \X Nat : p[1] < p[2]}
<1>1. IsWellFoundedOn(R, Nat)
  BY NatLessThanWellFounded DEF OpToRel
<1>2. \A x, y \in Nat : x < y => <<x, y>> \in R
  OBVIOUS
<1>. HIDE DEF R
<1>3. PICK x \in S : \A y \in S : ~(<<y, x>> \in R)
  BY <1>1, WFMin
<1>4. ASSUME NEW y \in S
      PROVE  x <= y
  <2>1. x \in Nat /\ y \in Nat /\ ~(y < x)
    BY <1>2, <1>3
  <2>. QED  BY <2>1
<1>. QED  BY <1>4

\* A loop that takes n turns in S is well defined: there is no least number of turns
\* for which it is not.
LEMMA CourseExists ==
  ASSUME NEW S, NEW t \in [S -> S], NEW s \in S, NEW n \in Nat
  PROVE  \E f : IsCourse(f, S, t, s, n)
<1>. DEFINE Course(f, m) == f[0] = s /\ \A k \in 1..m : f[k] = t[f[k - 1]]
            Bad == {m \in Nat : ~ \E f \in [0..m -> S] : Course(f, m)}
<1>1. ASSUME Bad # {} PROVE FALSE
  <2>1. PICK m \in Bad : \A y \in Bad : m <= y
    BY <1>1, LeastNumber
  <2>2. m # 0
    <3>. DEFINE f == [i \in 0..0 |-> s]
    <3>1. f \in [0..0 -> S] /\ Course(f, 0)
      OBVIOUS
    <3>. QED  BY <3>1
  <2>3. m - 1 \in Nat /\ m \in Nat /\ m - 1 \notin Bad
    <3>1. m \in Nat /\ m - 1 \in Nat /\ ~(m <= m - 1)
      BY <2>1, <2>2
    <3>. QED  BY <2>1, <3>1
  <2>4. PICK g \in [0..(m - 1) -> S] : Course(g, m - 1)
    BY <2>3
  <2>. DEFINE f == [i \in 0..m |-> IF i = m THEN t[g[m - 1]] ELSE g[i]]
  <2>5. t[g[m - 1]] \in S
    BY <2>3
  <2>6. f \in [0..m -> S]
    BY <2>3, <2>5
  <2>7. Course(f, m)
    <3>1. f[0] = s
      BY <2>2, <2>3, <2>4
    <3>2. ASSUME NEW k \in 1..m
          PROVE  f[k] = t[f[k - 1]]
      <4>1. CASE k = m
        BY <2>3, <4>1
      <4>2. CASE k # m
        <5>1. k \in 1..(m - 1)
          BY <2>3, <4>2
        <5>. QED  BY <2>3, <2>4, <4>2, <5>1
      <4>. QED  BY <4>1, <4>2
    <3>. QED  BY <3>1, <3>2
  <2>. QED  BY <2>3, <2>6, <2>7
<1>2. n \notin Bad
  BY <1>1
<1>. QED  BY <1>2 DEF IsCourse

\* What every turn keeps holds at the end: there is no least turn after which not.
LEMMA CourseKeeps ==
  ASSUME NEW n \in Nat, NEW f, NEW I, f[0] \in I[0],
         \A k \in 1..n : f[k - 1] \in I[k - 1] => f[k] \in I[k]
  PROVE  \A k \in 0..n : f[k] \in I[k]
<1>. DEFINE Bad == {k \in 0..n : f[k] \notin I[k]}
<1>1. ASSUME Bad # {} PROVE FALSE
  <2>1. Bad \in SUBSET Nat
    OBVIOUS
  <2>2. PICK m \in Bad : \A y \in Bad : m <= y
    BY <1>1, <2>1, LeastNumber
  <2>3. m \in 1..n /\ m - 1 \in 0..n /\ m - 1 \notin Bad
    BY <2>2
  <2>. QED  BY <2>2, <2>3
<1>. QED  BY <1>1
-----------------------------------------------------------------------------
\* The tree.
LEMMA ParentFacts ==
  /\ \A i \in Nat : i > 1 => Parent(i) \in Nat /\ 1 <= Parent(i) /\ Parent(i) < i
  /\ \A i, j \in Nat : Parent(j) = i <=> j = 2 * i \/ j = 2 * i + 1
BY DEF Parent

\* Two items change places.
LEMMA SwapFacts ==
  ASSUME NEW h \in Seq(Ops), NEW i \in 1..Len(h), NEW j \in 1..Len(h)
  PROVE  /\ Rearranged(Swapped(h, i, j), h)
         /\ \A k \in 1..Len(h) : Swapped(h, i, j)[k] = IF k = j THEN h[i] ELSE IF k = i THEN h[j] ELSE h[k]
<1>. DEFINE g == Swapped(h, i, j)
<1>1. /\ g \in Seq(Ops) /\ Len(g) = Len(h)
      /\ \A k \in 1..Len(h) : g[k] = IF k = j THEN h[i] ELSE IF k = i THEN h[j] ELSE h[k]
  BY DEF Swapped
<1>. HIDE DEF g
<1>2. DOMAIN g = 1..Len(h) /\ DOMAIN h = 1..Len(h)
  BY <1>1
<1>3. ToSet(g) = ToSet(h)
  <2>1. \A k \in 1..Len(h) : \E l \in 1..Len(h) : g[k] = h[l]
    BY <1>1
  <2>2. \A l \in 1..Len(h) : \E k \in 1..Len(h) : g[k] = h[l]
    BY <1>1
  <2>3. /\ \A x : x \in ToSet(g) <=> \E k \in 1..Len(h) : x = g[k]
        /\ \A x : x \in ToSet(h) <=> \E k \in 1..Len(h) : x = h[k]
    BY <1>2 DEF ToSet
  <2>4. ToSet(g) \subseteq ToSet(h)
    BY <2>1, <2>3
  <2>5. ToSet(h) \subseteq ToSet(g)
    <3>1. ASSUME NEW x \in ToSet(h) PROVE x \in ToSet(g)
      <4>1. PICK l \in 1..Len(h) : x = h[l]
        BY <2>3
      <4>2. PICK k \in 1..Len(h) : g[k] = h[l]
        BY <2>2
      <4>. QED  BY <2>3, <4>1, <4>2
    <3>. QED  BY <3>1
  <2>. QED  BY <2>4, <2>5
<1>4. ASSUME IsInjective(h) PROVE IsInjective(g)
  <2>1. \A k, l \in 1..Len(h) : h[k] = h[l] => k = l
    BY <1>2, <1>4 DEF IsInjective
  <2>2. \A k, l \in 1..Len(h) : g[k] = g[l] => k = l
    BY <1>1, <2>1
  <2>. QED  BY <1>2, <2>2 DEF IsInjective
<1>. QED  BY <1>1, <1>3, <1>4 DEF Rearranged, g

LEMMA RearrangedAgain ==
  ASSUME NEW f, NEW g, NEW h, Rearranged(f, g), Rearranged(g, h)
  PROVE  Rearranged(f, h)
BY DEF Rearranged
-----------------------------------------------------------------------------
(***************************************************************************)
(* heapq._siftdown.                                                        *)
(***************************************************************************)
\* In a heap in order every item can be one that rises.
LEMMA OrderedRises ==
  ASSUME NEW h \in Seq(Ops), NEW p \in Nat \ {0}, \A j \in 2..Len(h) : Ordered(h, j)
  PROVE  Rising(h, p)
<1>1. ASSUME NEW c \in 2..Len(h), Parent(c) = p, p # 1
      PROVE  h[Parent(p)].at <= h[c].at
  <2>1. p \in 2..Len(h) /\ Parent(p) \in 1..Len(h)
    BY <1>1, ParentFacts
  <2>2. h[Parent(p)].at <= h[p].at /\ h[p].at <= h[c].at
    BY <1>1, <2>1 DEF Ordered
  <2>3. h[Parent(p)].at \in Int /\ h[p].at \in Int /\ h[c].at \in Int
    BY <2>1, OpsAssumption
  <2>. QED  BY <2>2, <2>3
<1>. QED  BY <1>1 DEF Rising

\* One turn raises the item, or leaves everything as it is.
LEMMA RaisedKeeps ==
  ASSUME NEW h \in Seq(Ops), NEW start \in Nat \ {0}, NEW r \in Sifts(h)
  PROVE  /\ Raised(r, start) \in Sifts(h)
         /\ Rising(r.heap, r.pos) => Rising(Raised(r, start).heap, Raised(r, start).pos)
         /\ r.pos \in Below(start, Len(h)) => Raised(r, start).pos \in Below(start, Len(h))
         /\ IF Settled(r, start) THEN Raised(r, start) = r ELSE Raised(r, start).pos < r.pos
<1>. DEFINE g == r.heap
            p == r.pos
            q == Parent(p)
            n == Len(h)
            s == Raised(r, start)
<1>1. /\ g \in Seq(Ops) /\ Rearranged(g, h) /\ p \in 1..n /\ n \in Nat /\ Len(g) = n
      /\ \A k \in 1..n : g[k] \in Ops /\ g[k].at \in Int
  BY OpsAssumption DEF Sifts, Rearranged
<1>2. CASE ~(p > start /\ g[p].at < g[q].at)
  <2>1. s = r
    BY <1>2 DEF Raised
  <2>2. Settled(r, start)
    <3>1. CASE p > start
      <4>1. q \in 1..n
        BY <1>1, <3>1, ParentFacts
      <4>. QED  BY <1>1, <1>2, <3>1, <4>1 DEF Settled, Ordered
    <3>. QED  BY <1>1, <3>1 DEF Settled
  <2>. QED  BY <2>1, <2>2
<1>3. CASE p > start /\ g[p].at < g[q].at
  <2>1. q \in 1..n /\ q < p /\ p # 1
    BY <1>1, <1>3, ParentFacts
  <2>2. s = [heap |-> Swapped(g, p, q), pos |-> q]
    BY <1>3 DEF Raised, Moved
  <2>. DEFINE f == Swapped(g, p, q)
  <2>3. /\ Rearranged(f, g)
        /\ \A k \in 1..n : f[k] = IF k = q THEN g[p] ELSE IF k = p THEN g[q] ELSE g[k]
    BY <1>1, <2>1, SwapFacts
  <2>. HIDE DEF f
  <2>4. s \in Sifts(h)
    BY <1>1, <2>1, <2>2, <2>3, RearrangedAgain DEF Sifts, Rearranged, f
  <2>5. ASSUME Rising(g, p)
        PROVE  Rising(f, q)
    <3>1. Len(f) = n
      BY <1>1, <2>3 DEF Rearranged
    <3>2. /\ \A j \in 2..n : j # p => g[Parent(j)].at <= g[j].at
          /\ \A c \in 2..n : Parent(c) = p => g[q].at <= g[c].at
      BY <1>1, <2>1, <2>5 DEF Rising, Ordered
    <3>3. \A j \in 2..n : Parent(j) \in 1..n /\ Parent(j) < j
      BY <1>1, ParentFacts
    <3>4. ASSUME NEW j \in 2..n, j # q
          PROVE  f[Parent(j)].at <= f[j].at
      <4>1. CASE j = p
        <5>1. f[Parent(j)] = g[p] /\ f[j] = g[q]
          BY <1>1, <2>1, <2>3, <4>1
        <5>. QED  BY <1>1, <1>3, <2>1, <5>1
      <4>2. CASE j # p /\ Parent(j) = p
        BY <1>1, <2>1, <2>3, <3>2, <3>3, <3>4, <4>2
      <4>3. CASE j # p /\ Parent(j) = q
        <5>1. f[Parent(j)] = g[p] /\ f[j] = g[j] /\ g[q].at <= g[j].at
          BY <1>1, <2>1, <2>3, <3>2, <3>4, <4>3
        <5>2. j \in 1..n
          BY <1>1
        <5>. QED  BY <1>1, <1>3, <2>1, <5>1, <5>2
      <4>4. CASE j # p /\ Parent(j) # p /\ Parent(j) # q
        BY <1>1, <2>1, <2>3, <3>2, <3>3, <3>4, <4>4
      <4>. QED  BY <4>1, <4>2, <4>3, <4>4
    <3>5. ASSUME NEW c \in 2..n, Parent(c) = q, q # 1
          PROVE  f[Parent(q)].at <= f[c].at
      <4>1. q \in 2..n /\ Parent(q) \in 1..n /\ Parent(q) # q /\ Parent(q) # p /\ c # q
        BY <2>1, <3>3, <3>5
      <4>2. f[Parent(q)] = g[Parent(q)] /\ g[Parent(q)].at <= g[q].at
        BY <2>1, <2>3, <3>2, <4>1
      <4>3. CASE c = p
        BY <2>1, <2>3, <4>2, <4>3
      <4>4. CASE c # p
        <5>1. f[c] = g[c] /\ g[q].at <= g[c].at
          BY <2>3, <3>2, <3>5, <4>1, <4>4
        <5>2. g[Parent(q)].at \in Int /\ g[q].at \in Int /\ g[c].at \in Int
          BY <1>1, <4>1
        <5>. QED  BY <4>2, <5>1, <5>2
      <4>. QED  BY <4>3, <4>4
    <3>. QED  BY <3>1, <3>4, <3>5 DEF Rising, Ordered
  <2>6. ASSUME p \in Below(start, n)
        PROVE  q \in Below(start, n)
    <3>1. ASSUME NEW S \in SUBSET (1..n), start \in S, Closed(S, n)
          PROVE  q \in S
      <4>1. ASSUME q \notin S PROVE FALSE
        <5>1. start \in S \ {p} /\ S \ {p} \in SUBSET (1..n)
          <6>1. start # p
            BY <1>1, <1>3
          <6>2. S \ {p} \subseteq 1..n
            BY <3>1
          <6>. QED  BY <3>1, <6>1, <6>2
        <5>2. Closed(S \ {p}, n)
          BY <3>1, <4>1 DEF Closed
        <5>. QED  BY <2>6, <5>1, <5>2 DEF Below
      <4>. QED  BY <4>1
    <3>2. q >= start
      <4>1. start..n \in SUBSET (1..n) /\ start \in start..n
        BY <1>1, <1>3
      <4>2. Closed(start..n, n)
        BY <1>1, ParentFacts DEF Closed
      <4>. QED  BY <3>1, <4>1, <4>2
    <3>. QED  BY <2>1, <3>1, <3>2 DEF Below
  <2>7. ~Settled(r, start)
    BY <1>1, <1>3, <2>1 DEF Settled, Ordered
  <2>. QED  BY <2>1, <2>2, <2>4, <2>5, <2>6, <2>7 DEF f
<1>. QED  BY <1>2, <1>3

\* heapq._siftdown leaves an item where its parent is not after it, or at start.
LEMMA SiftDownKeeps ==
  ASSUME NEW h \in Seq(Ops), NEW start \in Nat \ {0}, NEW pos \in Below(start, Len(h)),
         Rising(h, pos)
  PROVE  Rearranged(SiftDown(h, start, pos), h) /\ Rising(SiftDown(h, start, pos), start)
<1>. DEFINE n == Len(h)
            s == [heap |-> h, pos |-> pos]
            Course(f) == f = [k \in 0..n |-> IF k = 0 THEN s ELSE Raised(f[k - 1], start)]
            g == CHOOSE f : Course(f)
<1>1. n \in Nat /\ pos \in 1..n /\ s \in Sifts(h)
  BY DEF Sifts, Rearranged, Below
<1>2. \E f : Course(f)
  <2>. DEFINE t == [r \in Sifts(h) |-> Raised(r, start)]
  <2>1. t \in [Sifts(h) -> Sifts(h)]
    BY RaisedKeeps
  <2>2. PICK f \in [0..n -> Sifts(h)] : f[0] = s /\ \A k \in 1..n : f[k] = t[f[k - 1]]
    <3>. HIDE DEF s, n, t
    <3>1. \E f : IsCourse(f, Sifts(h), t, s, n)
      BY <1>1, <2>1, CourseExists
    <3>. QED  BY <3>1 DEF IsCourse
  <2>3. \A k \in 0..n : f[k] = IF k = 0 THEN s ELSE Raised(f[k - 1], start)
    <3>1. ASSUME NEW k \in 1..n PROVE f[k] = Raised(f[k - 1], start)
      <4>1. k - 1 \in 0..n
        BY <1>1
      <4>. QED  BY <2>2, <4>1
    <3>. HIDE DEF s, n, t
    <3>. QED  BY <1>1, <2>2, <3>1
  <2>4. Course(f)
    BY <2>2, <2>3
  <2>. QED  BY <2>4
<1>3. g[0] = s /\ \A k \in 1..n : g[k] = Raised(g[k - 1], start)
  <2>1. Course(g)
    BY <1>2
  <2>2. g = [k \in 0..n |-> IF k = 0 THEN s ELSE Raised(g[k - 1], start)]
    BY <2>1
  <2>. HIDE DEF g, s, n
  <2>3. 0 \in 0..n /\ \A k \in 1..n : k \in 0..n /\ k # 0
    BY <1>1
  <2>. QED  BY <2>2, <2>3
<1>4. SiftDown(h, start, pos) = g[n].heap
  BY DEF SiftDown
<1>. HIDE DEF g
<1>. DEFINE Kept(r, k) == /\ r \in Sifts(h) /\ Rising(r.heap, r.pos)
                          /\ r.pos \in Below(start, n)
                          /\ Settled(r, start) \/ r.pos <= pos - k
            I == [k \in 0..n |-> {r \in Sifts(h) : Kept(r, k)}]
<1>5. \A k \in 0..n : \A r : r \in I[k] <=> Kept(r, k)
  OBVIOUS
<1>6. g[0] \in I[0]
  BY <1>1, <1>3
<1>. HIDE DEF I
<1>7. ASSUME NEW k \in 1..n, g[k - 1] \in I[k - 1]
      PROVE  g[k] \in I[k]
  <2>. DEFINE r == g[k - 1]
  <2>1. k - 1 \in 0..n /\ k \in 0..n
    BY <1>1
  <2>2. /\ r \in Sifts(h) /\ Rising(r.heap, r.pos) /\ r.pos \in Below(start, n)
        /\ Settled(r, start) \/ r.pos <= pos - (k - 1)
    BY <1>5, <1>7, <2>1
  <2>3. g[k] = Raised(r, start)
    BY <1>3
  <2>. HIDE DEF r
  <2>4. /\ g[k] \in Sifts(h) /\ Rising(g[k].heap, g[k].pos) /\ g[k].pos \in Below(start, n)
        /\ IF Settled(r, start) THEN g[k] = r ELSE g[k].pos < r.pos
    BY <2>2, <2>3, RaisedKeeps
  <2>5. Settled(g[k], start) \/ g[k].pos <= pos - k
    <3>1. r.pos \in Nat /\ g[k].pos \in Nat
      BY <2>2, <2>4 DEF Sifts
    <3>. QED  BY <1>1, <2>2, <2>4, <3>1
  <2>. QED  BY <1>5, <2>1, <2>4, <2>5
<1>8. g[n] \in I[n]
  <2>. HIDE DEF n, Kept
  <2>1. \A k \in 1..n : g[k - 1] \in I[k - 1] => g[k] \in I[k]
    BY <1>7
  <2>2. \A k \in 0..n : g[k] \in I[k]
    BY <1>1, <1>6, <2>1, CourseKeeps
  <2>. QED  BY <1>1, <2>2
<1>. DEFINE r == g[n]
<1>9. /\ r \in Sifts(h) /\ Rising(r.heap, r.pos) /\ r.pos \in Below(start, n)
      /\ Settled(r, start)
  <2>1. /\ r \in Sifts(h) /\ Rising(r.heap, r.pos) /\ r.pos \in Below(start, n)
        /\ Settled(r, start) \/ r.pos <= pos - n
    BY <1>1, <1>5, <1>8
  <2>2. r.pos \in 1..n
    BY <2>1 DEF Sifts
  <2>. QED  BY <1>1, <2>1, <2>2
<1>. HIDE DEF r, I
<1>10. Rearranged(r.heap, h)
  BY <1>9 DEF Sifts
<1>11. Rising(r.heap, start)
  <2>1. CASE r.pos = start
    BY <1>9, <2>1
  <2>2. CASE r.pos # start
    <3>1. r.pos > start /\ r.pos \in 1..n
      BY <1>1, <1>9, <2>2 DEF Below
    <3>2. r.heap \in Seq(Ops) /\ \A j \in 2..Len(r.heap) : Ordered(r.heap, j)
      BY <1>1, <1>9, <1>10, <3>1 DEF Settled, Rising, Rearranged
    <3>. QED  BY <3>2, OrderedRises
  <2>. QED  BY <2>1, <2>2
<1>. QED  BY <1>4, <1>10, <1>11 DEF r
-----------------------------------------------------------------------------
(***************************************************************************)
(* heapq._siftup.                                                          *)
(***************************************************************************)
\* One turn moves the smaller child up; there is none if the item is in a leaf.
LEMMA LoweredKeeps ==
  ASSUME NEW h \in Seq(Ops), NEW start \in Nat \ {0}, NEW r \in Sifts(h)
  PROVE  /\ Lowered(r) \in Sifts(h)
         /\ Sinking(r.heap, r.pos) => Sinking(Lowered(r).heap, Lowered(r).pos)
         /\ r.pos \in Below(start, Len(h)) => Lowered(r).pos \in Below(start, Len(h))
         /\ IF 2 * r.pos > Len(h) THEN Lowered(r) = r ELSE Lowered(r).pos > r.pos
<1>. DEFINE g == r.heap
            p == r.pos
            n == Len(h)
            c == SmallerChild(g, p)
<1>1. /\ g \in Seq(Ops) /\ Rearranged(g, h) /\ p \in 1..n /\ n \in Nat /\ Len(g) = n
      /\ \A k \in 1..n : g[k] \in Ops /\ g[k].at \in Int
  BY OpsAssumption DEF Sifts, Rearranged
<1>2. CASE 2 * p > n
  BY <1>1, <1>2 DEF Lowered
<1>3. CASE 2 * p <= n
  <2>1. /\ c \in 2..n /\ p < c /\ Parent(c) = p
        /\ \A j \in 2..n : Parent(j) = p => g[c].at <= g[j].at
    <3>1. 2 * p \in 2..n /\ (2 * p + 1 <= n => 2 * p + 1 \in 2..n)
      BY <1>1, <1>3
    <3>2. \A j \in 2..n : Parent(j) = p <=> j = 2 * p \/ j = 2 * p + 1
      <4>1. p \in Nat /\ \A j \in 2..n : j \in Nat
        BY <1>1
      <4>. HIDE DEF p, n
      <4>. QED  BY <4>1, ParentFacts
    <3>3. g[2 * p].at \in Int /\ (2 * p + 1 <= n => g[2 * p + 1].at \in Int)
      BY <1>1, <3>1
    <3>4. CASE 2 * p + 1 <= n /\ ~(g[2 * p].at < g[2 * p + 1].at)
      <4>1. c = 2 * p + 1
        BY <1>1, <3>4 DEF SmallerChild
      <4>. HIDE DEF c
      <4>2. c \in 2..n /\ p < c /\ Parent(c) = p
        BY <1>1, <3>1, <3>2, <3>4, <4>1
      <4>3. ASSUME NEW j \in 2..n, Parent(j) = p
            PROVE  g[c].at <= g[j].at
        <5>1. j = 2 * p \/ j = 2 * p + 1
          BY <3>2, <4>3
        <5>2. g[2 * p + 1].at <= g[2 * p].at /\ g[2 * p + 1].at <= g[2 * p + 1].at
          BY <3>3, <3>4
        <5>. QED  BY <4>1, <5>1, <5>2
      <4>. QED  BY <4>2, <4>3
    <3>5. CASE ~(2 * p + 1 <= n /\ ~(g[2 * p].at < g[2 * p + 1].at))
      <4>1. c = 2 * p
        BY <1>1, <3>5 DEF SmallerChild
      <4>. HIDE DEF c
      <4>2. c \in 2..n /\ p < c /\ Parent(c) = p
        BY <1>1, <3>1, <3>2, <3>5, <4>1
      <4>3. ASSUME NEW j \in 2..n, Parent(j) = p
            PROVE  g[c].at <= g[j].at
        <5>1. j = 2 * p \/ j = 2 * p + 1
          BY <3>2, <4>3
        <5>. QED  BY <1>1, <3>1, <3>3, <3>5, <4>1, <4>3, <5>1
      <4>. QED  BY <4>2, <4>3
    <3>. QED  BY <3>4, <3>5
  <2>2. Lowered(r) = [heap |-> Swapped(g, p, c), pos |-> c]
    BY <1>1, <1>3 DEF Lowered, Moved
  <2>. DEFINE f == Swapped(g, p, c)
  <2>. HIDE DEF c
  <2>3. /\ Rearranged(f, g)
        /\ \A k \in 1..n : f[k] = IF k = c THEN g[p] ELSE IF k = p THEN g[c] ELSE g[k]
    BY <1>1, <2>1, SwapFacts
  <2>. HIDE DEF f
  <2>4. Lowered(r) \in Sifts(h)
    BY <1>1, <2>1, <2>2, <2>3, RearrangedAgain DEF Sifts, Rearranged, f
  <2>5. ASSUME Sinking(g, p)
        PROVE  Sinking(f, c)
    <3>1. Len(f) = n
      BY <1>1, <2>3 DEF Rearranged
    <3>2. /\ \A j \in 2..n : j # p /\ Parent(j) # p => g[Parent(j)].at <= g[j].at
          /\ \A j \in 2..n : Parent(j) = p /\ p # 1 => g[Parent(p)].at <= g[j].at
      BY <1>1, <2>5 DEF Sinking, Ordered
    <3>3. \A j \in 2..n : Parent(j) \in 1..n /\ Parent(j) < j
      BY <1>1, ParentFacts
    <3>4. ASSUME NEW j \in 2..n, j # c, Parent(j) # c
          PROVE  f[Parent(j)].at <= f[j].at
      <4>1. CASE j = p
        <5>1. f[Parent(j)] = g[Parent(p)] /\ f[j] = g[c]
          BY <1>1, <2>1, <2>3, <3>3, <3>4, <4>1
        <5>. QED  BY <1>1, <2>1, <3>2, <4>1, <5>1
      <4>2. CASE j # p /\ Parent(j) = p
        <5>1. f[Parent(j)] = g[c] /\ f[j] = g[j]
          BY <1>1, <2>1, <2>3, <3>4, <4>2
        <5>. QED  BY <2>1, <4>2, <5>1
      <4>3. CASE j # p /\ Parent(j) # p
        <5>1. f[j] = g[j] /\ f[Parent(j)] = g[Parent(j)]
          BY <1>1, <2>3, <3>3, <3>4, <4>3
        <5>. QED  BY <3>2, <4>3, <5>1
      <4>. QED  BY <4>1, <4>2, <4>3
    <3>5. ASSUME NEW j \in 2..n, Parent(j) = c
          PROVE  f[Parent(c)].at <= f[j].at
      <4>1. j # c /\ j # p /\ j \in 1..n
        BY <1>1, <2>1, <3>3, <3>5
      <4>2. f[p] = g[c] /\ f[j] = g[j]
        BY <1>1, <2>1, <2>3, <4>1
      <4>3. g[c].at <= g[j].at
        BY <2>1, <3>2, <3>5, <4>1
      <4>. QED  BY <2>1, <4>2, <4>3
    <3>. QED  BY <3>1, <3>4, <3>5 DEF Sinking, Ordered
  <2>6. ASSUME p \in Below(start, n)
        PROVE  c \in Below(start, n)
    BY <1>1, <2>1, <2>6 DEF Below, Closed
  <2>. QED  BY <1>1, <1>3, <2>1, <2>2, <2>4, <2>5, <2>6 DEF f
<1>. QED  BY <1>1, <1>2, <1>3

\* heapq._siftup puts in order what lies below pos.
LEMMA SiftUpKeeps ==
  ASSUME NEW h \in Seq(Ops), NEW pos \in 1..Len(h), Sinking(h, pos)
  PROVE  Rearranged(SiftUp(h, pos), h) /\ Rising(SiftUp(h, pos), pos)
<1>. DEFINE n == Len(h)
            s == [heap |-> h, pos |-> pos]
            Course(f) == f = [k \in 0..n |-> IF k = 0 THEN s ELSE Lowered(f[k - 1])]
            g == CHOOSE f : Course(f)
<1>1. n \in Nat /\ pos \in 1..n /\ pos \in Nat \ {0} /\ s \in Sifts(h) /\ pos \in Below(pos, n)
  BY DEF Sifts, Rearranged, Below
<1>2. \E f : Course(f)
  <2>. DEFINE t == [r \in Sifts(h) |-> Lowered(r)]
  <2>1. t \in [Sifts(h) -> Sifts(h)]
    BY <1>1, LoweredKeeps
  <2>2. PICK f \in [0..n -> Sifts(h)] : f[0] = s /\ \A k \in 1..n : f[k] = t[f[k - 1]]
    <3>. HIDE DEF s, n, t
    <3>1. \E f : IsCourse(f, Sifts(h), t, s, n)
      BY <1>1, <2>1, CourseExists
    <3>. QED  BY <3>1 DEF IsCourse
  <2>3. \A k \in 0..n : f[k] = IF k = 0 THEN s ELSE Lowered(f[k - 1])
    <3>1. ASSUME NEW k \in 1..n PROVE f[k] = Lowered(f[k - 1])
      <4>1. k - 1 \in 0..n
        BY <1>1
      <4>. QED  BY <2>2, <4>1
    <3>. HIDE DEF s, n, t
    <3>. QED  BY <1>1, <2>2, <3>1
  <2>4. Course(f)
    BY <2>2, <2>3
  <2>. QED  BY <2>4
<1>3. g[0] = s /\ \A k \in 1..n : g[k] = Lowered(g[k - 1])
  <2>1. Course(g)
    BY <1>2
  <2>2. g = [k \in 0..n |-> IF k = 0 THEN s ELSE Lowered(g[k - 1])]
    BY <2>1
  <2>. HIDE DEF g, s, n
  <2>3. 0 \in 0..n /\ \A k \in 1..n : k \in 0..n /\ k # 0
    BY <1>1
  <2>. QED  BY <2>2, <2>3
<1>4. SiftUp(h, pos) = SiftDown(g[n].heap, pos, g[n].pos)
  BY DEF SiftUp
<1>. HIDE DEF g
<1>. DEFINE Kept(r, k) == /\ r \in Sifts(h) /\ Sinking(r.heap, r.pos)
                          /\ r.pos \in Below(pos, n)
                          /\ 2 * r.pos > n \/ r.pos > k
            I == [k \in 0..n |-> {r \in Sifts(h) : Kept(r, k)}]
<1>5. \A k \in 0..n : \A r : r \in I[k] <=> Kept(r, k)
  OBVIOUS
<1>6. g[0] \in I[0]
  BY <1>1, <1>3
<1>. HIDE DEF I
<1>7. ASSUME NEW k \in 1..n, g[k - 1] \in I[k - 1]
      PROVE  g[k] \in I[k]
  <2>. DEFINE r == g[k - 1]
  <2>1. k - 1 \in 0..n /\ k \in 0..n
    BY <1>1
  <2>2. /\ r \in Sifts(h) /\ Sinking(r.heap, r.pos) /\ r.pos \in Below(pos, n)
        /\ 2 * r.pos > n \/ r.pos > k - 1
    BY <1>5, <1>7, <2>1
  <2>3. g[k] = Lowered(r)
    BY <1>3
  <2>. HIDE DEF r
  <2>4. /\ g[k] \in Sifts(h) /\ Sinking(g[k].heap, g[k].pos) /\ g[k].pos \in Below(pos, n)
        /\ IF 2 * r.pos > n THEN g[k] = r ELSE g[k].pos > r.pos
    BY <1>1, <2>2, <2>3, LoweredKeeps
  <2>5. 2 * g[k].pos > n \/ g[k].pos > k
    <3>1. r.pos \in Nat /\ g[k].pos \in Nat
      BY <2>2, <2>4 DEF Sifts
    <3>. QED  BY <1>1, <2>2, <2>4, <3>1
  <2>. QED  BY <1>5, <2>1, <2>4, <2>5
<1>8. g[n] \in I[n]
  <2>. HIDE DEF n, Kept
  <2>1. \A k \in 1..n : g[k - 1] \in I[k - 1] => g[k] \in I[k]
    BY <1>7
  <2>2. \A k \in 0..n : g[k] \in I[k]
    BY <1>1, <1>6, <2>1, CourseKeeps
  <2>. QED  BY <1>1, <2>2
<1>. DEFINE r == g[n]
<1>9. /\ r \in Sifts(h) /\ Sinking(r.heap, r.pos) /\ r.pos \in Below(pos, n)
      /\ 2 * r.pos > n
  <2>1. /\ r \in Sifts(h) /\ Sinking(r.heap, r.pos) /\ r.pos \in Below(pos, n)
        /\ 2 * r.pos > n \/ r.pos > n
    BY <1>1, <1>5, <1>8
  <2>2. r.pos \in 1..n
    BY <2>1 DEF Sifts
  <2>. QED  BY <1>1, <2>1, <2>2
<1>. HIDE DEF r, I
<1>10. /\ r.heap \in Seq(Ops) /\ Len(r.heap) = n /\ Rearranged(r.heap, h)
       /\ r.pos \in Nat
  BY <1>9 DEF Sifts, Rearranged
<1>11. Rising(r.heap, r.pos)
  <2>1. \A j \in 2..n : Parent(j) # r.pos
    BY <1>1, <1>9, <1>10, ParentFacts
  <2>. QED  BY <1>9, <1>10, <2>1 DEF Sinking, Rising
<1>12. /\ Rearranged(SiftDown(r.heap, pos, r.pos), r.heap)
       /\ Rising(SiftDown(r.heap, pos, r.pos), pos)
  BY <1>1, <1>9, <1>10, <1>11, SiftDownKeeps
<1>. QED  BY <1>4, <1>10, <1>12, RearrangedAgain DEF r
-----------------------------------------------------------------------------
(***************************************************************************)
(* The operations of the heap.                                             *)
(***************************************************************************)
InOrder(h) == \A j \in 2..Len(h) : Ordered(h, j)

\* The first item of a heap in order is the earliest.
LEMMA RootIsLeast ==
  ASSUME NEW h \in Seq(Ops), InOrder(h), NEW i \in 1..Len(h)
  PROVE  h[1].at <= h[i].at
<1>. DEFINE Bad == {k \in 1..Len(h) : ~(h[1].at <= h[k].at)}
<1>1. \A k \in 1..Len(h) : h[k].at \in Int
  BY OpsAssumption
<1>2. ASSUME Bad # {} PROVE FALSE
  <2>1. Bad \in SUBSET Nat
    OBVIOUS
  <2>2. PICK m \in Bad : \A k \in Bad : m <= k
    BY <1>2, <2>1, LeastNumber
  <2>3. m # 1
    BY <1>1, <2>2
  <2>4. m \in 2..Len(h) /\ Parent(m) \in 1..Len(h) /\ Parent(m) < m
    BY <2>2, <2>3, ParentFacts
  <2>5. h[1].at <= h[Parent(m)].at
    BY <2>1, <2>2, <2>4
  <2>6. h[Parent(m)].at <= h[m].at
    BY <2>4 DEF InOrder, Ordered
  <2>. QED  BY <1>1, <2>2, <2>4, <2>5, <2>6
<1>. QED  BY <1>2

\* A heap in order is one whose first item has risen as far as it can.
LEMMA RisenIsInOrder ==
  ASSUME NEW h \in Seq(Ops)
  PROVE  Rising(h, 1) <=> InOrder(h)
BY DEF Rising, InOrder

\* All positions are below the first.
LEMMA BelowTheRoot ==
  ASSUME NEW n \in Nat, NEW p \in 1..n
  PROVE  p \in Below(1, n)
<1>1. ASSUME NEW S \in SUBSET (1..n), 1 \in S, Closed(S, n)
      PROVE  p \in S
  <2>. DEFINE Bad == (1..n) \ S
  <2>1. ASSUME Bad # {} PROVE FALSE
    <3>1. Bad \in SUBSET Nat
      OBVIOUS
    <3>2. PICK m \in Bad : \A k \in Bad : m <= k
      BY <2>1, <3>1, LeastNumber
    <3>3. m \in 2..n /\ Parent(m) \in 1..n /\ Parent(m) < m
      BY <1>1, <3>2, ParentFacts
    <3>4. Parent(m) \in S
      BY <3>1, <3>2, <3>3
    <3>. QED  BY <1>1, <3>2, <3>3, <3>4 DEF Closed
  <2>. QED  BY <2>1
<1>. QED  BY <1>1 DEF Below

\* The items of a sequence, by position.
LEMMA Items ==
  ASSUME NEW h \in Seq(Ops)
  PROVE  /\ \A x : x \in ToSet(h) <=> \E i \in 1..Len(h) : x = h[i]
         /\ IsInjective(h) <=> \A i, j \in 1..Len(h) : h[i] = h[j] => i = j
         /\ ToSet(h) \subseteq Ops
<1>1. DOMAIN h = 1..Len(h) /\ \A i \in 1..Len(h) : h[i] \in Ops
  OBVIOUS
<1>2. \A x : x \in ToSet(h) <=> \E i \in 1..Len(h) : x = h[i]
  BY <1>1 DEF ToSet
<1>3. IsInjective(h) <=> \A i, j \in 1..Len(h) : h[i] = h[j] => i = j
  BY <1>1 DEF IsInjective
<1>. QED  BY <1>1, <1>2, <1>3

\* TimedOperation.process pushes one item.
LEMMA PushKeeps ==
  ASSUME NEW h \in Seq(Ops), NEW op \in Ops \ ToSet(h), InOrder(h), IsInjective(h)
  PROVE  /\ HeapPush(h, op) \in Seq(Ops) /\ InOrder(HeapPush(h, op)) /\ IsInjective(HeapPush(h, op))
         /\ ToSet(HeapPush(h, op)) = ToSet(h) \cup {op}
<1>. DEFINE g == Append(h, op)
            n == Len(h) + 1
            f == SiftDown(g, 1, n)
<1>1. /\ g \in Seq(Ops) /\ Len(g) = n /\ n \in Nat /\ n \in 1..n /\ g[n] = op
      /\ \A i \in 1..Len(h) : i \in 1..n /\ i # n /\ g[i] = h[i]
      /\ \A i \in 1..n : i # n => i \in 1..Len(h)
  OBVIOUS
<1>2. Rising(g, n)
  <2>1. \A j \in 2..n : Parent(j) \in 1..Len(h) /\ Parent(j) # n
    BY <1>1, ParentFacts
  <2>2. ASSUME NEW j \in 2..n, j # n
        PROVE  Ordered(g, j)
    <3>1. j \in 2..Len(h)
      BY <1>1, <2>2
    <3>. QED  BY <1>1, <2>1, <3>1 DEF InOrder, Ordered
  <2>. QED  BY <1>1, <2>1, <2>2 DEF Rising
<1>3. ToSet(g) = ToSet(h) \cup {op} /\ IsInjective(g)
  <2>. HIDE DEF g, n
  <2>1. \A x : x \in ToSet(g) <=> x \in ToSet(h) \/ x = op
    BY <1>1, Items
  <2>2. \A i \in 1..Len(h) : h[i] # op
    BY Items
  <2>3. \A i, j \in 1..Len(h) : h[i] = h[j] => i = j
    BY Items
  <2>4. \A i, j \in 1..n : g[i] = g[j] => i = j
    BY <1>1, <2>2, <2>3
  <2>. QED  BY <1>1, <2>1, <2>4, Items
<1>. HIDE DEF g, n
<1>4. Rearranged(f, g) /\ Rising(f, 1)
  <2>1. n \in Below(1, Len(g)) /\ 1 \in Nat \ {0}
    BY <1>1, BelowTheRoot
  <2>. QED  BY <1>1, <1>2, <2>1, SiftDownKeeps
<1>5. HeapPush(h, op) = f
  BY DEF HeapPush, g, n
<1>. HIDE DEF f
<1>. QED  BY <1>3, <1>4, <1>5, RisenIsInOrder DEF Rearranged

\* What heapremove and heappop fill a gap with, the last item, sinks from there.
LEMMA GapFilled ==
  ASSUME NEW h \in Seq(Ops), NEW i \in 1..(Len(h) - 1), InOrder(h), IsInjective(h), NEW g \in Seq(Ops),
         Len(g) = Len(h) - 1,
         \A k \in 1..(Len(h) - 1) : g[k] = IF k = i THEN h[Len(h)] ELSE h[k]
  PROVE  Sinking(g, i) /\ ToSet(g) = ToSet(h) \ {h[i]} /\ IsInjective(g)
<1>. DEFINE n == Len(h)
<1>1. n \in Nat /\ n - 1 \in Nat /\ i \in 1..n /\ i # n /\ Len(g) = n - 1
  OBVIOUS
<1>2. \A j \in 2..n : h[Parent(j)].at <= h[j].at
  BY DEF InOrder, Ordered
<1>3. \A j \in 2..n : Parent(j) \in 1..n /\ Parent(j) < j
  BY ParentFacts
<1>4. \A k \in 1..n : h[k].at \in Int
  BY OpsAssumption
<1>5. Sinking(g, i)
  <2>1. ASSUME NEW j \in 2..(n - 1), j # i, Parent(j) # i
        PROVE  g[Parent(j)].at <= g[j].at
    <3>1. g[j] = h[j] /\ g[Parent(j)] = h[Parent(j)] /\ j \in 2..n
      BY <1>1, <1>3, <2>1
    <3>. QED  BY <1>2, <3>1
  <2>2. ASSUME NEW c \in 2..(n - 1), Parent(c) = i, i # 1
        PROVE  g[Parent(i)].at <= g[c].at
    <3>1. i \in 2..n /\ c \in 2..n /\ c # i /\ Parent(i) # i /\ Parent(i) \in 1..(n - 1)
      BY <1>1, <1>3, <2>2
    <3>2. g[Parent(i)] = h[Parent(i)] /\ g[c] = h[c]
      BY <1>1, <3>1
    <3>3. h[Parent(i)].at <= h[i].at /\ h[i].at <= h[c].at
      BY <1>2, <2>2, <3>1
    <3>4. h[Parent(i)].at \in Int /\ h[i].at \in Int /\ h[c].at \in Int
      BY <1>1, <1>4, <3>1
    <3>. QED  BY <3>2, <3>3, <3>4
  <2>. QED  BY <1>1, <2>1, <2>2 DEF Sinking, Ordered
<1>6. \A k, l \in 1..n : h[k] = h[l] => k = l
  BY Items
<1>7. IsInjective(g)
  <2>1. \A k, l \in 1..(n - 1) : g[k] = g[l] => k = l
    BY <1>1, <1>6
  <2>. QED  BY <1>1, <2>1, Items
<1>8. ToSet(g) = ToSet(h) \ {h[i]}
  <2>1. ASSUME NEW x \in ToSet(g) PROVE x \in ToSet(h) /\ x # h[i]
    <3>1. PICK k \in 1..(n - 1) : x = g[k]
      BY <1>1, Items
    <3>2. PICK l \in 1..n : x = h[l] /\ l # i
      BY <1>1, <3>1
    <3>. QED  BY <1>1, <1>6, <3>2, Items
  <2>2. ASSUME NEW x \in ToSet(h), x # h[i] PROVE x \in ToSet(g)
    <3>1. PICK l \in 1..n : x = h[l]
      BY Items
    <3>2. l # i
      BY <2>2, <3>1
    <3>3. \E k \in 1..(n - 1) : x = g[k]
      <4>1. CASE l = n
        BY <1>1, <3>1, <4>1
      <4>2. CASE l # n
        BY <1>1, <3>1, <3>2, <4>2
      <4>. QED  BY <4>1, <4>2
    <3>. QED  BY <1>1, <3>3, Items
  <2>. QED  BY <2>1, <2>2
<1>. QED  BY <1>5, <1>7, <1>8

\* A list without its last item.
LEMMA FrontFacts ==
  ASSUME NEW h \in Seq(Ops), Len(h) # 0
  PROVE  /\ Front(h) \in Seq(Ops) /\ Len(Front(h)) = Len(h) - 1
         /\ \A k \in 1..(Len(h) - 1) : Front(h)[k] = h[k]
<1>. DEFINE n == Len(h)
<1>1. n \in Nat /\ n - 1 \in Nat /\ n >= 1
  OBVIOUS
<1>2. /\ SubSeq(h, 1, n - 1) \in Seq(Ops) /\ Len(SubSeq(h, 1, n - 1)) = n - 1
      /\ \A k \in 1..(n - 1) : SubSeq(h, 1, n - 1)[k] = h[k]
  <2>1. \A k \in 1..(n - 1) : h[k] \in Ops
    BY <1>1
  <2>. DEFINE g == SubSeq(h, 1, n - 1)
  <2>2. /\ g \in Seq(Ops) /\ Len(g) = IF 1 <= n - 1 THEN n - 1 - 1 + 1 ELSE 0
        /\ \A k \in 1..(n - 1 - 1 + 1) : g[k] = h[1 + k - 1]
    BY <1>1, <2>1, SubSeqProperties
  <2>. HIDE DEF g
  <2>3. \A k \in 1..(n - 1) : k \in 1..(n - 1 - 1 + 1) /\ 1 + k - 1 = k
    BY <1>1
  <2>4. Len(g) = n - 1
    <3>. HIDE DEF n
    <3>1. (IF 1 <= n - 1 THEN n - 1 - 1 + 1 ELSE 0) = n - 1
      BY <1>1
    <3>. QED  BY <2>2, <3>1
  <2>5. \A k \in 1..(n - 1) : g[k] = h[k]
    <3>1. ASSUME NEW k \in 1..(n - 1) PROVE g[k] = h[k]
      <4>1. g[k] = h[1 + k - 1] /\ 1 + k - 1 = k
        BY <2>2, <2>3
      <4>. QED  BY <4>1
    <3>. QED  BY <3>1
  <2>. QED  BY <2>2, <2>4, <2>5 DEF g
<1>. QED  BY <1>2 DEF Front

\* heappop takes the first item.
LEMMA PopKeeps ==
  ASSUME NEW h \in Seq(Ops), h # <<>>, InOrder(h), IsInjective(h)
  PROVE  /\ HeapPop(h) \in Seq(Ops) /\ InOrder(HeapPop(h)) /\ IsInjective(HeapPop(h))
         /\ ToSet(HeapPop(h)) = ToSet(h) \ {h[1]}
<1>1. Len(h) \in Nat /\ Len(h) # 0
  BY EmptySeq
<1>2. CASE Len(h) = 1
  <2>1. HeapPop(h) = <<>>
    BY <1>2 DEF HeapPop
  <2>2. \A x : x \in ToSet(h) <=> x = h[1]
    BY <1>2, Items
  <2>3. ToSet(<<>>) = {} /\ IsInjective(<<>>) /\ InOrder(<<>>)
    BY DEF ToSet, IsInjective, InOrder
  <2>. QED  BY <2>1, <2>2, <2>3
<1>3. CASE Len(h) # 1
  <2>. DEFINE n == Len(h)
              front == Front(h)
              rest == Tail(front)
              g == <<Last(h)>> \o rest
              f == SiftUp(g, 1)
  <2>1. n \in Nat /\ n > 1 /\ 1 \in 1..(n - 1)
    <3>1. \A k \in Nat : k # 0 /\ k # 1 => k > 1 /\ 1 \in 1..(k - 1)
      OBVIOUS
    <3>. QED  BY <1>1, <1>3, <3>1
  <2>2. /\ front \in Seq(Ops) /\ Len(front) = n - 1 /\ front # <<>>
        /\ \A k \in 1..(n - 1) : front[k] = h[k]
    BY <2>1, FrontFacts, EmptySeq
  <2>. HIDE DEF front
  <2>3. rest \in Seq(Ops) /\ Len(rest) = n - 2 /\ \A k \in 1..(n - 2) : rest[k] = h[k + 1]
    BY <2>1, <2>2
  <2>. HIDE DEF rest
  <2>4. Last(h) = h[n] /\ h[n] \in Ops
    BY <2>1 DEF Last
  <2>5. /\ g \in Seq(Ops) /\ Len(g) = n - 1
        /\ \A k \in 1..(n - 1) : g[k] = IF k = 1 THEN h[n] ELSE h[k]
    BY <2>1, <2>3, <2>4
  <2>. HIDE DEF g
  <2>6. Sinking(g, 1) /\ ToSet(g) = ToSet(h) \ {h[1]} /\ IsInjective(g)
    BY <2>1, <2>5, GapFilled
  <2>7. Rearranged(f, g) /\ Rising(f, 1)
    BY <2>1, <2>5, <2>6, SiftUpKeeps
  <2>8. HeapPop(h) = f
    BY <1>3 DEF HeapPop, g, rest, front
  <2>. HIDE DEF f
  <2>. QED  BY <2>6, <2>7, <2>8, RisenIsInOrder DEF Rearranged
<1>. QED  BY <1>2, <1>3

\* list.index finds an item with the deadline, if there is one.
LEMMA IndexFacts ==
  ASSUME NEW h \in Seq(Ops), NEW op \in Ops
  PROVE  /\ IndexOf(h, op) = 0 => \A i \in 1..Len(h) : h[i].at # op.at
         /\ IndexOf(h, op) # 0 => IndexOf(h, op) \in 1..Len(h) /\ h[IndexOf(h, op)].at = op.at
<1>. DEFINE I == {i \in 1..Len(h) : h[i].at = op.at}
<1>1. IndexOf(h, op) = IF I # {} THEN Min(I) ELSE 0
  BY DEF IndexOf, SelectInSeq
<1>2. I # {} => Min(I) \in I
  <2>1. ASSUME I # {} PROVE \E x \in I : \A y \in I : x <= y
    <3>1. I \in SUBSET Nat
      OBVIOUS
    <3>. QED  BY <2>1, <3>1, LeastNumber
  <2>. QED  BY <2>1 DEF Min
<1>. QED  BY <1>1, <1>2

\* heapremove takes one item, and one with the deadline of the operation.
LEMMA RemoveKeeps ==
  ASSUME NEW h \in Seq(Ops), NEW op \in Ops, InOrder(h), IsInjective(h), IndexOf(h, op) # 0
  PROVE  /\ HeapRemove(h, op) \in Seq(Ops) /\ InOrder(HeapRemove(h, op))
         /\ IsInjective(HeapRemove(h, op))
         /\ \E tied \in ToSet(h) : tied.at = op.at /\ ToSet(HeapRemove(h, op)) = ToSet(h) \ {tied}
<1>. DEFINE n == Len(h)
            i == IndexOf(h, op)
            front == Front(h)
<1>1. n \in Nat /\ i \in 1..n /\ h[i].at = op.at /\ n \in 1..n
  BY IndexFacts
<1>2. Last(h) = h[n] /\ h[n] \in Ops
  BY <1>1 DEF Last
<1>3. /\ front \in Seq(Ops) /\ Len(front) = n - 1 /\ n - 1 \in Nat
      /\ \A k \in 1..(n - 1) : front[k] = h[k]
  BY <1>1, FrontFacts
<1>. HIDE DEF i, front
<1>4. CASE h[n].at = op.at
  <2>1. HeapRemove(h, op) = front
    BY <1>2, <1>4 DEF HeapRemove, front
  <2>2. InOrder(front)
    <3>1. ASSUME NEW j \in 2..(n - 1) PROVE Ordered(front, j)
      <4>1. j \in 2..n /\ j \in 1..(n - 1) /\ Parent(j) \in 1..(n - 1)
        BY <1>1, ParentFacts
      <4>. QED  BY <1>3, <4>1 DEF InOrder, Ordered
    <3>. QED  BY <1>3, <3>1 DEF InOrder
  <2>3. \A k, l \in 1..n : h[k] = h[l] => k = l
    BY Items
  <2>4. \A k, l \in 1..(n - 1) : front[k] = front[l] => k = l
    BY <1>1, <1>3, <2>3
  <2>5. IsInjective(front)
    BY <1>3, <2>4, Items
  <2>6. ToSet(front) = ToSet(h) \ {h[n]}
    <3>1. \A k \in 1..(n - 1) : k \in 1..n /\ k # n
      BY <1>1
    <3>2. \A k \in 1..n : k = n \/ k \in 1..(n - 1)
      BY <1>1
    <3>3. \A x : x \in ToSet(front) <=> \E k \in 1..(n - 1) : x = h[k]
      BY <1>3, Items
    <3>4. \A x : x \in ToSet(h) <=> \E k \in 1..n : x = h[k]
      BY Items
    <3>. QED  BY <1>1, <2>3, <3>1, <3>2, <3>3, <3>4
  <2>7. h[n] \in ToSet(h)
    BY <1>1, Items
  <2>. QED  BY <1>3, <1>4, <2>1, <2>2, <2>5, <2>6, <2>7
<1>5. CASE h[n].at # op.at
  <2>. DEFINE g == [front EXCEPT ![i] = h[n]]
              f == SiftUp(g, i)
              e == SiftDown(f, 1, i)
  <2>1. i \in 1..(n - 1)
    BY <1>1, <1>5
  <2>2. /\ g \in Seq(Ops) /\ Len(g) = n - 1
        /\ \A k \in 1..(n - 1) : g[k] = IF k = i THEN h[n] ELSE h[k]
    BY <1>2, <1>3, <2>1
  <2>. HIDE DEF g
  <2>3. Sinking(g, i) /\ ToSet(g) = ToSet(h) \ {h[i]} /\ IsInjective(g)
    BY <2>1, <2>2, GapFilled
  <2>4. Rearranged(f, g) /\ Rising(f, i)
    BY <2>1, <2>2, <2>3, SiftUpKeeps
  <2>. HIDE DEF f
  <2>5. f \in Seq(Ops) /\ Len(f) = n - 1
    BY <2>2, <2>4 DEF Rearranged
  <2>6. Rearranged(e, f) /\ Rising(e, 1)
    <3>1. i \in Below(1, Len(f)) /\ 1 \in Nat \ {0}
      BY <1>3, <2>1, <2>5, BelowTheRoot
    <3>. QED  BY <2>4, <2>5, <3>1, SiftDownKeeps
  <2>7. HeapRemove(h, op) = e
    BY <1>2, <1>5 DEF HeapRemove, f, g, i, front
  <2>. HIDE DEF e
  <2>8. e \in Seq(Ops) /\ IsInjective(e) /\ ToSet(e) = ToSet(h) \ {h[i]} /\ InOrder(e)
    BY <2>3, <2>4, <2>6, RisenIsInOrder DEF Rearranged
  <2>9. h[i] \in ToSet(h)
    BY <1>1, Items
  <2>. QED  BY <1>1, <2>7, <2>8, <2>9
<1>. QED  BY <1>4, <1>5
-----------------------------------------------------------------------------
(***************************************************************************)
(* The heap as a whole.                                                    *)
(***************************************************************************)
Inv == heap \in Seq(Ops) /\ InOrder(heap) /\ IsInjective(heap)

\* In the words of Inv: what a step does to the set of the items, and to the list.
LEMMA Steps ==
  ASSUME Inv, Next
  PROVE  Inv' /\ Set!Next
<1>1. CASE Pop
  <2>1. heap # <<>> /\ heap' = HeapPop(heap) /\ last' = <<"pop", heap[1]>>
    BY <1>1 DEF Pop
  <2>2. Inv' /\ ToSet(heap') = ToSet(heap) \ {heap[1]}
    BY <2>1, PopKeeps DEF Inv
  <2>3. 1 \in 1..Len(heap) /\ heap[1] \in Ops
    BY <2>1, EmptySeq DEF Inv
  <2>4. heap[1] \in ToSet(heap) /\ \A other \in ToSet(heap) : heap[1].at <= other.at
    BY <2>3, RootIsLeast, Items DEF Inv
  <2>5. Set!Pop(heap[1])
    BY <2>1, <2>2, <2>4 DEF Set!Pop
  <2>. QED  BY <2>2, <2>3, <2>5 DEF Set!Next
<1>2. ASSUME NEW op \in Ops, Push(op)
      PROVE  Inv' /\ Set!Next
  <2>1. op \notin ToSet(heap) /\ heap' = HeapPush(heap, op) /\ last' = <<"push", op>>
    BY <1>2 DEF Push
  <2>2. Inv' /\ ToSet(heap') = ToSet(heap) \cup {op}
    BY <2>1, PushKeeps DEF Inv
  <2>3. Set!Push(op)
    BY <2>1, <2>2 DEF Set!Push
  <2>. QED  BY <2>2, <2>3 DEF Set!Next
<1>3. ASSUME NEW op \in Ops, Finish(op)
      PROVE  Inv' /\ Set!Next
  <2>1. CASE IndexOf(heap, op) # 0
    <3>1. heap' = HeapRemove(heap, op) /\ last' = <<"remove", op>>
      BY <1>3, <2>1 DEF Finish
    <3>2. Inv' /\ \E tied \in ToSet(heap) : tied.at = op.at /\ ToSet(heap') = ToSet(heap) \ {tied}
      BY <2>1, <3>1, RemoveKeeps DEF Inv
    <3>3. Set!Remove(op)
      BY <3>1, <3>2 DEF Set!Remove
    <3>. QED  BY <3>2, <3>3 DEF Set!Next
  <2>2. CASE IndexOf(heap, op) = 0
    <3>1. heap' = heap /\ last' = <<"ValueError", op>>
      BY <1>3, <2>2 DEF Finish
    <3>2. \A other \in ToSet(heap) : other.at # op.at
      BY <2>2, IndexFacts, Items DEF Inv
    <3>3. Set!RemoveFails(op)
      BY <3>1, <3>2 DEF Set!RemoveFails
    <3>. QED  BY <3>1, <3>3 DEF Set!Next, Inv
  <2>. QED  BY <2>1, <2>2
<1>. QED  BY <1>1, <1>2, <1>3 DEF Next

LEMMA InitKeeps == Init => Inv /\ Set!Init
<1>1. ASSUME Init
      PROVE  Inv /\ Set!Init
  <2>1. heap = <<>> /\ last = <<"init">>
    BY <1>1 DEF Init
  <2>2. ToSet(<<>>) = {} /\ IsInjective(<<>>) /\ InOrder(<<>>)
    BY DEF ToSet, IsInjective, InOrder
  <2>. QED  BY <2>1, <2>2 DEF Inv, Set!Init
<1>. QED  BY <1>1

LEMMA NextKeeps == Inv /\ [Next]_vars => Inv' /\ [Set!Next]_Set!vars
<1>1. ASSUME Inv, UNCHANGED vars
      PROVE  Inv' /\ UNCHANGED Set!vars
  BY <1>1 DEF Inv, vars, Set!vars
<1>. QED  BY <1>1, Steps

LEMMA InvCorrect == Spec => []Inv
BY InitKeeps, NextKeeps, PTL DEF Spec

\* Every item of the heap is at most its children, after any calls of heappush, heappop
\* and heapremove, for any deadlines and a heap of any length.
THEOREM HeapStaysOrdered == Spec => []HeapOrdered
<1>1. Inv => HeapOrdered
  BY DEF Inv, InOrder, Ordered, HeapOrdered
<1>. QED  BY <1>1, InvCorrect, PTL

\* The list with heapq's functions and heapremove behaves as the set of timers that
\* the main loop works with.
THEOREM HeapIsTimerSet == Spec => ImplementsTimerSet
<1>. QED  BY InitKeeps, NextKeeps, InvCorrect, PTL DEF Spec, ImplementsTimerSet, Set!Spec

\* heapremove takes out the operation itself, when no other has its deadline.
THEOREM RemoveTakesItself == Spec => RemovesItself
<1>. DEFINE Takes == \A op \in ToSet(heap) :
       (last' = <<"remove", op>> /\ \A x \in ToSet(heap) \ {op} : x.at # op.at)
         => ToSet(heap') = ToSet(heap) \ {op}
<1>1. Inv /\ [Next]_vars => [Takes]_vars
  <2>1. ASSUME Inv, Next, NEW op \in ToSet(heap), last' = <<"remove", op>>,
               \A x \in ToSet(heap) \ {op} : x.at # op.at
        PROVE  ToSet(heap') = ToSet(heap) \ {op}
    <3>1. PICK other : Set!Remove(other) /\ last' = <<"remove", other>>
      BY <2>1, Steps DEF Set!Next, Set!Push, Set!Pop, Set!Remove, Set!RemoveFails
    <3>2. other = op
      BY <2>1, <3>1
    <3>. QED  BY <2>1, <3>1, <3>2 DEF Set!Remove
  <2>. QED  BY <2>1
<1>. QED  BY <1>1, InvCorrect, PTL DEF Spec, RemovesItself
=============================================================================
