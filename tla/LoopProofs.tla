----------------------------- MODULE LoopProofs -----------------------------
(***************************************************************************)
(* Lemmas about the deque of the main loop, for the proofs about the       *)
(* programs that run on it: which coroutines have a pair in a deque, and   *)
(* what it takes that each of them has one.                                *)
(***************************************************************************)
EXTENDS SchedCore, FiniteSetTheorems, WellFoundedInduction, TLAPS

\* The coroutines that have a pair in s, and: none of them has two.
Coros(s) == {s[i].coro : i \in DOMAIN s}
Distinct(s) == \A i, j \in DOMAIN s : s[i].coro = s[j].coro => i = j

\* The same for a sequence of operations and the coroutines that created them.
Owners(s) == {s[i].c : i \in DOMAIN s}
Single(s) == \A i, j \in DOMAIN s : s[i].c = s[j].c => i = j

(***************************************************************************)
(* With deque a, the coroutine of the inner loop c and the waiting         *)
(* coroutines W: nobody is in two places, and who lives is in one.         *)
(***************************************************************************)
OnePlace(a, c, W, living) ==
  /\ Distinct(a)
  /\ Coros(a) \cap W = {}
  /\ c \notin Coros(a) /\ c \notin W
  /\ living \subseteq Coros(a) \cup W \cup {c}

Living == {c \in Coro : Alive(c)}
-----------------------------------------------------------------------------
\* A set of numbers has a least one.
LEMMA LeastNumber ==
  ASSUME NEW S \in SUBSET Nat, S # {}
  PROVE  \E x \in S : \A y \in S : x <= y
<1>. DEFINE R == {p \in Nat \X Nat : p[1] < p[2]}
<1>1. IsWellFoundedOn(R, Nat)
  BY NatLessThanWellFounded DEF OpToRel
<1>2. \A x, y \in Nat : x < y => <<x, y>> \in R
  OBVIOUS
<1>. HIDE DEF R
<1>3. PICK x \in S : \A y \in S : ~(<<y, x>> \in R)
  BY <1>1, WFMin
<1>4. ASSUME NEW y \in S
      PROVE  x <= y
  <2>1. x \in Nat /\ y \in Nat /\ ~(y < x)
    BY <1>2, <1>3
  <2>. QED  BY <2>1
<1>. QED  BY <1>4

\* A deque that is empty.
LEMMA EmptyCoros == Coros(<<>>) = {} /\ Distinct(<<>>)
BY DEF Coros, Distinct

\* A pair put behind.
LEMMA AppendCoros ==
  ASSUME NEW S, NEW s \in Seq(S), NEW p \in S
  PROVE  /\ Coros(Append(s, p)) = Coros(s) \cup {p.coro}
         /\ Distinct(s) /\ p.coro \notin Coros(s) => Distinct(Append(s, p))
<1>1. /\ DOMAIN Append(s, p) = 1 .. Len(s) + 1 /\ DOMAIN s = 1 .. Len(s) /\ Len(s) \in Nat
      /\ Append(s, p)[Len(s) + 1] = p
      /\ \A i \in 1 .. Len(s) : Append(s, p)[i] = s[i]
  OBVIOUS
<1>2. \A i \in 1 .. Len(s) + 1 : i \in 1 .. Len(s) \/ i = Len(s) + 1
  BY <1>1
<1>3. \A i \in 1 .. Len(s) : i \in 1 .. Len(s) + 1
  BY <1>1
<1>4. Len(s) + 1 \in 1 .. Len(s) + 1
  BY <1>1
<1>5. Coros(Append(s, p)) = Coros(s) \cup {p.coro}
  BY <1>1, <1>2, <1>3, <1>4 DEF Coros
<1>6. Distinct(s) /\ p.coro \notin Coros(s) => Distinct(Append(s, p))
  BY <1>1, <1>2, <1>3 DEF Coros, Distinct
<1>. QED  BY <1>5, <1>6

\* Two deques put together.
LEMMA ConcatCoros ==
  ASSUME NEW S, NEW s \in Seq(S), NEW t \in Seq(S)
  PROVE  /\ Coros(s \o t) = Coros(s) \cup Coros(t)
         /\ Distinct(s) /\ Distinct(t) /\ Coros(s) \cap Coros(t) = {} => Distinct(s \o t)
<1>. DEFINE m == Len(s)
            n == Len(t)
            u == s \o t
<1>1. /\ m \in Nat /\ n \in Nat /\ DOMAIN s = 1 .. m /\ DOMAIN t = 1 .. n
      /\ DOMAIN u = 1 .. m + n
      /\ \A i \in 1 .. m : u[i] = s[i]
      /\ \A i \in 1 .. n : u[m + i] = t[i]
  OBVIOUS
<1>. HIDE DEF m, n, u
<1>2. ASSUME NEW i \in 1 .. m + n
      PROVE  i \in 1 .. m \/ \E k \in 1 .. n : i = m + k
  <2>1. CASE i > m
    <3>1. i - m \in 1 .. n /\ i = m + (i - m)
      BY <2>1, <1>1
    <3>. QED  BY <3>1
  <2>. QED  BY <2>1, <1>1
<1>3. /\ \A i \in 1 .. m : i \in 1 .. m + n
      /\ \A i \in 1 .. n : m + i \in 1 .. m + n
  BY <1>1
<1>4. Coros(u) \subseteq Coros(s) \cup Coros(t)
  <2>1. ASSUME NEW i \in 1 .. m + n
        PROVE  u[i].coro \in Coros(s) \cup Coros(t)
    BY <1>1, <1>2 DEF Coros
  <2>. QED  BY <2>1, <1>1 DEF Coros
<1>5. Coros(s) \subseteq Coros(u)
  BY <1>1, <1>3 DEF Coros
<1>6. Coros(t) \subseteq Coros(u)
  <2>1. ASSUME NEW i \in 1 .. n
        PROVE  t[i].coro \in Coros(u)
    <3>1. m + i \in 1 .. m + n /\ u[m + i] = t[i]
      BY <1>1, <1>3
    <3>. QED  BY <3>1, <1>1 DEF Coros
  <2>. QED  BY <2>1, <1>1 DEF Coros
<1>7. ASSUME Distinct(s), Distinct(t), Coros(s) \cap Coros(t) = {},
             NEW i \in 1 .. m + n, NEW j \in 1 .. m + n, u[i].coro = u[j].coro
      PROVE  i = j
  <2>1. CASE i \in 1 .. m /\ j \in 1 .. m
    BY <2>1, <1>1, <1>7 DEF Distinct
  <2>2. ASSUME NEW k \in 1 .. n, NEW l \in 1 .. n, i = m + k, j = m + l
        PROVE  i = j
    <3>1. t[k].coro = t[l].coro
      BY <2>2, <1>1, <1>7
    <3>. QED  BY <2>2, <3>1, <1>1, <1>7 DEF Distinct
  <2>3. ASSUME NEW k \in 1 .. m, NEW l \in 1 .. n
        PROVE  u[k].coro # u[m + l].coro
    <3>1. u[k].coro \in Coros(s) /\ u[m + l].coro \in Coros(t)
      BY <1>1 DEF Coros
    <3>. QED  BY <3>1, <1>7
  <2>. QED  BY <1>2, <1>7, <2>1, <2>2, <2>3
<1>. QED  BY <1>1, <1>4, <1>5, <1>6, <1>7 DEF Distinct, u

\* A pair put in front.
LEMMA ConsCoros ==
  ASSUME NEW S, NEW s \in Seq(S), NEW p \in S
  PROVE  /\ Coros(<<p>> \o s) = Coros(s) \cup {p.coro}
         /\ Distinct(s) /\ p.coro \notin Coros(s) => Distinct(<<p>> \o s)
<1>1. <<p>> \in Seq(S) /\ Coros(<<p>>) = {p.coro} /\ Distinct(<<p>>)
  BY DEF Coros, Distinct
<1>2. /\ Coros(<<p>> \o s) = Coros(<<p>>) \cup Coros(s)
      /\ Distinct(<<p>>) /\ Distinct(s) /\ Coros(<<p>>) \cap Coros(s) = {} => Distinct(<<p>> \o s)
  BY <1>1, ConcatCoros
<1>. QED  BY <1>1, <1>2

\* The first pair taken.
LEMMA TailCoros ==
  ASSUME NEW S, NEW s \in Seq(S), s # <<>>
  PROVE  /\ Head(s).coro \in Coros(s)
         /\ Coros(s) = Coros(Tail(s)) \cup {Head(s).coro}
         /\ Distinct(s) => Distinct(Tail(s)) /\ Head(s).coro \notin Coros(Tail(s))
<1>1. /\ Len(s) \in Nat /\ Len(s) > 0 /\ DOMAIN s = 1 .. Len(s) /\ Head(s) = s[1]
      /\ DOMAIN Tail(s) = 1 .. Len(s) - 1
      /\ \A i \in 1 .. Len(s) - 1 : Tail(s)[i] = s[i + 1]
  OBVIOUS
<1>2. /\ 1 \in 1 .. Len(s)
      /\ \A i \in 1 .. Len(s) - 1 : i + 1 \in 1 .. Len(s) /\ i + 1 # 1
      /\ \A i \in 1 .. Len(s) : i = 1 \/ (i - 1 \in 1 .. Len(s) - 1 /\ (i - 1) + 1 = i)
      /\ \A i, j \in 1 .. Len(s) - 1 : i + 1 = j + 1 => i = j
  BY <1>1
<1>3. ASSUME NEW i \in 1 .. Len(s)
      PROVE  s[i].coro \in Coros(Tail(s)) \cup {Head(s).coro}
  <2>1. CASE i = 1
    BY <2>1, <1>1
  <2>2. CASE i # 1
    <3>1. i - 1 \in 1 .. Len(s) - 1 /\ Tail(s)[i - 1] = s[i]
      BY <2>2, <1>1, <1>2
    <3>. QED  BY <3>1, <1>1 DEF Coros
  <2>. QED  BY <2>1, <2>2
<1>4. Coros(Tail(s)) \subseteq Coros(s) /\ Head(s).coro \in Coros(s)
  BY <1>1, <1>2 DEF Coros
<1>5. Distinct(s) => Distinct(Tail(s))
  BY <1>1, <1>2 DEF Distinct
<1>6. Distinct(s) => Head(s).coro \notin Coros(Tail(s))
  BY <1>1, <1>2 DEF Distinct, Coros
<1>. QED  BY <1>1, <1>3, <1>4, <1>5, <1>6 DEF Coros

\* A deque turned round.
LEMMA ReverseCoros ==
  ASSUME NEW S, NEW s \in Seq(S)
  PROVE  /\ Reverse(s) \in Seq(S)
         /\ Coros(Reverse(s)) = Coros(s)
         /\ Distinct(s) => Distinct(Reverse(s))
<1>1. /\ Len(s) \in Nat /\ DOMAIN s = 1 .. Len(s) /\ DOMAIN Reverse(s) = 1 .. Len(s)
      /\ \A i \in 1 .. Len(s) : Reverse(s)[i] = s[Len(s) - i + 1]
  BY DEF Reverse
<1>2. /\ \A i \in 1 .. Len(s) : Len(s) - i + 1 \in 1 .. Len(s) /\ Len(s) - (Len(s) - i + 1) + 1 = i
      /\ \A i, j \in 1 .. Len(s) : Len(s) - i + 1 = Len(s) - j + 1 => i = j
  BY <1>1
<1>3. Coros(Reverse(s)) \subseteq Coros(s)
  BY <1>1, <1>2 DEF Coros
<1>4. Coros(s) \subseteq Coros(Reverse(s))
  BY <1>1, <1>2 DEF Coros
<1>5. Distinct(s) => Distinct(Reverse(s))
  <2>1. ASSUME Distinct(s), NEW i \in 1 .. Len(s), NEW j \in 1 .. Len(s),
               Reverse(s)[i].coro = Reverse(s)[j].coro
        PROVE  i = j
    <3>1. Len(s) - i + 1 = Len(s) - j + 1
      <4>1. s[Len(s) - i + 1].coro = s[Len(s) - j + 1].coro
        BY <2>1, <1>1
      <4>. QED  BY <4>1, <2>1, <1>1, <1>2 DEF Distinct
    <3>. QED  BY <3>1, <1>1
  <2>. QED  BY <2>1, <1>1 DEF Distinct
<1>6. Reverse(s) \in Seq(S)
  BY DEF Reverse
<1>. QED  BY <1>3, <1>4, <1>5, <1>6
-----------------------------------------------------------------------------
(***************************************************************************)
(* The moves of a coroutine between the deque a, the inner loop and what   *)
(* it waits in, W: each keeps everyone in one place.                       *)
(***************************************************************************)
\* The inner loop takes the first pair.
LEMMA TakeFirst ==
  ASSUME NEW S, NEW a \in Seq(S), a # <<>>, NEW c, NEW W, NEW living,
         OnePlace(a, c, W, living), c \notin living
  PROVE  OnePlace(Tail(a), Head(a).coro, W, living)
BY TailCoros DEF OnePlace

\* The inner loop puts its pair back, behind or in front, and takes nobody.
LEMMA PutBack ==
  ASSUME NEW S, NEW a \in Seq(S), NEW p \in S, NEW W, NEW living, NEW nobody,
         OnePlace(a, p.coro, W, living),
         nobody \notin Coros(a), nobody \notin W, nobody # p.coro
  PROVE  /\ OnePlace(Append(a, p), nobody, W, living)
         /\ OnePlace(<<p>> \o a, nobody, W, living)
BY AppendCoros, ConsCoros DEF OnePlace

\* The coroutine of the inner loop waits from now on.
LEMMA BeginsToWait ==
  ASSUME NEW a, NEW c, NEW W, NEW living, NEW nobody, OnePlace(a, c, W, living),
         nobody \notin Coros(a), nobody \notin W, nobody # c
  PROVE  OnePlace(a, nobody, W \cup {c}, living)
BY DEF OnePlace

\* The coroutine of the inner loop has ended, or others have.
LEMMA Ends ==
  ASSUME NEW a, NEW c, NEW W, NEW living, NEW fewer \in SUBSET living, OnePlace(a, c, W, living)
  PROVE  /\ OnePlace(a, c, W, fewer)
         /\ \A nobody : nobody \notin Coros(a) /\ nobody \notin W /\ c \notin fewer =>
              OnePlace(a, nobody, W, fewer)
BY DEF OnePlace

\* One that waits gets a pair in the deque.
LEMMA WakesOne ==
  ASSUME NEW S, NEW a \in Seq(S), NEW p \in S, NEW c, NEW W, NEW living,
         OnePlace(a, c, W, living), p.coro \in W
  PROVE  /\ OnePlace(Append(a, p), c, W \ {p.coro}, living)
         /\ OnePlace(<<p>> \o a, c, W \ {p.coro}, living)
BY AppendCoros, ConsCoros DEF OnePlace

\* All those of b get one, behind or in front.
LEMMA WakesMany ==
  ASSUME NEW S, NEW a \in Seq(S), NEW b \in Seq(S), NEW c, NEW W, NEW living,
         OnePlace(a, c, W, living), Distinct(b), Coros(b) \subseteq W
  PROVE  /\ OnePlace(a \o b, c, W \ Coros(b), living)
         /\ OnePlace(b \o a, c, W \ Coros(b), living)
<1>1. /\ Coros(a \o b) = Coros(a) \cup Coros(b)
      /\ Coros(b \o a) = Coros(a) \cup Coros(b)
      /\ Distinct(a \o b) /\ Distinct(b \o a)
  BY ConcatCoros DEF OnePlace
<1>. QED  BY <1>1 DEF OnePlace
-----------------------------------------------------------------------------
\* An operation that begins to wait.
LEMMA AppendOwners ==
  ASSUME NEW S, NEW s \in Seq(S), NEW o \in S
  PROVE  /\ Owners(Append(s, o)) = Owners(s) \cup {o.c}
         /\ Single(s) /\ o.c \notin Owners(s) => Single(Append(s, o))
<1>1. /\ DOMAIN Append(s, o) = 1 .. Len(s) + 1 /\ DOMAIN s = 1 .. Len(s) /\ Len(s) \in Nat
      /\ Append(s, o)[Len(s) + 1] = o
      /\ \A i \in 1 .. Len(s) : Append(s, o)[i] = s[i]
  OBVIOUS
<1>2. /\ \A i \in 1 .. Len(s) + 1 : i \in 1 .. Len(s) \/ i = Len(s) + 1
      /\ \A i \in 1 .. Len(s) : i \in 1 .. Len(s) + 1
      /\ Len(s) + 1 \in 1 .. Len(s) + 1
  BY <1>1
<1>3. Owners(Append(s, o)) = Owners(s) \cup {o.c}
  BY <1>1, <1>2 DEF Owners
<1>4. Single(s) /\ o.c \notin Owners(s) => Single(Append(s, o))
  BY <1>1, <1>2 DEF Owners, Single
<1>. QED  BY <1>3, <1>4

\* The operation that has waited longest, taken.
LEMMA TailOwners ==
  ASSUME NEW S, NEW s \in Seq(S), s # <<>>
  PROVE  /\ Owners(s) = Owners(Tail(s)) \cup {Head(s).c}
         /\ Single(s) => Single(Tail(s)) /\ Head(s).c \notin Owners(Tail(s))
<1>1. /\ Len(s) \in Nat /\ Len(s) > 0 /\ DOMAIN s = 1 .. Len(s) /\ Head(s) = s[1]
      /\ DOMAIN Tail(s) = 1 .. Len(s) - 1
      /\ \A i \in 1 .. Len(s) - 1 : Tail(s)[i] = s[i + 1]
  OBVIOUS
<1>2. /\ 1 \in 1 .. Len(s)
      /\ \A i \in 1 .. Len(s) - 1 : i + 1 \in 1 .. Len(s) /\ i + 1 # 1
      /\ \A i \in 1 .. Len(s) : i = 1 \/ (i - 1 \in 1 .. Len(s) - 1 /\ (i - 1) + 1 = i)
      /\ \A i, j \in 1 .. Len(s) - 1 : i + 1 = j + 1 => i = j
  BY <1>1
<1>3. ASSUME NEW i \in 1 .. Len(s)
      PROVE  s[i].c \in Owners(Tail(s)) \cup {Head(s).c}
  <2>1. CASE i = 1
    BY <2>1, <1>1
  <2>2. CASE i # 1
    <3>1. i - 1 \in 1 .. Len(s) - 1 /\ Tail(s)[i - 1] = s[i]
      BY <2>2, <1>1, <1>2
    <3>. QED  BY <3>1, <1>1 DEF Owners
  <2>. QED  BY <2>1, <2>2
<1>4. Owners(Tail(s)) \cup {Head(s).c} \subseteq Owners(s)
  BY <1>1, <1>2 DEF Owners
<1>5. Single(s) => Single(Tail(s))
  BY <1>1, <1>2 DEF Single
<1>6. Single(s) => Head(s).c \notin Owners(Tail(s))
  BY <1>1, <1>2 DEF Single, Owners
<1>. QED  BY <1>1, <1>3, <1>4, <1>5, <1>6 DEF Owners

\* What is where once the i-th element is taken out.
LEMMA RemoveAtIndices ==
  ASSUME NEW S, NEW s \in Seq(S), NEW i \in DOMAIN s
  PROVE  /\ Len(s) \in Nat /\ DOMAIN s = 1 .. Len(s) /\ i \in 1 .. Len(s)
         /\ DOMAIN RemoveAt(s, i) = 1 .. Len(s) - 1
         /\ \A j \in 1 .. Len(s) - 1 : RemoveAt(s, i)[j] = s[IF j < i THEN j ELSE j + 1]
<1>. DEFINE n == Len(s)
            r == RemoveAt(s, i)
            from(j) == IF j < i THEN j ELSE j + 1
<1>. DEFINE a == SubSeq(s, 1, i - 1)
            b == SubSeq(s, i + 1, n)
<1>1. n \in Nat /\ DOMAIN s = 1 .. n /\ i \in 1 .. n
  OBVIOUS
<1>2. /\ a \in Seq(S) /\ Len(a) = i - 1 /\ \A j \in 1 .. i - 1 : a[j] = s[j]
      /\ b \in Seq(S) /\ Len(b) = n - i /\ \A j \in 1 .. n - i : b[j] = s[i + j]
  BY <1>1
<1>3. r = a \o b
  BY DEF RemoveAt
<1>. HIDE DEF a, b, r, n
<1>4. DOMAIN r = 1 .. n - 1
  BY <1>1, <1>2, <1>3
<1>5. ASSUME NEW j \in 1 .. n - 1
      PROVE  r[j] = s[from(j)]
  <2>1. CASE j < i
    BY <2>1, <1>1, <1>2, <1>3
  <2>2. CASE j >= i
    <3>. DEFINE k == j - (i - 1)
    <3>1. k \in 1 .. n - i /\ i + k = j + 1
      BY <2>2, <1>1
    <3>2. r[j] = b[k]
      BY <2>2, <1>1, <1>2, <1>3
    <3>3. r[j] = s[i + k]
      BY <3>1, <3>2, <1>2
    <3>. QED  BY <3>1, <3>3, <2>2, <1>1
  <2>. QED  BY <2>1, <2>2, <1>1
<1>. QED  BY <1>1, <1>4, <1>5 DEF n, r

\* An operation taken out of the middle.
LEMMA RemoveAtOwners ==
  ASSUME NEW S, NEW s \in Seq(S), NEW i \in DOMAIN s
  PROVE  /\ Owners(s) = Owners(RemoveAt(s, i)) \cup {s[i].c}
         /\ Single(s) => Single(RemoveAt(s, i)) /\ s[i].c \notin Owners(RemoveAt(s, i))
<1>. DEFINE n == Len(s)
            r == RemoveAt(s, i)
            from(j) == IF j < i THEN j ELSE j + 1
<1>1. /\ n \in Nat /\ DOMAIN s = 1 .. n /\ i \in 1 .. n /\ DOMAIN r = 1 .. n - 1
      /\ \A j \in 1 .. n - 1 : r[j] = s[from(j)]
  BY RemoveAtIndices
<1>. HIDE DEF n, r
<1>2. /\ \A j \in 1 .. n - 1 : from(j) \in 1 .. n /\ from(j) # i
      /\ \A j, k \in 1 .. n - 1 : from(j) = from(k) => j = k
      /\ \A j \in 1 .. n : j = i \/ \E k \in 1 .. n - 1 : from(k) = j
  <2>1. ASSUME NEW j \in 1 .. n, j # i
        PROVE  \E k \in 1 .. n - 1 : from(k) = j
    <3>1. CASE j < i
      BY <3>1, <1>1
    <3>2. CASE j > i
      <4>1. j - 1 \in 1 .. n - 1 /\ from(j - 1) = j
        BY <3>2, <1>1
      <4>. QED  BY <4>1
    <3>. QED  BY <2>1, <3>1, <3>2, <1>1
  <2>. QED  BY <1>1, <2>1
<1>. HIDE DEF from
<1>3. ASSUME NEW j \in 1 .. n, j # i
      PROVE  s[j].c \in Owners(r)
  <2>1. PICK k \in 1 .. n - 1 : from(k) = j
    BY <1>2, <1>3
  <2>2. r[k] = s[j] /\ k \in DOMAIN r
    BY <1>1, <2>1
  <2>. QED  BY <2>2 DEF Owners
<1>4. Owners(r) \cup {s[i].c} \subseteq Owners(s)
  BY <1>1, <1>2 DEF Owners
<1>5. Single(s) => Single(r)
  BY <1>1, <1>2 DEF Single
<1>6. Single(s) => s[i].c \notin Owners(r)
  BY <1>1, <1>2 DEF Single, Owners
<1>7. Owners(s) \subseteq Owners(r) \cup {s[i].c}
  BY <1>1, <1>3 DEF Owners
<1>. QED  BY <1>4, <1>5, <1>6, <1>7 DEF r
-----------------------------------------------------------------------------
\* What is in a deque as it grows and shrinks.
LEMMA Members ==
  ASSUME NEW S, NEW s \in Seq(S)
  PROVE  /\ \A x \in S : ToSet(Append(s, x)) = ToSet(s) \cup {x}
         /\ \A x \in S : ToSet(<<x>> \o s) = ToSet(s) \cup {x}
         /\ s # <<>> => Head(s) \in ToSet(s) /\ ToSet(Tail(s)) \subseteq ToSet(s)
         /\ ToSet(s) \subseteq S
<1>1. ASSUME NEW x \in S
      PROVE  ToSet(Append(s, x)) = ToSet(s) \cup {x}
  <2>1. /\ DOMAIN Append(s, x) = 1 .. Len(s) + 1 /\ DOMAIN s = 1 .. Len(s) /\ Len(s) \in Nat
        /\ Append(s, x)[Len(s) + 1] = x
        /\ \A i \in 1 .. Len(s) : Append(s, x)[i] = s[i]
    OBVIOUS
  <2>2. \A i \in 1 .. Len(s) + 1 : i \in 1 .. Len(s) \/ i = Len(s) + 1
    BY <2>1
  <2>3. \A i \in 1 .. Len(s) : i \in 1 .. Len(s) + 1
    BY <2>1
  <2>4. Len(s) + 1 \in 1 .. Len(s) + 1
    BY <2>1
  <2>. QED  BY <2>1, <2>2, <2>3, <2>4 DEF ToSet
<1>2. ASSUME NEW x \in S
      PROVE  ToSet(<<x>> \o s) = ToSet(s) \cup {x}
  <2>. DEFINE t == <<x>> \o s
  <2>1. /\ DOMAIN t = 1 .. Len(s) + 1 /\ DOMAIN s = 1 .. Len(s) /\ Len(s) \in Nat
        /\ t[1] = x /\ \A i \in 1 .. Len(s) : t[i + 1] = s[i]
    OBVIOUS
  <2>2. \A i \in 1 .. Len(s) + 1 : i = 1 \/ (i - 1 \in 1 .. Len(s) /\ (i - 1) + 1 = i)
    BY <2>1
  <2>3. 1 \in 1 .. Len(s) + 1 /\ \A i \in 1 .. Len(s) : i + 1 \in 1 .. Len(s) + 1
    BY <2>1
  <2>. HIDE DEF t
  <2>4. \A i \in 1 .. Len(s) + 1 : t[i] \in ToSet(s) \cup {x}
    <3>1. ASSUME NEW i \in 1 .. Len(s) + 1, i # 1
          PROVE  t[i] \in ToSet(s)
      <4>1. i - 1 \in 1 .. Len(s) /\ t[i] = s[i - 1]
        BY <2>1, <2>2, <3>1
      <4>. QED  BY <2>1, <4>1 DEF ToSet
    <3>. QED  BY <2>1, <3>1
  <2>5. ToSet(s) \cup {x} \subseteq ToSet(t)
    BY <2>1, <2>3 DEF ToSet
  <2>6. ToSet(t) \subseteq ToSet(s) \cup {x}
    BY <2>1, <2>4 DEF ToSet
  <2>. QED  BY <2>5, <2>6 DEF t
<1>3. ASSUME s # <<>>
      PROVE  Head(s) \in ToSet(s) /\ ToSet(Tail(s)) \subseteq ToSet(s)
  <2>1. /\ Len(s) \in Nat /\ Len(s) > 0 /\ DOMAIN s = 1 .. Len(s) /\ Head(s) = s[1]
        /\ DOMAIN Tail(s) = 1 .. Len(s) - 1
        /\ \A i \in 1 .. Len(s) - 1 : Tail(s)[i] = s[i + 1]
    BY <1>3
  <2>2. 1 \in 1 .. Len(s) /\ \A i \in 1 .. Len(s) - 1 : i + 1 \in 1 .. Len(s)
    BY <2>1
  <2>. QED  BY <2>1, <2>2 DEF ToSet
<1>4. ToSet(s) \subseteq S
  BY DEF ToSet
<1>. QED  BY <1>1, <1>2, <1>3, <1>4

\* Two deques put together.
LEMMA MembersOfTwo ==
  ASSUME NEW S, NEW s \in Seq(S), NEW t \in Seq(S)
  PROVE  ToSet(s \o t) = ToSet(s) \cup ToSet(t)
<1>. DEFINE u == s \o t
<1>1. /\ Len(s) \in Nat /\ Len(t) \in Nat /\ DOMAIN s = 1 .. Len(s) /\ DOMAIN t = 1 .. Len(t)
      /\ DOMAIN u = 1 .. Len(s) + Len(t)
      /\ \A i \in 1 .. Len(s) : u[i] = s[i]
      /\ \A i \in 1 .. Len(t) : u[Len(s) + i] = t[i]
  OBVIOUS
<1>. HIDE DEF u
<1>2. ASSUME NEW i \in 1 .. Len(s) + Len(t)
      PROVE  u[i] \in ToSet(s) \cup ToSet(t)
  <2>1. CASE i <= Len(s)
    BY <1>1, <2>1 DEF ToSet
  <2>2. CASE i > Len(s)
    <3>1. i - Len(s) \in 1 .. Len(t) /\ i = Len(s) + (i - Len(s))
      BY <1>1, <2>2
    <3>2. u[i] = t[i - Len(s)]
      BY <1>1, <3>1
    <3>. QED  BY <1>1, <3>1, <3>2 DEF ToSet
  <2>. QED  BY <1>1, <2>1, <2>2
<1>3. ASSUME NEW i \in 1 .. Len(s)
      PROVE  s[i] \in ToSet(u)
  <2>1. i \in DOMAIN u /\ u[i] = s[i]
    BY <1>1
  <2>. QED  BY <2>1 DEF ToSet
<1>4. ASSUME NEW i \in 1 .. Len(t)
      PROVE  t[i] \in ToSet(u)
  <2>1. Len(s) + i \in DOMAIN u /\ u[Len(s) + i] = t[i]
    BY <1>1
  <2>. QED  BY <2>1 DEF ToSet
<1>5. ToSet(u) = ToSet(s) \cup ToSet(t)
  <2>1. ToSet(u) \subseteq ToSet(s) \cup ToSet(t)
    BY <1>1, <1>2 DEF ToSet
  <2>2. ToSet(s) \subseteq ToSet(u) /\ ToSet(t) \subseteq ToSet(u)
    BY <1>1, <1>3, <1>4 DEF ToSet
  <2>. QED  BY <2>1, <2>2
<1>. QED  BY <1>5 DEF u

\* One turned round.
LEMMA ReverseMembers ==
  ASSUME NEW S, NEW s \in Seq(S)
  PROVE  Reverse(s) \in Seq(S) /\ ToSet(Reverse(s)) = ToSet(s)
<1>1. /\ Len(s) \in Nat /\ DOMAIN s = 1 .. Len(s)
      /\ DOMAIN Reverse(s) = 1 .. Len(s) /\ Reverse(s) \in Seq(S)
      /\ \A i \in 1 .. Len(s) : Reverse(s)[i] = s[Len(s) - i + 1]
  BY DEF Reverse
<1>2. \A i \in 1 .. Len(s) : Len(s) - i + 1 \in 1 .. Len(s) /\ Len(s) - (Len(s) - i + 1) + 1 = i
  BY <1>1
<1>3. ToSet(Reverse(s)) \subseteq ToSet(s)
  BY <1>1, <1>2 DEF ToSet
<1>4. ASSUME NEW i \in 1 .. Len(s)
      PROVE  s[i] \in ToSet(Reverse(s))
  <2>1. Reverse(s)[Len(s) - i + 1] = s[i] /\ Len(s) - i + 1 \in DOMAIN Reverse(s)
    BY <1>1, <1>2
  <2>. QED  BY <2>1 DEF ToSet
<1>5. ToSet(s) \subseteq ToSet(Reverse(s))
  BY <1>1, <1>4 DEF ToSet
<1>. QED  BY <1>1, <1>3, <1>5

\* One taken out of the middle.
LEMMA RemoveAtMembers ==
  ASSUME NEW S, NEW s \in Seq(S), NEW i \in DOMAIN s
  PROVE  ToSet(RemoveAt(s, i)) \subseteq ToSet(s)
<1>1. ASSUME NEW j \in DOMAIN RemoveAt(s, i)
      PROVE  \E k \in DOMAIN s : RemoveAt(s, i)[j] = s[k]
  <2>1. /\ Len(s) \in Nat /\ DOMAIN s = 1 .. Len(s) /\ i \in 1 .. Len(s)
        /\ j \in 1 .. Len(s) - 1
        /\ RemoveAt(s, i)[j] = s[IF j < i THEN j ELSE j + 1]
    BY RemoveAtIndices
  <2>2. (IF j < i THEN j ELSE j + 1) \in DOMAIN s
    BY <2>1
  <2>. QED  BY <2>1, <2>2
<1>. QED  BY <1>1 DEF ToSet
=============================================================================
