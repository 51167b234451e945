-------------------------- MODULE IrcClientProofs --------------------------
(***************************************************************************)
(* Theorems about IrcClient: every event of the IRC server is in one place *)
(* and none overtakes another, and what the page sends arrives in order.   *)
(***************************************************************************)
EXTENDS IrcClient, WellFoundedInduction, SequenceTheorems, TLAPS

Event == [n : Nat, command : AllCommands \cup
                      {"CONNECTING", "CONNECTED", "CONNECT_TIMEOUT", "ERROR"}]
Handler == [does : {"nothing", "connect", "drain", "wait", "answer"}, list : Seq(Event)]
Request == [running : BOOLEAN, n : Nat]

\* What the handlers of Connection may change.
PageState == [push : Request, pushing : SUBSET Nat, tabs : Seq(Int), names : Nat,
         processed : Seq(Nat), gone : SUBSET Nat, asked : Nat, refused : SUBSET Nat,
         threw : BOOLEAN]

TypeOK ==
  /\ keeps \in BOOLEAN /\ pull \in [running : BOOLEAN, hears : BOOLEAN]
  /\ Handlers \in PageState
  /\ connected \in BOOLEAN /\ id \in BOOLEAN
  /\ held \in Seq(Event) /\ Len(held) <= 1 /\ events \in Seq(Event)
  /\ serving \in Handler /\ orphans \in Seq(Handler)
  /\ arrived \in Nat /\ delivered \in Seq(Nat)

\* Until the page has its id the controller serves connect, which takes no event.
Connects ==
  /\ id = connected
  /\ ~id => serving.list = <<>> /\ serving.does \notin {"drain", "wait"}

(***************************************************************************)
(* The pushes of the page s: each was delivered, is under way or is        *)
(* refused, and none overtakes another unless one broke.                   *)
(***************************************************************************)
Sendings(s) ==
  /\ ToSet(delivered) \cup s.pushing \cup s.refused = 1..s.asked
  /\ ToSet(delivered) \cap (s.pushing \cup s.refused) = {} /\ s.pushing \cap s.refused = {}
  /\ IsInjective(delivered)
  /\ ~pushBroke =>
       /\ s.pushing \subseteq {s.push.n} /\ (s.pushing # {} => s.push.running)
       /\ \A d \in ToSet(delivered) : d <= s.push.n
       /\ Increasing(delivered)

(***************************************************************************)
(* The events: processed, lost, in the answer, queued, held back, and with *)
(* the handlers of pulls that broke.                                       *)
(***************************************************************************)
InOrder(list) == \A i, j \in DOMAIN list : i < j => list[i].n < list[j].n
Below(A, B) == \A a \in A, b \in B : a < b

Lost(hs) == UNION {Numbers(hs[i].list) : i \in DOMAIN hs}
Apart(hs) ==
  \A i, j \in DOMAIN hs : i # j => Numbers(hs[i].list) \cap Numbers(hs[j].list) = {}

\* P were processed, G lost, S are in the answer, Q queued, H held back, and L with
\* handlers whose answer will be lost.
Shared(P, G, S, Q, H, L, n) ==
  /\ Below(P, S) /\ Below(P, Q) /\ Below(P, H) /\ Below(S, Q) /\ Below(S, H) /\ Below(Q, H)
  /\ G \cap (P \cup S \cup Q \cup H) = {}
  /\ L \cap (P \cup G \cup S \cup Q \cup H) = {}
  /\ P \cup G \cup S \cup Q \cup H \cup L = 1..n

Accounted ==
  /\ Increasing(processed)
  /\ InOrder(serving.list) /\ InOrder(events) /\ Apart(orphans)
  /\ Shared(ToSet(processed), gone, Numbers(serving.list), Numbers(events), Numbers(held),
            Lost(orphans), arrived)

Inv == TypeOK /\ Connects /\ Sendings(Handlers) /\ Accounted

\* What the page is after one more event of an answer.
Turned(r, e) == IF r.threw THEN [r EXCEPT !.gone = @ \cup {e.n}] ELSE ProcessMessage(r, e)

\* f is what the page is after each event of the answer, up to the m-th.
IsCourse(f, s, list, m) ==
  f = [i \in 0..m |-> IF i = 0 THEN s ELSE Turned(f[i - 1], list[i])]
-----------------------------------------------------------------------------
(***************************************************************************)
(* The loop over the events of an answer.                                  *)
(***************************************************************************)
\* A set of numbers has a least one.
LEMMA LeastNumber ==
  ASSUME NEW S \in SUBSET Nat, S # {}
  PROVE  \E x \in S : \A y \in S : x <= y
<1>. DEFINE R == {p \in Nat \X Nat : p[1] < p[2]}
<1>1. IsWellFoundedOn(R, Nat)
  BY NatLessThanWellFounded DEF OpToRel
<1>2. \A x, y \in Nat : x < y => <<x, y>> \in R
  OBVIOUS
<1>. HIDE DEF R
<1>3. PICK x \in S : \A y \in S : ~(<<y, x>> \in R)
  BY <1>1, WFMin
<1>4. ASSUME NEW y \in S
      PROVE  x <= y
  <2>1. x \in Nat /\ y \in Nat /\ ~(y < x)
    BY <1>2, <1>3
  <2>. QED  BY <2>1
<1>. QED  BY <1>4

\* The loop is well defined: there is no least number of events for which it is not.
LEMMA CourseExists ==
  ASSUME NEW s, NEW list, NEW n \in Nat
  PROVE  \E f : IsCourse(f, s, list, n)
<1>. DEFINE Bad == {m \in Nat : ~ \E f : IsCourse(f, s, list, m)}
<1>1. ASSUME Bad # {} PROVE FALSE
  <2>1. PICK m \in Bad : \A y \in Bad : m <= y
    BY <1>1, LeastNumber
  <2>2. m # 0
    <3>. DEFINE f == [i \in 0..0 |-> s]
    <3>1. f = [i \in 0..0 |-> IF i = 0 THEN s ELSE Turned(f[i - 1], list[i])]
      OBVIOUS
    <3>2. IsCourse(f, s, list, 0)
      BY <3>1 DEF IsCourse
    <3>. QED  BY <3>2
  <2>3. m - 1 \in Nat /\ m \in Nat /\ m - 1 \notin Bad
    BY <2>1, <2>2
  <2>4. PICK g : IsCourse(g, s, list, m - 1)
    BY <2>3
  <2>. DEFINE f == [i \in 0..m |-> IF i = m THEN Turned(g[m - 1], list[m]) ELSE g[i]]
  <2>5. /\ DOMAIN g = 0..(m - 1)
        /\ \A i \in 0..(m - 1) : g[i] = IF i = 0 THEN s ELSE Turned(g[i - 1], list[i])
    BY <2>4 DEF IsCourse
  <2>6. f = [i \in 0..m |-> IF i = 0 THEN s ELSE Turned(f[i - 1], list[i])]
    <3>1. ASSUME NEW i \in 0..m
          PROVE  f[i] = IF i = 0 THEN s ELSE Turned(f[i - 1], list[i])
      BY <2>2, <2>3, <2>5
    <3>. QED  BY <3>1
  <2>7. IsCourse(f, s, list, m)
    BY <2>6 DEF IsCourse
  <2>. QED  BY <2>7
<1>. QED  BY <1>1

\* Process is the end of the course of the page through the answer.
LEMMA ProcessCourse ==
  ASSUME NEW s, NEW list, Len(list) \in Nat
  PROVE  \E f : /\ f[0] = s
                /\ \A i \in 1..Len(list) : f[i] = Turned(f[i - 1], list[i])
                /\ Process(s, list) = f[Len(list)]
<1>. DEFINE f == CHOOSE f : IsCourse(f, s, list, Len(list))
<1>1. IsCourse(f, s, list, Len(list))
  BY CourseExists
<1>2. Process(s, list) = f[Len(list)]
  BY DEF Process, IsCourse, Turned
<1>. HIDE DEF f
<1>3. \A i \in 0..Len(list) : f[i] = IF i = 0 THEN s ELSE Turned(f[i - 1], list[i])
  BY <1>1 DEF IsCourse
<1>. QED  BY <1>2, <1>3
-----------------------------------------------------------------------------
(***************************************************************************)
(* Lists of events, of numbers and of handlers as they grow and shrink.    *)
(***************************************************************************)
\* The numbers of the events of a list.
LEMMA NumbersOf ==
  ASSUME NEW list \in Seq(Event)
  PROVE  /\ Numbers(list) = {list[i].n : i \in DOMAIN list}
         /\ Numbers(list) \subseteq Nat
<1>1. \A i \in DOMAIN list : list[i] \in Event
  OBVIOUS
<1>. HIDE DEF Event
<1>2. \A e \in Event : e.n \in Nat
  BY DEF Event
<1>3. Numbers(list) = {list[i].n : i \in DOMAIN list}
  BY DEF Numbers, ToSet
<1>. QED  BY <1>1, <1>2, <1>3

LEMMA NumbersEmpty == Numbers(<<>>) = {} /\ InOrder(<<>>)
BY DEF Numbers, ToSet, InOrder

LEMMA NumbersOne ==
  ASSUME NEW e \in Event
  PROVE  Numbers(<<e>>) = {e.n}
BY DEF Numbers, ToSet

LEMMA AppendNumbers ==
  ASSUME NEW list \in Seq(Event), NEW e \in Event
  PROVE  /\ Append(list, e) \in Seq(Event)
         /\ Numbers(Append(list, e)) = Numbers(list) \cup {e.n}
         /\ InOrder(list) /\ (\A k \in Numbers(list) : k < e.n) => InOrder(Append(list, e))
<1>. DEFINE new == Append(list, e)
<1>1. /\ new \in Seq(Event) /\ Len(new) = Len(list) + 1 /\ DOMAIN new = 1..(Len(list) + 1)
      /\ new[Len(list) + 1] = e /\ \A i \in 1..Len(list) : new[i] = list[i]
      /\ DOMAIN list = 1..Len(list) /\ Len(list) \in Nat
  OBVIOUS
<1>. HIDE DEF new
<1>2. Numbers(new) = Numbers(list) \cup {e.n}
  <2>1. ASSUME NEW i \in DOMAIN new
        PROVE  new[i].n \in Numbers(list) \cup {e.n}
    <3>1. CASE i = Len(list) + 1
      BY <1>1, <3>1
    <3>2. CASE i # Len(list) + 1
      BY <1>1, <3>2, NumbersOf
    <3>. QED  BY <3>1, <3>2
  <2>2. ASSUME NEW i \in DOMAIN list
        PROVE  list[i].n \in Numbers(new)
    BY <1>1, NumbersOf
  <2>3. e.n \in Numbers(new)
    BY <1>1, NumbersOf
  <2>4. /\ Numbers(new) = {new[i].n : i \in DOMAIN new}
        /\ Numbers(list) = {list[i].n : i \in DOMAIN list}
    BY <1>1, NumbersOf
  <2>. QED  BY <2>1, <2>2, <2>3, <2>4
<1>3. ASSUME InOrder(list), \A k \in Numbers(list) : k < e.n
      PROVE  InOrder(new)
  <2>1. SUFFICES ASSUME NEW i \in DOMAIN new, NEW j \in DOMAIN new, i < j
                 PROVE  new[i].n < new[j].n
    BY DEF InOrder
  <2>2. i \in 1..Len(list) /\ new[i] = list[i] /\ list[i].n \in Numbers(list)
    BY <1>1, <2>1, NumbersOf
  <2>. QED  BY <1>1, <1>3, <2>1, <2>2 DEF InOrder
<1>. QED  BY <1>1, <1>2, <1>3 DEF new

LEMMA TailNumbers ==
  ASSUME NEW list \in Seq(Event), list # <<>>
  PROVE  /\ Head(list) \in Event /\ Tail(list) \in Seq(Event)
         /\ Numbers(list) = {Head(list).n} \cup Numbers(Tail(list))
         /\ InOrder(list) => /\ InOrder(Tail(list))
                             /\ \A k \in Numbers(Tail(list)) : Head(list).n < k
<1>. DEFINE rest == Tail(list)
<1>1. /\ Head(list) = list[1] /\ rest \in Seq(Event)
      /\ DOMAIN rest = 1..(Len(list) - 1) /\ \A i \in 1..(Len(list) - 1) : rest[i] = list[i + 1]
      /\ DOMAIN list = 1..Len(list) /\ Len(list) \in Nat \ {0} /\ list[1] \in Event
  OBVIOUS
<1>. HIDE DEF rest
<1>2. Numbers(list) = {list[1].n} \cup Numbers(rest)
  <2>1. ASSUME NEW i \in DOMAIN list
        PROVE  list[i].n \in {list[1].n} \cup Numbers(rest)
    <3>1. CASE i = 1
      BY <3>1
    <3>2. CASE i # 1
      <4>1. i - 1 \in 1..(Len(list) - 1) /\ rest[i - 1] = list[(i - 1) + 1]
        BY <1>1, <3>2
      <4>2. rest[i - 1] = list[i] /\ i - 1 \in DOMAIN rest
        BY <1>1, <4>1
      <4>. QED  BY <1>1, <4>2, NumbersOf
    <3>. QED  BY <3>1, <3>2
  <2>2. ASSUME NEW i \in DOMAIN rest
        PROVE  rest[i].n \in Numbers(list)
    BY <1>1, NumbersOf
  <2>3. list[1].n \in Numbers(list)
    BY <1>1, NumbersOf
  <2>4. /\ Numbers(rest) = {rest[i].n : i \in DOMAIN rest}
        /\ Numbers(list) = {list[i].n : i \in DOMAIN list}
    BY <1>1, NumbersOf
  <2>. QED  BY <2>1, <2>2, <2>3, <2>4
<1>3. ASSUME InOrder(list)
      PROVE  InOrder(rest) /\ \A k \in Numbers(rest) : list[1].n < k
  <2>1. ASSUME NEW i \in DOMAIN rest, NEW j \in DOMAIN rest, i < j
        PROVE  rest[i].n < rest[j].n
    <3>1. i + 1 \in DOMAIN list /\ j + 1 \in DOMAIN list /\ i + 1 < j + 1
      BY <1>1, <2>1
    <3>. QED  BY <1>1, <1>3, <3>1 DEF InOrder
  <2>2. ASSUME NEW i \in DOMAIN rest
        PROVE  list[1].n < rest[i].n
    <3>1. i + 1 \in DOMAIN list /\ 1 \in DOMAIN list /\ 1 < i + 1
      BY <1>1
    <3>. QED  BY <1>1, <1>3, <3>1 DEF InOrder
  <2>3. Numbers(rest) = {rest[i].n : i \in DOMAIN rest}
    BY <1>1, NumbersOf
  <2>. QED  BY <2>1, <2>2, <2>3 DEF InOrder
<1>. QED  BY <1>1, <1>2, <1>3 DEF rest

\* The events processed, as one is added.
LEMMA AppendIncreasing ==
  ASSUME NEW p \in Seq(Nat), NEW k \in Nat
  PROVE  /\ Append(p, k) \in Seq(Nat)
         /\ ToSet(Append(p, k)) = ToSet(p) \cup {k}
         /\ Increasing(p) /\ (\A x \in ToSet(p) : x < k) => Increasing(Append(p, k))
         /\ IsInjective(p) /\ k \notin ToSet(p) => IsInjective(Append(p, k))
<1>. DEFINE new == Append(p, k)
<1>1. /\ new \in Seq(Nat) /\ DOMAIN new = 1..(Len(p) + 1)
      /\ new[Len(p) + 1] = k /\ \A i \in 1..Len(p) : new[i] = p[i]
      /\ DOMAIN p = 1..Len(p) /\ Len(p) \in Nat
  OBVIOUS
<1>. HIDE DEF new
<1>2. \A i \in DOMAIN p : p[i] \in ToSet(p) /\ p[i] \in ToSet(new)
  BY <1>1 DEF ToSet
<1>3. k \in ToSet(new)
  BY <1>1 DEF ToSet
<1>4. \A i \in DOMAIN new : (i = Len(p) + 1 /\ new[i] = k) \/ (i \in DOMAIN p /\ new[i] = p[i])
  BY <1>1
<1>5. ToSet(new) = ToSet(p) \cup {k}
  <2>1. \A i \in DOMAIN new : new[i] \in ToSet(p) \cup {k}
    BY <1>2, <1>4
  <2>2. ToSet(new) = {new[i] : i \in DOMAIN new} /\ ToSet(p) = {p[i] : i \in DOMAIN p}
    BY DEF ToSet
  <2>. QED  BY <1>2, <1>3, <2>1, <2>2
<1>6. ASSUME Increasing(p), \A x \in ToSet(p) : x < k
      PROVE  Increasing(new)
  <2>1. SUFFICES ASSUME NEW i \in DOMAIN new, NEW j \in DOMAIN new, i < j
                 PROVE  new[i] < new[j]
    BY DEF Increasing
  <2>2. i \in DOMAIN p /\ new[i] = p[i] /\ p[i] \in ToSet(p)
    BY <1>1, <1>2, <2>1
  <2>. QED  BY <1>1, <1>4, <1>6, <2>1, <2>2 DEF Increasing
<1>7. ASSUME IsInjective(p), k \notin ToSet(p)
      PROVE  IsInjective(new)
  <2>1. SUFFICES ASSUME NEW i \in DOMAIN new, NEW j \in DOMAIN new, new[i] = new[j]
                 PROVE  i = j
    BY DEF IsInjective
  <2>. QED  BY <1>2, <1>4, <1>7, <2>1 DEF IsInjective
<1>. QED  BY <1>1, <1>5, <1>6, <1>7 DEF new

\* The handlers whose answers will be lost: one more, one that goes on, one that ends.
LEMMA AppendLost ==
  ASSUME NEW hs \in Seq(Handler), NEW h \in Handler
  PROVE  /\ Append(hs, h) \in Seq(Handler)
         /\ Lost(Append(hs, h)) = Lost(hs) \cup Numbers(h.list)
         /\ Apart(hs) /\ Lost(hs) \cap Numbers(h.list) = {} => Apart(Append(hs, h))
<1>. DEFINE new == Append(hs, h)
<1>1. /\ new \in Seq(Handler) /\ DOMAIN new = 1..(Len(hs) + 1)
      /\ new[Len(hs) + 1] = h /\ \A i \in 1..Len(hs) : new[i] = hs[i]
      /\ DOMAIN hs = 1..Len(hs) /\ Len(hs) \in Nat
  OBVIOUS
<1>. HIDE DEF new
<1>2. \A i \in DOMAIN new : (i = Len(hs) + 1 /\ new[i] = h) \/ (i \in DOMAIN hs /\ new[i] = hs[i])
  BY <1>1
<1>3. \A i \in DOMAIN hs : i \in DOMAIN new /\ i # Len(hs) + 1 /\ new[i] = hs[i]
  BY <1>1
<1>4. Len(hs) + 1 \in DOMAIN new
  BY <1>1
<1>5. Lost(new) = Lost(hs) \cup Numbers(h.list)
  <2>1. ASSUME NEW i \in DOMAIN new, NEW k \in Numbers(new[i].list)
        PROVE  k \in Lost(hs) \cup Numbers(h.list)
    BY <1>2, <2>1 DEF Lost
  <2>2. ASSUME NEW i \in DOMAIN hs, NEW k \in Numbers(hs[i].list)
        PROVE  k \in Lost(new)
    BY <1>3, <2>2 DEF Lost
  <2>3. ASSUME NEW k \in Numbers(h.list)
        PROVE  k \in Lost(new)
    BY <1>1, <1>4, <2>3 DEF Lost
  <2>4. Lost(new) \subseteq Lost(hs) \cup Numbers(h.list)
    BY <2>1 DEF Lost
  <2>5. Lost(hs) \subseteq Lost(new)
    BY <2>2 DEF Lost
  <2>. QED  BY <2>3, <2>4, <2>5
<1>6. ASSUME Apart(hs), Lost(hs) \cap Numbers(h.list) = {}
      PROVE  Apart(new)
  <2>1. \A i \in DOMAIN hs : Numbers(hs[i].list) \cap Numbers(h.list) = {}
    BY <1>6 DEF Lost
  <2>2. SUFFICES ASSUME NEW i \in DOMAIN new, NEW j \in DOMAIN new, i # j
                 PROVE  Numbers(new[i].list) \cap Numbers(new[j].list) = {}
    BY DEF Apart
  <2>. QED  BY <1>2, <1>6, <2>1, <2>2 DEF Apart
<1>. QED  BY <1>1, <1>5, <1>6 DEF new

LEMMA ReplaceLost ==
  ASSUME NEW hs \in Seq(Handler), NEW i \in DOMAIN hs, NEW h \in Handler, NEW K,
         Numbers(h.list) = Numbers(hs[i].list) \cup K,
         Apart(hs), Lost(hs) \cap K = {}
  PROVE  /\ [hs EXCEPT ![i] = h] \in Seq(Handler)
         /\ Lost([hs EXCEPT ![i] = h]) = Lost(hs) \cup K
         /\ Apart([hs EXCEPT ![i] = h])
<1>. DEFINE new == [hs EXCEPT ![i] = h]
<1>1. /\ new \in Seq(Handler) /\ DOMAIN new = DOMAIN hs /\ new[i] = h
      /\ \A j \in DOMAIN hs : j # i => new[j] = hs[j]
  OBVIOUS
<1>. HIDE DEF new
<1>2. \A j \in DOMAIN hs : Numbers(hs[j].list) \subseteq Lost(hs)
  BY DEF Lost
<1>3. Lost(new) = Lost(hs) \cup K
  <2>1. \A j \in DOMAIN hs : Numbers(hs[j].list) \subseteq Numbers(new[j].list)
    BY <1>1
  <2>2. \A j \in DOMAIN new : Numbers(new[j].list) \subseteq Lost(hs) \cup K
    BY <1>1, <1>2
  <2>3. K \subseteq Numbers(new[i].list)
    BY <1>1
  <2>4. Lost(new) \subseteq Lost(hs) \cup K
    BY <2>2 DEF Lost
  <2>5. Lost(hs) \subseteq Lost(new)
    BY <1>1, <2>1 DEF Lost
  <2>6. K \subseteq Lost(new)
    BY <1>1, <2>3 DEF Lost
  <2>. QED  BY <2>4, <2>5, <2>6
<1>4. Apart(new)
  <2>1. SUFFICES ASSUME NEW j \in DOMAIN new, NEW k \in DOMAIN new, j # k
                 PROVE  Numbers(new[j].list) \cap Numbers(new[k].list) = {}
    BY DEF Apart
  <2>2. Numbers(hs[j].list) \cap Numbers(hs[k].list) = {}
    BY <1>1, <2>1 DEF Apart
  <2>. QED  BY <1>1, <1>2, <2>1, <2>2
<1>. QED  BY <1>1, <1>3, <1>4 DEF new

\* What is where once the i-th element is taken out.
LEMMA RemoveAtIndices ==
  ASSUME NEW S, NEW s \in Seq(S), NEW i \in DOMAIN s
  PROVE  /\ Len(s) \in Nat /\ DOMAIN s = 1 .. Len(s) /\ i \in 1 .. Len(s)
         /\ DOMAIN RemoveAt(s, i) = 1 .. Len(s) - 1
         /\ \A j \in 1 .. Len(s) - 1 : RemoveAt(s, i)[j] = s[IF j < i THEN j ELSE j + 1]
<1>. DEFINE n == Len(s)
            r == RemoveAt(s, i)
            from(j) == IF j < i THEN j ELSE j + 1
<1>. DEFINE a == SubSeq(s, 1, i - 1)
            b == SubSeq(s, i + 1, n)
<1>1. n \in Nat /\ DOMAIN s = 1 .. n /\ i \in 1 .. n
  OBVIOUS
<1>2. /\ a \in Seq(S) /\ Len(a) = i - 1 /\ \A j \in 1 .. i - 1 : a[j] = s[j]
      /\ b \in Seq(S) /\ Len(b) = n - i /\ \A j \in 1 .. n - i : b[j] = s[i + j]
  BY <1>1
<1>3. r = a \o b
  BY DEF RemoveAt
<1>. HIDE DEF a, b, r, n
<1>4. DOMAIN r = 1 .. n - 1
  BY <1>1, <1>2, <1>3
<1>5. ASSUME NEW j \in 1 .. n - 1
      PROVE  r[j] = s[from(j)]
  <2>1. CASE j < i
    BY <2>1, <1>1, <1>2, <1>3
  <2>2. CASE j >= i
    <3>. DEFINE k == j - (i - 1)
    <3>1. k \in 1 .. n - i /\ i + k = j + 1
      BY <2>2, <1>1
    <3>2. r[j] = b[k]
      BY <2>2, <1>1, <1>2, <1>3
    <3>3. r[j] = s[i + k]
      BY <3>1, <3>2, <1>2
    <3>. QED  BY <3>1, <3>3, <2>2, <1>1
  <2>. QED  BY <2>1, <2>2, <1>1
<1>. QED  BY <1>1, <1>4, <1>5 DEF n, r

LEMMA RemoveAtType ==
  ASSUME NEW S, NEW s \in Seq(S), NEW i \in DOMAIN s
  PROVE  RemoveAt(s, i) \in Seq(S)
BY DEF RemoveAt

LEMMA RemoveLost ==
  ASSUME NEW hs \in Seq(Handler), NEW i \in DOMAIN hs, Apart(hs)
  PROVE  /\ RemoveAt(hs, i) \in Seq(Handler)
         /\ Lost(hs) = Lost(RemoveAt(hs, i)) \cup Numbers(hs[i].list)
         /\ Lost(RemoveAt(hs, i)) \cap Numbers(hs[i].list) = {}
         /\ Apart(RemoveAt(hs, i))
<1>. DEFINE new == RemoveAt(hs, i)
            from(j) == IF j < i THEN j ELSE j + 1
<1>1. /\ new \in Seq(Handler) /\ DOMAIN new = 1 .. Len(hs) - 1
      /\ \A j \in DOMAIN new : new[j] = hs[from(j)]
      /\ DOMAIN hs = 1..Len(hs) /\ Len(hs) \in Nat /\ i \in 1..Len(hs)
  BY RemoveAtIndices, RemoveAtType
<1>2. /\ \A j \in DOMAIN new : from(j) \in DOMAIN hs /\ from(j) # i
      /\ \A j, k \in DOMAIN new : j # k => from(j) # from(k)
  BY <1>1
<1>3. ASSUME NEW m \in DOMAIN hs, m # i
      PROVE  \E j \in DOMAIN new : from(j) = m
  <2>1. CASE m < i
    BY <1>1, <2>1
  <2>2. CASE m > i
    <3>1. m - 1 \in DOMAIN new /\ from(m - 1) = m
      BY <1>1, <2>2
    <3>. QED  BY <3>1
  <2>. QED  BY <1>1, <1>3, <2>1, <2>2
<1>. HIDE DEF new, from
<1>4. \A j \in DOMAIN new : Numbers(new[j].list) \cap Numbers(hs[i].list) = {}
  BY <1>1, <1>2 DEF Apart
<1>5. Lost(hs) = Lost(new) \cup Numbers(hs[i].list)
  <2>1. \A m \in DOMAIN hs : Numbers(hs[m].list) \subseteq Lost(new) \cup Numbers(hs[i].list)
    <3>1. SUFFICES ASSUME NEW m \in DOMAIN hs, m # i
                   PROVE  Numbers(hs[m].list) \subseteq Lost(new)
      OBVIOUS
    <3>2. PICK j \in DOMAIN new : from(j) = m
      BY <1>3, <3>1
    <3>3. new[j] = hs[m]
      BY <1>1, <3>2
    <3>. QED  BY <3>3 DEF Lost
  <2>2. \A j \in DOMAIN new : Numbers(new[j].list) \subseteq Lost(hs)
    BY <1>1, <1>2 DEF Lost
  <2>3. Lost(hs) \subseteq Lost(new) \cup Numbers(hs[i].list)
    BY <2>1 DEF Lost
  <2>4. Lost(new) \subseteq Lost(hs)
    BY <2>2 DEF Lost
  <2>5. Numbers(hs[i].list) \subseteq Lost(hs)
    BY DEF Lost
  <2>. QED  BY <2>3, <2>4, <2>5
<1>6. Apart(new)
  BY <1>1, <1>2 DEF Apart
<1>7. Lost(new) \cap Numbers(hs[i].list) = {}
  BY <1>4 DEF Lost
<1>. QED  BY <1>1, <1>5, <1>6, <1>7 DEF new
-----------------------------------------------------------------------------
(***************************************************************************)
(* What a handler of Connection does to the pushes and to the lists.       *)
(***************************************************************************)
\* push.send: of the pushes that are under way at most one is the page's own.
LEMMA SendKeeps ==
  ASSUME NEW r \in PageState, id \in BOOLEAN, delivered \in Seq(Nat), Sendings(r)
  PROVE  /\ Send(r) \in PageState /\ Sendings(Send(r))
         /\ Send(r).processed = r.processed /\ Send(r).gone = r.gone
<1>. DEFINE k == r.asked + 1
            D == ToSet(delivered)
<1>1. /\ r.asked \in Nat /\ k \in Nat /\ r.push \in Request /\ r.pushing \in SUBSET Nat
      /\ r.refused \in SUBSET Nat /\ r.push.running \in BOOLEAN /\ r.push.n \in Nat
  BY DEF PageState, Request
<1>2. /\ D \cup r.pushing \cup r.refused = 1..r.asked
      /\ D \cap (r.pushing \cup r.refused) = {} /\ r.pushing \cap r.refused = {}
      /\ IsInjective(delivered)
  BY DEF Sendings
<1>3. 1..k = 1..r.asked \cup {k} /\ k \notin 1..r.asked
  BY <1>1
<1>4. CASE r.push.running
  <2>1. Send(r) = [r EXCEPT !.asked = k, !.refused = r.refused \cup {k}]
    BY <1>4 DEF Send, Refused
  <2>. DEFINE t == [r EXCEPT !.asked = k, !.refused = r.refused \cup {k}]
  <2>2. /\ t.asked = k /\ t.refused = r.refused \cup {k} /\ t.push = r.push
        /\ t.pushing = r.pushing /\ t.processed = r.processed /\ t.gone = r.gone
        /\ t \in PageState
    BY <1>1 DEF PageState
  <2>. HIDE DEF t
  <2>3. /\ D \cup t.pushing \cup t.refused = 1..t.asked
        /\ D \cap (t.pushing \cup t.refused) = {} /\ t.pushing \cap t.refused = {}
    BY <1>2, <1>3, <2>2
  <2>4. Sendings(t)
    BY <2>2, <2>3 DEF Sendings
  <2>. QED  BY <2>1, <2>2, <2>4 DEF t
<1>5. CASE ~r.push.running
  <2>. DEFINE new == [running |-> TRUE, n |-> k]
              P == IF id THEN r.pushing \cup {k} ELSE r.pushing
              R == IF id THEN r.refused ELSE r.refused \cup {k}
              t == [r EXCEPT !.asked = k, !.push = new, !.pushing = P, !.refused = R]
  <2>1. Send(r) = t
    BY <1>5 DEF Send, Sent
  <2>2. /\ t.asked = k /\ t.refused = R /\ t.push = new
        /\ t.pushing = P /\ t.processed = r.processed /\ t.gone = r.gone
        /\ t \in PageState
    BY <1>1 DEF PageState, Request
  <2>. HIDE DEF t
  <2>3. /\ D \cup t.pushing \cup t.refused = 1..t.asked
        /\ D \cap (t.pushing \cup t.refused) = {} /\ t.pushing \cap t.refused = {}
    BY <1>2, <1>3, <2>2
  <2>4. ASSUME ~pushBroke
        PROVE  /\ t.pushing \subseteq {t.push.n} /\ (t.pushing # {} => t.push.running)
               /\ \A d \in D : d <= t.push.n
               /\ Increasing(delivered)
    <3>1. r.pushing = {} /\ Increasing(delivered)
      BY <1>5, <2>4 DEF Sendings
    <3>2. \A d \in D : d <= k
      BY <1>1, <1>2
    <3>. QED  BY <2>2, <3>1, <3>2
  <2>5. Sendings(t)
    BY <1>2, <2>3, <2>4 DEF Sendings
  <2>. QED  BY <2>1, <2>2, <2>5 DEF t
<1>. QED  BY <1>1, <1>4, <1>5

\* Numbers of a tab, each changed.
LEMMA TabsChange ==
  ASSUME NEW T \in Seq(Int), NEW n \in Int, NEW t
  PROVE  /\ [i \in DOMAIN T |-> T[i] + n] \in Seq(Int)
         /\ [i \in DOMAIN T |-> 0] \in Seq(Int)
         /\ [T EXCEPT ![t] = @ + n] \in Seq(Int)
<1>1. /\ Len(T) \in Nat /\ DOMAIN T = 1..Len(T) /\ \A i \in 1..Len(T) : T[i] \in Int
  OBVIOUS
<1>2. ASSUME NEW f, DOMAIN f = 1..Len(T), \A i \in 1..Len(T) : f[i] \in Int,
             f = [i \in 1..Len(T) |-> f[i]]
      PROVE  f \in Seq(Int)
  BY <1>1, <1>2
<1>. DEFINE f == [i \in DOMAIN T |-> T[i] + n]
            g == [i \in DOMAIN T |-> 0]
            h == [T EXCEPT ![t] = @ + n]
<1>3. /\ DOMAIN f = 1..Len(T) /\ (\A i \in 1..Len(T) : f[i] \in Int)
      /\ f = [i \in 1..Len(T) |-> f[i]]
  BY <1>1
<1>4. /\ DOMAIN g = 1..Len(T) /\ (\A i \in 1..Len(T) : g[i] \in Int)
      /\ g = [i \in 1..Len(T) |-> g[i]]
  BY <1>1
<1>5. /\ DOMAIN h = 1..Len(T) /\ (\A i \in 1..Len(T) : h[i] \in Int)
      /\ h = [i \in 1..Len(T) |-> h[i]]
  <2>1. h = [i \in 1..Len(T) |-> IF i = t THEN T[i] + n ELSE T[i]]
    <3>1. CASE t \in 1..Len(T)
      BY <1>1, <3>1
    <3>2. CASE t \notin 1..Len(T)
      BY <1>1, <3>2
    <3>. QED  BY <3>1, <3>2
  <2>. HIDE DEF h
  <2>. QED  BY <1>1, <2>1
<1>. HIDE DEF f, g, h
<1>6. f \in Seq(Int) /\ g \in Seq(Int) /\ h \in Seq(Int)
  BY <1>2, <1>3, <1>4, <1>5
<1>. QED  BY <1>6 DEF f, g, h

\* The other handlers leave the pushes and the account of the events alone.
SameSending(r, t) ==
  /\ t.push = r.push /\ t.pushing = r.pushing /\ t.asked = r.asked /\ t.refused = r.refused
  /\ t.processed = r.processed /\ t.gone = r.gone

LEMMA ListsChange ==
  ASSUME NEW r \in PageState, NEW n \in Nat
  PROVE  /\ JoinedSelf(r) \in PageState /\ SameSending(r, JoinedSelf(r))
         /\ Listed(r, n) \in PageState /\ SameSending(r, Listed(r, n))
         /\ Named(r) \in PageState /\ SameSending(r, Named(r))
         /\ Parted(r) \in PageState /\ SameSending(r, Parted(r))
         /\ Quit(r) \in PageState /\ SameSending(r, Quit(r))
<1>1. r.tabs \in Seq(Int) /\ r.names \in Nat
  BY DEF PageState
<1>2. ASSUME NEW T \in Seq(Int)
      PROVE  [r EXCEPT !.tabs = T] \in PageState /\ SameSending(r, [r EXCEPT !.tabs = T])
  BY DEF PageState, SameSending
<1>3. JoinedSelf(r) \in PageState /\ SameSending(r, JoinedSelf(r))
  <2>1. Append(r.tabs, NewContext) \in Seq(Int)
    BY <1>1 DEF NewContext
  <2>. QED  BY <1>2, <2>1 DEF JoinedSelf
<1>4. Listed(r, n) \in PageState /\ SameSending(r, Listed(r, n))
  <2>1. [i \in DOMAIN r.tabs |-> r.tabs[i] + n] \in Seq(Int)
    BY <1>1, TabsChange
  <2>. QED  BY <1>2, <2>1 DEF Listed
<1>5. Named(r) \in PageState /\ SameSending(r, Named(r))
  <2>. DEFINE m == r.names + 1
  <2>1. m \in Nat /\ Named(r) = [r EXCEPT !.names = m]
    BY <1>1 DEF Named
  <2>. HIDE DEF m
  <2>2. [r EXCEPT !.names = m] \in PageState /\ SameSending(r, [r EXCEPT !.names = m])
    BY <2>1 DEF PageState, SameSending
  <2>. QED  BY <2>1, <2>2
<1>6. Parted(r) \in PageState /\ SameSending(r, Parted(r))
  <2>1. [i \in DOMAIN r.tabs |-> 0] \in Seq(Int)
    BY <1>1, TabsChange
  <2>. QED  BY <1>2, <2>1 DEF Parted
<1>7. ASSUME NEW t
      PROVE  /\ TooFewArguments([r EXCEPT !.tabs[t] = @ - 1]) \in PageState
             /\ SameSending(r, TooFewArguments([r EXCEPT !.tabs[t] = @ - 1]))
  <2>1. [r.tabs EXCEPT ![t] = @ - 1] \in Seq(Int)
    <3>1. -1 \in Int
      OBVIOUS
    <3>2. [r.tabs EXCEPT ![t] = @ + (-1)] \in Seq(Int)
      BY <1>1, <3>1, TabsChange
    <3>3. [r.tabs EXCEPT ![t] = @ + (-1)] = [r.tabs EXCEPT ![t] = @ - 1]
      BY <1>1
    <3>. QED  BY <3>2, <3>3
  <2>2. [r EXCEPT !.tabs[t] = @ - 1] = [r EXCEPT !.tabs = [r.tabs EXCEPT ![t] = @ - 1]]
    BY DEF PageState
  <2>3. /\ [r EXCEPT !.tabs[t] = @ - 1] \in PageState
        /\ SameSending(r, [r EXCEPT !.tabs[t] = @ - 1])
    BY <1>2, <2>1, <2>2
  <2>4. ASSUME NEW u \in PageState
        PROVE  TooFewArguments(u) \in PageState /\ SameSending(u, TooFewArguments(u))
    BY DEF TooFewArguments, PageState, SameSending
  <2>. QED  BY <2>3, <2>4 DEF SameSending
<1>8. Quit(r) \in PageState /\ SameSending(r, Quit(r))
  BY <1>7 DEF Quit, SameSending
<1>. QED  BY <1>3, <1>4, <1>5, <1>6, <1>8

\* An event of an answer is processed or, once a handler has thrown, lost.
LEMMA TurnedStep ==
  ASSUME NEW r \in PageState, NEW e \in Event, id \in BOOLEAN, delivered \in Seq(Nat),
         Sendings(r)
  PROVE  /\ Turned(r, e) \in PageState /\ Sendings(Turned(r, e))
         /\ \/ /\ Turned(r, e).processed = Append(r.processed, e.n)
               /\ Turned(r, e).gone = r.gone
            \/ /\ Turned(r, e).processed = r.processed
               /\ Turned(r, e).gone = r.gone \cup {e.n}
<1>1. e.n \in Nat
  BY DEF Event
<1>2. ASSUME r.threw
      PROVE  /\ Turned(r, e) \in PageState /\ Sendings(Turned(r, e))
             /\ Turned(r, e).processed = r.processed /\ Turned(r, e).gone = r.gone \cup {e.n}
  BY <1>1, <1>2 DEF Turned, PageState, Sendings
<1>3. ASSUME ~r.threw
      PROVE  /\ Turned(r, e) \in PageState /\ Sendings(Turned(r, e))
             /\ Turned(r, e).processed = Append(r.processed, e.n) /\ Turned(r, e).gone = r.gone
  <2>. DEFINE done == [r EXCEPT !.processed = Append(@, e.n)]
  <2>1. Turned(r, e) = ProcessMessage(r, e)
    BY <1>3 DEF Turned
  <2>2. /\ done \in PageState /\ done.processed = Append(r.processed, e.n) /\ done.gone = r.gone
        /\ Sendings(done) /\ done.names \in Nat
    <3>1. r.processed \in Seq(Nat)
      BY DEF PageState
    <3>. DEFINE P == Append(r.processed, e.n)
    <3>2. P \in Seq(Nat)
      BY <1>1, <3>1, AppendProperties
    <3>3. done = [r EXCEPT !.processed = P]
      OBVIOUS
    <3>. HIDE DEF done, P
    <3>4. done \in PageState
      BY <3>2, <3>3 DEF PageState
    <3>5. /\ done.processed = P /\ done.gone = r.gone /\ done.push = r.push
          /\ done.pushing = r.pushing /\ done.asked = r.asked /\ done.refused = r.refused
      BY <3>3 DEF PageState
    <3>6. done.names \in Nat
      BY <3>4 DEF PageState
    <3>7. Sendings(done)
      BY <3>5 DEF Sendings
    <3>. QED  BY <3>4, <3>5, <3>6, <3>7 DEF P
  <2>. HIDE DEF done
  <2>3. ASSUME NEW t \in PageState, SameSending(done, t)
        PROVE  /\ Sendings(t)
               /\ t.processed = Append(r.processed, e.n) /\ t.gone = r.gone
    BY <2>2, <2>3 DEF SameSending, Sendings
  <2>4. \/ ProcessMessage(r, e) = Send(done)
        \/ ProcessMessage(r, e) = JoinedSelf(done)
        \/ ProcessMessage(r, e) = Listed(done, 1)
        \/ ProcessMessage(r, e) = Named(done)
        \/ ProcessMessage(r, e) = Listed(done, done.names)
        \/ ProcessMessage(r, e) = Parted(done)
        \/ ProcessMessage(r, e) = Quit(done)
        \/ ProcessMessage(r, e) = done
    BY DEF ProcessMessage, done
  <2>5. CASE ProcessMessage(r, e) = Send(done)
    BY <2>1, <2>2, <2>5, SendKeeps
  <2>6. CASE ProcessMessage(r, e) # Send(done)
    <3>1. ProcessMessage(r, e) \in PageState /\ SameSending(done, ProcessMessage(r, e))
      BY <2>2, <2>4, <2>6, ListsChange DEF SameSending
    <3>. QED  BY <2>1, <2>3, <3>1
  <2>. QED  BY <2>5, <2>6
<1>. QED  BY <1>2, <1>3 DEF PageState

\* After the events N of an answer: each was processed, behind those of before, or lost.
After(s, t, N) ==
  /\ t \in PageState /\ Sendings(t) /\ Increasing(t.processed)
  /\ ToSet(t.processed) \subseteq ToSet(s.processed) \cup N
  /\ ToSet(t.processed) \cap t.gone = {}
  /\ ToSet(t.processed) \cup t.gone = ToSet(s.processed) \cup s.gone \cup N

LEMMA AfterOne ==
  ASSUME NEW s, NEW r, NEW N \in SUBSET Nat, NEW e \in Event,
         id \in BOOLEAN, delivered \in Seq(Nat), After(s, r, N),
         \A k \in ToSet(s.processed) \cup N : k < e.n, e.n \notin s.gone
  PROVE  After(s, Turned(r, e), N \cup {e.n})
<1>. DEFINE t == Turned(r, e)
<1>1. e.n \in Nat /\ r.processed \in Seq(Nat) /\ r \in PageState
  BY DEF After, PageState, Event
<1>2. /\ t \in PageState /\ Sendings(t)
      /\ \/ t.processed = Append(r.processed, e.n) /\ t.gone = r.gone
         \/ t.processed = r.processed /\ t.gone = r.gone \cup {e.n}
  BY <1>1, TurnedStep DEF After
<1>. HIDE DEF t
<1>3. \A k \in ToSet(r.processed) : k < e.n
  BY DEF After
<1>4. \A k \in ToSet(s.processed) \cup N : k # e.n
  <2>1. SUFFICES ASSUME e.n \in ToSet(s.processed) \cup N PROVE FALSE
    OBVIOUS
  <2>2. e.n < e.n
    BY <2>1
  <2>. QED  BY <1>1, <2>2
<1>5. e.n \notin ToSet(r.processed) /\ e.n \notin r.gone
  BY <1>4 DEF After
<1>. DEFINE A == ToSet(s.processed)
            P == ToSet(r.processed)
            Q == ToSet(t.processed)
<1>6. /\ Increasing(r.processed) /\ P \subseteq A \cup N /\ P \cap r.gone = {}
      /\ P \cup r.gone = A \cup s.gone \cup N
  BY DEF After
<1>7. \/ Q = P \cup {e.n} /\ t.gone = r.gone /\ Increasing(t.processed)
      \/ Q = P /\ t.gone = r.gone \cup {e.n} /\ Increasing(t.processed)
  BY <1>1, <1>2, <1>3, <1>6, AppendIncreasing
<1>8. /\ Q \subseteq A \cup (N \cup {e.n}) /\ Q \cap t.gone = {}
      /\ Q \cup t.gone = A \cup s.gone \cup (N \cup {e.n})
  <2>. HIDE DEF A, P, Q
  <2>1. e.n \notin P /\ e.n \notin r.gone
    BY <1>5 DEF P
  <2>. QED  BY <1>6, <1>7, <2>1
<1>. QED  BY <1>2, <1>7, <1>8 DEF t, After

\* The loop over an answer keeps the account of the events and of the pushes.
LEMMA ProcessKeeps ==
  ASSUME NEW s \in PageState, NEW list \in Seq(Event), id \in BOOLEAN, delivered \in Seq(Nat),
         Sendings(s), Increasing(s.processed), InOrder(list),
         Below(ToSet(s.processed), Numbers(list)), s.gone \cap Numbers(list) = {},
         s.gone \cap ToSet(s.processed) = {}
  PROVE  After(s, Process(s, list), Numbers(list))
<1>. DEFINE len == Len(list)
            First(i) == {list[j].n : j \in 1..i}
<1>1. /\ len \in Nat /\ DOMAIN list = 1..len /\ \A i \in 1..len : list[i] \in Event
  OBVIOUS
<1>2. PICK f : /\ f[0] = s
               /\ \A i \in 1..len : f[i] = Turned(f[i - 1], list[i])
               /\ Process(s, list) = f[len]
  BY <1>1, ProcessCourse
<1>3. /\ Numbers(list) = {list[i].n : i \in 1..len} /\ Numbers(list) \subseteq Nat
  BY <1>1, NumbersOf
<1>4. First(0) = {} /\ First(len) = Numbers(list)
  BY <1>1, <1>3
<1>5. \A i \in 1..len : /\ First(i) = First(i - 1) \cup {list[i].n}
                        /\ First(i - 1) \in SUBSET Nat
                        /\ \A k \in First(i - 1) : k < list[i].n
  <2>1. SUFFICES ASSUME NEW i \in 1..len
                 PROVE  /\ First(i) = First(i - 1) \cup {list[i].n}
                        /\ First(i - 1) \in SUBSET Nat
                        /\ \A k \in First(i - 1) : k < list[i].n
    OBVIOUS
  <2>2. 1..i = 1..(i - 1) \cup {i} /\ i - 1 \in Nat
    BY <1>1
  <2>3. \A j \in 1..(i - 1) : j \in 1..len /\ j < i
    BY <1>1
  <2>4. \A j \in 1..(i - 1) : list[j].n < list[i].n /\ list[j].n \in Nat
    BY <1>1, <1>3, <2>3 DEF InOrder
  <2>. QED  BY <2>2, <2>4
<1>. HIDE DEF First, len
<1>. DEFINE Good(i) == After(s, f[i], First(i))
            Bad == {i \in 0..len : ~Good(i)}
<1>6. Good(0)
  BY <1>2, <1>4 DEF After
<1>7. ASSUME NEW i \in 1..len, Good(i - 1)
      PROVE  Good(i)
  <2>1. list[i] \in Event /\ list[i].n \in Numbers(list)
    BY <1>1, <1>3
  <2>2. /\ \A k \in ToSet(s.processed) \cup First(i - 1) : k < list[i].n
        /\ list[i].n \notin s.gone
    BY <1>5, <2>1 DEF Below
  <2>3. After(s, Turned(f[i - 1], list[i]), First(i - 1) \cup {list[i].n})
    BY <1>5, <1>7, <2>1, <2>2, AfterOne
  <2>. QED  BY <1>2, <1>5, <2>3
<1>8. Bad = {}
  <2>1. SUFFICES ASSUME Bad # {} PROVE FALSE
    OBVIOUS
  <2>2. Bad \in SUBSET Nat
    BY <1>1
  <2>3. PICK m \in Bad : \A y \in Bad : m <= y
    BY <2>1, <2>2, LeastNumber
  <2>4. m \in 1..len /\ m - 1 \in 0..len /\ m - 1 \notin Bad
    BY <1>1, <1>6, <2>3
  <2>. QED  BY <1>7, <2>3, <2>4
<1>9. Good(len)
  BY <1>1, <1>8
<1>. QED  BY <1>2, <1>4, <1>9
-----------------------------------------------------------------------------
(***************************************************************************)
(* The places of the events, as one moves.                                 *)
(***************************************************************************)
LEMMA SharedFacts ==
  ASSUME NEW P, NEW G, NEW S, NEW Q, NEW H, NEW L, NEW n \in Nat, Shared(P, G, S, Q, H, L, n)
  PROVE  /\ Below(P, S) /\ Below(P, Q) /\ Below(P, H) /\ Below(S, Q) /\ Below(S, H) /\ Below(Q, H)
         /\ G \cap (P \cup S \cup Q \cup H) = {}
         /\ L \cap (P \cup G \cup S \cup Q \cup H) = {}
         /\ P \cup G \cup S \cup Q \cup H \cup L = 1..n
         /\ \A x \in P \cup G \cup S \cup Q \cup H \cup L : x \in Nat /\ x <= n /\ ~(x < x)
         /\ S \cap (P \cup Q \cup H) = {} /\ P \cap (Q \cup H) = {} /\ Q \cap H = {}
<1>1. /\ Below(P, S) /\ Below(P, Q) /\ Below(P, H) /\ Below(S, Q) /\ Below(S, H) /\ Below(Q, H)
      /\ G \cap (P \cup S \cup Q \cup H) = {}
      /\ L \cap (P \cup G \cup S \cup Q \cup H) = {}
      /\ P \cup G \cup S \cup Q \cup H \cup L = 1..n
  BY DEF Shared
<1>2. \A x \in P \cup G \cup S \cup Q \cup H \cup L : x \in Nat /\ x <= n /\ ~(x < x)
  BY <1>1
<1>3. S \cap (P \cup Q \cup H) = {} /\ P \cap (Q \cup H) = {} /\ Q \cap H = {}
  BY <1>1, <1>2 DEF Below
<1>. QED  BY <1>1, <1>2, <1>3

\* The events S of an answer are processed or lost.
LEMMA AnswerTaken ==
  ASSUME NEW P, NEW G, NEW S, NEW Q, NEW H, NEW L, NEW n \in Nat, Shared(P, G, S, Q, H, L, n),
         NEW A, NEW B, A \subseteq P \cup S, A \cap B = {}, A \cup B = P \cup G \cup S
  PROVE  Shared(A, B, {}, Q, H, L, n)
<1>1. /\ Below(P, S) /\ Below(P, Q) /\ Below(P, H) /\ Below(S, Q) /\ Below(S, H) /\ Below(Q, H)
      /\ G \cap (P \cup S \cup Q \cup H) = {}
      /\ L \cap (P \cup G \cup S \cup Q \cup H) = {}
      /\ P \cup G \cup S \cup Q \cup H \cup L = 1..n
      /\ S \cap (P \cup Q \cup H) = {} /\ P \cap (Q \cup H) = {} /\ Q \cap H = {}
  BY SharedFacts
<1>. QED  BY <1>1 DEF Shared, Below

\* All of them are lost, at once or with a handler.
LEMMA AnswerLost ==
  ASSUME NEW P, NEW G, NEW S, NEW Q, NEW H, NEW L, NEW n \in Nat, Shared(P, G, S, Q, H, L, n)
  PROVE  Shared(P, G \cup S, {}, Q, H, L, n) /\ Shared(P, G, {}, Q, H, L \cup S, n)
<1>1. /\ Below(P, S) /\ Below(P, Q) /\ Below(P, H) /\ Below(S, Q) /\ Below(S, H) /\ Below(Q, H)
      /\ G \cap (P \cup S \cup Q \cup H) = {}
      /\ L \cap (P \cup G \cup S \cup Q \cup H) = {}
      /\ P \cup G \cup S \cup Q \cup H \cup L = 1..n
      /\ S \cap (P \cup Q \cup H) = {} /\ P \cap (Q \cup H) = {} /\ Q \cap H = {}
  BY SharedFacts
<1>. QED  BY <1>1 DEF Shared, Below

\* The event that was held back is lost, or finds room in the queue.
LEMMA HeldMoved ==
  ASSUME NEW P, NEW G, NEW S, NEW Q, NEW H, NEW L, NEW n \in Nat, Shared(P, G, S, Q, H, L, n)
  PROVE  Shared(P, G \cup H, S, Q, {}, L, n) /\ Shared(P, G, S, Q \cup H, {}, L, n)
<1>1. /\ Below(P, S) /\ Below(P, Q) /\ Below(P, H) /\ Below(S, Q) /\ Below(S, H) /\ Below(Q, H)
      /\ G \cap (P \cup S \cup Q \cup H) = {}
      /\ L \cap (P \cup G \cup S \cup Q \cup H) = {}
      /\ P \cup G \cup S \cup Q \cup H \cup L = 1..n
      /\ S \cap (P \cup Q \cup H) = {} /\ P \cap (Q \cup H) = {} /\ Q \cap H = {}
  BY SharedFacts
<1>. QED  BY <1>1 DEF Shared, Below

\* A handler ends whose answer nobody waits for.
LEMMA OrphanEnded ==
  ASSUME NEW P, NEW G, NEW S, NEW Q, NEW H, NEW L, NEW n \in Nat, Shared(P, G, S, Q, H, L, n),
         NEW K, NEW M, L = M \cup K, M \cap K = {}
  PROVE  Shared(P, G \cup K, S, Q, H, M, n)
<1>1. /\ Below(P, S) /\ Below(P, Q) /\ Below(P, H) /\ Below(S, Q) /\ Below(S, H) /\ Below(Q, H)
      /\ G \cap (P \cup S \cup Q \cup H) = {}
      /\ L \cap (P \cup G \cup S \cup Q \cup H) = {}
      /\ P \cup G \cup S \cup Q \cup H \cup L = 1..n
      /\ S \cap (P \cup Q \cup H) = {} /\ P \cap (Q \cup H) = {} /\ Q \cap H = {}
  BY SharedFacts
<1>. QED  BY <1>1 DEF Shared

\* A handler takes the first event of the queue.
LEMMA EventTaken ==
  ASSUME NEW P, NEW G, NEW S, NEW k, NEW R, NEW H, NEW L, NEW n \in Nat,
         Shared(P, G, S, {k} \cup R, H, L, n), Below({k}, R)
  PROVE  /\ Shared(P, G, S \cup {k}, R, H, L, n)
         /\ Shared(P, G, S, R, H, L \cup {k}, n)
         /\ k \notin L
<1>. DEFINE Q == {k} \cup R
<1>1. /\ Below(P, S) /\ Below(P, Q) /\ Below(P, H) /\ Below(S, Q) /\ Below(S, H) /\ Below(Q, H)
      /\ G \cap (P \cup S \cup Q \cup H) = {}
      /\ L \cap (P \cup G \cup S \cup Q \cup H) = {}
      /\ P \cup G \cup S \cup Q \cup H \cup L = 1..n
      /\ S \cap (P \cup Q \cup H) = {} /\ P \cap (Q \cup H) = {} /\ Q \cap H = {}
  BY SharedFacts
<1>2. k \in Q /\ R \subseteq Q /\ ~(k < k)
  <2>1. \A x \in Q : ~(x < x)
    <3>. HIDE DEF Q
    <3>. QED  BY SharedFacts DEF Q
  <2>. QED  BY <2>1
<1>3. k \notin R
  BY <1>2 DEF Below
<1>4. /\ Below(P, S \cup {k}) /\ Below(P, R) /\ Below(S \cup {k}, R) /\ Below(S \cup {k}, H)
      /\ Below(S, R) /\ Below(R, H)
  BY <1>1, <1>2 DEF Below
<1>5. /\ G \cap (P \cup (S \cup {k}) \cup R \cup H) = {}
      /\ L \cap (P \cup G \cup (S \cup {k}) \cup R \cup H) = {}
      /\ P \cup G \cup (S \cup {k}) \cup R \cup H \cup L = 1..n
  BY <1>1, <1>2
<1>6. /\ G \cap (P \cup S \cup R \cup H) = {}
      /\ (L \cup {k}) \cap (P \cup G \cup S \cup R \cup H) = {}
      /\ P \cup G \cup S \cup R \cup H \cup (L \cup {k}) = 1..n
  BY <1>1, <1>2, <1>3
<1>7. k \notin L
  BY <1>1, <1>2
<1>. QED  BY <1>1, <1>4, <1>5, <1>6, <1>7 DEF Shared

\* The next event of the connection arrives.
LEMMA EventArrived ==
  ASSUME NEW P, NEW G, NEW S, NEW Q, NEW H, NEW L, NEW n \in Nat, Shared(P, G, S, Q, H, L, n),
         H = {}
  PROVE  /\ Shared(P, G, S, Q \cup {n + 1}, {}, L, n + 1)
         /\ Shared(P, G, S, Q, {n + 1}, L, n + 1)
<1>. DEFINE k == n + 1
<1>1. /\ Below(P, S) /\ Below(P, Q) /\ Below(S, Q)
      /\ G \cap (P \cup S \cup Q) = {} /\ L \cap (P \cup G \cup S \cup Q) = {}
      /\ P \cup G \cup S \cup Q \cup L = 1..n
      /\ \A x \in P \cup G \cup S \cup Q \cup L : x \in Nat /\ x <= n
  BY SharedFacts
<1>2. /\ 1..k = 1..n \cup {k}
      /\ \A x \in P \cup G \cup S \cup Q \cup L : x < k /\ x # k
  BY <1>1
<1>. HIDE DEF k
<1>3. Below(P, Q \cup {k}) /\ Below(S, Q \cup {k}) /\ Below(Q \cup {k}, {})
      /\ Below(P, {k}) /\ Below(S, {k}) /\ Below(Q, {k}) /\ Below(P, {}) /\ Below(S, {})
  BY <1>1, <1>2 DEF Below
<1>4. Shared(P, G, S, Q \cup {k}, {}, L, k)
  BY <1>1, <1>2, <1>3 DEF Shared
<1>5. Shared(P, G, S, Q, {k}, L, k)
  BY <1>1, <1>2, <1>3 DEF Shared
<1>. QED  BY <1>4, <1>5 DEF k
-----------------------------------------------------------------------------
(***************************************************************************)
(* Each action keeps Inv.                                                  *)
(***************************************************************************)
LEMMA InvInit == Init => Inv
<1>. SUFFICES ASSUME Init PROVE Inv
  OBVIOUS
<1>. USE DEF Init, Serve
<1>1. ToSet(delivered) = {} /\ IsInjective(delivered) /\ Increasing(delivered)
  BY DEF ToSet, IsInjective, Increasing
<1>2. ToSet(processed) = {} /\ Increasing(processed)
  BY DEF ToSet, Increasing
<1>3. TypeOK
  <2>1. Handlers \in PageState
    BY DEF Handlers, PageState, Request
  <2>2. serving \in Handler /\ orphans \in Seq(Handler)
    BY DEF Handler
  <2>3. pull \in [running : BOOLEAN, hears : BOOLEAN]
    OBVIOUS
  <2>4. held \in Seq(Event) /\ Len(held) <= 1 /\ events \in Seq(Event) /\ delivered \in Seq(Nat)
    OBVIOUS
  <2>. QED  BY <2>1, <2>2, <2>3, <2>4 DEF TypeOK
<1>4. Connects
  BY DEF Connects
<1>5. Sendings(Handlers)
  BY <1>1 DEF Sendings, Handlers
<1>6. Lost(orphans) = {} /\ Apart(orphans)
  BY DEF Lost, Apart
<1>7. Accounted
  BY <1>2, <1>6, NumbersEmpty DEF Accounted, Shared, Below
<1>. QED  BY <1>3, <1>4, <1>5, <1>7 DEF Inv

\* What Inv says of the single variables.
LEMMA Types ==
  ASSUME Inv
  PROVE  /\ Handlers \in PageState /\ push \in Request /\ pushing \subseteq Nat
         /\ tabs \in Seq(Int) /\ names \in Nat /\ processed \in Seq(Nat) /\ gone \subseteq Nat
         /\ asked \in Nat /\ refused \subseteq Nat /\ push.running \in BOOLEAN /\ push.n \in Nat
         /\ serving.list \in Seq(Event) /\ \A i \in DOMAIN orphans : orphans[i] \in Handler
         /\ Shared(ToSet(processed), gone, Numbers(serving.list), Numbers(events),
                   Numbers(held), Lost(orphans), arrived)
         /\ id \in BOOLEAN /\ connected = id
         /\ serving \in Handler /\ orphans \in Seq(Handler) /\ events \in Seq(Event)
         /\ held \in Seq(Event) /\ Len(held) <= 1
         /\ arrived \in Nat /\ delivered \in Seq(Nat)
<1>1. TypeOK /\ Connects /\ Accounted
  BY DEF Inv
<1>2. /\ Handlers.push = push /\ Handlers.pushing = pushing /\ Handlers.tabs = tabs
      /\ Handlers.names = names /\ Handlers.processed = processed /\ Handlers.gone = gone
      /\ Handlers.asked = asked /\ Handlers.refused = refused
  BY DEF Handlers
<1>3. Handlers \in PageState
  BY <1>1 DEF TypeOK
<1>4. /\ push \in Request /\ pushing \subseteq Nat
      /\ tabs \in Seq(Int) /\ names \in Nat /\ processed \in Seq(Nat) /\ gone \subseteq Nat
      /\ asked \in Nat /\ refused \subseteq Nat
  BY <1>2, <1>3 DEF PageState
<1>5. push.running \in BOOLEAN /\ push.n \in Nat
  BY <1>4 DEF Request
<1>6. serving.list \in Seq(Event) /\ \A i \in DOMAIN orphans : orphans[i] \in Handler
  <2>1. serving \in Handler /\ orphans \in Seq(Handler)
    BY <1>1 DEF TypeOK
  <2>2. \A h \in Handler : h.list \in Seq(Event)
    BY DEF Handler
  <2>. HIDE DEF Handler
  <2>. QED  BY <2>1, <2>2
<1>. QED  BY <1>1, <1>3, <1>4, <1>5, <1>6 DEF TypeOK, Connects, Accounted

\* The types of what the handlers may change, after a step.
LEMMA PageTypes ==
  ASSUME push' \in Request, pushing' \subseteq Nat, tabs' \in Seq(Int), names' \in Nat,
         processed' \in Seq(Nat), gone' \subseteq Nat, asked' \in Nat, refused' \subseteq Nat
  PROVE  Handlers' \in PageState
BY DEF Handlers, PageState

LEMMA SendingsSame ==
  ASSUME Inv, UNCHANGED <<push, pushing, asked, refused, delivered, pushBroke>>
  PROVE  Sendings(Handlers)'
BY DEF Inv, Sendings, Handlers, Increasing

LEMMA SendingsBecome ==
  ASSUME NEW s, Sendings(s), Becomes(s), UNCHANGED <<delivered, pushBroke>>
  PROVE  Sendings(Handlers)'
BY DEF Sendings, Handlers, Becomes, Increasing
-----------------------------------------------------------------------------
\* The page processes an answer and asks for the next, or learns its id.
LEMMA PullSuccessKeeps ==
  ASSUME Inv, PullSuccess
  PROVE  Inv'
<1>. DEFINE s == IF connected THEN Process(Handlers, serving.list) ELSE Handlers
            N == Numbers(serving.list)
<1>1. TypeOK /\ Connects /\ Sendings(Handlers) /\ Accounted
  BY DEF Inv
<1>2. /\ Handlers.processed = processed /\ Handlers.gone = gone
      /\ Handlers \in PageState
  BY Types DEF Handlers
<1>3. /\ Becomes(s) /\ pull' = Resent(s.threw) /\ serving' = Serve("drain")
      /\ connected' = TRUE /\ id' = TRUE
      /\ UNCHANGED <<keeps, relay, held, events, orphans, arrived, delivered, broken, pushBroke>>
  BY DEF PullSuccess, Resent
<1>4. /\ Increasing(processed) /\ InOrder(serving.list)
      /\ Shared(ToSet(processed), gone, N, Numbers(events), Numbers(held), Lost(orphans), arrived)
  BY <1>1 DEF Accounted
<1>5. After(Handlers, s, N)
  <2>1. CASE connected
    <3>1. /\ Below(ToSet(processed), N) /\ gone \cap N = {} /\ gone \cap ToSet(processed) = {}
      BY <1>4 DEF Shared
    <3>. QED  BY <1>1, <1>2, <1>4, <2>1, <3>1, Types, ProcessKeeps
  <2>2. CASE ~connected
    <3>1. N = {} /\ s = Handlers
      BY <1>1, <2>2, NumbersEmpty DEF Connects
    <3>2. ToSet(processed) \cap gone = {}
      BY <1>4 DEF Shared
    <3>. QED  BY <1>1, <1>2, <1>4, <3>1, <3>2 DEF After
  <2>. QED  BY <2>1, <2>2
<1>. HIDE DEF s
<1>6. s \in PageState /\ Sendings(s) /\ s.threw \in BOOLEAN
  BY <1>5 DEF After, PageState
<1>7. TypeOK'
  <2>1. Handlers' \in PageState
    <3>1. /\ s.push \in Request /\ s.pushing \subseteq Nat /\ s.tabs \in Seq(Int)
          /\ s.names \in Nat /\ s.processed \in Seq(Nat) /\ s.gone \subseteq Nat
          /\ s.asked \in Nat /\ s.refused \subseteq Nat
      BY <1>6 DEF PageState
    <3>. QED  BY <1>3, <3>1, PageTypes DEF Becomes
  <2>2. serving' \in Handler
    BY <1>3, EmptySeq DEF Serve, Handler
  <2>3. pull' \in [running : BOOLEAN, hears : BOOLEAN]
    BY <1>1, <1>3, <1>6 DEF Resent, TypeOK
  <2>. QED  BY <1>1, <1>3, <2>1, <2>2, <2>3 DEF TypeOK
<1>8. Connects'
  BY <1>3 DEF Connects
<1>9. Sendings(Handlers)'
  BY <1>3, <1>6, SendingsBecome
<1>10. Accounted'
  <2>1. processed' = s.processed /\ gone' = s.gone /\ serving'.list = <<>>
    BY <1>3 DEF Becomes, Serve
  <2>2. /\ Increasing(s.processed) /\ ToSet(s.processed) \subseteq ToSet(processed) \cup N
        /\ ToSet(s.processed) \cap s.gone = {}
        /\ ToSet(s.processed) \cup s.gone = ToSet(processed) \cup gone \cup N
    BY <1>2, <1>5 DEF After
  <2>3. Shared(ToSet(s.processed), s.gone, {}, Numbers(events), Numbers(held), Lost(orphans),
               arrived)
    <3>1. arrived \in Nat
      BY Types
    <3>. QED  BY <1>4, <2>2, <3>1, AnswerTaken
  <2>. QED  BY <1>1, <1>3, <2>1, <2>2, <2>3, NumbersEmpty DEF Accounted, Increasing
<1>. QED  BY <1>7, <1>8, <1>9, <1>10 DEF Inv

\* An answer nobody hears is lost.
LEMMA PullUnheardKeeps ==
  ASSUME Inv, PullUnheard
  PROVE  Inv'
<1>1. TypeOK /\ Connects /\ Accounted
  BY DEF Inv
<1>2. /\ gone' = gone \cup Numbers(serving.list) /\ serving' = Nothing
      /\ UNCHANGED <<pageVars, relay, held, events, orphans, pushing, arrived, processed, asked,
                     delivered, refused, broken, pushBroke>>
  BY DEF PullUnheard
<1>3. Numbers(serving.list) \subseteq Nat
  BY Types, NumbersOf
<1>4. TypeOK'
  <2>1. Handlers' \in PageState
    BY <1>2, <1>3, Types, PageTypes DEF pageVars
  <2>2. serving' \in Handler
    BY <1>2, EmptySeq DEF Nothing, Handler
  <2>. QED  BY <1>1, <1>2, <2>1, <2>2 DEF TypeOK, pageVars
<1>5. Connects'
  BY <1>1, <1>2 DEF Connects, Nothing, pageVars
<1>6. Sendings(Handlers)'
  BY <1>2, SendingsSame DEF pageVars
<1>7. Accounted'
  <2>1. serving'.list = <<>>
    BY <1>2 DEF Nothing
  <2>2. Shared(ToSet(processed), gone \cup Numbers(serving.list), {}, Numbers(events),
               Numbers(held), Lost(orphans), arrived)
    <3>1. Shared(ToSet(processed), gone, Numbers(serving.list), Numbers(events), Numbers(held),
                 Lost(orphans), arrived)
          /\ arrived \in Nat
      BY Types
    <3>. QED  BY <3>1, AnswerLost
  <2>. QED  BY <1>1, <1>2, <2>1, <2>2, NumbersEmpty DEF Accounted, Increasing
<1>. QED  BY <1>4, <1>5, <1>6, <1>7 DEF Inv

\* A pull breaks: its answer is lost, or will be.
LEMMA PullFailureKeeps ==
  ASSUME Inv, PullFailure
  PROVE  Inv'
<1>1. TypeOK /\ Connects /\ Accounted
  BY DEF Inv
<1>. DEFINE N == Numbers(serving.list)
<1>2. /\ \/ serving.does = "answer" /\ gone' = gone \cup N /\ UNCHANGED orphans
         \/ orphans' = Append(orphans, serving) /\ UNCHANGED gone
      /\ pull' = Resent(FALSE)
      /\ serving' = IF id THEN Serve("drain") ELSE Nothing
      /\ UNCHANGED <<keeps, push, connected, id, tabs, names, relay, held, events, pushing,
                     arrived, processed, asked, delivered, refused, pushBroke>>
  BY DEF PullFailure
<1>3. N \subseteq Nat
  BY Types, NumbersOf
<1>4. serving' \in Handler /\ serving'.list = <<>>
  BY <1>2, EmptySeq, Types DEF Nothing, Serve, Handler
<1>5. /\ orphans' \in Seq(Handler) /\ Apart(orphans')
      /\ Shared(ToSet(processed), gone', {}, Numbers(events), Numbers(held), Lost(orphans'),
                arrived)
  <2>0. /\ Shared(ToSet(processed), gone \cup N, {}, Numbers(events), Numbers(held),
                  Lost(orphans), arrived)
        /\ Shared(ToSet(processed), gone, {}, Numbers(events), Numbers(held),
                  Lost(orphans) \cup N, arrived)
    <3>1. Shared(ToSet(processed), gone, N, Numbers(events), Numbers(held), Lost(orphans), arrived)
          /\ arrived \in Nat
      BY Types
    <3>. QED  BY <3>1, AnswerLost
  <2>1. CASE gone' = gone \cup N /\ UNCHANGED orphans
    <3>1. Apart(orphans) /\ orphans \in Seq(Handler)
      BY <1>1, Types DEF Accounted
    <3>. QED  BY <2>0, <2>1, <3>1
  <2>2. CASE orphans' = Append(orphans, serving) /\ UNCHANGED gone
    <3>1. Lost(orphans) \cap N = {}
      BY Types DEF Shared
    <3>2. orphans' \in Seq(Handler) /\ Lost(orphans') = Lost(orphans) \cup N /\ Apart(orphans')
      BY <1>1, <2>2, <3>1, Types, AppendLost DEF Accounted
    <3>. QED  BY <2>0, <2>2, <3>2
  <2>. QED  BY <1>2, <2>1, <2>2
<1>6. TypeOK'
  <2>1. Handlers' \in PageState
    BY <1>2, <1>3, Types, PageTypes
  <2>2. pull' \in [running : BOOLEAN, hears : BOOLEAN]
    BY <1>1, <1>2 DEF Resent, TypeOK
  <2>. QED  BY <1>1, <1>2, <1>4, <1>5, <2>1, <2>2 DEF TypeOK
<1>7. Connects'
  BY <1>1, <1>2, <1>4 DEF Connects, Nothing, Serve
<1>8. Sendings(Handlers)'
  BY <1>2, SendingsSame
<1>9. Accounted'
  BY <1>1, <1>2, <1>4, <1>5, NumbersEmpty DEF Accounted, Increasing
<1>. QED  BY <1>6, <1>7, <1>8, <1>9 DEF Inv
-----------------------------------------------------------------------------
\* The events stay where they are.
LEMMA AccountedSame ==
  ASSUME Inv, UNCHANGED <<processed, gone, serving, events, held, orphans, arrived>>
  PROVE  Accounted'
BY DEF Inv, Accounted, Increasing

\* A line is typed.
LEMMA ProcessInputKeeps ==
  ASSUME Inv, ProcessInput
  PROVE  Inv'
<1>. DEFINE s == Send(Handlers)
<1>1. TypeOK /\ Connects /\ Sendings(Handlers)
  BY DEF Inv
<1>2. /\ Becomes(s)
      /\ UNCHANGED <<keeps, pull, connected, id, relay, held, events, serving, orphans, arrived,
                     delivered, broken, pushBroke>>
  BY DEF ProcessInput
<1>3. s \in PageState /\ Sendings(s) /\ s.processed = processed /\ s.gone = gone
  <2>1. Handlers.processed = processed /\ Handlers.gone = gone
    BY DEF Handlers
  <2>. QED  BY <1>1, <2>1, Types, SendKeeps
<1>. HIDE DEF s
<1>4. Handlers' \in PageState
  <2>1. /\ s.push \in Request /\ s.pushing \subseteq Nat /\ s.tabs \in Seq(Int)
        /\ s.names \in Nat /\ s.processed \in Seq(Nat) /\ s.gone \subseteq Nat
        /\ s.asked \in Nat /\ s.refused \subseteq Nat
    BY <1>3 DEF PageState
  <2>. QED  BY <1>2, <2>1, PageTypes DEF Becomes
<1>5. TypeOK' /\ Connects'
  BY <1>1, <1>2, <1>4 DEF TypeOK, Connects
<1>6. Sendings(Handlers)'
  BY <1>2, <1>3, SendingsBecome
<1>7. Accounted'
  BY <1>2, <1>3, AccountedSame DEF Becomes
<1>. QED  BY <1>5, <1>6, <1>7 DEF Inv

\* What Inv says of the pushes.
LEMMA PushFacts ==
  ASSUME Inv
  PROVE  /\ ToSet(delivered) \cup pushing \cup refused = 1..asked
         /\ ToSet(delivered) \cap (pushing \cup refused) = {} /\ pushing \cap refused = {}
         /\ IsInjective(delivered)
         /\ ~pushBroke =>
              /\ pushing \subseteq {push.n} /\ (pushing # {} => push.running)
              /\ \A d \in ToSet(delivered) : d <= push.n
              /\ Increasing(delivered)
BY DEF Inv, Sendings, Handlers

\* An answer of push: the page may send again.
LEMMA PushSuccessKeeps ==
  ASSUME Inv, PushSuccess
  PROVE  Inv'
<1>1. TypeOK /\ Connects
  BY DEF Inv
<1>2. /\ push.running /\ push.n \notin pushing
      /\ push' = [push EXCEPT !.running = FALSE]
      /\ UNCHANGED <<keeps, pull, connected, id, tabs, names, serverVars, historyVars>>
  BY DEF PushSuccess
<1>3. push' \in Request /\ push'.n = push.n
  <2>1. push \in Request
    BY Types
  <2>. QED  BY <1>2, <2>1 DEF Request
<1>4. TypeOK' /\ Connects'
  <2>1. Handlers' \in PageState
    BY <1>2, <1>3, Types, PageTypes DEF serverVars, historyVars
  <2>. QED  BY <1>1, <1>2, <2>1 DEF TypeOK, Connects, serverVars, historyVars
<1>5. Sendings(Handlers)'
  <2>1. ~pushBroke => pushing = {}
    BY <1>2, PushFacts
  <2>2. UNCHANGED <<pushing, asked, refused, delivered, pushBroke>>
    BY <1>2 DEF serverVars, historyVars
  <2>. QED  BY <1>3, <2>1, <2>2, PushFacts DEF Sendings, Handlers, Increasing
<1>6. Accounted'
  BY <1>2, AccountedSame DEF serverVars, historyVars
<1>. QED  BY <1>4, <1>5, <1>6 DEF Inv

\* A push breaks, whether or not the controller has got it.
LEMMA PushFailureKeeps ==
  ASSUME Inv, PushFailure
  PROVE  Inv'
<1>1. TypeOK /\ Connects
  BY DEF Inv
<1>2. /\ push' = [push EXCEPT !.running = FALSE] /\ pushBroke' = TRUE
      /\ \/ UNCHANGED <<pushing, refused>>
         \/ /\ push.n \in pushing
            /\ pushing' = pushing \ {push.n}
            /\ refused' = refused \cup {push.n}
      /\ UNCHANGED <<keeps, pull, connected, id, tabs, names, relay, held, events, serving,
                     orphans, arrived, processed, gone, asked, delivered>>
  BY DEF PushFailure
<1>3. push' \in Request
  <2>1. push \in Request
    BY Types
  <2>. QED  BY <1>2, <2>1 DEF Request
<1>4. TypeOK' /\ Connects'
  <2>1. pushing' \subseteq Nat /\ refused' \subseteq Nat
    BY <1>2, Types
  <2>2. Handlers' \in PageState
    BY <1>2, <1>3, <2>1, Types, PageTypes
  <2>. QED  BY <1>1, <1>2, <2>2 DEF TypeOK, Connects
<1>5. Sendings(Handlers)'
  <2>1. /\ ToSet(delivered) \cup pushing' \cup refused' = 1..asked
        /\ ToSet(delivered) \cap (pushing' \cup refused') = {} /\ pushing' \cap refused' = {}
        /\ IsInjective(delivered)
    BY <1>2, PushFacts
  <2>. QED  BY <1>2, <2>1 DEF Sendings, Handlers
<1>6. Accounted'
  BY <1>2, AccountedSame
<1>. QED  BY <1>4, <1>5, <1>6 DEF Inv

\* The controller writes a push to the IRC server, or fails.
LEMMA PushHandledKeeps ==
  ASSUME Inv, PushHandled
  PROVE  Inv'
<1>1. TypeOK /\ Connects
  BY DEF Inv
<1>2. PICK n \in pushing :
        /\ pushing' = pushing \ {n}
        /\ \/ delivered' = Append(delivered, n) /\ UNCHANGED refused
           \/ refused' = refused \cup {n} /\ UNCHANGED delivered
        /\ UNCHANGED <<pageVars, relay, held, events, serving, orphans, arrived, processed, gone,
                       asked, broken, pushBroke>>
  BY DEF PushHandled
<1>3. /\ n \in Nat /\ pushing' \subseteq Nat /\ refused' \subseteq Nat
      /\ delivered \in Seq(Nat)
  BY <1>2, Types
<1>4. n \notin ToSet(delivered) /\ n \notin refused
  BY PushFacts
<1>5. \/ /\ delivered' = Append(delivered, n) /\ delivered' \in Seq(Nat)
         /\ ToSet(delivered') = ToSet(delivered) \cup {n} /\ UNCHANGED refused
         /\ IsInjective(delivered')
      \/ delivered' = delivered /\ refused' = refused \cup {n} /\ IsInjective(delivered')
  <2>1. CASE delivered' = Append(delivered, n) /\ UNCHANGED refused
    BY <1>3, <1>4, <2>1, PushFacts, AppendIncreasing
  <2>2. CASE refused' = refused \cup {n} /\ UNCHANGED delivered
    BY <2>2, PushFacts
  <2>. QED  BY <1>2, <2>1, <2>2
<1>6. TypeOK' /\ Connects'
  <2>1. Handlers' \in PageState
    BY <1>2, <1>3, Types, PageTypes DEF pageVars
  <2>2. delivered' \in Seq(Nat)
    BY <1>3, <1>5
  <2>. QED  BY <1>1, <1>2, <2>1, <2>2 DEF TypeOK, Connects, pageVars
<1>7. Sendings(Handlers)'
  <2>1. /\ ToSet(delivered') \cup pushing' \cup refused' = 1..asked
        /\ ToSet(delivered') \cap (pushing' \cup refused') = {} /\ pushing' \cap refused' = {}
    BY <1>2, <1>4, <1>5, PushFacts
  <2>2. ASSUME ~pushBroke
        PROVE  /\ pushing' \subseteq {push.n} /\ (pushing' # {} => push.running)
               /\ \A d \in ToSet(delivered') : d <= push.n
               /\ Increasing(delivered')
    <3>1. /\ pushing \subseteq {push.n} /\ (pushing # {} => push.running)
          /\ \A d \in ToSet(delivered) : d <= push.n
          /\ Increasing(delivered) /\ n = push.n
      BY <2>2, PushFacts
    <3>2. /\ pushing' \subseteq {push.n} /\ (pushing' # {} => push.running)
          /\ \A d \in ToSet(delivered') : d <= push.n
      BY <1>2, <1>3, <1>5, <3>1
    <3>3. \A d \in ToSet(delivered) : d \in Nat /\ d < n
      <4>1. \A d \in ToSet(delivered) : d \in Nat /\ d <= n /\ d # n
        BY <1>4, <3>1, PushFacts, Types
      <4>. QED  BY <1>3, <4>1
    <3>4. Increasing(delivered')
      BY <1>3, <1>5, <3>1, <3>3, AppendIncreasing
    <3>. QED  BY <3>2, <3>4
  <2>3. IsInjective(delivered')
    BY <1>5
  <2>4. UNCHANGED <<push, asked, pushBroke>>
    BY <1>2 DEF pageVars
  <2>. QED  BY <2>1, <2>2, <2>3, <2>4 DEF Sendings, Handlers
<1>8. Accounted'
  BY <1>2, AccountedSame
<1>. QED  BY <1>6, <1>7, <1>8 DEF Inv
-----------------------------------------------------------------------------
\* What a handler of the controller is after a step, and what is left in the queue.
LEMMA HandledFacts ==
  ASSUME NEW h \in Handler, events \in Seq(Event), InOrder(events)
  PROVE  /\ Handled(h) \in Handler
         /\ h.does \notin {"drain", "wait"} => Handled(h).list = h.list /\ ~Takes(h)
         /\ ~Takes(h) => Handled(h).list = h.list
         /\ Takes(h) => /\ events # <<>> /\ Head(events) \in Event /\ Tail(events) \in Seq(Event)
                        /\ InOrder(Tail(events))
                        /\ Handled(h).list = Append(h.list, Head(events))
                        /\ Numbers(Handled(h).list) = Numbers(h.list) \cup {Head(events).n}
                        /\ Numbers(events) = {Head(events).n} \cup Numbers(Tail(events))
                        /\ \A k \in Numbers(Tail(events)) : Head(events).n < k
<1>1. h.list \in Seq(Event) /\ h.does \in {"nothing", "connect", "drain", "wait", "answer"}
  BY DEF Handler
<1>2. ASSUME Takes(h)
      PROVE  /\ events # <<>> /\ Head(events) \in Event /\ Tail(events) \in Seq(Event)
             /\ InOrder(Tail(events))
             /\ Handled(h).list = Append(h.list, Head(events))
             /\ Numbers(Handled(h).list) = Numbers(h.list) \cup {Head(events).n}
             /\ Numbers(events) = {Head(events).n} \cup Numbers(Tail(events))
             /\ \A k \in Numbers(Tail(events)) : Head(events).n < k
             /\ Handled(h) \in Handler
  <2>1. events # <<>>
    BY <1>2 DEF Takes
  <2>2. /\ Head(events) \in Event /\ Tail(events) \in Seq(Event)
        /\ Numbers(events) = {Head(events).n} \cup Numbers(Tail(events))
        /\ InOrder(Tail(events)) /\ \A k \in Numbers(Tail(events)) : Head(events).n < k
    BY <2>1, TailNumbers
  <2>3. /\ Append(h.list, Head(events)) \in Seq(Event)
        /\ Numbers(Append(h.list, Head(events))) = Numbers(h.list) \cup {Head(events).n}
    BY <1>1, <2>2, AppendNumbers
  <2>4. Handled(h) = [does |-> IF h.does = "drain" THEN "drain" ELSE "answer",
                      list |-> Append(h.list, Head(events))]
    BY <1>2 DEF Handled, Collected
  <2>5. Handled(h) \in Handler /\ Handled(h).list = Append(h.list, Head(events))
    BY <2>3, <2>4 DEF Handler
  <2>. QED  BY <2>1, <2>2, <2>3, <2>5
<1>3. ASSUME ~Takes(h)
      PROVE  Handled(h).list = h.list /\ Handled(h) \in Handler
  <2>. DEFINE d == IF h.does = "drain" /\ h.list = <<>> THEN "wait" ELSE "answer"
  <2>1. Handled(h) = [h EXCEPT !.does = d] /\ d \in {"wait", "answer"}
    BY <1>3 DEF Handled
  <2>. HIDE DEF d
  <2>. QED  BY <2>1 DEF Handler
<1>4. h.does \notin {"drain", "wait"} => ~Takes(h)
  BY DEF Takes
<1>. QED  BY <1>2, <1>3, <1>4

\* The handler the page waits for goes on: its events follow those of before.
LEMMA ServingStepKeeps ==
  ASSUME Inv, ServingStep
  PROVE  Inv'
<1>1. TypeOK /\ Connects /\ Accounted
  BY DEF Inv
<1>2. /\ Works(serving) /\ serving' = Handled(serving)
      /\ events' = IF Takes(serving) THEN Tail(events) ELSE events
      /\ UNCHANGED <<pageVars, held, pushing, arrived, processed, asked, delivered, refused,
                     broken, pushBroke, orphans, gone>>
  BY DEF ServingStep, HandlerStep
<1>3. InOrder(events) /\ InOrder(serving.list) /\ Increasing(processed) /\ Apart(orphans)
  BY <1>1 DEF Accounted
<1>4. /\ serving \in Handler /\ serving.list \in Seq(Event) /\ events \in Seq(Event)
      /\ arrived \in Nat
      /\ Shared(ToSet(processed), gone, Numbers(serving.list), Numbers(events),
                Numbers(held), Lost(orphans), arrived)
  BY Types
<1>5. /\ events' \in Seq(Event) /\ serving' \in Handler /\ InOrder(events')
      /\ InOrder(serving'.list)
      /\ Shared(ToSet(processed), gone, Numbers(serving'.list), Numbers(events'),
                Numbers(held), Lost(orphans), arrived)
  <2>1. CASE ~Takes(serving)
    BY <1>2, <1>3, <1>4, <2>1, HandledFacts
  <2>2. CASE Takes(serving)
    <3>. DEFINE k == Head(events).n
    <3>1. /\ Head(events) \in Event /\ Tail(events) \in Seq(Event)
          /\ InOrder(Tail(events)) /\ Handled(serving) \in Handler
          /\ Handled(serving).list = Append(serving.list, Head(events))
          /\ Numbers(Handled(serving).list) = Numbers(serving.list) \cup {k}
          /\ Numbers(events) = {k} \cup Numbers(Tail(events))
          /\ \A x \in Numbers(Tail(events)) : k < x
      BY <1>3, <1>4, <2>2, HandledFacts
    <3>2. Shared(ToSet(processed), gone, Numbers(serving.list) \cup {k}, Numbers(Tail(events)),
                 Numbers(held), Lost(orphans), arrived)
      <4>. DEFINE R == Numbers(Tail(events))
      <4>1. Numbers(events) = {k} \cup R /\ Below({k}, R)
        BY <3>1 DEF Below
      <4>. HIDE DEF k, R
      <4>2. Shared(ToSet(processed), gone, Numbers(serving.list) \cup {k}, R,
                   Numbers(held), Lost(orphans), arrived)
        <5>1. /\ Shared(ToSet(processed), gone, Numbers(serving.list), {k} \cup R,
                        Numbers(held), Lost(orphans), arrived)
              /\ arrived \in Nat /\ Below({k}, R)
          BY <1>4, <4>1
        <5>. QED  BY <5>1, EventTaken
      <4>. QED  BY <4>2 DEF R
    <3>3. \A x \in Numbers(serving.list) : x < k
      BY <1>4, <3>1, SharedFacts DEF Below
    <3>4. InOrder(Append(serving.list, Head(events)))
      BY <1>3, <1>4, <3>1, <3>3, AppendNumbers
    <3>. QED  BY <1>2, <2>2, <3>1, <3>2, <3>4
  <2>. QED  BY <2>1, <2>2
<1>6. TypeOK'
  <2>1. Handlers' \in PageState
    BY <1>2, Types, PageTypes DEF pageVars
  <2>. QED  BY <1>1, <1>2, <1>5, <2>1 DEF TypeOK, pageVars
<1>7. Connects'
  <2>1. id' = id /\ connected' = connected
    BY <1>2 DEF pageVars
  <2>2. ASSUME ~id
        PROVE  serving'.list = <<>> /\ serving'.does \notin {"drain", "wait"}
    <3>1. serving.list = <<>> /\ serving.does \notin {"drain", "wait"}
      BY <1>1, <2>2 DEF Connects
    <3>2. Handled(serving) = [serving EXCEPT !.does = "answer"]
      BY <3>1 DEF Handled, Takes
    <3>. QED  BY <1>2, <1>4, <3>1, <3>2 DEF Handler
  <2>. QED  BY <1>1, <2>1, <2>2 DEF Connects
<1>8. Sendings(Handlers)'
  BY <1>2, SendingsSame DEF pageVars
<1>9. Accounted'
  BY <1>2, <1>3, <1>5 DEF Accounted, Increasing
<1>. QED  BY <1>6, <1>7, <1>8, <1>9 DEF Inv

\* The handler of a broken pull goes on; when it answers, what it took is lost.
LEMMA OrphanStepKeeps ==
  ASSUME Inv, OrphanStep
  PROVE  Inv'
<1>1. TypeOK /\ Connects /\ Accounted
  BY DEF Inv
<1>2. PICK i \in DOMAIN orphans :
        /\ HandlerStep(orphans[i])
        /\ orphans' = IF Handled(orphans[i]).does = "answer" THEN RemoveAt(orphans, i)
                      ELSE [orphans EXCEPT ![i] = Handled(orphans[i])]
        /\ gone' = IF Handled(orphans[i]).does = "answer"
                   THEN gone \cup Numbers(Handled(orphans[i]).list) ELSE gone
        /\ UNCHANGED serving
  BY DEF OrphanStep
<1>. DEFINE h == orphans[i]
            r == Handled(h)
<1>3. /\ events' = IF Takes(h) THEN Tail(events) ELSE events
      /\ UNCHANGED <<pageVars, held, pushing, arrived, processed, asked, delivered, refused,
                     broken, pushBroke>>
  BY <1>2 DEF HandlerStep
<1>4. InOrder(events) /\ InOrder(serving.list) /\ Increasing(processed) /\ Apart(orphans)
  BY <1>1 DEF Accounted
<1>5. /\ h \in Handler /\ h.list \in Seq(Event) /\ events \in Seq(Event) /\ arrived \in Nat
      /\ orphans \in Seq(Handler)
      /\ Shared(ToSet(processed), gone, Numbers(serving.list), Numbers(events),
                Numbers(held), Lost(orphans), arrived)
  BY Types DEF Handler
<1>. DEFINE K == IF Takes(h) THEN {Head(events).n} ELSE {}
            next == [orphans EXCEPT ![i] = r]
<1>6. /\ r \in Handler /\ r.list \in Seq(Event) /\ Numbers(r.list) = Numbers(h.list) \cup K
      /\ events' \in Seq(Event) /\ InOrder(events')
      /\ Lost(orphans) \cap K = {}
      /\ Shared(ToSet(processed), gone, Numbers(serving.list), Numbers(events'),
                Numbers(held), Lost(orphans) \cup K, arrived)
  <2>1. r \in Handler /\ r.list \in Seq(Event)
    <3>1. r \in Handler
      BY <1>4, <1>5, HandledFacts
    <3>. QED  BY <3>1 DEF Handler
  <2>2. CASE ~Takes(h)
    <3>1. r.list = h.list
      BY <1>4, <1>5, <2>2, HandledFacts
    <3>2. K = {} /\ events' = events /\ Lost(orphans) \cup K = Lost(orphans)
      BY <1>3, <2>2
    <3>. HIDE DEF K, r, h
    <3>. QED  BY <1>4, <1>5, <2>1, <3>1, <3>2
  <2>3. CASE Takes(h)
    <3>. DEFINE k == Head(events).n
    <3>1. /\ Head(events) \in Event /\ Tail(events) \in Seq(Event)
          /\ InOrder(Tail(events))
          /\ Numbers(r.list) = Numbers(h.list) \cup {k}
          /\ Numbers(events) = {k} \cup Numbers(Tail(events))
          /\ \A x \in Numbers(Tail(events)) : k < x
      BY <1>4, <1>5, <2>3, HandledFacts
    <3>2. /\ Shared(ToSet(processed), gone, Numbers(serving.list), Numbers(Tail(events)),
                    Numbers(held), Lost(orphans) \cup {k}, arrived)
          /\ k \notin Lost(orphans)
      <4>. DEFINE R == Numbers(Tail(events))
      <4>1. Numbers(events) = {k} \cup R /\ Below({k}, R)
        BY <3>1 DEF Below
      <4>. HIDE DEF k, R
      <4>2. /\ Shared(ToSet(processed), gone, Numbers(serving.list), R,
                      Numbers(held), Lost(orphans) \cup {k}, arrived)
            /\ k \notin Lost(orphans)
        <5>1. /\ Shared(ToSet(processed), gone, Numbers(serving.list), {k} \cup R,
                        Numbers(held), Lost(orphans), arrived)
              /\ arrived \in Nat /\ Below({k}, R)
          BY <1>5, <4>1
        <5>. QED  BY <5>1, EventTaken
      <4>. QED  BY <4>2 DEF R
    <3>3. K = {k} /\ events' = Tail(events)
      BY <1>3, <2>3
    <3>. HIDE DEF K, r, h, k
    <3>. QED  BY <2>1, <3>1, <3>2, <3>3
  <2>. QED  BY <2>2, <2>3
<1>. HIDE DEF r, K, h
<1>7. /\ next \in Seq(Handler) /\ Lost(next) = Lost(orphans) \cup K /\ Apart(next)
      /\ next[i] = r /\ i \in DOMAIN next
  <2>1. next[i] = r /\ i \in DOMAIN next
    BY <1>5
  <2>2. Numbers(r.list) = Numbers(orphans[i].list) \cup K /\ Lost(orphans) \cap K = {}
    BY <1>6 DEF h
  <2>3. next \in Seq(Handler) /\ Lost(next) = Lost(orphans) \cup K /\ Apart(next)
    <3>1. orphans \in Seq(Handler) /\ r \in Handler /\ Apart(orphans)
      BY <1>4, <1>5, <1>6
    <3>. QED  BY <2>2, <3>1, ReplaceLost
  <2>. QED  BY <2>1, <2>3
<1>8. /\ orphans' \in Seq(Handler) /\ Apart(orphans') /\ gone' \subseteq Nat
      /\ Shared(ToSet(processed), gone', Numbers(serving.list), Numbers(events'),
                Numbers(held), Lost(orphans'), arrived)
  <2>1. CASE r.does # "answer"
    <3>1. orphans' = next /\ gone' = gone
      BY <1>2, <2>1 DEF r, h
    <3>. HIDE DEF next
    <3>. QED  BY <1>6, <1>7, <3>1, Types
  <2>2. CASE r.does = "answer"
    <3>1. orphans' = RemoveAt(orphans, i) /\ gone' = gone \cup Numbers(r.list)
      BY <1>2, <2>2 DEF r, h
    <3>2. RemoveAt(next, i) = RemoveAt(orphans, i)
      <4>. DEFINE a == RemoveAt(next, i)
                  b == RemoveAt(orphans, i)
      <4>1. Len(next) = Len(orphans) /\ DOMAIN next = DOMAIN orphans
        BY <1>5
      <4>2. /\ a \in Seq(Handler) /\ DOMAIN a = 1 .. Len(orphans) - 1
            /\ \A j \in 1 .. Len(orphans) - 1 : a[j] = next[IF j < i THEN j ELSE j + 1]
        BY <1>7, <4>1, RemoveAtIndices, RemoveAtType
      <4>3. /\ b \in Seq(Handler) /\ DOMAIN b = 1 .. Len(orphans) - 1
            /\ \A j \in 1 .. Len(orphans) - 1 : b[j] = orphans[IF j < i THEN j ELSE j + 1]
        BY <1>5, RemoveAtIndices, RemoveAtType
      <4>4. ASSUME NEW j \in 1 .. Len(orphans) - 1
            PROVE  a[j] = b[j]
        <5>1. (IF j < i THEN j ELSE j + 1) \in DOMAIN orphans /\ (IF j < i THEN j ELSE j + 1) # i
          BY <1>5
        <5>2. next[IF j < i THEN j ELSE j + 1] = orphans[IF j < i THEN j ELSE j + 1]
          BY <5>1
        <5>. QED  BY <4>2, <4>3, <5>2
      <4>. HIDE DEF a, b
      <4>5. a = b
        BY <4>2, <4>3, <4>4
      <4>. QED  BY <4>5 DEF a, b
    <3>3. /\ orphans' \in Seq(Handler) /\ Apart(orphans')
          /\ Lost(orphans) \cup K = Lost(orphans') \cup Numbers(r.list)
          /\ Lost(orphans') \cap Numbers(r.list) = {}
      <4>. HIDE DEF next
      <4>. QED  BY <1>7, <3>1, <3>2, RemoveLost
    <3>4. Shared(ToSet(processed), gone \cup Numbers(r.list), Numbers(serving.list),
                 Numbers(events'), Numbers(held), Lost(orphans'), arrived)
      BY <1>5, <1>6, <3>3, OrphanEnded
    <3>5. gone' \subseteq Nat
      BY <1>6, <3>1, NumbersOf, Types
    <3>. QED  BY <3>1, <3>3, <3>4, <3>5
  <2>. QED  BY <2>1, <2>2
<1>9. TypeOK'
  <2>1. Handlers' \in PageState
    BY <1>3, <1>8, Types, PageTypes DEF pageVars
  <2>. QED  BY <1>1, <1>2, <1>3, <1>6, <1>8, <2>1 DEF TypeOK, pageVars
<1>10. Connects'
  BY <1>1, <1>2, <1>3 DEF Connects, pageVars
<1>11. Sendings(Handlers)'
  BY <1>3, SendingsSame DEF pageVars
<1>12. Accounted'
  BY <1>2, <1>3, <1>4, <1>6, <1>8 DEF Accounted, Increasing
<1>. QED  BY <1>9, <1>10, <1>11, <1>12 DEF Inv
-----------------------------------------------------------------------------
\* What the coroutine of the controller does to the queue keeps Inv.
LEMMA RelayKeeps ==
  ASSUME Inv, RelayStep, events' \in Seq(Event), held' \in Seq(Event), Len(held') <= 1,
         gone' \subseteq Nat, arrived' \in Nat, InOrder(events'),
         Shared(ToSet(processed), gone', Numbers(serving.list), Numbers(events'),
                Numbers(held'), Lost(orphans), arrived')
  PROVE  Inv'
<1>1. TypeOK /\ Connects /\ Accounted
  BY DEF Inv
<1>2. UNCHANGED <<pageVars, serving, orphans, pushing, processed, asked, delivered, refused,
                  broken, pushBroke>>
  BY DEF RelayStep
<1>3. TypeOK' /\ Connects'
  <2>1. Handlers' \in PageState
    BY <1>2, Types, PageTypes DEF pageVars
  <2>. QED  BY <1>1, <1>2, <2>1 DEF TypeOK, Connects, pageVars
<1>4. Sendings(Handlers)'
  BY <1>2, SendingsSame DEF pageVars
<1>5. Accounted'
  BY <1>1, <1>2 DEF Accounted, Increasing
<1>. QED  BY <1>3, <1>4, <1>5 DEF Inv

\* An event is put: into the queue when there is room, or it is held back.
LEMMA PutFacts ==
  ASSUME NEW P, NEW G, NEW S, NEW L, NEW c, Put(c),
         c \in AllCommands \cup {"CONNECTING", "CONNECTED", "CONNECT_TIMEOUT", "ERROR"},
         events \in Seq(Event), InOrder(events), arrived \in Nat,
         Shared(P, G, S, Numbers(events), {}, L, arrived)
  PROVE  /\ events' \in Seq(Event) /\ held' \in Seq(Event) /\ Len(held') <= 1
         /\ arrived' \in Nat /\ InOrder(events')
         /\ Shared(P, G, S, Numbers(events'), Numbers(held'), L, arrived')
<1>. DEFINE e == [n |-> arrived + 1, command |-> c]
<1>1. /\ arrived' = arrived + 1
      /\ \/ events' = Append(events, e) /\ held' = <<>>
         \/ held' = <<e>> /\ events' = events
  BY DEF Put
<1>2. e \in Event /\ e.n = arrived + 1
  BY DEF Event
<1>. HIDE DEF e
<1>3. /\ Shared(P, G, S, Numbers(events) \cup {e.n}, {}, L, arrived')
      /\ Shared(P, G, S, Numbers(events), {e.n}, L, arrived')
  BY <1>1, <1>2, EventArrived
<1>4. CASE events' = Append(events, e) /\ held' = <<>>
  <2>1. \A k \in Numbers(events) : k < e.n
    <3>1. \A k \in Numbers(events) : k \in Nat /\ k <= arrived
      BY SharedFacts
    <3>. QED  BY <1>2, <3>1
  <2>2. /\ events' \in Seq(Event) /\ InOrder(events')
        /\ Numbers(events') = Numbers(events) \cup {e.n}
    BY <1>2, <1>4, <2>1, AppendNumbers
  <2>3. held' \in Seq(Event) /\ Len(held') <= 1 /\ Numbers(held') = {}
    BY <1>4, NumbersEmpty
  <2>. QED  BY <1>1, <1>3, <2>2, <2>3
<1>5. CASE held' = <<e>> /\ events' = events
  <2>1. held' \in Seq(Event) /\ Len(held') <= 1 /\ Numbers(held') = {e.n}
    BY <1>2, <1>5, NumbersOne
  <2>2. Numbers(events') = Numbers(events) /\ InOrder(events') /\ events' \in Seq(Event)
    BY <1>5
  <2>3. Shared(P, G, S, Numbers(events'), Numbers(held'), L, arrived')
    BY <1>3, <2>1, <2>2
  <2>. QED  BY <1>1, <2>1, <2>2, <2>3
<1>. QED  BY <1>1, <1>4, <1>5

\* The coroutine puts an event when it holds none back.
LEMMA PutKeeps ==
  ASSUME Inv, RelayStep, UNCHANGED gone, held = <<>>, NEW c, Put(c),
         c \in AllCommands \cup {"CONNECTING", "CONNECTED", "CONNECT_TIMEOUT", "ERROR"}
  PROVE  Inv'
<1>1. InOrder(events)
  BY DEF Inv, Accounted
<1>2. /\ events \in Seq(Event) /\ arrived \in Nat /\ gone \subseteq Nat
      /\ Shared(ToSet(processed), gone, Numbers(serving.list), Numbers(events), {},
                Lost(orphans), arrived)
  BY Types, NumbersEmpty
<1>3. /\ events' \in Seq(Event) /\ held' \in Seq(Event) /\ Len(held') <= 1
      /\ arrived' \in Nat /\ InOrder(events')
      /\ Shared(ToSet(processed), gone, Numbers(serving.list), Numbers(events'), Numbers(held'),
                Lost(orphans), arrived')
  BY <1>1, <1>2, PutFacts
<1>. QED  BY <1>2, <1>3, RelayKeeps

\* At most one event is held back.
LEMMA HeldIsOne ==
  ASSUME NEW E, NEW q \in Seq(E), NEW h \in Seq(E), Len(h) <= 1, h # <<>>
  PROVE  h[1] \in E /\ h = <<h[1]>> /\ q \o h = Append(q, h[1])
<1>1. Len(h) = 1 /\ h[1] \in E
  <2>1. Len(h) \in Nat /\ Len(h) # 0
    BY EmptySeq
  <2>2. \A k \in Nat : k <= 1 /\ k # 0 => k = 1
    OBVIOUS
  <2>3. Len(h) = 1
    BY <2>1, <2>2
  <2>. QED  BY <2>3
<1>2. h = <<h[1]>>
  BY <1>1
<1>3. q \o <<h[1]>> = Append(q, h[1])
  BY <1>1
<1>. QED  BY <1>1, <1>2, <1>3

\* The queue has room again.
LEMMA AdmittedKeeps ==
  ASSUME Inv, Admitted
  PROVE  Inv'
<1>1. /\ held # <<>> /\ events' = events \o held /\ held' = <<>> /\ RelayStep
      /\ UNCHANGED <<arrived, gone>>
  BY DEF Admitted
<1>2. InOrder(events)
  BY DEF Inv, Accounted
<1>3. /\ events \in Seq(Event) /\ arrived \in Nat /\ gone \subseteq Nat
      /\ held \in Seq(Event) /\ Len(held) <= 1
      /\ Shared(ToSet(processed), gone, Numbers(serving.list), Numbers(events), Numbers(held),
                Lost(orphans), arrived)
  BY Types
<1>. DEFINE e == held[1]
<1>4. e \in Event /\ held = <<e>> /\ events' = Append(events, e)
  BY <1>1, <1>3, HeldIsOne
<1>5. Numbers(held) = {e.n}
  BY <1>4, NumbersOne
<1>. HIDE DEF e
<1>6. \A k \in Numbers(events) : k < e.n
  BY <1>3, <1>5, SharedFacts DEF Below
<1>7. /\ events' \in Seq(Event) /\ InOrder(events')
      /\ Numbers(events') = Numbers(events) \cup Numbers(held)
  BY <1>2, <1>3, <1>4, <1>5, <1>6, AppendNumbers
<1>8. held' \in Seq(Event) /\ Len(held') <= 1 /\ Numbers(held') = {}
  BY <1>1, NumbersEmpty
<1>9. Shared(ToSet(processed), gone, Numbers(serving.list), Numbers(events'), Numbers(held'),
             Lost(orphans), arrived)
  <2>1. Shared(ToSet(processed), gone, Numbers(serving.list), Numbers(events) \cup Numbers(held),
               {}, Lost(orphans), arrived)
    BY <1>3, HeldMoved
  <2>. QED  BY <1>7, <1>8, <2>1
<1>. QED  BY <1>1, <1>3, <1>7, <1>8, <1>9, RelayKeeps

\* The put times out: its event is lost, and the coroutine may report that.
LEMMA PutTimeoutKeeps ==
  ASSUME Inv, PutTimeout
  PROVE  Inv'
<1>1. /\ gone' = gone \cup Numbers(held) /\ RelayStep
      /\ \/ \E c \in {"CONNECT_TIMEOUT", "ERROR"} : Put(c)
         \/ held' = <<>> /\ UNCHANGED <<arrived, events>>
  BY DEF PutTimeout
<1>2. InOrder(events)
  BY DEF Inv, Accounted
<1>3. /\ events \in Seq(Event) /\ arrived \in Nat /\ gone \subseteq Nat /\ held \in Seq(Event)
      /\ Shared(ToSet(processed), gone, Numbers(serving.list), Numbers(events), Numbers(held),
                Lost(orphans), arrived)
  BY Types
<1>4. Shared(ToSet(processed), gone', Numbers(serving.list), Numbers(events), {},
             Lost(orphans), arrived)
  BY <1>1, <1>3, HeldMoved
<1>5. gone' \subseteq Nat
  BY <1>1, <1>3, NumbersOf
<1>6. CASE \E c \in {"CONNECT_TIMEOUT", "ERROR"} : Put(c)
  <2>1. PICK c \in {"CONNECT_TIMEOUT", "ERROR"} : Put(c)
    BY <1>6
  <2>2. /\ events' \in Seq(Event) /\ held' \in Seq(Event) /\ Len(held') <= 1
        /\ arrived' \in Nat /\ InOrder(events')
        /\ Shared(ToSet(processed), gone', Numbers(serving.list), Numbers(events'),
                  Numbers(held'), Lost(orphans), arrived')
    BY <1>2, <1>3, <1>4, <2>1, PutFacts
  <2>. QED  BY <1>1, <1>5, <2>2, RelayKeeps
<1>7. CASE held' = <<>> /\ UNCHANGED <<arrived, events>>
  <2>1. held' \in Seq(Event) /\ Len(held') <= 1 /\ Numbers(held') = {}
    BY <1>7, NumbersEmpty
  <2>. QED  BY <1>1, <1>2, <1>3, <1>4, <1>5, <1>7, <2>1, RelayKeeps
<1>. QED  BY <1>1, <1>6, <1>7

\* The steps of the coroutine while it holds no event back.
LEMMA RelayStepsKeep ==
  ASSUME Inv, \/ Connecting \/ Connected \/ ConnectTimeout \/ ConnectError \/ ReadLine \/ ReadError
  PROVE  Inv'
<1>. DEFINE Drawn == AllCommands \cup {"CONNECTING", "CONNECTED", "CONNECT_TIMEOUT", "ERROR"}
<1>1. /\ held = <<>> /\ RelayStep /\ UNCHANGED gone
      /\ \/ \E c \in Drawn : Put(c)
         \/ UNCHANGED <<arrived, events, held>>
  <2>1. CASE Connecting
    BY <2>1 DEF Connecting
  <2>2. CASE Connected
    BY <2>2 DEF Connected
  <2>3. CASE ConnectTimeout
    BY <2>3 DEF ConnectTimeout
  <2>4. CASE ConnectError
    BY <2>4 DEF ConnectError
  <2>5. CASE ReadLine
    BY <2>5, ClientAssumption DEF ReadLine
  <2>6. CASE ReadError
    BY <2>6 DEF ReadError
  <2>. QED  BY <2>1, <2>2, <2>3, <2>4, <2>5, <2>6
<1>2. CASE \E c \in Drawn : Put(c)
  BY <1>1, <1>2, PutKeeps
<1>3. CASE UNCHANGED <<arrived, events, held>>
  <2>1. InOrder(events)
    BY DEF Inv, Accounted
  <2>. QED  BY <1>1, <1>3, <2>1, Types, RelayKeeps
<1>. QED  BY <1>1, <1>2, <1>3
-----------------------------------------------------------------------------
LEMMA InvNext == Inv /\ [Next]_vars => Inv'
<1>. SUFFICES ASSUME Inv, [Next]_vars PROVE Inv'
  OBVIOUS
<1>1. CASE PullSuccess
  BY <1>1, PullSuccessKeeps
<1>2. CASE PullUnheard
  BY <1>2, PullUnheardKeeps
<1>3. CASE PullFailure
  BY <1>3, PullFailureKeeps
<1>4. CASE ProcessInput
  BY <1>4, ProcessInputKeeps
<1>5. CASE PushSuccess
  BY <1>5, PushSuccessKeeps
<1>6. CASE PushFailure
  BY <1>6, PushFailureKeeps
<1>7. CASE ServingStep
  BY <1>7, ServingStepKeeps
<1>8. CASE OrphanStep
  BY <1>8, OrphanStepKeeps
<1>9. CASE PushHandled
  BY <1>9, PushHandledKeeps
<1>10. CASE Admitted
  BY <1>10, AdmittedKeeps
<1>11. CASE PutTimeout
  BY <1>11, PutTimeoutKeeps
<1>12. CASE \/ Connecting \/ Connected \/ ConnectTimeout \/ ConnectError \/ ReadLine \/ ReadError
  BY <1>12, RelayStepsKeep
<1>13. CASE UNCHANGED vars
  <2>1. RelayStep /\ UNCHANGED <<events, held, gone, arrived>>
    BY <1>13 DEF vars, pageVars, serverVars, historyVars, RelayStep
  <2>2. InOrder(events)
    BY DEF Inv, Accounted
  <2>. QED  BY <2>1, <2>2, Types, RelayKeeps
<1>. QED  BY <1>1, <1>2, <1>3, <1>4, <1>5, <1>6, <1>7, <1>8, <1>9, <1>10, <1>11, <1>12, <1>13
          DEF Next

LEMMA InvCorrect == Spec => []Inv
BY InvInit, InvNext, PTL DEF Spec
-----------------------------------------------------------------------------
(***************************************************************************)
(* The theorems.                                                           *)
(***************************************************************************)
\* The order of the queue and of the event held back behind it.
LEMMA QueueInOrder ==
  ASSUME Inv
  PROVE  Increasing([i \in DOMAIN (events \o held) |-> (events \o held)[i].n])
<1>. DEFINE w == events \o held
<1>1. InOrder(events)
  BY DEF Inv, Accounted
<1>2. /\ events \in Seq(Event) /\ held \in Seq(Event) /\ Len(held) <= 1 /\ arrived \in Nat
      /\ Shared(ToSet(processed), gone, Numbers(serving.list), Numbers(events), Numbers(held),
                Lost(orphans), arrived)
  BY Types
<1>3. InOrder(w)
  <2>1. CASE held = <<>>
    <3>1. w = events
      BY <1>2, <2>1
    <3>. QED  BY <1>1, <3>1
  <2>2. CASE held # <<>>
    <3>. DEFINE e == held[1]
    <3>1. e \in Event /\ held = <<e>> /\ w = Append(events, e)
      BY <1>2, <2>2, HeldIsOne
    <3>4. Numbers(held) = {e.n}
      BY <3>1, NumbersOne
    <3>. HIDE DEF e, w
    <3>5. \A k \in Numbers(events) : k < e.n
      BY <1>2, <3>4, SharedFacts DEF Below
    <3>. QED  BY <1>1, <1>2, <3>1, <3>5, AppendNumbers
  <2>. QED  BY <2>1, <2>2
<1>. HIDE DEF w
<1>4. Increasing([i \in DOMAIN w |-> w[i].n])
  BY <1>3 DEF InOrder, Increasing
<1>. QED  BY <1>4 DEF w

\* The lists of the handlers, the one the page waits for first.
LEMMA ListsAre ==
  ASSUME Inv
  PROVE  /\ Lists \in Seq(Seq(Event)) /\ Len(Lists) = Len(orphans) + 1
         /\ Lists[1] = serving.list
         /\ \A i \in 1..Len(orphans) : Lists[i + 1] = orphans[i].list
<1>. DEFINE rest == [i \in DOMAIN orphans |-> orphans[i].list]
<1>1. serving.list \in Seq(Event) /\ orphans \in Seq(Handler)
  BY Types
<1>2. \A h \in Handler : h.list \in Seq(Event)
  BY DEF Handler
<1>3. /\ rest \in Seq(Seq(Event)) /\ Len(rest) = Len(orphans) /\ Len(orphans) \in Nat
      /\ \A i \in 1..Len(orphans) : rest[i] = orphans[i].list
  <2>. HIDE DEF Handler, Event
  <2>. QED  BY <1>1, <1>2
<1>. HIDE DEF rest, Event
<1>4. <<serving.list>> \in Seq(Seq(Event))
  BY <1>1
<1>5. /\ <<serving.list>> \o rest \in Seq(Seq(Event))
      /\ Len(<<serving.list>> \o rest) = 1 + Len(rest)
      /\ \A i \in 1..(1 + Len(rest)) :
           (<<serving.list>> \o rest)[i] = IF i <= 1 THEN <<serving.list>>[i] ELSE rest[i - 1]
  BY <1>3, <1>4, ConcatProperties
<1>6. Lists = <<serving.list>> \o rest
  BY DEF Lists, rest
<1>. HIDE DEF Lists
<1>7. Lists[1] = serving.list
  BY <1>3, <1>5, <1>6
<1>8. \A i \in 1..Len(orphans) : Lists[i + 1] = orphans[i].list
  BY <1>3, <1>5, <1>6
<1>. QED  BY <1>3, <1>5, <1>6, <1>7, <1>8

LEMMA InvAccounts == Inv => EventsAccounted
<1>. SUFFICES ASSUME Inv PROVE EventsAccounted
  OBVIOUS
<1>. DEFINE P == ToSet(processed)
            S == Numbers(serving.list)
            Q == Numbers(events)
            H == Numbers(held)
            L(i) == Numbers(orphans[i].list)
            n == Len(orphans)
            first == <<P, gone, Q, H>>
            rest == [i \in DOMAIN Lists |-> Numbers(Lists[i])]
            places == first \o rest
<1>1. /\ Increasing(processed) /\ Apart(orphans)
      /\ orphans \in Seq(Handler) /\ arrived \in Nat
      /\ Shared(P, gone, S, Q, H, Lost(orphans), arrived)
  BY Types DEF Inv, Accounted
<1>2. /\ gone \cap (P \cup S \cup Q \cup H) = {}
      /\ Lost(orphans) \cap (P \cup gone \cup S \cup Q \cup H) = {}
      /\ P \cup gone \cup S \cup Q \cup H \cup Lost(orphans) = 1..arrived
      /\ S \cap (P \cup Q \cup H) = {} /\ P \cap (Q \cup H) = {} /\ Q \cap H = {}
  <2>. HIDE DEF P, S, Q, H
  <2>. QED  BY <1>1, SharedFacts
<1>3. n \in Nat /\ DOMAIN orphans = 1..n
  BY <1>1
<1>4. /\ Lost(orphans) = UNION {L(i) : i \in 1..n}
      /\ \A i, j \in 1..n : i # j => L(i) \cap L(j) = {}
  BY <1>1, <1>3 DEF Lost, Apart
<1>5. /\ Len(rest) = n + 1 /\ rest \in Seq(SUBSET Nat)
      /\ rest[1] = S /\ \A i \in 1..n : rest[i + 1] = L(i)
  <2>1. /\ Lists \in Seq(Seq(Event)) /\ Len(Lists) = n + 1 /\ Lists[1] = serving.list
        /\ \A i \in 1..n : Lists[i + 1] = orphans[i].list
    BY ListsAre
  <2>2. DOMAIN Lists = 1..(n + 1) /\ \A i \in 1..(n + 1) : Lists[i] \in Seq(Event)
    BY <1>3, <2>1
  <2>3. \A i \in 1..(n + 1) : Numbers(Lists[i]) \in SUBSET Nat
    BY <2>2, NumbersOf
  <2>. HIDE DEF Lists, Event, n
  <2>4. rest \in Seq(SUBSET Nat) /\ Len(rest) = n + 1
    BY <1>3, <2>2, <2>3
  <2>5. \A i \in 1..(n + 1) : rest[i] = Numbers(Lists[i])
    BY <2>2
  <2>6. \A i \in 1..n : i + 1 \in 1..(n + 1)
    BY <1>3
  <2>7. 1 \in 1..(n + 1)
    BY <1>3
  <2>8. rest[1] = S
    BY <2>1, <2>5, <2>7
  <2>9. \A i \in 1..n : rest[i + 1] = L(i)
    BY <2>1, <2>5, <2>6
  <2>. QED  BY <2>4, <2>8, <2>9
<1>6. first \in Seq(SUBSET Nat) /\ Len(first) = 4
  <2>1. P \subseteq Nat /\ Q \subseteq Nat /\ H \subseteq Nat /\ gone \subseteq Nat
    BY <1>2
  <2>. HIDE DEF P, Q, H
  <2>. QED  BY <2>1
<1>7. /\ Len(places) = n + 5 /\ DOMAIN places = 1..(n + 5)
      /\ places[1] = P /\ places[2] = gone /\ places[3] = Q /\ places[4] = H /\ places[5] = S
      /\ \A i \in 1..n : places[i + 5] = L(i)
  <2>. HIDE DEF P, Q, H, S, n, L, rest
  <2>1. /\ places \in Seq(SUBSET Nat) /\ Len(places) = 4 + Len(rest)
        /\ \A i \in 1..(4 + Len(rest)) :
             places[i] = IF i <= 4 THEN first[i] ELSE rest[i - 4]
    <3>. HIDE DEF first
    <3>1. /\ first \o rest \in Seq(SUBSET Nat) /\ Len(first \o rest) = Len(first) + Len(rest)
          /\ \A i \in 1..(Len(first) + Len(rest)) :
               (first \o rest)[i] = IF i <= Len(first) THEN first[i] ELSE rest[i - Len(first)]
      <4>1. first \in Seq(SUBSET Nat) /\ rest \in Seq(SUBSET Nat)
        BY <1>5, <1>6
      <4>. QED  BY <4>1, ConcatProperties
    <3>. QED  BY <1>6, <3>1
  <2>2. Len(places) = n + 5 /\ DOMAIN places = 1..(n + 5)
    <3>. HIDE DEF places
    <3>. QED  BY <1>3, <1>5, <2>1
  <2>3. /\ first[1] = P /\ first[2] = gone /\ first[3] = Q /\ first[4] = H
    OBVIOUS
  <2>. HIDE DEF places, first
  <2>4. \A i \in 1..(n + 5) : places[i] = IF i <= 4 THEN first[i] ELSE rest[i - 4]
    BY <1>3, <1>5, <2>1
  <2>5. /\ places[1] = P /\ places[2] = gone /\ places[3] = Q /\ places[4] = H
        /\ places[5] = S
    BY <1>3, <1>5, <2>3, <2>4
  <2>6. ASSUME NEW i \in 1..n
        PROVE  places[i + 5] = L(i)
    <3>1. i + 5 \in 1..(n + 5) /\ ~(i + 5 <= 4) /\ (i + 5) - 4 = i + 1
      BY <1>3
    <3>. QED  BY <1>5, <2>4, <3>1
  <2>. QED  BY <2>2, <2>5, <2>6
<1>8. \A i \in 1..(n + 5) : \/ i \in {1, 2, 3, 4, 5}
                            \/ i - 5 \in 1..n /\ i = (i - 5) + 5
  BY <1>3
<1>. HIDE DEF P, S, Q, H, L, n, places
<1>9. UNION ToSet(places) = 1..arrived
  <2>1. ToSet(places) = {places[i] : i \in 1..(n + 5)}
    BY <1>7 DEF ToSet
  <2>2. \A i \in 1..(n + 5) : places[i] \subseteq 1..arrived
    <3>1. \A i \in 1..n : L(i) \subseteq 1..arrived
      BY <1>2, <1>4
    <3>. QED  BY <1>2, <1>7, <1>8, <3>1
  <2>3. /\ {1, 2, 3, 4, 5} \subseteq 1..(n + 5)
        /\ \A i \in 1..n : i + 5 \in 1..(n + 5)
    BY <1>3
  <2>4. ASSUME NEW x \in 1..arrived
        PROVE  \E i \in 1..(n + 5) : x \in places[i]
    <3>1. CASE x \in P \cup gone \cup S \cup Q \cup H
      BY <1>7, <2>3, <3>1
    <3>2. CASE x \in Lost(orphans)
      <4>1. PICK i \in 1..n : x \in L(i)
        BY <1>4, <3>2
      <4>. QED  BY <1>7, <2>3, <4>1
    <3>. QED  BY <1>2, <3>1, <3>2
  <2>. QED  BY <2>1, <2>2, <2>4
<1>10. \A i, j \in DOMAIN places : i # j => places[i] \cap places[j] = {}
  <2>1. \A i \in 1..n : L(i) \cap (P \cup gone \cup S \cup Q \cup H) = {}
    BY <1>2, <1>4
  <2>2. SUFFICES ASSUME NEW i \in 1..(n + 5), NEW j \in 1..(n + 5), i # j
                 PROVE  places[i] \cap places[j] = {}
    BY <1>7
  <2>3. CASE i \in {1, 2, 3, 4, 5} /\ j \in {1, 2, 3, 4, 5}
    BY <1>2, <1>7, <2>2, <2>3
  <2>4. CASE i \in {1, 2, 3, 4, 5} /\ j \notin {1, 2, 3, 4, 5}
    <3>1. j - 5 \in 1..n /\ places[j] = L(j - 5)
      BY <1>7, <1>8, <2>4
    <3>2. places[i] \subseteq P \cup gone \cup S \cup Q \cup H
      BY <1>7, <2>4
    <3>. QED  BY <2>1, <3>1, <3>2
  <2>5. CASE i \notin {1, 2, 3, 4, 5} /\ j \in {1, 2, 3, 4, 5}
    <3>1. i - 5 \in 1..n /\ places[i] = L(i - 5)
      BY <1>7, <1>8, <2>5
    <3>2. places[j] \subseteq P \cup gone \cup S \cup Q \cup H
      BY <1>7, <2>5
    <3>. QED  BY <2>1, <3>1, <3>2
  <2>6. CASE i \notin {1, 2, 3, 4, 5} /\ j \notin {1, 2, 3, 4, 5}
    <3>1. /\ i - 5 \in 1..n /\ places[i] = L(i - 5)
          /\ j - 5 \in 1..n /\ places[j] = L(j - 5) /\ i - 5 # j - 5
      BY <1>7, <1>8, <2>2, <2>6
    <3>. QED  BY <1>4, <3>1
  <2>. QED  BY <2>3, <2>4, <2>5, <2>6
<1>. QED  BY <1>1, <1>9, <1>10, QueueInOrder DEF EventsAccounted, P, Q, H, places

\* No event of the IRC connection is handled twice or overtakes another, and none
\* disappears otherwise than with an answer that broke, an answer that threw or a put
\* that timed out: for any number of events, breaks and lines, any size of the queue.
THEOREM EveryEventAccounted == Spec => []EventsAccounted
BY InvCorrect, InvAccounts, PTL

\* What the page pushes reaches the IRC server in the order it was sent, each line at
\* most once, and unless a push broke none overtakes another: push sends one at a time.
THEOREM PushesStayInOrder == Spec => []PushesInOrder
<1>1. Inv => PushesInOrder
  BY PushFacts DEF PushesInOrder
<1>. QED  BY <1>1, InvCorrect, PTL
=============================================================================
