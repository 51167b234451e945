----------------------------- MODULE PageProofs -----------------------------
(***************************************************************************)
(* Theorems about Page, whatever its widgets are given.                    *)
(***************************************************************************)
EXTENDS Page, FiniteSetTheorems, SequenceTheorems, WellFoundedInduction, TLAPS

\* A set of numbers has a least one.
LEMMA LeastNumber ==
  ASSUME NEW S \in SUBSET Nat, S # {}
  PROVE  \E x \in S : \A y \in S : x <= y
<1>. DEFINE R == {p \in Nat \X Nat : p[1] < p[2]}
<1>1. IsWellFoundedOn(R, Nat)
  BY NatLessThanWellFounded DEF OpToRel
<1>2. \A x, y \in Nat : x < y => <<x, y>> \in R
  OBVIOUS
<1>. HIDE DEF R
<1>3. PICK x \in S : \A y \in S : ~(<<y, x>> \in R)
  BY <1>1, WFMin
<1>4. ASSUME NEW y \in S
      PROVE  x <= y
  <2>1. x \in Nat /\ y \in Nat /\ ~(y < x)
    BY <1>2, <1>3
  <2>. QED  BY <2>1
<1>. QED  BY <1>4
-----------------------------------------------------------------------------
(***************************************************************************)
(* HashCookie.  The length of the text of an object is a number, since the *)
(* object has finitely many keys.                                          *)
(***************************************************************************)
\* The sum over s, key by key, as FoldSet takes them.
Any(s) == CHOOSE x \in s : TRUE
SumStep(o, g, s) == IF s = {} THEN 0 ELSE o[Any(s)] + g[s \ {Any(s)}]
Sums(o, g) == g = [s \in SUBSET DOMAIN o |-> SumStep(o, g, s)]

LEMMA TextIsSum ==
  ASSUME NEW o
  PROVE  Text(o) = (CHOOSE g : Sums(o, g))[DOMAIN o]
BY DEF Text, FoldSet, MapThenFoldSet, Sums, SumStep, Any

LEMMA AnyTaken ==
  ASSUME NEW S, IsFiniteSet(S), NEW s \in SUBSET S, s # {}
  PROVE  /\ Any(s) \in s
         /\ s \ {Any(s)} \in SUBSET S
         /\ Cardinality(s) \in Nat \ {0}
         /\ Cardinality(s \ {Any(s)}) = Cardinality(s) - 1
<1>1. Any(s) \in s
  BY DEF Any
<1>2. IsFiniteSet(s)
  BY FS_Subset
<1>3. Cardinality(s) \in Nat /\ Cardinality(s) # 0
  BY <1>2, FS_CardinalityType, FS_EmptySet
<1>4. Cardinality(s \ {Any(s)}) = Cardinality(s) - 1
  BY <1>1, <1>2, FS_RemoveElement
<1>. QED  BY <1>1, <1>3, <1>4

LEMMA SumExists ==
  ASSUME NEW S, IsFiniteSet(S), NEW o \in [S -> Nat]
  PROVE  \E g : Sums(o, g)
<1>. DEFINE Small(k) == {s \in SUBSET S : Cardinality(s) <= k}
            Sum(g, k) == g \in [Small(k) -> Nat] /\ \A s \in Small(k) : g[s] = SumStep(o, g, s)
            Bad == {k \in Nat : ~ \E g : Sum(g, k)}
<1>1. \A s \in SUBSET S : Cardinality(s) \in Nat /\ (Cardinality(s) = 0 <=> s = {})
  BY FS_Subset, FS_CardinalityType, FS_EmptySet
<1>2. 0 \notin Bad
  <2>. DEFINE g == [s \in Small(0) |-> 0]
  <2>1. \A s \in Small(0) : s = {}
    BY <1>1
  <2>2. Sum(g, 0)
    BY <2>1 DEF SumStep
  <2>. QED  BY <2>2
<1>3. ASSUME NEW k \in Nat \ {0}, k - 1 \notin Bad
      PROVE  k \notin Bad
  <2>1. PICK g : Sum(g, k - 1)
    BY <1>3
  <2>. DEFINE f == [s \in Small(k) |-> IF Cardinality(s) <= k - 1 THEN g[s] ELSE SumStep(o, g, s)]
  <2>2. ASSUME NEW s \in Small(k), s # {}
        PROVE  Any(s) \in S /\ s \ {Any(s)} \in Small(k - 1) /\ s \ {Any(s)} \in Small(k)
    <3>1. s \in SUBSET S
      OBVIOUS
    <3>2. Any(s) \in s /\ s \ {Any(s)} \in SUBSET S /\ Cardinality(s \ {Any(s)}) = Cardinality(s) - 1
      BY <2>2, <3>1, AnyTaken
    <3>3. Cardinality(s) <= k /\ Cardinality(s) \in Nat
      BY <1>1
    <3>. QED  BY <1>3, <3>2, <3>3
  <2>3. \A s \in Small(k) : SumStep(o, g, s) \in Nat
    BY <2>1, <2>2 DEF SumStep
  <2>4. f \in [Small(k) -> Nat]
    <3>1. \A s \in Small(k) : Cardinality(s) <= k - 1 => s \in Small(k - 1)
      OBVIOUS
    <3>. QED  BY <2>1, <2>3, <3>1
  <2>5. ASSUME NEW s \in Small(k)
        PROVE  f[s] = SumStep(o, f, s)
    <3>1. s # {} => f[s \ {Any(s)}] = g[s \ {Any(s)}]
      BY <2>2
    <3>2. SumStep(o, f, s) = SumStep(o, g, s)
      BY <3>1 DEF SumStep
    <3>3. Cardinality(s) <= k - 1 => g[s] = SumStep(o, g, s)
      BY <2>1
    <3>. QED  BY <3>2, <3>3
  <2>6. Sum(f, k)
    BY <2>4, <2>5
  <2>. QED  BY <2>6
<1>4. Bad = {}
  <2>1. SUFFICES ASSUME Bad # {} PROVE FALSE
    OBVIOUS
  <2>2. PICK m \in Bad : \A y \in Bad : m <= y
    BY <2>1, LeastNumber
  <2>3. m \in Nat \ {0}
    BY <1>2, <2>2
  <2>4. m - 1 \notin Bad
    <3>1. m - 1 \in Nat /\ ~(m <= m - 1)
      BY <2>3
    <3>. QED  BY <2>2, <3>1
  <2>. QED  BY <1>3, <2>2, <2>3, <2>4
<1>5. Cardinality(S) \in Nat
  BY FS_CardinalityType
<1>6. PICK g : Sum(g, Cardinality(S))
  BY <1>4, <1>5
<1>7. Small(Cardinality(S)) = SUBSET S
  BY FS_Subset
<1>8. g = [s \in SUBSET S |-> SumStep(o, g, s)]
  BY <1>6, <1>7
<1>. QED  BY <1>8 DEF Sums

LEMMA TextType ==
  ASSUME NEW S, IsFiniteSet(S), NEW o \in [S -> Nat]
  PROVE  Text(o) \in Nat
<1>. DEFINE g == CHOOSE h : Sums(o, h)
            Bad == {k \in Nat : \E s \in SUBSET S : Cardinality(s) = k /\ g[s] \notin Nat}
<1>1. Sums(o, g)
  BY SumExists
<1>. HIDE DEF g
<1>2. \A s \in SUBSET S : g[s] = SumStep(o, g, s)
  BY <1>1 DEF Sums
<1>3. ASSUME Bad # {} PROVE FALSE
  <2>1. PICK m \in Bad : \A y \in Bad : m <= y
    BY <1>3, LeastNumber
  <2>2. PICK s \in SUBSET S : Cardinality(s) = m /\ g[s] \notin Nat
    BY <2>1
  <2>3. s # {}
    <3>1. s = {} => SumStep(o, g, s) = 0
      BY DEF SumStep
    <3>. QED  BY <1>2, <2>2, <3>1
  <2>4. /\ Any(s) \in S /\ s \ {Any(s)} \in SUBSET S
        /\ m - 1 \in Nat /\ Cardinality(s \ {Any(s)}) = m - 1
    BY <2>2, <2>3, AnyTaken
  <2>5. m - 1 \notin Bad
    <3>1. m \in Nat /\ ~(m <= m - 1)
      BY <2>1
    <3>. QED  BY <2>1, <3>1
  <2>6. g[s \ {Any(s)}] \in Nat
    BY <2>4, <2>5
  <2>7. g[s] = o[Any(s)] + g[s \ {Any(s)}]
    BY <1>2, <2>3 DEF SumStep
  <2>. QED  BY <2>2, <2>4, <2>6, <2>7
<1>4. Cardinality(S) \in Nat
  BY FS_CardinalityType
<1>5. g[S] \in Nat
  BY <1>3, <1>4
<1>6. Text(o) = g[DOMAIN o]
  BY TextIsSum DEF g
<1>. QED  BY <1>5, <1>6

\* The objects that may be in a hash, and what is known of each.
LEMMA ObjectFacts ==
  ASSUME NEW o \in Objects
  PROVE  /\ IsFiniteSet(DOMAIN o) /\ DOMAIN o \subseteq Names
         /\ \A n \in DOMAIN o : o[n] \in Sizes
         /\ Text(o) \in Nat
         /\ Cardinality(DOMAIN o) \in Nat
         /\ Cardinality(DOMAIN o) = 0 <=> o = Empty
<1>1. PICK N \in SUBSET Names : o \in [N -> Sizes]
  BY DEF Objects
<1>2. IsFiniteSet(N)
  BY HashAssumption, FS_Subset
<1>3. Text(o) \in Nat
  <2>1. o \in [N -> Nat]
    BY <1>1, HashAssumption
  <2>. QED  BY <1>2, <2>1, TextType
<1>4. Cardinality(N) \in Nat /\ (Cardinality(N) = 0 <=> N = {})
  BY <1>2, FS_CardinalityType, FS_EmptySet
<1>5. o = Empty <=> N = {}
  BY <1>1 DEF Empty
<1>. QED  BY <1>1, <1>2, <1>3, <1>4, <1>5

LEMMA ObjectMade ==
  /\ Empty \in Objects
  /\ \A o, q \in Objects : q @@ o \in Objects /\ DOMAIN (q @@ o) = DOMAIN q \cup DOMAIN o
  /\ \A n \in Names, v \in Sizes : n :> v \in Objects /\ DOMAIN (n :> v) = {n}
  /\ \A o \in Objects, n \in Names : [m \in DOMAIN o \ {n} |-> o[m]] \in Objects
<1>1. Empty \in Objects
  <2>1. Empty \in [{} -> Sizes]
    BY DEF Empty
  <2>. QED  BY <2>1 DEF Objects
<1>2. ASSUME NEW o \in Objects, NEW q \in Objects
      PROVE  q @@ o \in Objects /\ DOMAIN (q @@ o) = DOMAIN q \cup DOMAIN o
  <2>1. DOMAIN q \cup DOMAIN o \in SUBSET Names
    BY ObjectFacts
  <2>2. q @@ o \in [DOMAIN q \cup DOMAIN o -> Sizes]
    BY ObjectFacts DEF @@
  <2>. QED  BY <2>1, <2>2 DEF Objects
<1>3. ASSUME NEW n \in Names, NEW v \in Sizes
      PROVE  n :> v \in Objects /\ DOMAIN (n :> v) = {n}
  <2>1. n :> v \in [{n} -> Sizes]
    BY DEF :>
  <2>. QED  BY <2>1 DEF Objects
<1>4. ASSUME NEW o \in Objects, NEW n \in Names
      PROVE  [m \in DOMAIN o \ {n} |-> o[m]] \in Objects
  <2>1. DOMAIN o \ {n} \in SUBSET Names /\ [m \in DOMAIN o \ {n} |-> o[m]] \in [DOMAIN o \ {n} -> Sizes]
    BY ObjectFacts
  <2>. QED  BY <2>1 DEF Objects
<1>. QED  BY <1>1, <1>2, <1>3, <1>4

\* The objects, the lengths and the cookie.
HashTypeOK ==
  /\ obj \in [Pages -> Objects] /\ length \in [Pages -> Nat] /\ cookie \in Objects
  /\ autoSave \in BOOLEAN /\ writer \in Pages \cup {0}

HashOK == HashTypeOK /\ CookieIsHash

\* What save() leaves in the cookie is the object, if that fits.
LEMMA SavedFits ==
  ASSUME HashTypeOK, NEW o \in Objects
  PROVE  /\ Saved(o, Cardinality(DOMAIN o)) \in Objects
         /\ Text(o) <= MaxEncoded => Saved(o, Cardinality(DOMAIN o)) = o
<1>1. Text(o) \in Nat /\ Cardinality(DOMAIN o) \in Nat /\ (Cardinality(DOMAIN o) = 0 <=> o = Empty)
  BY ObjectFacts
<1>2. MaxText \in Nat /\ MaxEncoded \in Nat /\ MaxEncoded <= MaxText
  BY HashAssumption
<1>3. Text(o) <= MaxEncoded => ~(Text(o) > MaxText)
  BY <1>1, <1>2
<1>. QED  BY <1>1, <1>3, ObjectMade DEF HashTypeOK, Saved, CookieSet

\* Every method that ends in save() keeps the invariant.
LEMMA BecomesKeeps ==
  ASSUME HashOK, NEW p \in Pages, NEW o \in Objects, Becomes(p, o, Cardinality(DOMAIN o))
  PROVE  HashOK'
<1>1. Cardinality(DOMAIN o) \in Nat /\ p \in Nat \ {0}
  BY ObjectFacts, HashAssumption
<1>2. obj' \in [Pages -> Objects] /\ length' \in [Pages -> Nat] /\ autoSave' \in BOOLEAN
  BY <1>1 DEF HashOK, HashTypeOK, Becomes
<1>3. /\ obj'[p] = o /\ length'[p] = Cardinality(DOMAIN o)
      /\ \A q \in Pages \ {p} : obj'[q] = obj[q] /\ length'[q] = length[q]
  BY DEF HashOK, HashTypeOK, Becomes
<1>4. \A q \in Pages : length'[q] = Cardinality(DOMAIN obj'[q])
  BY <1>3 DEF HashOK, CookieIsHash
<1>5. CASE autoSave
  <2>1. cookie' = Saved(o, Cardinality(DOMAIN o)) /\ writer' = p
    BY <1>5 DEF Becomes
  <2>2. cookie' \in Objects /\ (Text(o) <= MaxEncoded => cookie' = o)
    BY <2>1, SavedFits DEF HashOK
  <2>. QED  BY <1>2, <1>3, <1>4, <2>1, <2>2 DEF HashOK, HashTypeOK, CookieIsHash
<1>6. CASE ~autoSave
  BY <1>2, <1>4, <1>6 DEF HashOK, HashTypeOK, CookieIsHash, Becomes
<1>. QED  BY <1>5, <1>6

LEMMA HashInitOK == HashInit => HashOK
<1>. SUFFICES ASSUME HashInit PROVE HashOK
  OBVIOUS
<1>1. Empty \in Objects /\ Cardinality(DOMAIN Empty) = 0
  BY ObjectMade, ObjectFacts
<1>2. cookie \in Objects
  BY <1>1 DEF HashInit
<1>. QED  BY <1>1, <1>2 DEF HashInit, HashOK, HashTypeOK, CookieIsHash

LEMMA HashNextOK == HashOK /\ HashNext => HashOK'
<1>. SUFFICES ASSUME HashOK, HashNext PROVE HashOK'
  OBVIOUS
<1>1. \A p \in Pages : /\ obj[p] \in Objects /\ length[p] = Cardinality(DOMAIN obj[p])
                       /\ IsFiniteSet(DOMAIN obj[p]) /\ length[p] \in Nat
  BY ObjectFacts DEF HashOK, HashTypeOK, CookieIsHash
<1>2. CASE HashSet
  <2>1. PICK p \in Pages, n \in Names, v \in Sizes :
          Becomes(p, n :> v @@ obj[p], IF n \in DOMAIN obj[p] THEN length[p] ELSE length[p] + 1)
    BY <1>2 DEF HashSet
  <2>2. n :> v @@ obj[p] \in Objects /\ DOMAIN (n :> v @@ obj[p]) = DOMAIN obj[p] \cup {n}
    BY <1>1, ObjectMade
  <2>3. Cardinality(DOMAIN obj[p] \cup {n}) = IF n \in DOMAIN obj[p] THEN length[p] ELSE length[p] + 1
    <3>1. IsFiniteSet(DOMAIN obj[p]) /\ length[p] = Cardinality(DOMAIN obj[p])
      BY <1>1
    <3>2. CASE n \in DOMAIN obj[p]
      <4>1. DOMAIN obj[p] \cup {n} = DOMAIN obj[p]
        BY <3>2
      <4>. QED  BY <3>1, <3>2, <4>1
    <3>3. CASE n \notin DOMAIN obj[p]
      BY <3>1, <3>3, FS_AddElement
    <3>. QED  BY <3>2, <3>3
  <2>. QED  BY <2>1, <2>2, <2>3, BecomesKeeps
<1>3. CASE HashRemove
  <2>1. PICK p \in Pages, n \in Names :
          IF n \in DOMAIN obj[p]
          THEN Becomes(p, [m \in DOMAIN obj[p] \ {n} |-> obj[p][m]], length[p] - 1)
          ELSE Becomes(p, obj[p], length[p])
    BY <1>3 DEF HashRemove
  <2>2. CASE n \in DOMAIN obj[p]
    <3>. DEFINE o == [m \in DOMAIN obj[p] \ {n} |-> obj[p][m]]
    <3>1. o \in Objects /\ DOMAIN o = DOMAIN obj[p] \ {n}
      BY <1>1, ObjectMade
    <3>2. Cardinality(DOMAIN o) = length[p] - 1
      BY <1>1, <2>2, <3>1, FS_RemoveElement
    <3>3. Becomes(p, o, Cardinality(DOMAIN o))
      BY <2>1, <2>2, <3>2
    <3>. QED  BY <3>1, <3>3, BecomesKeeps
  <2>3. CASE n \notin DOMAIN obj[p]
    BY <1>1, <2>1, <2>3, BecomesKeeps
  <2>. QED  BY <2>2, <2>3
<1>4. CASE HashExtend
  <2>1. PICK p \in Pages, o \in Objects :
          Becomes(p, o @@ obj[p], Cardinality(DOMAIN o \cup DOMAIN obj[p]))
    BY <1>4 DEF HashExtend
  <2>2. o @@ obj[p] \in Objects /\ DOMAIN (o @@ obj[p]) = DOMAIN o \cup DOMAIN obj[p]
    BY <1>1, ObjectMade
  <2>. QED  BY <2>1, <2>2, BecomesKeeps
<1>5. CASE HashEmpty
  <2>1. Empty \in Objects /\ Cardinality(DOMAIN Empty) = 0
    BY ObjectMade, ObjectFacts
  <2>. QED  BY <1>5, <2>1, BecomesKeeps DEF HashEmpty
<1>6. CASE HashSave
  <2>1. PICK p \in Pages : /\ cookie' = Saved(obj[p], length[p])
                           /\ writer' = p
                           /\ UNCHANGED <<obj, length, autoSave>>
    BY <1>6 DEF HashSave
  <2>2. cookie' \in Objects /\ (Text(obj[p]) <= MaxEncoded => cookie' = obj[p])
    BY <1>1, <2>1, SavedFits DEF HashOK
  <2>. QED  BY <2>1, <2>2 DEF HashOK, HashTypeOK, CookieIsHash
<1>7. CASE HashLoad
  <2>1. PICK p \in Pages : /\ obj' = [obj EXCEPT ![p] = cookie]
                           /\ length' = [length EXCEPT ![p] = Cardinality(DOMAIN cookie)]
                           /\ UNCHANGED <<cookie, autoSave, writer>>
    BY <1>7 DEF HashLoad
  <2>2. cookie \in Objects /\ Cardinality(DOMAIN cookie) \in Nat
    BY ObjectFacts DEF HashOK, HashTypeOK
  <2>3. /\ obj'[p] = cookie /\ length'[p] = Cardinality(DOMAIN cookie)
        /\ \A q \in Pages \ {p} : obj'[q] = obj[q] /\ length'[q] = length[q]
    BY <2>1 DEF HashOK, HashTypeOK
  <2>4. HashTypeOK'
    BY <2>1, <2>2 DEF HashOK, HashTypeOK
  <2>5. \A q \in Pages : length'[q] = Cardinality(DOMAIN obj'[q])
    BY <1>1, <2>3
  <2>6. ASSUME autoSave, writer # 0, Text(obj'[writer]) <= MaxEncoded
        PROVE  cookie = obj'[writer]
    <3>1. CASE writer = p
      BY <2>3, <3>1
    <3>2. CASE writer # p
      BY <2>3, <2>6, <3>2 DEF HashOK, HashTypeOK, CookieIsHash
    <3>. QED  BY <3>1, <3>2
  <2>. QED  BY <2>1, <2>4, <2>5, <2>6 DEF HashOK, CookieIsHash
<1>. QED  BY <1>2, <1>3, <1>4, <1>5, <1>6, <1>7 DEF HashNext

\* With autoSave the cookie is what the page that changed its hash last has, if that
\* fits once encoded (Hash.Cookie.save, load): whatever pages share it, whatever their
\* keys and values.
THEOREM CookieAgrees == Spec => []CookieIsHash
<1>1. Init => HashOK
  BY HashInitOK DEF Init
<1>2. HashOK /\ [Next]_vars => HashOK'
  <2>1. ASSUME HashOK, UNCHANGED hashVars
        PROVE  HashOK'
    BY <2>1 DEF HashOK, HashTypeOK, CookieIsHash, hashVars
  <2>. QED  BY <2>1, HashNextOK DEF Next, vars
<1>3. HashOK => CookieIsHash
  BY DEF HashOK
<1>. QED  BY <1>1, <1>2, <1>3, PTL DEF Spec
-----------------------------------------------------------------------------
(***************************************************************************)
(* Elements.                                                               *)
(***************************************************************************)
Lists == {"click", "mouseenter", "domready", "onComplete"}
InSet(s) == {s[i] : i \in DOMAIN s}
OnceEach(s) == \A i, j \in DOMAIN s : s[i] = s[j] => i = j

\* The listeners of t that the browser has, and those it should have.
Heard(t) == {p \in native : \E f \in Fns : p = Native(t, f)}
Asked(t) == {Native(t, keys[t][i]) : i \in DOMAIN keys[t]}

KeysOK == keys \in [Lists -> Seq(Fns)] /\ \A t \in Types : OnceEach(keys[t])
ReadyTypeOK ==
  /\ loaded \in BOOLEAN /\ pollTimer \in BOOLEAN /\ webkit \in BOOLEAN
  /\ polls \in Int /\ (~loaded => polls >= 0) /\ calls \in [Fns -> Nat]
ImagesOK ==
  /\ status \in [Images -> {"loading", "loaded", "failed"}] /\ counter \in Nat /\ completes \in Nat
  /\ delayed \subseteq cached /\ cached \subseteq Images
  /\ twice = {} => counter = Cardinality(Counted)

ElementsOK == KeysOK /\ ReadyTypeOK /\ ImagesOK /\ EventsWhenDue

LEMMA KeysWithin ==
  ASSUME NEW s \in Seq(Fns)
  PROVE  /\ \A i \in DOMAIN s : s[i] \in Fns
         /\ InSet(s) \subseteq Fns
         /\ \A f : InSeq(f, s) <=> f \in InSet(s)
         /\ s # <<>> <=> InSet(s) # {}
BY DEF InSet, InSeq

LEMMA SplicedKeys ==
  ASSUME NEW s \in Seq(Fns), NEW f, InSeq(f, s), OnceEach(s)
  PROVE  /\ Spliced(s, f) \in Seq(Fns)
         /\ InSet(Spliced(s, f)) = InSet(s) \ {f}
         /\ OnceEach(Spliced(s, f))
<1>. DEFINE pos == CHOOSE i \in DOMAIN s : s[i] = f
            r == [i \in 1..(Len(s) - 1) |-> IF i < pos THEN s[i] ELSE s[i + 1]]
<1>1. pos \in DOMAIN s /\ s[pos] = f
  BY DEF InSeq
<1>2. r = Spliced(s, f)
  BY DEF Spliced
<1>. HIDE DEF pos
<1>3. Len(s) \in Nat \ {0} /\ DOMAIN s = 1..Len(s) /\ pos \in 1..Len(s) /\ Len(s) - 1 \in Nat
  BY <1>1
<1>4. r \in Seq(Fns) /\ DOMAIN r = 1..(Len(s) - 1)
  <2>1. \A i \in 1..(Len(s) - 1) : r[i] \in Fns
    BY <1>3
  <2>. QED  BY <1>3, <2>1
<1>5. \A i \in DOMAIN r : r[i] = s[IF i < pos THEN i ELSE i + 1]
  BY <1>4
<1>6. InSet(r) = InSet(s) \ {f}
  <2>1. ASSUME NEW i \in DOMAIN r
        PROVE  r[i] \in InSet(s) \ {f}
    <3>. DEFINE j == IF i < pos THEN i ELSE i + 1
    <3>1. j \in DOMAIN s /\ j # pos
      BY <1>3, <1>4
    <3>2. r[i] = s[j]
      BY <1>5
    <3>3. s[j] # f
      BY <1>1, <3>1 DEF OnceEach
    <3>. QED  BY <3>1, <3>2, <3>3 DEF InSet
  <2>2. ASSUME NEW j \in DOMAIN s, s[j] # f
        PROVE  \E i \in DOMAIN r : r[i] = s[j]
    <3>. DEFINE i == IF j < pos THEN j ELSE j - 1
    <3>1. j # pos
      BY <1>1, <2>2
    <3>2. i \in DOMAIN r /\ (IF i < pos THEN i ELSE i + 1) = j
      BY <1>3, <1>4, <3>1
    <3>. QED  BY <1>5, <3>2
  <2>. QED  BY <2>1, <2>2 DEF InSet
<1>7. OnceEach(r)
  <2>1. SUFFICES ASSUME NEW i \in DOMAIN r, NEW j \in DOMAIN r, r[i] = r[j]
                 PROVE  i = j
    BY DEF OnceEach
  <2>. DEFINE m == IF i < pos THEN i ELSE i + 1
              n == IF j < pos THEN j ELSE j + 1
  <2>2. m \in DOMAIN s /\ n \in DOMAIN s
    BY <1>3, <1>4
  <2>3. m = n
    BY <1>5, <2>1, <2>2 DEF OnceEach
  <2>. QED  BY <1>3, <1>4, <2>3
<1>. QED  BY <1>2, <1>4, <1>6, <1>7

LEMMA AppendedKeys ==
  ASSUME NEW s \in Seq(Fns), NEW f \in Fns, ~InSeq(f, s)
  PROVE  /\ Append(s, f) \in Seq(Fns)
         /\ InSet(Append(s, f)) = InSet(s) \cup {f}
         /\ OnceEach(s) => OnceEach(Append(s, f))
<1>1. Append(s, f) \in Seq(Fns) /\ DOMAIN Append(s, f) = 1..(Len(s) + 1) /\ DOMAIN s = 1..Len(s)
  OBVIOUS
<1>2. Append(s, f)[Len(s) + 1] = f /\ \A i \in 1..Len(s) : Append(s, f)[i] = s[i]
  OBVIOUS
<1>3. Len(s) \in Nat
  OBVIOUS
<1>4. InSet(Append(s, f)) = InSet(s) \cup {f}
  <2>1. \A i \in 1..(Len(s) + 1) : i \in 1..Len(s) \/ i = Len(s) + 1
    BY <1>3
  <2>2. \A i \in 1..Len(s) : i \in 1..(Len(s) + 1)
    BY <1>3
  <2>3. Len(s) + 1 \in 1..(Len(s) + 1)
    BY <1>3
  <2>. QED  BY <1>1, <1>2, <2>1, <2>2, <2>3 DEF InSet
<1>5. OnceEach(s) => OnceEach(Append(s, f))
  <2>1. \A i \in 1..(Len(s) + 1) : i \in 1..Len(s) \/ i = Len(s) + 1
    BY <1>3
  <2>. QED  BY <1>1, <1>2, <2>1 DEF OnceEach, InSeq
<1>. QED  BY <1>1, <1>4, <1>5

LEMMA JoinedKeys ==
  ASSUME NEW s \in Seq(Fns), NEW t \in Seq(Fns), OnceEach(s), OnceEach(t), InSet(s) \cap InSet(t) = {}
  PROVE  /\ s \o t \in Seq(Fns)
         /\ InSet(s \o t) = InSet(s) \cup InSet(t)
         /\ OnceEach(s \o t)
<1>. DEFINE r == s \o t
<1>1. /\ r \in Seq(Fns) /\ DOMAIN r = 1..(Len(s) + Len(t))
      /\ DOMAIN s = 1..Len(s) /\ DOMAIN t = 1..Len(t) /\ Len(s) \in Nat /\ Len(t) \in Nat
  OBVIOUS
<1>2. \A i \in 1..(Len(s) + Len(t)) : r[i] = IF i <= Len(s) THEN s[i] ELSE t[i - Len(s)]
  OBVIOUS
<1>. HIDE DEF r
<1>3. \A i \in DOMAIN s : i \in DOMAIN r /\ r[i] = s[i]
  BY <1>1, <1>2
<1>4. \A i \in DOMAIN t : i + Len(s) \in DOMAIN r /\ r[i + Len(s)] = t[i]
  BY <1>1, <1>2
<1>5. \A i \in DOMAIN r : \/ i \in DOMAIN s /\ r[i] = s[i]
                          \/ i - Len(s) \in DOMAIN t /\ r[i] = t[i - Len(s)]
  BY <1>1, <1>2
<1>6. InSet(r) = InSet(s) \cup InSet(t)
  BY <1>3, <1>4, <1>5 DEF InSet
<1>7. OnceEach(r)
  <2>1. SUFFICES ASSUME NEW i \in DOMAIN r, NEW j \in DOMAIN r, r[i] = r[j]
                 PROVE  i = j
    BY DEF OnceEach
  <2>2. \A x \in DOMAIN s, y \in DOMAIN t : s[x] # t[y]
    BY DEF InSet
  <2>3. CASE i \in DOMAIN s /\ r[i] = s[i] /\ j \in DOMAIN s /\ r[j] = s[j]
    BY <2>1, <2>3 DEF OnceEach
  <2>4. CASE /\ i - Len(s) \in DOMAIN t /\ r[i] = t[i - Len(s)]
             /\ j - Len(s) \in DOMAIN t /\ r[j] = t[j - Len(s)]
    <3>1. i - Len(s) = j - Len(s)
      BY <2>1, <2>4 DEF OnceEach
    <3>. QED  BY <1>1, <3>1
  <2>. QED  BY <1>5, <2>1, <2>2, <2>3, <2>4
<1>. QED  BY <1>1, <1>6, <1>7 DEF r

\* A click has a listener of its own, all functions of mouseenter share one.
LEMMA NativeApart ==
  /\ \A f, g : Native("click", f) # Native("mouseenter", g)
  /\ \A f, g : Native("click", f) = Native("click", g) => f = g
  /\ \A f, g : Native("mouseenter", f) = Native("mouseenter", g)
BY DEF Native

\* What is added or taken away for one type leaves the other type as it is.
LEMMA ApartHeard ==
  ASSUME NEW t \in Types, NEW u \in Types, t # u, NEW F \in SUBSET Fns, NEW p,
         \E f \in Fns : p = Native(u, f)
  PROVE  (p \in Listening(t, F) <=> p \in native) /\ (p \in Unlistening(t, F) <=> p \in native)
<1>1. \A f, g : Native(t, f) # Native(u, g)
  BY NativeApart DEF Types
<1>. QED  BY <1>1 DEF Listening, Unlistening

\* What holds of the functions registered for t in the state and in the next.
LEMMA AskedImage == \A t : Asked(t) = {Native(t, f) : f \in InSet(keys[t])}
BY DEF Asked, InSet

LEMMA NativeByHeard ==
  NativeIsKeys <=> (kind = "events" => \A t \in Types \ leaked : Asked(t) = Heard(t))
BY DEF NativeIsKeys, Asked, Heard

LEMMA TypeLists == Types = {"click", "mouseenter"} /\ Types \subseteq Lists
BY DEF Types, Lists

LEMMA ElementsInitOK == ElementsInit => ElementsOK
<1>. SUFFICES ASSUME ElementsInit PROVE ElementsOK
  OBVIOUS
<1>. USE DEF ElementsInit, EventsInit, ReadyInit, GroupInit, ImagesInit
<1>1. keys \in [Lists -> Seq(Fns)] /\ \A t \in Lists : keys[t] = <<>>
  BY DEF NoKeys, Types, Lists
<1>2. KeysOK
  BY <1>1, TypeLists DEF KeysOK, OnceEach
<1>3. ReadyTypeOK
  <2>1. loaded \in BOOLEAN /\ pollTimer \in BOOLEAN /\ webkit \in BOOLEAN
    OBVIOUS
  <2>2. polls \in Int /\ polls >= 0 /\ calls \in [Fns -> Nat]
    OBVIOUS
  <2>. QED  BY <2>1, <2>2 DEF ReadyTypeOK
<1>4. Counted = {}
  BY DEF Counted
<1>5. ImagesOK
  BY <1>4, FS_EmptySet DEF ImagesOK
<1>6. NativeIsKeys
  BY <1>1, TypeLists DEF NativeIsKeys
<1>7. ReadyOnce
  BY DEF ReadyOnce
<1>8. GroupInStep
  BY DEF GroupInStep
<1>9. ImagesComplete
  BY <1>4 DEF ImagesComplete
<1>. QED  BY <1>2, <1>3, <1>5, <1>6, <1>7, <1>8, <1>9 DEF ElementsOK, EventsWhenDue

\* What a step that leaves the images, the group or domready alone keeps of them.
LEMMA ImagesSame == UNCHANGED imageVars /\ ImagesOK /\ ImagesComplete => ImagesOK' /\ ImagesComplete'
BY DEF imageVars, ImagesOK, ImagesComplete, Counted

LEMMA ReadySame ==
  UNCHANGED <<kind, readyVars>> /\ kind # "domready" /\ ReadyTypeOK => ReadyTypeOK' /\ ReadyOnce'
BY DEF readyVars, ReadyTypeOK, ReadyOnce

LEMMA GroupSame ==
  UNCHANGED groupVars /\ GroupInStep /\ keys'["onComplete"] = keys["onComplete"] => GroupInStep'
BY DEF groupVars, GroupInStep

\* A step of the listeners of an element that leaves the rest alone.
LEMMA EventsStep ==
  ASSUME ElementsOK, kind = "events", UNCHANGED <<kind, readyVars, groupVars, imageVars>>,
         KeysOK', keys'["onComplete"] = keys["onComplete"],
         \A t \in Types \ leaked' : Asked(t)' = Heard(t)'
  PROVE  ElementsOK'
<1>1. NativeIsKeys'
  BY DEF NativeIsKeys, Asked, Heard
<1>2. ReadyTypeOK' /\ ReadyOnce'
  BY ReadySame DEF ElementsOK
<1>3. GroupInStep'
  BY GroupSame DEF ElementsOK, EventsWhenDue
<1>4. ImagesOK' /\ ImagesComplete'
  BY ImagesSame DEF ElementsOK, EventsWhenDue
<1>. QED  BY <1>1, <1>2, <1>3, <1>4 DEF ElementsOK, EventsWhenDue

\* The listeners of t and of another type, as functions are added or taken away.
LEMMA HeardAdded ==
  ASSUME NEW t \in Types, NEW F \in SUBSET Fns, native' = Listening(t, F)
  PROVE  /\ Heard(t)' = Heard(t) \cup {Native(t, f) : f \in F}
         /\ \A u \in Types \ {t} : Heard(u)' = Heard(u)
<1>1. Heard(t)' = Heard(t) \cup {Native(t, f) : f \in F}
  BY DEF Heard, Listening
<1>2. ASSUME NEW u \in Types \ {t}
      PROVE  Heard(u)' = Heard(u)
  <2>1. \A p : (\E f \in Fns : p = Native(u, f)) => (p \in Listening(t, F) <=> p \in native)
    BY ApartHeard
  <2>. QED  BY <2>1 DEF Heard
<1>. QED  BY <1>1, <1>2

LEMMA HeardLess ==
  ASSUME NEW t \in Types, NEW F \in SUBSET Fns, native' = Unlistening(t, F)
  PROVE  /\ Heard(t)' = Heard(t) \ {Native(t, f) : f \in F}
         /\ \A u \in Types \ {t} : Heard(u)' = Heard(u)
<1>1. Heard(t)' = Heard(t) \ {Native(t, f) : f \in F}
  BY DEF Heard, Unlistening
<1>2. ASSUME NEW u \in Types \ {t}
      PROVE  Heard(u)' = Heard(u)
  <2>1. \A p : (\E f \in Fns : p = Native(u, f)) => (p \in Unlistening(t, F) <=> p \in native)
    BY ApartHeard
  <2>. QED  BY <2>1 DEF Heard
<1>. QED  BY <1>1, <1>2

\* What a registered function's list says of the others.
LEMMA KeptAsked ==
  ASSUME NEW u, keys'[u] = keys[u]
  PROVE  Asked(u)' = Asked(u)
BY DEF Asked

LEMMA AddEventOK ==
  ASSUME ElementsOK, AddEvent, UNCHANGED kind
  PROVE  ElementsOK'
<1>1. PICK t \in Types, f \in Fns :
        /\ ~InSeq(f, keys[t])
        /\ keys' = [keys EXCEPT ![t] = Append(@, f)]
        /\ native' = Listening(t, {f})
  BY DEF AddEvent
<1>2. kind = "events" /\ UNCHANGED <<leaked, readyVars, groupVars, imageVars>>
  BY DEF AddEvent
<1>3. keys \in [Lists -> Seq(Fns)] /\ \A u \in Types : OnceEach(keys[u])
  BY DEF ElementsOK, KeysOK
<1>4. /\ Append(keys[t], f) \in Seq(Fns) /\ OnceEach(Append(keys[t], f))
      /\ InSet(Append(keys[t], f)) = InSet(keys[t]) \cup {f}
  BY <1>1, <1>3, TypeLists, AppendedKeys
<1>5. keys'[t] = Append(keys[t], f) /\ \A u \in Lists \ {t} : keys'[u] = keys[u]
  BY <1>1, <1>3, TypeLists
<1>6. KeysOK'
  BY <1>1, <1>3, <1>4, <1>5, TypeLists DEF KeysOK
<1>7. ASSUME NEW u \in Types \ leaked'
      PROVE  Asked(u)' = Heard(u)'
  <2>1. Asked(u) = Heard(u)
    BY <1>2, NativeByHeard DEF ElementsOK, EventsWhenDue
  <2>2. CASE u = t
    <3>1. Asked(t)' = {Native(t, g) : g \in InSet(keys'[t])}
      BY DEF Asked, InSet
    <3>2. Asked(t) = {Native(t, g) : g \in InSet(keys[t])}
      BY AskedImage
    <3>3. Heard(t)' = Heard(t) \cup {Native(t, g) : g \in {f}}
      BY <1>1, HeardAdded
    <3>. QED  BY <1>4, <1>5, <2>1, <2>2, <3>1, <3>2, <3>3
  <2>3. CASE u # t
    BY <1>1, <1>5, <2>1, <2>3, HeardAdded, KeptAsked, TypeLists
  <2>. QED  BY <2>2, <2>3
<1>8. keys'["onComplete"] = keys["onComplete"]
  BY <1>5 DEF Types, Lists
<1>. QED  BY <1>2, <1>6, <1>7, <1>8, EventsStep

LEMMA RemoveEventOK ==
  ASSUME ElementsOK, RemoveEvent, UNCHANGED kind
  PROVE  ElementsOK'
<1>1. PICK t \in Types, f \in Fns :
        /\ InSeq(f, keys[t])
        /\ keys' = [keys EXCEPT ![t] = Spliced(@, f)]
        /\ native' = Unlistening(t, {f})
        /\ leaked' = IF t = "mouseenter" /\ Len(keys[t]) > 1 THEN leaked \cup {t} ELSE leaked
  BY DEF RemoveEvent
<1>2. kind = "events" /\ UNCHANGED <<readyVars, groupVars, imageVars>>
  BY DEF RemoveEvent
<1>3. keys \in [Lists -> Seq(Fns)] /\ \A u \in Types : OnceEach(keys[u])
  BY DEF ElementsOK, KeysOK
<1>4. /\ Spliced(keys[t], f) \in Seq(Fns) /\ OnceEach(Spliced(keys[t], f))
      /\ InSet(Spliced(keys[t], f)) = InSet(keys[t]) \ {f}
  BY <1>1, <1>3, TypeLists, SplicedKeys
<1>5. keys'[t] = Spliced(keys[t], f) /\ \A u \in Lists \ {t} : keys'[u] = keys[u]
  BY <1>1, <1>3, TypeLists
<1>6. KeysOK'
  BY <1>1, <1>3, <1>4, <1>5, TypeLists DEF KeysOK
<1>7. ASSUME NEW u \in Types \ leaked'
      PROVE  Asked(u)' = Heard(u)'
  <2>1. Asked(u) = Heard(u)
    BY <1>1, <1>2, NativeByHeard DEF ElementsOK, EventsWhenDue
  <2>2. CASE u = t
    <3>1. Asked(t)' = {Native(t, g) : g \in InSet(keys[t]) \ {f}}
      <4>1. Asked(t)' = {Native(t, g) : g \in InSet(keys'[t])}
        BY DEF Asked, InSet
      <4>. QED  BY <1>4, <1>5, <4>1
    <3>2. Asked(t) = {Native(t, g) : g \in InSet(keys[t])}
      BY AskedImage
    <3>3. Heard(t)' = Heard(t) \ {Native(t, f)}
      BY <1>1, HeardLess
    <3>4. CASE t = "click"
      <4>1. \A g : Native(t, g) = Native(t, f) => g = f
        BY <3>4, NativeApart
      <4>. QED  BY <2>1, <2>2, <3>1, <3>2, <3>3, <4>1
    <3>5. CASE t = "mouseenter"
      <4>1. ~(Len(keys[t]) > 1)
        BY <1>1, <2>2, <3>5
      <4>2. InSet(keys[t]) \ {f} = {}
        BY <1>1, <1>3, <4>1, TypeLists DEF InSet, InSeq
      <4>3. \A g : Native(t, g) = Native(t, f)
        BY <3>5, NativeApart
      <4>. QED  BY <2>1, <2>2, <3>1, <3>2, <3>3, <4>2, <4>3
    <3>. QED  BY <3>4, <3>5, TypeLists
  <2>3. CASE u # t
    BY <1>1, <1>5, <2>1, <2>3, HeardLess, KeptAsked, TypeLists
  <2>. QED  BY <2>2, <2>3
<1>8. keys'["onComplete"] = keys["onComplete"]
  BY <1>5 DEF Types, Lists
<1>. QED  BY <1>2, <1>6, <1>7, <1>8, EventsStep

\* What removeEvents leaves: no function of T, and what those of it that it met,
\* the first among them, had in the browser gone.
LEMMA ForgottenOK ==
  ASSUME ElementsOK, NEW T \in SUBSET Types, kind = "events", Forgotten(T), UNCHANGED kind
  PROVE  ElementsOK'
<1>1. /\ keys' = [t \in DOMAIN keys |-> IF t \in T THEN <<>> ELSE keys[t]]
      /\ native' = native \ UNION {{Native(t, f) : f \in Met(t)} : t \in T}
      /\ leaked' = leaked \cup {t \in T : t = "click" /\ Len(keys[t]) > 1}
      /\ UNCHANGED <<readyVars, groupVars, imageVars>>
  BY DEF Forgotten
<1>2. keys \in [Lists -> Seq(Fns)] /\ \A u \in Types : OnceEach(keys[u])
  BY DEF ElementsOK, KeysOK
<1>3. /\ \A u \in T : keys'[u] = <<>>
      /\ \A u \in Lists \ T : keys'[u] = keys[u]
      /\ DOMAIN keys' = Lists
  BY <1>1, <1>2, TypeLists
<1>4. KeysOK'
  <2>1. ASSUME NEW u \in Lists
        PROVE  keys'[u] \in Seq(Fns)
    <3>1. <<>> \in Seq(Fns) /\ keys[u] \in Seq(Fns)
      BY <1>2
    <3>. QED  BY <1>3, <3>1
  <2>2. \A u \in Types : OnceEach(keys'[u])
    BY <1>2, <1>3, TypeLists DEF OnceEach
  <2>3. keys' = [u \in Lists |-> keys'[u]]
    BY <1>1, <1>3
  <2>. QED  BY <2>1, <2>2, <2>3 DEF KeysOK
<1>5. \A t \in Types : Met(t) \subseteq InSet(keys[t]) /\ InSet(keys[t]) \subseteq Fns
  BY <1>2, TypeLists, KeysWithin DEF Met, InSet
<1>6. ASSUME NEW u \in Types \ leaked'
      PROVE  Asked(u)' = Heard(u)'
  <2>1. Asked(u) = Heard(u)
    BY <1>1, NativeByHeard DEF ElementsOK, EventsWhenDue
  <2>2. Asked(u) = {Native(u, g) : g \in InSet(keys[u])}
    BY AskedImage
  <2>3. CASE u \in T
    <3>1. Asked(u)' = {}
      BY <1>3, <2>3 DEF Asked
    <3>2. Asked(u) \subseteq {Native(u, f) : f \in Met(u)}
      <4>1. CASE keys[u] = <<>>
        BY <4>1 DEF Asked
      <4>2. CASE keys[u] # <<>>
        <5>1. keys[u][1] \in Met(u) /\ 1 \in DOMAIN keys[u]
          BY <1>2, <4>2, TypeLists DEF Met
        <5>2. CASE u = "click"
          <6>1. ~(Len(keys[u]) > 1)
            BY <1>1, <2>3, <5>2
          <6>2. \A i \in DOMAIN keys[u] : i = 1
            BY <1>2, <6>1, TypeLists
          <6>. QED  BY <5>1, <6>2 DEF Asked
        <5>3. CASE u = "mouseenter"
          BY <2>2, <5>1, <5>3, NativeApart
        <5>. QED  BY <5>2, <5>3, TypeLists
      <4>. QED  BY <4>1, <4>2
    <3>3. Heard(u)' = {}
      BY <1>1, <2>1, <2>3, <3>2 DEF Heard
    <3>. QED  BY <3>1, <3>3
  <2>4. CASE u \notin T
    <3>1. ASSUME NEW p \in native, NEW t \in T, NEW f \in Met(t), p = Native(t, f), NEW g \in Fns, p = Native(u, g)
          PROVE  FALSE
      <4>1. t # u
        BY <2>4
      <4>. QED  BY <3>1, <4>1, NativeApart, TypeLists
    <3>2. Heard(u)' = Heard(u)
      BY <1>1, <3>1 DEF Heard
    <3>3. Asked(u)' = Asked(u)
      BY <1>3, <2>4, TypeLists, KeptAsked
    <3>. QED  BY <2>1, <3>2, <3>3
  <2>. QED  BY <2>3, <2>4
<1>7. keys'["onComplete"] = keys["onComplete"]
  BY <1>3 DEF Types, Lists
<1>. QED  BY <1>1, <1>4, <1>6, <1>7, EventsStep

LEMMA CloneEventsOK ==
  ASSUME ElementsOK, CloneEvents, UNCHANGED kind
  PROVE  ElementsOK'
<1>. DEFINE New(t) == {f \in Fns : ~InSeq(f, keys[t])}
            More(t) == CHOOSE s \in [1..Cardinality(New(t)) -> New(t)] : InSet(s) = New(t)
<1>1. PICK t \in Types :
        /\ New(t) # {}
        /\ keys' = [keys EXCEPT ![t] = @ \o More(t)]
        /\ native' = Listening(t, New(t))
  BY DEF CloneEvents, InSet
<1>2. kind = "events" /\ UNCHANGED <<leaked, readyVars, groupVars, imageVars>>
  BY DEF CloneEvents
<1>3. keys \in [Lists -> Seq(Fns)] /\ \A u \in Types : OnceEach(keys[u])
  BY DEF ElementsOK, KeysOK
<1>4. IsFiniteSet(New(t))
  BY ElementsAssumption, FS_Subset
<1>5. Cardinality(New(t)) \in Nat
  BY <1>4, FS_CardinalityType
<1>6. More(t) \in [1..Cardinality(New(t)) -> New(t)] /\ InSet(More(t)) = New(t)
  <2>1. PICK b : b \in Bijection(1..Cardinality(New(t)), New(t))
    BY <1>4, FS_CardinalityType DEF ExistsBijection
  <2>2. b \in [1..Cardinality(New(t)) -> New(t)] /\ InSet(b) = New(t)
    BY <2>1 DEF Bijection, Injection, Surjection, InSet
  <2>. QED  BY <2>2
<1>7. OnceEach(More(t))
  <2>. DEFINE m == More(t)
  <2>1. m \in Surjection(1..Cardinality(New(t)), New(t))
    BY <1>6 DEF Surjection, InSet
  <2>2. m \in Injection(1..Cardinality(New(t)), New(t))
    <3>1. IsFiniteSet(1..Cardinality(New(t))) /\ Cardinality(1..Cardinality(New(t))) = Cardinality(New(t))
      BY <1>5, FS_Interval
    <3>. QED  BY <1>4, <2>1, <3>1, FS_SurjSameCardinalityImpliesInj
  <2>3. DOMAIN m = 1..Cardinality(New(t)) /\ IsInjective(m)
    BY <1>6, <2>2 DEF Injection
  <2>. HIDE DEF m
  <2>4. OnceEach(m)
    BY <2>3 DEF IsInjective, OnceEach
  <2>. QED  BY <2>4 DEF m
<1>8. /\ keys[t] \o More(t) \in Seq(Fns) /\ OnceEach(keys[t] \o More(t))
      /\ InSet(keys[t] \o More(t)) = InSet(keys[t]) \cup New(t)
  <2>1. keys[t] \in Seq(Fns) /\ OnceEach(keys[t])
    BY <1>3, TypeLists
  <2>2. More(t) \in Seq(Fns)
    <3>. DEFINE m == More(t)
    <3>1. m \in [1..Cardinality(New(t)) -> Fns]
      BY <1>6
    <3>. HIDE DEF m
    <3>2. m \in Seq(Fns)
      BY <1>5, <3>1, SeqDef
    <3>. QED  BY <3>2 DEF m
  <2>3. InSet(keys[t]) \cap InSet(More(t)) = {}
    BY <1>6, <2>1, KeysWithin
  <2>. HIDE DEF More
  <2>. QED  BY <1>6, <1>7, <2>1, <2>2, <2>3, JoinedKeys
<1>. HIDE DEF More
<1>9. keys'[t] = keys[t] \o More(t) /\ \A u \in Lists \ {t} : keys'[u] = keys[u]
  BY <1>1, <1>3, TypeLists
<1>10. KeysOK'
  BY <1>1, <1>3, <1>8, <1>9, TypeLists DEF KeysOK
<1>11. ASSUME NEW u \in Types \ leaked'
       PROVE  Asked(u)' = Heard(u)'
  <2>1. Asked(u) = Heard(u)
    BY <1>2, NativeByHeard DEF ElementsOK, EventsWhenDue
  <2>2. CASE u = t
    <3>1. Asked(t)' = {Native(t, g) : g \in InSet(keys'[t])}
      BY DEF Asked, InSet
    <3>2. Asked(t) = {Native(t, g) : g \in InSet(keys[t])}
      BY AskedImage
    <3>3. Heard(t)' = Heard(t) \cup {Native(t, g) : g \in New(t)}
      BY <1>1, HeardAdded
    <3>. QED  BY <1>8, <1>9, <2>1, <2>2, <3>1, <3>2, <3>3
  <2>3. CASE u # t
    BY <1>1, <1>9, <2>1, <2>3, HeardAdded, KeptAsked, TypeLists
  <2>. QED  BY <2>2, <2>3
<1>12. keys'["onComplete"] = keys["onComplete"]
  BY <1>9 DEF Types, Lists
<1>. QED  BY <1>2, <1>10, <1>11, <1>12, EventsStep

\* A step of domready that leaves the rest alone.
LEMMA ReadyStep ==
  ASSUME ElementsOK, kind = "domready", UNCHANGED <<kind, native, leaked, groupVars, imageVars>>,
         keys' \in [Lists -> Seq(Fns)], \A t \in Lists \ {"domready"} : keys'[t] = keys[t],
         ReadyTypeOK', ReadyOnce'
  PROVE  ElementsOK'
<1>1. KeysOK'
  BY DEF ElementsOK, KeysOK, Types, Lists
<1>2. NativeIsKeys'
  BY DEF NativeIsKeys
<1>3. GroupInStep'
  BY GroupSame DEF ElementsOK, EventsWhenDue, Lists
<1>4. ImagesOK' /\ ImagesComplete'
  BY ImagesSame DEF ElementsOK, EventsWhenDue
<1>. QED  BY <1>1, <1>2, <1>3, <1>4 DEF ElementsOK, EventsWhenDue

LEMMA AddReadyOK ==
  ASSUME ElementsOK, AddReady, UNCHANGED kind
  PROVE  ElementsOK'
<1>1. PICK f \in Fns :
        /\ ~InSeq(f, keys["domready"])
        /\ keys' = [keys EXCEPT !["domready"] = Append(@, f)]
        /\ IF loaded THEN calls' = Called(f) /\ UNCHANGED <<polls, pollTimer, late>>
           ELSE /\ polls' = IF webkit THEN polls + 1 ELSE polls
                /\ pollTimer' = webkit
                /\ late' = IF stage = 2 /\ ~webkit THEN late \cup {f} ELSE late
                /\ UNCHANGED calls
  BY DEF AddReady
<1>2. kind = "domready" /\ UNCHANGED <<native, leaked, loaded, stage, webkit, groupVars, imageVars>>
  BY DEF AddReady
<1>3. keys \in [Lists -> Seq(Fns)] /\ ReadyTypeOK /\ ReadyOnce
  BY DEF ElementsOK, KeysOK, EventsWhenDue
<1>. DEFINE old == keys["domready"]
<1>4. /\ old \in Seq(Fns) /\ Append(old, f) \in Seq(Fns)
      /\ InSet(Append(old, f)) = InSet(old) \cup {f}
  BY <1>1, <1>3, AppendedKeys DEF Lists
<1>5. /\ keys' \in [Lists -> Seq(Fns)] /\ keys'["domready"] = Append(old, f)
      /\ \A t \in Lists \ {"domready"} : keys'[t] = keys[t]
  BY <1>1, <1>3, <1>4 DEF Lists
<1>6. \A g : InSeq(g, keys'["domready"]) <=> InSeq(g, old) \/ g = f
  BY <1>4, <1>5, KeysWithin
<1>7. CASE loaded
  <2>1. calls' = [calls EXCEPT ![f] = @ + 1] /\ UNCHANGED <<polls, pollTimer>>
    BY <1>1, <1>7 DEF Called
  <2>2. calls' \in [Fns -> Nat] /\ calls'[f] = calls[f] + 1 /\ \A g \in Fns \ {f} : calls'[g] = calls[g]
    BY <1>3, <2>1 DEF ReadyTypeOK
  <2>3. ReadyTypeOK'
    BY <1>2, <1>3, <2>1, <2>2 DEF ReadyTypeOK
  <2>4. calls[f] = 0 /\ \A g \in Fns : calls[g] = IF InSeq(g, old) THEN 1 ELSE 0
    BY <1>1, <1>2, <1>3, <1>7 DEF ReadyOnce
  <2>5. \A g \in Fns : calls'[g] = IF InSeq(g, keys'["domready"]) THEN 1 ELSE 0
    BY <1>6, <2>2, <2>4
  <2>6. ReadyOnce'
    BY <1>2, <1>7, <2>5 DEF ReadyOnce
  <2>. QED  BY <1>2, <1>5, <2>3, <2>6, ReadyStep
<1>8. CASE ~loaded
  <2>1. /\ polls' = (IF webkit THEN polls + 1 ELSE polls) /\ pollTimer' = webkit
        /\ late' = (IF stage = 2 /\ ~webkit THEN late \cup {f} ELSE late) /\ UNCHANGED calls
    BY <1>1, <1>8
  <2>2. polls \in Int /\ polls >= 0 /\ webkit \in BOOLEAN
    BY <1>3, <1>8 DEF ReadyTypeOK
  <2>3. polls' \in Int /\ polls' >= 0 /\ (webkit => polls' > 0)
    BY <2>1, <2>2
  <2>4. ReadyTypeOK'
    BY <1>2, <1>3, <2>1, <2>2, <2>3 DEF ReadyTypeOK
  <2>5. ASSUME stage = 2, ~webkit, NEW g \in Fns \ late', InSeq(g, keys'["domready"])
        PROVE  calls'[g] = 1
    <3>1. g \in Fns \ late /\ InSeq(g, old)
      BY <1>6, <2>1, <2>5
    <3>. QED  BY <1>2, <1>3, <2>1, <2>5, <3>1 DEF ReadyOnce
  <2>6. ReadyOnce'
    BY <1>2, <1>3, <1>8, <2>1, <2>3, <2>5 DEF ReadyOnce
  <2>. QED  BY <1>2, <1>5, <2>4, <2>6, ReadyStep
<1>. QED  BY <1>7, <1>8

\* domReady() calls all the functions that are there.
LEMMA DomReadyOK ==
  ASSUME ElementsOK, kind = "domready", DomReady,
         UNCHANGED <<kind, keys, native, leaked, webkit, groupVars, imageVars>>
  PROVE  ElementsOK'
<1>1. /\ ~loaded /\ loaded' = TRUE
      /\ polls' = IF pollTimer THEN polls - 1 ELSE polls
      /\ pollTimer' = FALSE
      /\ calls' = [f \in Fns |-> IF InSeq(f, keys["domready"]) THEN calls[f] + 1 ELSE calls[f]]
  BY DEF DomReady, Unready
<1>3. keys \in [Lists -> Seq(Fns)] /\ ReadyTypeOK /\ ReadyOnce
  BY DEF ElementsOK, KeysOK, EventsWhenDue
<1>4. \A f \in Fns : calls[f] = 0
  BY <1>1, <1>3 DEF ReadyOnce
<1>5. calls' \in [Fns -> Nat] /\ \A f \in Fns : calls'[f] = IF InSeq(f, keys["domready"]) THEN 1 ELSE 0
  BY <1>1, <1>4
<1>6. polls' \in Int
  BY <1>1, <1>3 DEF ReadyTypeOK
<1>7. ReadyTypeOK'
  BY <1>1, <1>3, <1>5, <1>6 DEF ReadyTypeOK
<1>8. ReadyOnce'
  BY <1>1, <1>5 DEF ReadyOnce
<1>. QED  BY <1>3, <1>7, <1>8, ReadyStep

LEMMA DocumentEventOK ==
  ASSUME ElementsOK, DocumentEvent, UNCHANGED kind
  PROVE  ElementsOK'
<1>1. kind = "domready" /\ UNCHANGED <<keys, native, leaked, webkit, late, groupVars, imageVars>>
  BY DEF DocumentEvent, eventVars
<1>2. CASE webkit \/ loaded \/ keys["domready"] = <<>>
  <2>1. UNCHANGED <<loaded, polls, pollTimer, calls>>
    BY <1>2 DEF DocumentEvent
  <2>2. keys \in [Lists -> Seq(Fns)] /\ ReadyTypeOK /\ ReadyOnce
    BY DEF ElementsOK, KeysOK, EventsWhenDue
  <2>3. ReadyTypeOK'
    BY <1>1, <2>1, <2>2 DEF ReadyTypeOK
  <2>4. ReadyOnce'
    <3>1. keys["domready"] = <<>> => \A f \in Fns : ~InSeq(f, keys["domready"])
      BY DEF InSeq
    <3>. QED  BY <1>1, <1>2, <2>1, <2>2, <3>1 DEF ReadyOnce
  <2>. QED  BY <1>1, <2>2, <2>3, <2>4, ReadyStep
<1>3. CASE ~(webkit \/ loaded \/ keys["domready"] = <<>>)
  BY <1>1, <1>3, DomReadyOK DEF DocumentEvent
<1>. QED  BY <1>2, <1>3

LEMMA PollReadyOK ==
  ASSUME ElementsOK, PollReady, UNCHANGED kind
  PROVE  ElementsOK'
BY DomReadyOK DEF PollReady, eventVars

\* A step of a group that leaves the rest alone.
LEMMA GroupStep ==
  ASSUME ElementsOK, kind = "group", UNCHANGED <<kind, native, leaked, readyVars, imageVars>>,
         keys' \in [Lists -> Seq(Fns)], \A t \in Lists \ {"onComplete"} : keys'[t] = keys[t],
         GroupInStep'
  PROVE  ElementsOK'
<1>1. KeysOK'
  BY DEF ElementsOK, KeysOK, Types, Lists
<1>2. NativeIsKeys'
  BY DEF NativeIsKeys
<1>3. ReadyTypeOK' /\ ReadyOnce'
  BY ReadySame DEF ElementsOK
<1>4. ImagesOK' /\ ImagesComplete'
  BY ImagesSame DEF ElementsOK, EventsWhenDue
<1>. QED  BY <1>1, <1>2, <1>3, <1>4 DEF ElementsOK, EventsWhenDue

LEMMA GroupAddOK ==
  ASSUME ElementsOK, GroupAdd, UNCHANGED kind
  PROVE  ElementsOK'
<1>1. PICK f \in Fns : /\ ~InSeq(f, keys["onComplete"])
                       /\ keys' = [keys EXCEPT !["onComplete"] = Append(@, f)]
  BY DEF GroupAdd
<1>2. kind = "group" /\ UNCHANGED <<native, leaked, readyVars, groupVars, imageVars>>
  BY DEF GroupAdd
<1>3. keys \in [Lists -> Seq(Fns)] /\ keys["onComplete"] \in Seq(Fns) /\ GroupInStep
  BY DEF ElementsOK, KeysOK, EventsWhenDue, Lists
<1>4. /\ keys' \in [Lists -> Seq(Fns)] /\ keys'["onComplete"] = Append(keys["onComplete"], f)
      /\ \A t \in Lists \ {"onComplete"} : keys'[t] = keys[t]
  BY <1>1, <1>3 DEF Lists
<1>5. Len(keys'["onComplete"]) <= 1 => Len(keys["onComplete"]) <= 1
  BY <1>3, <1>4
<1>6. GroupInStep'
  BY <1>2, <1>3, <1>5 DEF GroupInStep, groupVars
<1>. QED  BY <1>2, <1>4, <1>6, GroupStep

LEMMA InstanceFiresOK ==
  ASSUME ElementsOK, InstanceFires, UNCHANGED kind
  PROVE  ElementsOK'
<1>. DEFINE n == Len(keys["onComplete"])
            Checks(i) == CHOOSE c : c = [k \in 0..n |-> IF k = 0 THEN checker ELSE Check(c[k - 1], i)]
            Full(i) == \E k \in 0..(n - 1) : Checks(i)[k] \cup {i} = Instances
<1>1. PICK i \in Instances :
        /\ n > 0
        /\ checker' = Checks(i)[n]
        /\ since' = IF Full(i) THEN {} ELSE since \cup {i}
        /\ early' = (early \/ (Full(i) /\ since \cup {i} # Instances))
  BY DEF InstanceFires
<1>2. kind = "group" /\ UNCHANGED <<keys, native, leaked, readyVars, imageVars>>
  BY DEF InstanceFires, eventVars
<1>3. keys \in [Lists -> Seq(Fns)] /\ keys["onComplete"] \in Seq(Fns) /\ GroupInStep
  BY DEF ElementsOK, KeysOK, EventsWhenDue, Lists
<1>4. ASSUME n <= 1
      PROVE  checker' = since' /\ ~early'
  <2>1. n = 1 /\ checker = since /\ ~early
    <3>1. n \in Nat
      BY <1>3
    <3>2. n > 0
      BY <1>1
    <3>. HIDE DEF n
    <3>3. n = 1
      BY <1>4, <3>1, <3>2
    <3>4. checker = since /\ ~early
      BY <1>3, <1>4 DEF GroupInStep, n
    <3>. QED  BY <3>3, <3>4
  <2>. DEFINE c == [k \in 0..n |-> IF k = 0 THEN checker ELSE Check(checker, i)]
  <2>2. c = [k \in 0..n |-> IF k = 0 THEN checker ELSE Check(c[k - 1], i)]
    BY <2>1
  <2>3. Checks(i) = [k \in 0..n |-> IF k = 0 THEN checker ELSE Check(Checks(i)[k - 1], i)]
    BY <2>2
  <2>. HIDE DEF Checks
  <2>4. Checks(i)[0] = checker /\ Checks(i)[1] = Check(checker, i)
    <3>1. 0 \in 0..n /\ 1 \in 0..n
      BY <2>1
    <3>. QED  BY <2>3, <3>1
  <2>5. Full(i) <=> checker \cup {i} = Instances
    BY <2>1, <2>4
  <2>. QED  BY <1>1, <2>1, <2>4, <2>5 DEF Check
<1>5. GroupInStep'
  BY <1>2, <1>4 DEF GroupInStep
<1>. QED  BY <1>2, <1>3, <1>5, GroupStep

\* A step of the images that leaves the rest alone.
LEMMA ImagesStep ==
  ASSUME ElementsOK, kind = "images", UNCHANGED <<kind, eventVars, readyVars, groupVars>>,
         ImagesOK', ImagesComplete'
  PROVE  ElementsOK'
<1>1. KeysOK'
  BY DEF ElementsOK, KeysOK, eventVars
<1>2. NativeIsKeys'
  BY DEF NativeIsKeys
<1>3. ReadyTypeOK' /\ ReadyOnce'
  BY ReadySame DEF ElementsOK
<1>4. GroupInStep'
  BY GroupSame DEF ElementsOK, EventsWhenDue, eventVars
<1>. QED  BY <1>1, <1>2, <1>3, <1>4 DEF ElementsOK, EventsWhenDue

\* One more load is counted.
LEMMA CountedLoad ==
  ASSUME ElementsOK, OnLoad
  PROVE  /\ counter' = counter + 1 /\ counter' \in Nat /\ completes' \in Nat
         /\ completes' = IF counter + 1 = Cardinality(Images) THEN completes + 1 ELSE completes
BY DEF ElementsOK, ImagesOK, OnLoad

\* One image more is counted: the last of them completes.
LEMMA CountsOne ==
  ASSUME ElementsOK, NEW i \in Images, i \notin Counted, Counted' = Counted \cup {i},
         OnLoad, twice = {}
  PROVE  counter' = Cardinality(Counted') /\ ImagesComplete'
<1>1. IsFiniteSet(Counted) /\ Counted \subseteq Images /\ Counted' \subseteq Images
  <2>1. Counted \subseteq Images
    BY DEF Counted
  <2>. QED  BY <2>1, ElementsAssumption, FS_Subset
<1>2. counter = Cardinality(Counted) /\ completes = 0 /\ counter \in Nat
  BY DEF ElementsOK, ImagesOK, EventsWhenDue, ImagesComplete
<1>3. counter' = counter + 1 /\ completes' = IF counter + 1 = Cardinality(Images) THEN 1 ELSE 0
  BY <1>2, CountedLoad
<1>4. Cardinality(Counted') = Cardinality(Counted) + 1
  BY <1>1, FS_AddElement
<1>5. Counted' = Images <=> Cardinality(Counted') = Cardinality(Images)
  BY <1>1, ElementsAssumption, FS_Subset
<1>. QED  BY <1>2, <1>3, <1>4, <1>5 DEF ImagesComplete

LEMMA LoadsOK ==
  ASSUME ElementsOK, Loads, UNCHANGED kind
  PROVE  ElementsOK'
<1>1. PICK i \in Images :
        /\ status[i] = "loading"
        /\ \/ /\ status' = [status EXCEPT ![i] = "loaded"]
              /\ IF i \in cached \ delayed THEN UNCHANGED <<counter, completes>> ELSE OnLoad
           \/ /\ i \notin cached
              /\ status' = [status EXCEPT ![i] = "failed"]
              /\ UNCHANGED <<counter, completes>>
  BY DEF Loads
<1>2. kind = "images" /\ UNCHANGED <<cached, delayed, twice, eventVars, readyVars, groupVars>>
  BY DEF Loads
<1>3. ImagesOK /\ ImagesComplete
  BY DEF ElementsOK, EventsWhenDue
<1>4. /\ status' \in [Images -> {"loading", "loaded", "failed"}]
      /\ \A j \in Images \ {i} : status'[j] = status[j]
  BY <1>1, <1>3 DEF ImagesOK
<1>5. CASE UNCHANGED <<counter, completes>> /\ (status'[i] = "loaded" => i \in cached \ delayed)
  <2>1. Counted' = Counted
    BY <1>1, <1>2, <1>4, <1>5 DEF Counted
  <2>2. ImagesOK'
    BY <1>2, <1>3, <1>4, <1>5, <2>1 DEF ImagesOK
  <2>3. ImagesComplete'
    BY <1>2, <1>3, <1>5, <2>1 DEF ImagesComplete
  <2>. QED  BY <1>2, <2>2, <2>3, ImagesStep
<1>6. CASE OnLoad /\ status'[i] = "loaded" /\ i \notin cached \ delayed
  <2>1. i \notin Counted /\ Counted' = Counted \cup {i}
    BY <1>1, <1>2, <1>4, <1>6 DEF Counted
  <2>2. twice = {} => counter' = Cardinality(Counted') /\ ImagesComplete'
    BY <1>6, <2>1, CountsOne
  <2>3. counter' \in Nat /\ completes' \in Nat
    BY <1>6, CountedLoad
  <2>4. ImagesOK'
    BY <1>2, <1>3, <1>4, <2>2, <2>3 DEF ImagesOK
  <2>5. ImagesComplete'
    BY <1>2, <2>2 DEF ImagesComplete
  <2>. QED  BY <1>2, <2>4, <2>5, ImagesStep
<1>7. status'[i] = "loaded" \/ status'[i] = "failed"
  BY <1>1, <1>3 DEF ImagesOK
<1>. QED  BY <1>1, <1>3, <1>5, <1>6, <1>7 DEF ImagesOK

LEMMA DelayedLoadOK ==
  ASSUME ElementsOK, DelayedLoad, UNCHANGED kind
  PROVE  ElementsOK'
<1>1. PICK i \in delayed :
        /\ delayed' = delayed \ {i} /\ OnLoad
        /\ twice' = IF status[i] = "loaded" THEN twice \cup {i} ELSE twice
  BY DEF DelayedLoad
<1>2. kind = "images" /\ UNCHANGED <<status, cached, eventVars, readyVars, groupVars>>
  BY DEF DelayedLoad
<1>3. ImagesOK /\ i \in Images /\ i \in cached
  BY <1>1 DEF ElementsOK, ImagesOK
<1>4. ASSUME twice' = {}
      PROVE  counter' = Cardinality(Counted') /\ ImagesComplete'
  <2>1. twice = {} /\ i \notin Counted
    BY <1>1, <1>4 DEF Counted
  <2>2. Counted' = Counted \cup {i}
    BY <1>1, <1>2, <1>3 DEF Counted
  <2>. QED  BY <1>1, <1>3, <2>1, <2>2, CountsOne
<1>5. counter' \in Nat /\ completes' \in Nat
  BY <1>1, CountedLoad
<1>6. ImagesOK'
  BY <1>1, <1>2, <1>3, <1>4, <1>5 DEF ImagesOK
<1>7. ImagesComplete'
  BY <1>4 DEF ImagesComplete
<1>. QED  BY <1>2, <1>6, <1>7, ImagesStep

LEMMA ElementsNextOK == ElementsOK /\ ElementsNext /\ UNCHANGED kind => ElementsOK'
<1>. SUFFICES ASSUME ElementsOK, ElementsNext, UNCHANGED kind PROVE ElementsOK'
  OBVIOUS
<1>1. CASE RemoveEvents
  <2>1. PICK t \in Types : Forgotten({t}) /\ kind = "events"
    BY <1>1 DEF RemoveEvents
  <2>. QED  BY <2>1, ForgottenOK
<1>2. CASE Trash
  BY <1>2, ForgottenOK DEF Trash
<1>. QED  BY <1>1, <1>2, AddEventOK, RemoveEventOK, CloneEventsOK, AddReadyOK, DocumentEventOK, PollReadyOK,
            GroupAddOK, InstanceFiresOK, LoadsOK, DelayedLoadOK DEF ElementsNext

LEMMA ElementsSame == ElementsOK /\ UNCHANGED <<kind, elementVars>> => ElementsOK'
<1>. SUFFICES ASSUME ElementsOK, UNCHANGED <<kind, elementVars>> PROVE ElementsOK'
  OBVIOUS
<1>1. UNCHANGED <<kind, eventVars, readyVars, groupVars, imageVars>>
  BY DEF elementVars
<1>2. KeysOK' /\ NativeIsKeys'
  <2>1. keys' = keys /\ native' = native /\ leaked' = leaked /\ kind' = kind
    BY <1>1 DEF eventVars
  <2>2. KeysOK'
    BY <2>1 DEF ElementsOK, KeysOK
  <2>3. kind = "events" => \A t \in Types \ leaked : Asked(t) = Heard(t)
    BY NativeByHeard DEF ElementsOK, EventsWhenDue
  <2>4. \A t : Asked(t)' = Asked(t) /\ Heard(t)' = Heard(t)
    BY <2>1 DEF Asked, Heard
  <2>5. kind' = "events" => \A t \in Types \ leaked' : Asked(t)' = Heard(t)'
    BY <2>1, <2>3, <2>4
  <2>6. NativeIsKeys'
    BY <2>5 DEF NativeIsKeys, Asked, Heard
  <2>. QED  BY <2>2, <2>6
<1>3. ReadyTypeOK' /\ ReadyOnce'
  BY <1>1 DEF ElementsOK, ReadyTypeOK, readyVars, eventVars, EventsWhenDue, ReadyOnce
<1>4. GroupInStep'
  BY <1>1, GroupSame DEF ElementsOK, EventsWhenDue, eventVars
<1>5. ImagesOK' /\ ImagesComplete'
  BY <1>1, ImagesSame DEF ElementsOK, EventsWhenDue
<1>. QED  BY <1>2, <1>3, <1>4, <1>5 DEF ElementsOK, EventsWhenDue

-----------------------------------------------------------------------------
(***************************************************************************)
(* Requests.                                                               *)
(***************************************************************************)
Fates == {"running", "done", "cancelled", "failed"}
DoneOf(f) == {n \in DOMAIN f : f[n] = "done"}

\* Of the requests f, none runs but the last, and that one if r.
RunsLast(f, r) ==
  /\ \A n \in DOMAIN f : f[n] = "running" => n = Len(f) /\ r
  /\ r => Len(f) > 0 /\ f[Len(f)] = "running"

\* A timeout is for an answer that came; onComplete's is after those that were
\* completed, and its scripts were run or are due before it.
DueOK ==
  /\ due \subseteq [n : Nat, does : {"eval", "link", "complete"}]
  /\ \A t \in due : t.n \in Done
  /\ kind = "json" => \A t \in due : t.does # "complete"
  /\ kind = "ajax" => \A t \in due : t.does = "complete" =>
                        t.n \in evaluated \/ [n |-> t.n, does |-> "eval"] \in due
  /\ \A t \in due, i \in DOMAIN completed : t.does = "complete" => completed[i] < t.n

RequestsOK == Requesting =>
  fate \in Seq(Fates) /\ completed \in Seq(Nat) /\ RunsLast(fate, running) /\ DueOK /\ AnswersWhenDue

LEMMA DoneIsDoneOf == Done = DoneOf(fate)
BY DEF Done, DoneOf

\* What becomes of the last request.
LEMMA LastBecomes ==
  ASSUME fate \in Seq(Fates), RunsLast(fate, TRUE), NEW what \in Fates \ {"running"}
  PROVE  /\ Becoming(what) \in Seq(Fates) /\ Len(Becoming(what)) = Last /\ Last \in Nat \ {0}
         /\ \A n \in DOMAIN Becoming(what) : Becoming(what)[n] # "running"
         /\ DoneOf(Becoming(what)) = IF what = "done" THEN Done \cup {Last} ELSE Done
         /\ \A n \in Done : n \in Nat /\ n < Last
<1>1. Last \in Nat \ {0} /\ DOMAIN fate = 1..Last /\ fate[Last] = "running"
  BY DEF Last, RunsLast
<1>2. /\ Becoming(what) \in Seq(Fates) /\ DOMAIN Becoming(what) = 1..Last
      /\ Becoming(what)[Last] = what
      /\ \A n \in 1..Last : n # Last => Becoming(what)[n] = fate[n]
  BY <1>1 DEF Becoming
<1>3. Len(Becoming(what)) = Last
  BY <1>1, <1>2
<1>4. \A n \in 1..Last : n # Last => fate[n] # "running"
  BY <1>1 DEF RunsLast, Last
<1>5. \A n \in Done : n \in 1..Last /\ n # Last
  BY <1>1 DEF Done
<1>6. DoneOf(Becoming(what)) = IF what = "done" THEN Done \cup {Last} ELSE Done
  BY <1>1, <1>2 DEF DoneOf, Done
<1>. QED  BY <1>1, <1>2, <1>3, <1>4, <1>5, <1>6

\* A request is added to some of which none runs.
LEMMA RequestAdded ==
  ASSUME NEW f \in Seq(Fates), \A n \in DOMAIN f : f[n] # "running"
  PROVE  /\ Append(f, "running") \in Seq(Fates) /\ RunsLast(Append(f, "running"), TRUE)
         /\ DoneOf(Append(f, "running")) = DoneOf(f)
         /\ RunsLast(f, FALSE)
<1>1. /\ Len(f) \in Nat /\ DOMAIN f = 1..Len(f)
      /\ Append(f, "running") \in Seq(Fates) /\ Len(Append(f, "running")) = Len(f) + 1
      /\ DOMAIN Append(f, "running") = 1..(Len(f) + 1)
      /\ Append(f, "running")[Len(f) + 1] = "running"
      /\ \A n \in 1..Len(f) : Append(f, "running")[n] = f[n]
  BY DEF Fates
<1>2. \A n \in 1..(Len(f) + 1) : n = Len(f) + 1 \/ n \in 1..Len(f)
  BY <1>1
<1>3. \A n \in 1..Len(f) : n \in 1..(Len(f) + 1)
  BY <1>1
<1>4. RunsLast(Append(f, "running"), TRUE)
  BY <1>1, <1>2 DEF RunsLast
<1>5. DoneOf(Append(f, "running")) = DoneOf(f)
  BY <1>1, <1>2, <1>3 DEF DoneOf
<1>. QED  BY <1>1, <1>4, <1>5 DEF RunsLast

\* An answer: the request is done or has failed, and it was the last.
LEMMA AnswerFate ==
  ASSUME RequestsOK, Requesting, NEW what \in {"done", "failed"}, Answered(what)
  PROVE  /\ fate' \in Seq(Fates) /\ RunsLast(fate', running')
         /\ DoneOf(fate') = IF what = "done" THEN Done \cup {Last} ELSE Done
         /\ Last \in Nat \ {0} /\ \A n \in Done : n \in Nat /\ n < Last
<1>1. running /\ fate \in Seq(Fates) /\ RunsLast(fate, TRUE)
  BY DEF RequestsOK, Answered, RunsLast
<1>2. what \in Fates \ {"running"}
  BY DEF Fates
<1>. DEFINE g == Becoming(what)
<1>3. /\ g \in Seq(Fates) /\ (\A n \in DOMAIN g : g[n] # "running")
      /\ DoneOf(g) = (IF what = "done" THEN Done \cup {Last} ELSE Done)
      /\ Last \in Nat \ {0} /\ \A n \in Done : n \in Nat /\ n < Last
  BY <1>1, <1>2, LastBecomes
<1>4. \/ fate' = g /\ running' = FALSE
      \/ fate' = Append(g, "running") /\ running' = TRUE
  BY DEF Answered, Sends
<1>. HIDE DEF g
<1>5. /\ Append(g, "running") \in Seq(Fates) /\ RunsLast(Append(g, "running"), TRUE)
      /\ DoneOf(Append(g, "running")) = DoneOf(g) /\ RunsLast(g, FALSE)
  BY <1>3, RequestAdded
<1>. QED  BY <1>3, <1>4, <1>5

\* A request that is cancelled, and one that is sent after that.
LEMMA CancelFate ==
  ASSUME RequestsOK, Requesting
  PROVE  /\ Cancelled \in Seq(Fates) /\ RunsLast(Cancelled, FALSE) /\ DoneOf(Cancelled) = Done
         /\ Append(Cancelled, "running") \in Seq(Fates)
         /\ RunsLast(Append(Cancelled, "running"), TRUE)
         /\ DoneOf(Append(Cancelled, "running")) = Done
<1>1. fate \in Seq(Fates) /\ RunsLast(fate, running)
  BY DEF RequestsOK
<1>2. /\ Cancelled \in Seq(Fates) /\ DoneOf(Cancelled) = Done
      /\ \A n \in DOMAIN Cancelled : Cancelled[n] # "running"
  <2>1. CASE running
    <3>1. RunsLast(fate, TRUE) /\ "cancelled" \in Fates \ {"running"}
      BY <1>1, <2>1 DEF RunsLast, Fates
    <3>. QED  BY <1>1, <2>1, <3>1, LastBecomes DEF Cancelled
  <2>2. CASE ~running
    BY <1>1, <2>2, DoneIsDoneOf DEF Cancelled, RunsLast
  <2>. QED  BY <2>1, <2>2
<1>. QED  BY <1>2, RequestAdded

LEMMA SameAnswers ==
  ASSUME RequestsOK, Requesting, UNCHANGED <<kind, text, due, evaluated, completed>>,
         fate' \in Seq(Fates), RunsLast(fate', running'), DoneOf(fate') = Done
  PROVE  RequestsOK'
<1>1. Done' = Done /\ Completing' = Completing
  BY DEF Done, DoneOf, Completing
<1>2. DueOK'
  BY <1>1 DEF RequestsOK, DueOK
<1>3. AnswersWhenDue'
  BY <1>1 DEF RequestsOK, AnswersWhenDue, RunsLast, Last, Requesting
<1>. QED  BY <1>2, <1>3 DEF RequestsOK, RunsLast

\* A link is the only timeout that an answer of Json.Remote may leave.
LEMMA NextRequestKind ==
  NextRequest \subseteq {Timeout("link")} /\ Timeout("link").n = Last /\ Timeout("link").does = "link"
BY DEF NextRequest, Timeout

LEMMA AjaxSuccessOK ==
  ASSUME RequestsOK, Requesting, AjaxSuccess, UNCHANGED kind
  PROVE  RequestsOK'
<1>1. /\ kind = "ajax" /\ Answered("done") /\ text' = Last
      /\ UNCHANGED completed
      /\ \E S \in {{Timeout("complete")}, {Timeout("eval"), Timeout("complete")}} :
           /\ due' = due \cup S \cup NextRequest
           /\ \/ Timeout("eval") \in S /\ UNCHANGED evaluated
              \/ evaluated' = evaluated \cup {Last}
  BY DEF AjaxSuccess
<1>2. PICK S \in {{Timeout("complete")}, {Timeout("eval"), Timeout("complete")}} :
        /\ due' = due \cup S \cup NextRequest
        /\ \/ Timeout("eval") \in S /\ UNCHANGED evaluated
           \/ evaluated' = evaluated \cup {Last}
  BY <1>1
<1>3. /\ fate' \in Seq(Fates) /\ RunsLast(fate', running')
      /\ Done' = Done \cup {Last}
      /\ Last \in Nat \ {0} /\ \A n \in Done : n \in Nat /\ n < Last
  <2>1. DoneOf(fate') = Done'
    BY DEF DoneOf, Done
  <2>. QED  BY <1>1, <2>1, AnswerFate
<1>4. DueOK /\ AnswersWhenDue /\ completed \in Seq(Nat)
  BY DEF RequestsOK
<1>5. \A t \in due' : t \in due \/ t \in S \cup {Timeout("link")}
  BY <1>2, NextRequestKind
<1>6. \A t \in S \cup {Timeout("link")} :
        /\ t \in [n : Nat, does : {"eval", "link", "complete"}]
        /\ t.n = Last /\ (t.does = "complete" => t = Timeout("complete"))
  BY <1>2, <1>3 DEF Timeout
<1>7. Timeout("complete") \in S /\ Timeout("complete").does = "complete"
  BY <1>2 DEF Timeout
<1>8. \A i \in DOMAIN completed : completed[i] \in Done
  BY <1>4, <1>1 DEF AnswersWhenDue, Requesting
<1>9. Completing' = Completing \cup {Last}
  <2>1. \A t \in S \cup NextRequest : t.n = Last
    BY <1>6, NextRequestKind
  <2>. QED  BY <1>2, <1>6, <1>7, <2>1 DEF Completing
<1>10. DueOK'
  <2>1. due' \subseteq [n : Nat, does : {"eval", "link", "complete"}]
    BY <1>4, <1>5, <1>6 DEF DueOK
  <2>2. \A t \in due' : t.n \in Done'
    BY <1>3, <1>4, <1>5, <1>6 DEF DueOK
  <2>3. ASSUME NEW t \in due', t.does = "complete"
        PROVE  t.n \in evaluated' \/ [n |-> t.n, does |-> "eval"] \in due'
    <3>1. CASE t \in due
      BY <1>1, <1>2, <1>4, <2>3, <3>1 DEF DueOK
    <3>2. CASE t \in S \cup {Timeout("link")}
      <4>1. t.n = Last
        BY <1>6, <3>2
      <4>2. Timeout("eval") = [n |-> Last, does |-> "eval"]
        BY DEF Timeout
      <4>. QED  BY <1>2, <4>1, <4>2
    <3>. QED  BY <1>5, <3>1, <3>2
  <2>4. ASSUME NEW t \in due', NEW i \in DOMAIN completed, t.does = "complete"
        PROVE  completed[i] < t.n
    <3>1. CASE t \in due
      BY <1>4, <2>4, <3>1 DEF DueOK
    <3>2. CASE t \in S \cup {Timeout("link")}
      BY <1>3, <1>6, <1>8, <3>2
    <3>. QED  BY <1>5, <3>1, <3>2
  <2>. QED  BY <1>1, <2>1, <2>2, <2>3, <2>4 DEF DueOK
<1>11. AnswersWhenDue'
  <2>1. RunsLast(fate', running')
    BY <1>3
  <2>2. /\ \A n \in DOMAIN fate' : fate'[n] = "running" => n = Last' /\ running'
        /\ running' => Last' > 0 /\ fate'[Last'] = "running"
    BY <2>1 DEF RunsLast, Last
  <2>3. text' \in Done' \cup {0} /\ \A n \in Done' : n <= text'
    BY <1>1, <1>3
  <2>4. \A i \in DOMAIN completed' : completed'[i] \in evaluated'
    BY <1>1, <1>2, <1>4 DEF AnswersWhenDue, Requesting
  <2>5. \A i, j \in DOMAIN completed' : i < j => completed'[i] < completed'[j]
    BY <1>1, <1>4 DEF AnswersWhenDue, Requesting
  <2>6. {completed'[i] : i \in DOMAIN completed'} = Done' \ Completing'
    <3>1. {completed[i] : i \in DOMAIN completed} = Done \ Completing
      BY <1>1, <1>4 DEF AnswersWhenDue, Requesting
    <3>2. Last \notin Done
      BY <1>3
    <3>. QED  BY <1>1, <1>3, <1>9, <3>1, <3>2
  <2>7. Completing' \subseteq Done'
    BY <1>1, <1>3, <1>4, <1>9 DEF AnswersWhenDue, Requesting
  <2>. QED  BY <2>2, <2>3, <2>4, <2>5, <2>6, <2>7 DEF AnswersWhenDue
<1>. QED  BY <1>1, <1>3, <1>4, <1>10, <1>11 DEF RequestsOK

\* What is appended to numbers that grow, all below it.
LEMMA AppendedGrows ==
  ASSUME NEW s \in Seq(Nat), NEW n \in Nat,
         \A i, j \in DOMAIN s : i < j => s[i] < s[j], \A i \in DOMAIN s : s[i] < n
  PROVE  /\ Append(s, n) \in Seq(Nat)
         /\ \A i, j \in DOMAIN Append(s, n) : i < j => Append(s, n)[i] < Append(s, n)[j]
         /\ \A i \in DOMAIN Append(s, n) : (i \in DOMAIN s /\ Append(s, n)[i] = s[i]) \/ Append(s, n)[i] = n
         /\ {Append(s, n)[i] : i \in DOMAIN Append(s, n)} = {s[i] : i \in DOMAIN s} \cup {n}
<1>. DEFINE r == Append(s, n)
<1>1. /\ r \in Seq(Nat) /\ DOMAIN r = 1..(Len(s) + 1) /\ DOMAIN s = 1..Len(s) /\ Len(s) \in Nat
      /\ r[Len(s) + 1] = n /\ \A i \in 1..Len(s) : r[i] = s[i]
  OBVIOUS
<1>. HIDE DEF r
<1>2. \A i \in 1..(Len(s) + 1) : i \in 1..Len(s) \/ i = Len(s) + 1
  BY <1>1
<1>3. \A i \in 1..Len(s) : i \in 1..(Len(s) + 1)
  BY <1>1
<1>4. \A i, j \in DOMAIN r : i < j => r[i] < r[j]
  <2>1. SUFFICES ASSUME NEW i \in DOMAIN r, NEW j \in DOMAIN r, i < j
                 PROVE  r[i] < r[j]
    OBVIOUS
  <2>2. i \in 1..Len(s)
    BY <1>1, <2>1
  <2>3. CASE j \in 1..Len(s)
    BY <1>1, <2>1, <2>2, <2>3
  <2>4. CASE j = Len(s) + 1
    BY <1>1, <2>1, <2>2, <2>4
  <2>. QED  BY <1>1, <1>2, <2>3, <2>4
<1>5. {r[i] : i \in DOMAIN r} = {s[i] : i \in DOMAIN s} \cup {n}
  BY <1>1, <1>2, <1>3
<1>. QED  BY <1>1, <1>2, <1>4, <1>5 DEF r

LEMMA JsonSuccessOK ==
  ASSUME RequestsOK, Requesting, JsonSuccess, UNCHANGED kind
  PROVE  RequestsOK'
<1>1. /\ kind = "json" /\ Answered("done")
      /\ completed' = Append(completed, Last)
      /\ due' = due \cup NextRequest
      /\ UNCHANGED <<text, evaluated>>
  BY DEF JsonSuccess
<1>2. /\ fate' \in Seq(Fates) /\ RunsLast(fate', running')
      /\ Done' = Done \cup {Last}
      /\ Last \in Nat \ {0} /\ \A n \in Done : n \in Nat /\ n < Last
  <2>1. DoneOf(fate') = Done'
    BY DEF DoneOf, Done
  <2>. QED  BY <1>1, <2>1, AnswerFate
<1>3. DueOK /\ AnswersWhenDue /\ completed \in Seq(Nat)
  BY DEF RequestsOK
<1>4. Completing = {} /\ {completed[i] : i \in DOMAIN completed} = Done
  <2>1. Completing = {}
    BY <1>1, <1>3 DEF Completing, DueOK
  <2>. QED  BY <1>3, <2>1 DEF AnswersWhenDue
<1>5. /\ completed' \in Seq(Nat)
      /\ \A i, j \in DOMAIN completed' : i < j => completed'[i] < completed'[j]
      /\ {completed'[i] : i \in DOMAIN completed'} = Done'
  <2>1. \A i \in DOMAIN completed : completed[i] \in Done
    BY <1>4
  <2>2. \A i \in DOMAIN completed : completed[i] < Last
    BY <1>2, <2>1
  <2>3. \A i, j \in DOMAIN completed : i < j => completed[i] < completed[j]
    BY <1>3 DEF AnswersWhenDue
  <2>4. Last \in Nat /\ completed \in Seq(Nat)
    BY <1>2, <1>3
  <2>5. /\ Append(completed, Last) \in Seq(Nat)
        /\ \A i, j \in DOMAIN Append(completed, Last) :
             i < j => Append(completed, Last)[i] < Append(completed, Last)[j]
        /\ {Append(completed, Last)[i] : i \in DOMAIN Append(completed, Last)}
             = {completed[i] : i \in DOMAIN completed} \cup {Last}
    BY <2>2, <2>3, <2>4, AppendedGrows
  <2>. QED  BY <1>1, <1>2, <1>4, <2>5
<1>6. DueOK'
  <2>1. \A t \in due' : t \in due \/ (t = Timeout("link"))
    BY <1>1, NextRequestKind
  <2>2. Timeout("link") = [n |-> Last, does |-> "link"]
    BY DEF Timeout
  <2>3. \A t \in due' : /\ t \in [n : Nat, does : {"eval", "link", "complete"}]
                        /\ t.n \in Done' /\ t.does # "complete"
    BY <1>1, <1>2, <1>3, <2>1, <2>2 DEF DueOK
  <2>. QED  BY <1>1, <2>3 DEF DueOK
<1>7. Completing' = {}
  BY <1>1, <1>6 DEF DueOK, Completing
<1>8. AnswersWhenDue'
  <2>1. /\ \A n \in DOMAIN fate' : fate'[n] = "running" => n = Last' /\ running'
        /\ running' => Last' > 0 /\ fate'[Last'] = "running"
    BY <1>2 DEF RunsLast, Last
  <2>. QED  BY <1>1, <1>5, <1>7, <2>1 DEF AnswersWhenDue
<1>. QED  BY <1>2, <1>5, <1>6, <1>8 DEF RequestsOK

LEMMA RequestsStay ==
  ASSUME RequestsOK, Requesting, UNCHANGED kind, Request \/ Cancel \/ RequestLater \/ RequestFailure
  PROVE  RequestsOK'
<1>1. UNCHANGED <<kind, text, due, evaluated, completed>>
  BY DEF Request, Cancel, RequestLater, RequestFailure
<1>2. fate' \in Seq(Fates) /\ RunsLast(fate', running') /\ DoneOf(fate') = Done
  <2>1. CASE Request
    <3>1. fate' = Append(Cancelled, "running") /\ running' = TRUE
      BY <2>1 DEF Request, Sends
    <3>. QED  BY <3>1, CancelFate
  <2>2. CASE Cancel
    <3>1. fate' = Cancelled /\ running' = FALSE
      BY <2>2 DEF Cancel
    <3>. QED  BY <3>1, CancelFate
  <2>3. CASE RequestLater
    BY <2>3, DoneIsDoneOf DEF RequestLater, RequestsOK
  <2>4. CASE RequestFailure
    BY <2>4, AnswerFate DEF RequestFailure
  <2>. QED  BY <2>1, <2>2, <2>3, <2>4
<1>. QED  BY <1>1, <1>2, SameAnswers

\* A timeout that is none of onComplete fires: of its scripts, which are run then.
LEMMA TimeoutFired ==
  ASSUME RequestsOK, Requesting, UNCHANGED <<kind, text, completed>>,
         fate' \in Seq(Fates), RunsLast(fate', running'), DoneOf(fate') = Done,
         NEW t \in due, t.does # "complete", due' = due \ {t},
         evaluated \subseteq evaluated', t.does = "eval" => t.n \in evaluated'
  PROVE  RequestsOK'
<1>1. Done' = Done
  BY DEF Done, DoneOf
<1>2. Completing' = Completing
  BY DEF Completing
<1>3. DueOK /\ AnswersWhenDue
  BY DEF RequestsOK
<1>4. DueOK'
  <2>1. ASSUME kind = "ajax", NEW u \in due', u.does = "complete"
        PROVE  u.n \in evaluated' \/ [n |-> u.n, does |-> "eval"] \in due'
    <3>1. u.n \in evaluated \/ [n |-> u.n, does |-> "eval"] \in due
      BY <1>3, <2>1 DEF DueOK
    <3>2. CASE [n |-> u.n, does |-> "eval"] = t
      BY <3>2
    <3>. QED  BY <3>1, <3>2
  <2>. QED  BY <1>1, <1>3, <2>1 DEF DueOK
<1>5. AnswersWhenDue'
  <2>1. /\ \A n \in DOMAIN fate' : fate'[n] = "running" => n = Last' /\ running'
        /\ running' => Last' > 0 /\ fate'[Last'] = "running"
    BY DEF RunsLast, Last
  <2>. QED  BY <1>1, <1>2, <1>3, <2>1 DEF AnswersWhenDue, Requesting
<1>. QED  BY <1>3, <1>4, <1>5 DEF RequestsOK

LEMMA EvalScriptsOK ==
  ASSUME RequestsOK, Requesting, EvalScripts, UNCHANGED kind
  PROVE  RequestsOK'
<1>1. PICK t \in due : /\ t.does = "eval" /\ due' = due \ {t}
                       /\ evaluated' = evaluated \cup {t.n}
  BY DEF EvalScripts, Fires
<1>2. UNCHANGED <<kind, text, running, fate, completed>>
  BY DEF EvalScripts
<1>3. fate' \in Seq(Fates) /\ RunsLast(fate', running') /\ DoneOf(fate') = Done
  BY <1>2, DoneIsDoneOf DEF RequestsOK
<1>4. t.does # "complete"
  BY <1>1
<1>. QED  BY <1>1, <1>2, <1>3, <1>4, TimeoutFired

LEMMA LinkedRequestOK ==
  ASSUME RequestsOK, Requesting, LinkedRequest, UNCHANGED kind
  PROVE  RequestsOK'
<1>1. PICK t \in due : /\ t.does = "link" /\ due' = due \ {t}
                       /\ \/ Sends(Cancelled, FALSE)
                          \/ UNCHANGED <<fate, running, deaf>>
  BY DEF LinkedRequest, Fires
<1>2. UNCHANGED <<kind, text, evaluated, completed>>
  BY DEF LinkedRequest
<1>3. fate' \in Seq(Fates) /\ RunsLast(fate', running') /\ DoneOf(fate') = Done
  <2>1. CASE Sends(Cancelled, FALSE)
    <3>1. fate' = Append(Cancelled, "running") /\ running' = TRUE
      BY <2>1 DEF Sends
    <3>. QED  BY <3>1, CancelFate
  <2>2. CASE UNCHANGED <<fate, running, deaf>>
    BY <2>2, DoneIsDoneOf DEF RequestsOK
  <2>. QED  BY <1>1, <2>1, <2>2
<1>4. t.does # "complete" /\ t.does # "eval"
  BY <1>1
<1>. QED  BY <1>1, <1>2, <1>3, <1>4, TimeoutFired

\* onComplete is called after its scripts were run, and in the order of the answers.
LEMMA CompleteOK ==
  ASSUME RequestsOK, Requesting, Complete20, UNCHANGED kind
  PROVE  RequestsOK'
<1>1. PICK t \in due : /\ t.does = "complete" /\ Earliest(t) /\ due' = due \ {t}
                       /\ completed' = Append(completed, t.n)
  BY DEF Complete20, Fires
<1>2. UNCHANGED <<kind, text, running, fate, evaluated>>
  BY DEF Complete20
<1>3. DueOK /\ AnswersWhenDue /\ completed \in Seq(Nat)
  BY DEF RequestsOK
<1>4. t \in [n : Nat, does : {"eval", "link", "complete"}] /\ t.n \in Nat /\ t.n \in Done
  BY <1>3 DEF DueOK
<1>5. kind = "ajax"
  BY <1>1, <1>3 DEF DueOK, Requesting
<1>6. \A u \in due \ {t} : u.does = "complete" => t.n < u.n
  <2>1. SUFFICES ASSUME NEW u \in due \ {t}, u.does = "complete" PROVE t.n < u.n
    OBVIOUS
  <2>2. ~(u.n <= t.n /\ Delay(u.does) <= Delay(t.does))
    BY <1>1 DEF Earliest
  <2>3. Delay(u.does) <= Delay(t.does)
    BY <1>1, <2>1 DEF Delay
  <2>4. u.n \in Nat
    BY <1>3 DEF DueOK
  <2>. QED  BY <1>4, <2>2, <2>3, <2>4
<1>7. t.n \in evaluated
  <2>. DEFINE u == [n |-> t.n, does |-> "eval"]
  <2>1. ASSUME u \in due PROVE FALSE
    <3>1. u # t
      BY <1>1
    <3>2. Delay(u.does) <= Delay(t.does) /\ u.n <= t.n
      BY <1>1, <1>4 DEF Delay
    <3>. QED  BY <1>1, <2>1, <3>1, <3>2 DEF Earliest
  <2>. QED  BY <1>1, <1>3, <1>5, <2>1 DEF DueOK
<1>8. /\ completed' \in Seq(Nat)
      /\ \A i, j \in DOMAIN completed' : i < j => completed'[i] < completed'[j]
      /\ \A i \in DOMAIN completed' : (i \in DOMAIN completed /\ completed'[i] = completed[i])
                                        \/ completed'[i] = t.n
      /\ {completed'[i] : i \in DOMAIN completed'} = {completed[i] : i \in DOMAIN completed} \cup {t.n}
  <2>1. \A i \in DOMAIN completed : completed[i] < t.n
    BY <1>1, <1>3 DEF DueOK
  <2>2. \A i, j \in DOMAIN completed : i < j => completed[i] < completed[j]
    BY <1>3 DEF AnswersWhenDue
  <2>. DEFINE r == Append(completed, t.n)
  <2>3. /\ r \in Seq(Nat) /\ (\A i, j \in DOMAIN r : i < j => r[i] < r[j])
        /\ \A i \in DOMAIN r : (i \in DOMAIN completed /\ r[i] = completed[i]) \/ r[i] = t.n
        /\ {r[i] : i \in DOMAIN r} = {completed[i] : i \in DOMAIN completed} \cup {t.n}
    BY <1>3, <1>4, <2>1, <2>2, AppendedGrows
  <2>4. completed' = r
    BY <1>1
  <2>. HIDE DEF r
  <2>. QED  BY <2>3, <2>4
<1>9. Done' = Done /\ Completing' = Completing \ {t.n}
  <2>1. Done' = Done
    BY <1>2 DEF Done
  <2>2. \A u \in due \ {t} : u.does = "complete" => u.n # t.n
    <3>1. \A u \in due \ {t} : u.n \in Nat
      BY <1>3 DEF DueOK
    <3>. QED  BY <1>4, <1>6, <3>1
  <2>3. Completing' = Completing \ {t.n}
    BY <1>1, <2>2 DEF Completing
  <2>. QED  BY <2>1, <2>3
<1>10. t.n \in Completing
  BY <1>1 DEF Completing
<1>11. DueOK'
  <2>1. ASSUME NEW u \in due', u.does = "complete"
        PROVE  u.n \in evaluated' \/ [n |-> u.n, does |-> "eval"] \in due'
    <3>1. u.n \in evaluated \/ [n |-> u.n, does |-> "eval"] \in due
      BY <1>1, <1>3, <1>5, <2>1 DEF DueOK
    <3>2. [n |-> u.n, does |-> "eval"] # t
      BY <1>1
    <3>. QED  BY <1>1, <1>2, <3>1, <3>2
  <2>2. ASSUME NEW u \in due', NEW i \in DOMAIN completed', u.does = "complete"
        PROVE  completed'[i] < u.n
    <3>1. u \in due \ {t}
      BY <1>1
    <3>2. CASE completed'[i] = t.n
      BY <1>6, <2>2, <3>1, <3>2
    <3>3. CASE i \in DOMAIN completed /\ completed'[i] = completed[i]
      BY <1>3, <2>2, <3>1, <3>3 DEF DueOK
    <3>. QED  BY <1>8, <3>2, <3>3
  <2>. QED  BY <1>1, <1>2, <1>3, <1>5, <1>9, <2>1, <2>2 DEF DueOK
<1>12. AnswersWhenDue'
  <2>1. /\ \A n \in DOMAIN fate' : fate'[n] = "running" => n = Last' /\ running'
        /\ running' => Last' > 0 /\ fate'[Last'] = "running"
    BY <1>2, <1>3 DEF AnswersWhenDue, Last
  <2>2. text' \in Done' \cup {0} /\ \A n \in Done' : n <= text'
    BY <1>2, <1>3, <1>5, <1>9 DEF AnswersWhenDue
  <2>3. \A i \in DOMAIN completed' : completed'[i] \in evaluated'
    BY <1>2, <1>3, <1>5, <1>7, <1>8 DEF AnswersWhenDue
  <2>4. {completed'[i] : i \in DOMAIN completed'} = Done' \ Completing'
    <3>1. {completed[i] : i \in DOMAIN completed} = Done \ Completing
      BY <1>3 DEF AnswersWhenDue
    <3>. QED  BY <1>4, <1>8, <1>9, <1>10, <3>1
  <2>5. Completing' \subseteq Done'
    BY <1>3, <1>9 DEF AnswersWhenDue
  <2>. QED  BY <1>8, <2>1, <2>2, <2>3, <2>4, <2>5 DEF AnswersWhenDue
<1>. QED  BY <1>2, <1>3, <1>8, <1>11, <1>12 DEF RequestsOK

LEMMA RequestsInitOK == RequestsInit => RequestsOK
<1>. SUFFICES ASSUME RequestsInit PROVE RequestsOK
  OBVIOUS
<1>1. running = FALSE /\ due = {} /\ text = 0 /\ fate = <<>> /\ completed = <<>>
  BY DEF RequestsInit
<1>2. Done = {} /\ Completing = {}
  BY <1>1 DEF Done, Completing
<1>3. RunsLast(fate, running) /\ DueOK
  BY <1>1 DEF RunsLast, DueOK
<1>4. AnswersWhenDue
  BY <1>1, <1>2 DEF AnswersWhenDue
<1>. QED  BY <1>1, <1>3, <1>4 DEF RequestsOK

LEMMA RequestsNextOK == RequestsOK /\ RequestsNext /\ UNCHANGED kind => RequestsOK'
<1>. SUFFICES ASSUME RequestsOK, RequestsNext, UNCHANGED kind, Requesting PROVE RequestsOK'
  BY DEF RequestsOK, Requesting
<1>. QED  BY RequestsStay, AjaxSuccessOK, JsonSuccessOK, EvalScriptsOK, CompleteOK, LinkedRequestOK
          DEF RequestsNext, RequestTimeout

LEMMA RequestsSame == RequestsOK /\ UNCHANGED <<kind, requestVars>> => RequestsOK'
<1>. SUFFICES ASSUME RequestsOK, UNCHANGED <<kind, requestVars>>, Requesting PROVE RequestsOK'
  BY DEF RequestsOK, Requesting
<1>1. UNCHANGED <<kind, running, text, due, fate, evaluated, completed>>
  BY DEF requestVars
<1>. QED  BY <1>1, SameAnswers, DoneIsDoneOf DEF RequestsOK

-----------------------------------------------------------------------------
\* A function is called exactly when it is due: by the browser those registered, by
\* domready, a group or Asset.images once what they wait for has happened, and of a
\* request what its answer is due, once and in order (EventsWhenDue, AnswersWhenDue),
\* whatever functions, instances and images there are and however many requests.
THEOREM CallsAreDue == Spec => []CalledWhenDue
<1>. DEFINE I == ElementsOK /\ RequestsOK
<1>1. Init => I
  BY ElementsInitOK, RequestsInitOK DEF Init
<1>2. I /\ [Next]_vars => I'
  <2>. SUFFICES ASSUME ElementsOK, RequestsOK, [Next]_vars PROVE ElementsOK' /\ RequestsOK'
    OBVIOUS
  <2>1. \/ UNCHANGED <<kind, elementVars, requestVars>>
        \/ ElementsNext /\ UNCHANGED <<kind, requestVars>>
        \/ RequestsNext /\ UNCHANGED <<kind, elementVars>>
    BY DEF Next, vars
  <2>. QED  BY <2>1, ElementsNextOK, ElementsSame, RequestsNextOK, RequestsSame
<1>3. I => CalledWhenDue
  <2>1. ElementsOK => EventsWhenDue
    BY DEF ElementsOK
  <2>2. RequestsOK => AnswersWhenDue
    BY DEF RequestsOK, AnswersWhenDue
  <2>. QED  BY <2>1, <2>2 DEF CalledWhenDue
<1>. QED  BY <1>1, <1>2, <1>3, PTL DEF Spec

-----------------------------------------------------------------------------
(***************************************************************************)
(* Mouse.                                                                  *)
(***************************************************************************)

\* The listeners a widget may have, and the widgets some variables belong to.
ListenersOK ==
  /\ Drags => docs \subseteq {"check", "drag", "stop"}
  /\ kind = "sortables" => docs \subseteq {"move", "end", "moveGhost"}
  /\ kind = "scroller" => docs \subseteq {"coord"}
  /\ ~Drags /\ kind # "sortables" /\ kind # "scroller" => docs = {}
  /\ over # 0 => kind = "tips"
  /\ kind # "sortables" => ~ghosted /\ ghosts = 0

\* What is dragged: out of the container it is over nothing; unless the slider was
\* set meanwhile, its knob is where it was dragged to.
DragOK ==
  /\ at \in Int /\ grab \in Int
  /\ kind = "drag" /\ out => overed = 0
  /\ kind = "slider" /\ held => "stop" \in docs
  /\ kind = "slider" /\ held /\ ~meddled => at = valueNow

SortOK == ghosts \in Int /\ ("moveGhost" \in docs => ghosted)

\* The timer of the tips and of the scroller names the only timeout there is.  The
\* tip that is to be shown is that of the element the mouse is over; one is to be
\* hidden when the mouse is over none, for the timeout, or with an element thrown away.
DelaysOK ==
  /\ kind \in {"tips", "scroller"} => DOMAIN delays \subseteq {delay}
  /\ kind = "scroller" => 0 \notin DOMAIN delays /\ delays = [h \in DOMAIN delays |-> delays[h]]
  /\ kind = "tips" => \A h \in DOMAIN delays :
       /\ delays[h] = "show" => over # 0 /\ tip = over /\ ~disturbed
       /\ delays[h] = "hide" => over = 0 \/ timesOut \/ disturbed

MouseOK ==
  /\ held \in BOOLEAN /\ lost \in BOOLEAN /\ ListenersOK
  /\ DragOK /\ SortOK /\ DelaysOK /\ MouseAtRest

LEMMA MouseInitOK == MouseInit => MouseOK
<1>. SUFFICES ASSUME MouseInit PROVE MouseOK
  OBVIOUS
<1>. USE DEF MouseInit, DragInit, SliderInit, SortablesInit, TipsInit, ScrollerInit
<1>1. held \in BOOLEAN /\ lost \in BOOLEAN
  OBVIOUS
<1>2. ListenersOK
  BY DEF ListenersOK
<1>3. DragOK
  BY DEF DragOK
<1>4. SortOK
  BY DEF SortOK
<1>5. DelaysOK
  BY DEF DelaysOK
<1>6. Released /\ GhostsAtRest
  BY DEF Released, GhostsAtRest
<1>7. DropsAtRest
  BY MouseAssumption DEF DropsAtRest
<1>8. SliderAtRest
  BY DEF SliderAtRest
<1>9. TipsAtRest
  BY DEF TipsAtRest
<1>. QED  BY <1>1, <1>2, <1>3, <1>4, <1>5, <1>6, <1>7, <1>8, <1>9 DEF MouseOK, MouseAtRest

\* What a step leaves as it was when it is a step of another widget.
LEMMA TipsAside ==
  ASSUME MouseOK, UNCHANGED kind, kind \notin {"tips", "scroller"}
  PROVE  DelaysOK' /\ TipsAtRest'
BY DEF DelaysOK, TipsAtRest

LEMMA DragAside ==
  ASSUME MouseOK, UNCHANGED <<kind, at, grab>>, ~Drags
  PROVE  DragOK' /\ DropsAtRest' /\ SliderAtRest'
BY DEF MouseOK, DragOK, DropsAtRest, SliderAtRest, Drags

LEMMA SortAside ==
  ASSUME MouseOK, UNCHANGED <<kind, ghosts, ghosted>>, kind # "sortables", ListenersOK'
  PROVE  SortOK' /\ GhostsAtRest'
BY DEF MouseOK, ListenersOK, SortOK, GhostsAtRest, Drags
-----------------------------------------------------------------------------
\* The numbers a place may be, and where it is put.
LEMMA PlaceTypes ==
  /\ Places \subseteq Nat /\ Limit \in Nat \ {0} /\ Grid \in Nat \ {0} /\ Steps \in Nat \ {0}
  /\ \A v \in Int : Limited(v) \in 0..Limit
BY MouseAssumption DEF Limited

LEMMA GridWithin == \A v \in 0..Limit : OnGrid(v) \in 0..Limit
<1>. SUFFICES ASSUME NEW v \in 0..Limit PROVE OnGrid(v) \in 0..Limit
  OBVIOUS
<1>1. Limit \in Nat /\ Grid \in Nat \ {0} /\ v \in Nat
  BY PlaceTypes
<1>. DEFINE q == v \div Grid
            r == v % Grid
<1>2. q \in Int /\ r \in 0..(Grid - 1) /\ v = Grid * q + r
  BY <1>1
<1>. HIDE DEF q, r
<1>3. q >= 0
  <2>1. SUFFICES ASSUME q <= -1 PROVE FALSE
    BY <1>2
  <2>2. Grid * q <= -Grid
    BY <1>1, <1>2, <2>1
  <2>. QED  BY <1>1, <1>2, <2>2
<1>4. Grid * q >= 0
  BY <1>1, <1>2, <1>3
<1>5. v - r \in 0..Limit
  BY <1>1, <1>2, <1>4
<1>. QED  BY <1>5 DEF OnGrid, r

LEMMA DivUnique ==
  ASSUME NEW a \in Int, NEW b \in Nat \ {0}, NEW q \in Int, NEW r \in 0..(b - 1), a = b * q + r
  PROVE  a \div b = q
<1>. DEFINE p == a \div b
            s == a % b
<1>1. p \in Int /\ s \in 0..(b - 1) /\ a = b * p + s
  OBVIOUS
<1>. HIDE DEF p, s
<1>2. b * (p - q) = r - s
  <2>1. b * p - b * q = r - s /\ b * (p - q) = b * p - b * q
    BY <1>1
  <2>. QED  BY <2>1
<1>3. r - s < b /\ r - s > -b
  BY <1>1
<1>4. ASSUME p - q >= 1 PROVE FALSE
  <2>1. b * (p - q) >= b
    BY <1>1, <1>4
  <2>. QED  BY <1>1, <1>2, <1>3, <2>1
<1>5. ASSUME p - q <= -1 PROVE FALSE
  <2>1. b * (p - q) <= -b
    BY <1>1, <1>5
  <2>. QED  BY <1>1, <1>2, <1>3, <2>1
<1>6. p = q
  BY <1>1, <1>4, <1>5
<1>. QED  BY <1>6 DEF p

\* A step of the slider is where toPosition() puts its knob, in whole pixels.
LEMMA StepOfPosition == \A s \in 0..Steps : ToStep((Limit * s) \div Steps) = s
<1>. SUFFICES ASSUME NEW s \in 0..Steps PROVE ToStep((Limit * s) \div Steps) = s
  OBVIOUS
<1>1. Limit \in Nat \ {0} /\ Steps \in Nat \ {0} /\ s \in Nat
  BY PlaceTypes
<1>. DEFINE k == Limit \div Steps
<1>2. k \in Int /\ Limit = Steps * k
  BY <1>1, MouseAssumption
<1>. HIDE DEF k
<1>3. (Limit * s) \div Steps = k * s
  <2>1. Limit * s \in Int /\ k * s \in Int /\ Limit * s = Steps * (k * s) + 0
    BY <1>1, <1>2
  <2>2. 0 \in 0..(Steps - 1)
    BY <1>1
  <2>. QED  BY <1>1, <2>1, <2>2, DivUnique
<1>. DEFINE a == 2 * (k * s) * Steps + Limit
            b == 2 * Limit
<1>4. a \in Int /\ b \in Nat \ {0} /\ Limit \in 0..(b - 1)
  BY <1>1, <1>2
<1>5. a = b * s + Limit
  <2>1. 2 * (k * s) * Steps = 2 * (Steps * k) * s
    BY <1>1, <1>2
  <2>. QED  BY <1>2, <2>1
<1>6. a \div b = s
  BY <1>1, <1>4, <1>5, DivUnique
<1>. QED  BY <1>3, <1>6 DEF ToStep
-----------------------------------------------------------------------------
LEMMA DragStartOK ==
  ASSUME MouseOK, DragStart, UNCHANGED kind
  PROVE  MouseOK'
<1>1. PICK m \in Places :
        /\ Pressed
        /\ docs' = docs \cup {"check", "stop"}
        /\ valueNow' = at
        /\ grab' = m - at
        /\ IF kind = "slider"
           THEN Reports(ToStep(at)) /\ meddled' = FALSE /\ UNCHANGED <<overed, previousEnd>>
           ELSE overed' = 0 /\ UNCHANGED sliderVars
  BY DEF DragStart
<1>2. Drags /\ UNCHANGED <<at, out, entered, sortVars, tipVars, scrollerVars>>
  BY DEF DragStart
<1>3. held' = TRUE /\ lost' = (lost \/ held)
  BY <1>1 DEF Pressed
<1>4. held' \in BOOLEAN /\ lost' \in BOOLEAN
  BY <1>3 DEF MouseOK
<1>5. ListenersOK'
  BY <1>1, <1>2 DEF MouseOK, ListenersOK, Drags, sortVars, tipVars
<1>6. DragOK'
  <2>1. m \in Int /\ at \in Int
    BY PlaceTypes DEF MouseOK, DragOK
  <2>. QED  BY <1>1, <1>2, <2>1 DEF DragOK, Drags
<1>7. DelaysOK' /\ TipsAtRest' /\ SortOK' /\ GhostsAtRest'
  BY <1>2, <1>5, TipsAside, SortAside DEF Drags, sortVars
<1>8. Released'
  BY <1>3 DEF Released
<1>9. DropsAtRest'
  <2>1. SUFFICES ASSUME kind = "drag" PROVE at' \in 0..Limit /\ (~lost' => entered' = {overed'} \ {0})
    BY <1>3 DEF DropsAtRest
  <2>2. overed' = 0
    BY <1>1, <2>1
  <2>. QED  BY <1>2, <1>3, <2>1, <2>2 DEF MouseOK, MouseAtRest, DropsAtRest
<1>10. SliderAtRest'
  BY <1>3 DEF SliderAtRest
<1>. QED  BY <1>4, <1>5, <1>6, <1>7, <1>8, <1>9, <1>10 DEF MouseOK, MouseAtRest

LEMMA DragMoveOK ==
  ASSUME MouseOK, DragMove, UNCHANGED kind
  PROVE  MouseOK'
<1>1. PICK m \in Places :
        /\ docs # {}
        /\ docs' \in {docs, (docs \ {"check"}) \cup {"drag"}}
        /\ Dragged(m)
  BY DEF DragMove
<1>2. Drags /\ UNCHANGED <<held, lost, sortVars, tipVars, scrollerVars>>
  BY DEF DragMove
<1>. DEFINE v == m - grab
<1>3. /\ valueNow' = OnGrid(Limited(v)) /\ at' = valueNow' /\ out' = (v # Limited(v))
      /\ overed' = IF kind = "drag" THEN Over(m, v # Limited(v)) ELSE overed
      /\ entered' = Left(overed')
      /\ kind = "slider" => meddled' = FALSE
      /\ UNCHANGED grab
  BY <1>1 DEF Dragged
<1>4. v \in Int /\ Limited(v) \in 0..Limit /\ OnGrid(Limited(v)) \in 0..Limit
  <2>1. v \in Int
    BY PlaceTypes DEF MouseOK, DragOK
  <2>. QED  BY <2>1, PlaceTypes, GridWithin
<1>. HIDE DEF v
<1>5. held
  BY <1>1 DEF MouseOK, MouseAtRest, Released
<1>6. ListenersOK'
  BY <1>1, <1>2 DEF MouseOK, ListenersOK, Drags, sortVars, tipVars
<1>7. DragOK'
  <2>1. at' \in Int /\ grab' \in Int
    BY <1>3, <1>4, PlaceTypes DEF MouseOK, DragOK
  <2>2. kind = "drag" /\ out' => overed' = 0
    BY <1>3 DEF Over
  <2>3. kind = "slider" => "stop" \in docs'
    BY <1>1, <1>5 DEF MouseOK, DragOK
  <2>. QED  BY <1>3, <2>1, <2>2, <2>3 DEF DragOK
<1>8. DelaysOK' /\ TipsAtRest' /\ SortOK' /\ GhostsAtRest'
  BY <1>2, <1>6, TipsAside, SortAside DEF Drags, sortVars
<1>9. Released' /\ SliderAtRest'
  BY <1>2, <1>5 DEF Released, SliderAtRest
<1>10. DropsAtRest'
  <2>1. SUFFICES ASSUME kind = "drag", ~lost PROVE entered' = {overed'} \ {0}
    BY <1>2, <1>3, <1>4, <1>5 DEF DropsAtRest
  <2>2. entered = {overed} \ {0}
    BY <1>5, <2>1 DEF MouseOK, MouseAtRest, DropsAtRest
  <2>. QED  BY <1>3, <2>2 DEF Left
<1>. QED  BY <1>2, <1>6, <1>7, <1>8, <1>9, <1>10 DEF MouseOK, MouseAtRest

LEMMA DragStopOK ==
  ASSUME MouseOK, DragStop, UNCHANGED kind
  PROVE  MouseOK'
<1>1. /\ Drags /\ "stop" \in docs
      /\ docs' = docs \ {"check", "drag", "stop"}
      /\ held' = FALSE
      /\ entered' = IF out THEN entered ELSE entered \ {overed}
      /\ UNCHANGED <<lost, at, valueNow, grab, out, overed, sortVars, tipVars, scrollerVars>>
  BY DEF DragStop, Unlistened
<1>2. kind = "slider" =>
        /\ step' = ToStep(valueNow) /\ previousChange' = step' /\ previousEnd' = step'
        /\ UNCHANGED meddled
  BY DEF DragStop, Reports
<1>3. held
  BY <1>1 DEF MouseOK, MouseAtRest, Released
<1>4. docs' = {}
  BY <1>1 DEF MouseOK, ListenersOK
<1>5. ListenersOK'
  BY <1>1, <1>4 DEF MouseOK, ListenersOK, Drags, sortVars, tipVars
<1>6. DragOK'
  BY <1>1 DEF MouseOK, DragOK
<1>7. DelaysOK' /\ TipsAtRest' /\ SortOK' /\ GhostsAtRest'
  BY <1>1, <1>5, TipsAside, SortAside DEF Drags, sortVars
<1>8. Released'
  BY <1>1, <1>4 DEF Released, Drags
<1>9. DropsAtRest'
  <2>1. SUFFICES ASSUME kind = "drag", ~lost PROVE entered' = {}
    BY <1>1 DEF MouseOK, MouseAtRest, DropsAtRest
  <2>2. entered = {overed} \ {0} /\ (out => overed = 0)
    BY <1>3, <2>1 DEF MouseOK, MouseAtRest, DropsAtRest, DragOK
  <2>. QED  BY <1>1, <2>2
<1>10. SliderAtRest'
  BY <1>1, <1>2, <1>3 DEF SliderAtRest, MouseOK, DragOK
<1>11. lost' \in BOOLEAN /\ held' \in BOOLEAN
  BY <1>1 DEF MouseOK
<1>. QED  BY <1>5, <1>6, <1>7, <1>8, <1>9, <1>10, <1>11 DEF MouseOK, MouseAtRest

LEMMA MouseSame ==
  ASSUME MouseOK, UNCHANGED <<kind, docs, held, lost, dragVars, sliderVars, sortVars, tipVars>>
  PROVE  MouseOK'
<1>1. /\ UNCHANGED <<kind, docs, held, lost, at, valueNow, grab, out, overed, entered>>
      /\ UNCHANGED <<step, previousChange, previousEnd, meddled, ghosts, ghosted>>
      /\ UNCHANGED <<delays, delay, timesOut, over, tip, visible, disturbed>>
  BY DEF dragVars, sliderVars, sortVars, tipVars
<1>2. ListenersOK' /\ DragOK' /\ SortOK'
  BY <1>1 DEF MouseOK, ListenersOK, DragOK, SortOK, Drags
<1>3. DelaysOK'
  BY <1>1 DEF MouseOK, DelaysOK
<1>4. Released' /\ DropsAtRest' /\ SliderAtRest' /\ GhostsAtRest'
  BY <1>1 DEF MouseOK, MouseAtRest, Released, DropsAtRest, SliderAtRest, GhostsAtRest, ToStep
<1>5. TipsAtRest'
  BY <1>1 DEF MouseOK, MouseAtRest, TipsAtRest
<1>. QED  BY <1>1, <1>2, <1>3, <1>4, <1>5 DEF MouseOK, MouseAtRest

\* The slider is set, perhaps while its knob is dragged.
LEMMA MovedOK ==
  ASSUME MouseOK, kind = "slider", UNCHANGED kind, NEW s, NEW position \in Int,
         s = ToStep(position), Moved(s, position)
  PROVE  MouseOK'
<1>1. /\ step' = s /\ previousChange' = s /\ previousEnd' = s /\ at' = position
      /\ meddled' = (docs # {})
      /\ UNCHANGED <<docs, held, lost, grab, out, overed, entered, sortVars, tipVars>>
  BY DEF Moved, Reports
<1>2. Drags
  BY DEF Drags
<1>3. ListenersOK'
  BY <1>1 DEF MouseOK, ListenersOK, Drags, sortVars, tipVars
<1>4. DragOK'
  BY <1>1 DEF MouseOK, DragOK
<1>5. DelaysOK' /\ TipsAtRest' /\ SortOK' /\ GhostsAtRest'
  BY <1>1, <1>3, TipsAside, SortAside DEF sortVars
<1>6. Released' /\ DropsAtRest'
  BY <1>1 DEF MouseOK, MouseAtRest, Released, DropsAtRest
<1>7. SliderAtRest'
  BY <1>1 DEF SliderAtRest, ToStep
<1>. QED  BY <1>1, <1>3, <1>4, <1>5, <1>6, <1>7 DEF MouseOK, MouseAtRest

LEMMA SliderOK ==
  ASSUME MouseOK, SliderSet \/ ClickedElement, UNCHANGED kind
  PROVE  MouseOK'
<1>1. CASE SliderSet
  <2>1. PICK s \in 0..Steps : Moved(s, (Limit * s) \div Steps)
    BY <1>1 DEF SliderSet
  <2>2. (Limit * s) \div Steps \in Int
    BY PlaceTypes
  <2>. QED  BY <1>1, <2>1, <2>2, StepOfPosition, MovedOK DEF SliderSet
<1>2. CASE ClickedElement
  <2>1. PICK m \in Places : Moved(ToStep(Limited(m)), Limited(m))
    BY <1>2 DEF ClickedElement
  <2>2. Limited(m) \in Int
    BY PlaceTypes
  <2>. QED  BY <1>2, <2>1, <2>2, MovedOK DEF ClickedElement
<1>. QED  BY <1>1, <1>2

LEMMA SortStartOK ==
  ASSUME MouseOK, SortStart, UNCHANGED kind
  PROVE  MouseOK'
<1>1. /\ kind = "sortables"
      /\ held' = TRUE /\ lost' = (lost \/ held)
      /\ ghosts' = IF ghosted THEN ghosts + 1 ELSE ghosts
      /\ docs' = docs \cup {"move", "end"} \cup (IF ghosted THEN {"moveGhost"} ELSE {})
      /\ UNCHANGED <<ghosted, dragVars, sliderVars, tipVars>>
  BY DEF SortStart, Pressed
<1>2. ~Drags /\ UNCHANGED <<at, grab, over>>
  BY <1>1 DEF Drags, dragVars, tipVars
<1>3. held' \in BOOLEAN /\ lost' \in BOOLEAN
  BY <1>1 DEF MouseOK
<1>4. ListenersOK'
  BY <1>1, <1>2 DEF MouseOK, ListenersOK, Drags
<1>5. SortOK'
  BY <1>1 DEF MouseOK, SortOK
<1>6. DragOK' /\ DropsAtRest' /\ SliderAtRest' /\ DelaysOK' /\ TipsAtRest'
  BY <1>1, <1>2, DragAside, TipsAside
<1>7. Released'
  BY <1>1 DEF Released
<1>8. GhostsAtRest'
  BY <1>1 DEF GhostsAtRest, MouseOK, MouseAtRest, SortOK
<1>. QED  BY <1>3, <1>4, <1>5, <1>6, <1>7, <1>8 DEF MouseOK, MouseAtRest

LEMMA SortMoveOK ==
  ASSUME MouseOK, SortMove, UNCHANGED kind
  PROVE  MouseOK'
<1>1. UNCHANGED <<docs, held, lost, ghosts, ghosted, dragVars, sliderVars, tipVars>> /\ "move" \in docs
  BY DEF SortMove
<1>2. kind = "sortables" /\ ~Drags
  BY <1>1 DEF MouseOK, ListenersOK, Drags
<1>3. UNCHANGED <<at, grab, over>>
  BY <1>1 DEF dragVars, tipVars
<1>4. ListenersOK' /\ SortOK'
  BY <1>1, <1>3 DEF MouseOK, ListenersOK, SortOK, Drags
<1>5. DragOK' /\ DropsAtRest' /\ SliderAtRest' /\ DelaysOK' /\ TipsAtRest'
  BY <1>2, <1>3, DragAside, TipsAside
<1>6. Released' /\ GhostsAtRest'
  BY <1>1, <1>2 DEF MouseOK, MouseAtRest, Released, GhostsAtRest
<1>. QED  BY <1>1, <1>4, <1>5, <1>6 DEF MouseOK, MouseAtRest

LEMMA SortEndOK ==
  ASSUME MouseOK, SortEnd, UNCHANGED kind
  PROVE  MouseOK'
<1>1. /\ "end" \in docs
      /\ docs' = docs \ ({"move", "end"} \cup (IF ghosted THEN {"moveGhost"} ELSE {}))
      /\ ghosts' = IF ghosted THEN ghosts - 1 ELSE ghosts
      /\ held' = FALSE
      /\ UNCHANGED <<lost, ghosted, dragVars, sliderVars, tipVars>>
  BY DEF SortEnd
<1>2. kind = "sortables" /\ ~Drags
  BY <1>1 DEF MouseOK, ListenersOK, Drags
<1>3. UNCHANGED <<at, grab, over>> /\ held
  BY <1>1 DEF dragVars, tipVars, MouseOK, MouseAtRest, Released
<1>4. docs' = {}
  BY <1>1, <1>2 DEF MouseOK, ListenersOK, SortOK
<1>5. ListenersOK' /\ SortOK'
  BY <1>1, <1>2, <1>3, <1>4 DEF MouseOK, ListenersOK, SortOK, Drags
<1>6. DragOK' /\ DropsAtRest' /\ SliderAtRest' /\ DelaysOK' /\ TipsAtRest'
  BY <1>2, <1>3, DragAside, TipsAside
<1>7. Released'
  BY <1>2, <1>4 DEF Released
<1>8. GhostsAtRest'
  BY <1>1, <1>3 DEF GhostsAtRest, MouseOK, MouseAtRest, SortOK
<1>9. held' \in BOOLEAN /\ lost' \in BOOLEAN
  BY <1>1 DEF MouseOK
<1>. QED  BY <1>5, <1>6, <1>7, <1>8, <1>9 DEF MouseOK, MouseAtRest
-----------------------------------------------------------------------------
\* A step of the tips that leaves one timeout at most: it shows the tip of the element
\* the mouse is over, or hides the tip; with none, the tip is what it should be.
LEMMA TipsStep ==
  ASSUME MouseOK, kind = "tips", UNCHANGED <<kind, docs, held, lost, timesOut, dragVars, sliderVars, sortVars>>,
         DOMAIN delays' \subseteq {delay'},
         \A h \in DOMAIN delays' : /\ delays'[h] = "show" => over' # 0 /\ tip' = over' /\ ~disturbed'
                                   /\ delays'[h] = "hide" => over' = 0 \/ timesOut \/ disturbed',
         DOMAIN delays' = {} => /\ visible' <=> over' # 0 /\ ~timesOut /\ ~disturbed'
                                /\ visible' => tip' = over'
  PROVE  MouseOK'
<1>1. ~Drags /\ UNCHANGED <<at, grab, ghosts, ghosted>>
  BY DEF Drags, dragVars, sortVars
<1>2. ListenersOK'
  BY <1>1 DEF MouseOK, ListenersOK, Drags
<1>3. DelaysOK' /\ TipsAtRest'
  BY DEF DelaysOK, TipsAtRest
<1>4. DragOK' /\ DropsAtRest' /\ SliderAtRest' /\ SortOK' /\ GhostsAtRest'
  BY <1>1, <1>2, DragAside, SortAside
<1>5. Released'
  BY DEF Released, MouseOK, MouseAtRest
<1>. QED  BY <1>2, <1>3, <1>4, <1>5 DEF MouseOK, MouseAtRest

\* With no other timeout left, the one that is set is the only one.
LEMMA DelayedAlone ==
  ASSUME NEW live, DOMAIN live = {}, NEW what, Delayed(what, live)
  PROVE  /\ DOMAIN delays' = {delay'} /\ delays'[delay'] = what /\ delay' = 1
         /\ delays' = [h \in {1} |-> what]
<1>. DEFINE h == CHOOSE x \in 1..(Cardinality(DOMAIN live) + 1) : x \notin DOMAIN live
<1>1. h = 1
  <2>1. 1..(Cardinality(DOMAIN live) + 1) = {1}
    BY FS_EmptySet
  <2>. QED  BY <2>1
<1>2. delays' = live @@ (h :> what) /\ delay' = h
  BY DEF Delayed
<1>. HIDE DEF h
<1>3. live @@ (1 :> what) = [x \in {1} |-> what]
  BY DEF @@, :>
<1>. QED  BY <1>1, <1>2, <1>3

LEMMA TipRestUnchanged ==
  ASSUME TipRest
  PROVE  UNCHANGED <<docs, held, lost, timesOut, dragVars, sliderVars, sortVars>>
BY DEF TipRest

LEMMA MouseEnterOK ==
  ASSUME MouseOK, MouseEnter, UNCHANGED kind
  PROVE  MouseOK'
<1>1. PICK el \in {1, 2} : over' = el /\ tip' = el /\ Delayed("show", Uncleared)
  BY DEF MouseEnter
<1>2. kind = "tips" /\ TipRest /\ disturbed' = FALSE
  BY DEF MouseEnter
<1>3. DOMAIN Uncleared = {}
  BY <1>2 DEF Uncleared, MouseOK, DelaysOK
<1>4. DOMAIN delays' = {delay'} /\ delays'[delay'] = "show"
  BY <1>1, <1>3, DelayedAlone
<1>. QED  BY <1>1, <1>2, <1>4, TipsStep, TipRestUnchanged

LEMMA MouseLeaveOK ==
  ASSUME MouseOK, MouseLeave, UNCHANGED kind
  PROVE  MouseOK'
<1>1. over # 0 /\ over' = 0 /\ Delayed("hide", Uncleared) /\ TipRest
  BY DEF MouseLeave
<1>2. kind = "tips"
  BY <1>1 DEF MouseOK, ListenersOK
<1>3. DOMAIN Uncleared = {}
  BY <1>2 DEF Uncleared, MouseOK, DelaysOK
<1>4. DOMAIN delays' = {delay'} /\ delays'[delay'] = "hide"
  BY <1>1, <1>3, DelayedAlone
<1>. QED  BY <1>1, <1>2, <1>4, TipsStep, TipRestUnchanged

LEMMA ThrowAwayOK ==
  ASSUME MouseOK, ThrowAway, UNCHANGED kind
  PROVE  MouseOK'
<1>1. PICK els \in SUBSET ({1, 2} \ thrown) :
        over' = (IF over \in els THEN 0 ELSE over) /\ disturbed' = (over \notin els)
  BY DEF ThrowAway
<1>2. kind = "tips" /\ Delayed("hide", Uncleared) /\ TipRest
  BY DEF ThrowAway
<1>3. DOMAIN Uncleared = {}
  BY <1>2 DEF Uncleared, MouseOK, DelaysOK
<1>4. DOMAIN delays' = {delay'} /\ delays'[delay'] = "hide"
  BY <1>2, <1>3, DelayedAlone
<1>5. over' = 0 \/ disturbed'
  BY <1>1
<1>. QED  BY <1>2, <1>4, <1>5, TipsStep, TipRestUnchanged

LEMMA TipTimeoutOK ==
  ASSUME MouseOK, TipTimeout, UNCHANGED kind
  PROVE  MouseOK'
<1>1. PICK h \in DOMAIN delays :
        Show(h, [g \in DOMAIN delays \ {h} |-> delays[g]]) \/ Hide(h, [g \in DOMAIN delays \ {h} |-> delays[g]])
  BY DEF TipTimeout
<1>2. kind = "tips" /\ TipRest /\ UNCHANGED <<over, tip, disturbed>>
  BY DEF TipTimeout
<1>. DEFINE live == [g \in DOMAIN delays \ {h} |-> delays[g]]
<1>3. DOMAIN live = {}
  BY <1>2 DEF MouseOK, DelaysOK
<1>. HIDE DEF live
<1>4. CASE Show(h, live)
  <2>1. delays[h] = "show" /\ visible' = TRUE /\ over # 0 /\ tip = over /\ ~disturbed
    BY <1>2, <1>4 DEF Show, MouseOK, DelaysOK
  <2>2. CASE timesOut
    <3>1. DOMAIN delays' = {delay'} /\ delays'[delay'] = "hide"
      BY <1>3, <1>4, <2>2, DelayedAlone DEF Show
    <3>. QED  BY <1>2, <2>2, <3>1, TipsStep, TipRestUnchanged
  <2>3. CASE ~timesOut
    <3>1. DOMAIN delays' = {}
      BY <1>3, <1>4, <2>3 DEF Show
    <3>2. (visible' <=> over' # 0 /\ ~timesOut /\ ~disturbed') /\ tip' = over'
      BY <1>2, <2>1, <2>3
    <3>. QED  BY <1>2, <3>1, <3>2, TipsStep, TipRestUnchanged
  <2>. QED  BY <2>2, <2>3
<1>5. CASE Hide(h, live)
  <2>1. delays[h] = "hide" /\ visible' = FALSE /\ DOMAIN delays' = {}
    BY <1>3, <1>5 DEF Hide
  <2>2. over = 0 \/ timesOut \/ disturbed
    BY <1>2, <2>1 DEF MouseOK, DelaysOK
  <2>. QED  BY <1>2, <2>1, <2>2, TipsStep, TipRestUnchanged
<1>. QED  BY <1>1, <1>4, <1>5 DEF live
-----------------------------------------------------------------------------
\* A step of the scroller: it listens while it is started, and its interval is the
\* one it knows of.
LEMMA ScrollerStep ==
  ASSUME MouseOK, kind = "scroller", UNCHANGED kind, ScrollerRest,
         docs' \subseteq {"coord"}, held' \in BOOLEAN,
         DOMAIN delays' \subseteq {delay'}, 0 \notin DOMAIN delays',
         delays' = [h \in DOMAIN delays' |-> delays'[h]],
         ~held' => docs' = {} /\ DOMAIN delays' = {}
  PROVE  MouseOK'
<1>1. UNCHANGED <<lost, dragVars, sliderVars, sortVars, timesOut, over, tip, visible, disturbed>>
  BY DEF ScrollerRest
<1>2. ~Drags /\ UNCHANGED <<at, grab, ghosts, ghosted>>
  BY <1>1 DEF Drags, dragVars, sortVars
<1>3. ListenersOK'
  BY <1>1, <1>2 DEF MouseOK, ListenersOK, Drags
<1>4. DelaysOK' /\ TipsAtRest'
  BY DEF DelaysOK, TipsAtRest
<1>5. DragOK' /\ DropsAtRest' /\ SliderAtRest' /\ SortOK'
  BY <1>2, <1>3, DragAside, SortAside
<1>6. GhostsAtRest'
  BY <1>2, <1>3, SortAside
<1>7. Released'
  <2>1. DOMAIN delays' = {} => delays' = [h \in {} |-> ""]
    OBVIOUS
  <2>. QED  BY <2>1 DEF Released
<1>8. lost' \in BOOLEAN
  BY <1>1 DEF MouseOK
<1>. QED  BY <1>3, <1>4, <1>5, <1>6, <1>7, <1>8 DEF MouseOK, MouseAtRest

LEMMA ScrollerOK ==
  ASSUME MouseOK, UNCHANGED kind, ScrollerStart \/ GetCoords \/ ScrollerTick \/ ScrollerStop
  PROVE  MouseOK'
<1>1. kind = "scroller"
  BY DEF ScrollerStart, GetCoords, ScrollerTick, ScrollerStop, MouseOK, ListenersOK, Drags
<1>2. /\ docs \subseteq {"coord"} /\ DOMAIN delays \subseteq {delay} /\ 0 \notin DOMAIN delays
      /\ delays = [h \in DOMAIN delays |-> delays[h]] /\ held \in BOOLEAN
      /\ ~held => docs = {} /\ DOMAIN delays = {}
  BY <1>1 DEF MouseOK, ListenersOK, DelaysOK, MouseAtRest, Released
<1>3. CASE ScrollerStart
  <2>1. docs' = {"coord"} /\ held' = TRUE /\ UNCHANGED <<delays, delay>> /\ ScrollerRest
    BY <1>3 DEF ScrollerStart
  <2>. QED  BY <1>1, <1>2, <2>1, ScrollerStep
<1>4. CASE GetCoords
  <2>1. held /\ UNCHANGED <<docs, held>> /\ ScrollerRest
    BY <1>2, <1>4 DEF GetCoords
  <2>2. CASE delay = 0
    <3>1. Delayed("scroll", delays) /\ DOMAIN delays = {}
      BY <1>2, <1>4, <2>2 DEF GetCoords
    <3>2. DOMAIN delays' = {delay'} /\ delay' = 1 /\ delays' = [h \in {1} |-> "scroll"]
      BY <3>1, DelayedAlone
    <3>. QED  BY <1>1, <1>2, <2>1, <3>2, ScrollerStep
  <2>3. CASE delay # 0
    <3>1. UNCHANGED <<delays, delay>>
      BY <1>4, <2>3 DEF GetCoords
    <3>. QED  BY <1>1, <1>2, <2>1, <3>1, ScrollerStep
  <2>. QED  BY <2>2, <2>3
<1>5. CASE ScrollerTick
  <2>1. UNCHANGED <<docs, held, delays, delay>> /\ ScrollerRest
    BY <1>5 DEF ScrollerTick
  <2>. QED  BY <1>1, <1>2, <2>1, ScrollerStep
<1>6. CASE ScrollerStop
  <2>1. docs' = docs \ {"coord"} /\ held' = FALSE /\ delays' = Uncleared /\ ScrollerRest
    BY <1>6 DEF ScrollerStop
  <2>2. docs' = {} /\ DOMAIN delays' = {} /\ delays' = [h \in DOMAIN delays' |-> delays'[h]]
    BY <1>2, <2>1 DEF Uncleared
  <2>. QED  BY <1>1, <2>1, <2>2, ScrollerStep
<1>. QED  BY <1>3, <1>4, <1>5, <1>6

\* Once the mouse lets go nothing of a drag is left, a slider has reported the step its
\* knob shows, a tip is shown while the mouse is over its element, or until its timeout or
\* until another element is thrown away: Drag.Base, Drag.Move, Slider, Sortables, Tips,
\* Scroller, whatever the place, the grid, the steps, the items and the droppables, and
\* with mouseups that are lost.
THEOREM NothingDragged == Spec => []MouseAtRest
<1>1. Init => MouseOK
  BY MouseInitOK DEF Init
<1>2. MouseOK /\ [Next]_vars => MouseOK'
  <2>. SUFFICES ASSUME MouseOK, [Next]_vars PROVE MouseOK'
    OBVIOUS
  <2>1. CASE MouseNext /\ UNCHANGED kind
    <3>1. ASSUME Attach PROVE MouseOK'
      <4>1. UNCHANGED <<docs, held, lost, dragVars, sliderVars, sortVars, tipVars>>
        BY <3>1 DEF Attach
      <4>. QED  BY <2>1, <4>1, MouseSame
    <3>. QED  BY <2>1, <3>1, DragStartOK, DragMoveOK, DragStopOK, SliderOK, SortStartOK, SortMoveOK,
                 SortEndOK, MouseEnterOK, MouseLeaveOK, ThrowAwayOK, TipTimeoutOK, ScrollerOK DEF MouseNext
  <2>2. CASE UNCHANGED <<kind, mouseVars>>
    <3>1. UNCHANGED <<kind, docs, held, lost, dragVars, sliderVars, sortVars, tipVars>>
      BY <2>2 DEF mouseVars
    <3>. QED  BY <3>1, MouseSame
  <2>. QED  BY <2>1, <2>2 DEF Next, vars
<1>3. MouseOK => MouseAtRest
  BY DEF MouseOK
<1>. QED  BY <1>1, <1>2, <1>3, PTL DEF Spec

-----------------------------------------------------------------------------
(***************************************************************************)
(* Effects.                                                                *)
(***************************************************************************)
OneParts == {"style", "slide", "scroll", "smooth"}
Chained == {"style", "slide", "scroll"}
Links == {[does |-> "start", target |-> <<v>>] : v \in Ends}
Timeouts == {[does |-> "complete"]} \cup Links

\* The parts an effect moves are parts of what is shown; an accordion numbers its own.
PartsOK ==
  /\ shown \in [DOMAIN shown -> 0..2] /\ outcome \in [DOMAIN shown -> 0..2]
  /\ DOMAIN to \subseteq DOMAIN shown /\ DOMAIN from = DOMAIN to
  /\ to \in [DOMAIN to -> Ends] /\ from \in [DOMAIN to -> 0..2]
  /\ kind \in OneParts => DOMAIN shown = {1} /\ DOMAIN to = {1}
  /\ kind = "styles" => DOMAIN shown = {1, 2}
  /\ kind = "accordion" => /\ shown \in Seq(0..2) /\ DOMAIN active = DOMAIN shown
                           /\ active \in Seq(BOOLEAN) /\ previous \in DOMAIN shown

\* There is one interval at most, that of timer, and it ticks when the timeouts that
\* were set before it have fired: so an effect that ends finds none pending, and
\* onComplete is pending only ahead of a link.
TimersOK ==
  /\ timer \in {0, 1} /\ DOMAIN intervals = (IF timer = 0 THEN {} ELSE {1})
  /\ timer # 0 => intervals[1] = Len(soon)
  /\ soon \in Seq(Timeouts) /\ chains \in Seq(Links)
  /\ \A i \in DOMAIN soon : i > 1 => soon[i].does = "start"
  /\ kind \notin Chained => chains = <<>> /\ \A i \in DOMAIN soon : soon[i].does = "complete"

\* What was promised of a part is where it goes, or where it is.
PromiseOK == kind # "smooth" => \A p \in DOMAIN shown :
  IF timer # 0 /\ p \in DOMAIN to THEN outcome[p] = to[p] ELSE outcome[p] \in {Either, shown[p]}

\* A link promises its anchor, and the location follows when onComplete has fired.
AnchorOK == kind = "smooth" =>
  /\ outcome[1] \in {Either, anchor} /\ anchor \in Ends
  /\ timer = 0 /\ soon = <<>> /\ outcome[1] # Either => shown[1] = anchor /\ hash = anchor

OpenOK == kind = "slide" /\ timer = 0 /\ soon = <<>> /\ outcome[1] # Either => open = (shown[1] = 2)

\* The events of an accordion tell what was promised of its sections.
SectionsOK == kind = "accordion" /\ (\A i \in DOMAIN shown : outcome[i] # Either) =>
  /\ \A i \in DOMAIN shown : active[i] = (outcome[i] = 2)
  /\ \A i \in DOMAIN shown : outcome[i] = 2 => i = previous
  /\ ~alwaysHide => outcome[previous] = 2

\* No onComplete is pending that would take the listener of a scroll away.
WheelOK == Scrolls /\ timer # 0 /\ ~hasty => wheel /\ \A i \in DOMAIN soon : soon[i].does = "start"

FxOK == PartsOK /\ TimersOK /\ PromiseOK /\ AnchorOK /\ OpenOK /\ SectionsOK /\ WheelOK

LEMMA EndTypes == Ends = {0, 2} /\ Either = 1 /\ Ends \subseteq 0..2
BY DEF Ends, Either

\* The timeouts that are left when one has fired.
LEMMA TailTimeouts ==
  ASSUME TimersOK, soon # <<>>
  PROVE  /\ Head(soon) \in Timeouts /\ Tail(soon) \in Seq(Timeouts)
         /\ Len(Tail(soon)) = Len(soon) - 1 /\ Len(soon) \in Nat \ {0}
         /\ \A i \in DOMAIN Tail(soon) : i + 1 \in DOMAIN soon /\ Tail(soon)[i] = soon[i + 1]
         /\ \A i \in DOMAIN Tail(soon) : Tail(soon)[i].does = "start"
         /\ kind \notin Chained => Tail(soon) = <<>> /\ Head(soon).does = "complete"
<1>. DEFINE n == Len(soon)
<1>1. soon \in Seq(Timeouts) /\ n \in Nat \ {0} /\ DOMAIN soon = 1..n
  BY DEF TimersOK
<1>2. Head(soon) = soon[1] /\ soon[1] \in Timeouts
  BY <1>1
<1>3. /\ Tail(soon) \in Seq(Timeouts) /\ Len(Tail(soon)) = n - 1 /\ DOMAIN Tail(soon) = 1..(n - 1)
      /\ \A i \in 1..(n - 1) : Tail(soon)[i] = soon[i + 1]
  BY <1>1
<1>4. \A i \in 1..(n - 1) : i + 1 \in DOMAIN soon /\ i + 1 > 1
  BY <1>1
<1>5. \A i \in DOMAIN Tail(soon) : Tail(soon)[i].does = "start"
  BY <1>3, <1>4 DEF TimersOK
<1>6. ASSUME kind \notin Chained
      PROVE  Tail(soon) = <<>> /\ Head(soon).does = "complete"
  <2>1. \A i \in DOMAIN soon : soon[i].does = "complete"
    BY <1>6 DEF TimersOK
  <2>2. ~(n > 1)
    <3>1. n > 1 => 1 \in DOMAIN Tail(soon)
      BY <1>1, <1>3
    <3>. QED  BY <1>3, <1>4, <1>5, <2>1, <3>1
  <2>. QED  BY <1>1, <1>2, <1>3, <2>1, <2>2
<1>. QED  BY <1>1, <1>2, <1>3, <1>4, <1>5, <1>6

\* Once the old interval is cleared there is none, and the new one gets the handle 1.
LEMMA ClearedIsNone == TimersOK => DOMAIN Cleared = {} /\ (Accepts /\ wait => DOMAIN intervals = {})
BY DEF TimersOK, Cleared, Without, Accepts

LEMMA StartMeans ==
  ASSUME TimersOK, Accepts, NEW target, NEW first, Start(target, first)
  PROVE  /\ from' = [p \in DOMAIN target |-> shown[p]] /\ to' = target
         /\ timer' = 1 /\ DOMAIN intervals' = {1} /\ intervals'[1] = first
         /\ wheel' = (wheel \/ Scrolls)
         /\ outcome' = Promise(target)
         /\ UNCHANGED <<shown, open, hash>>
<1>. DEFINE live == IF wait THEN intervals ELSE Cleared
            h == CHOOSE x \in 1..(Cardinality(DOMAIN live) + 1) : x \notin DOMAIN live
<1>1. DOMAIN live = {}
  BY ClearedIsNone
<1>2. /\ from' = [p \in DOMAIN target |-> shown[p]] /\ to' = target
      /\ timer' = h /\ intervals' = live @@ (h :> first)
      /\ wheel' = (wheel \/ Scrolls) /\ outcome' = Promise(target)
      /\ UNCHANGED <<shown, open, hash>>
  BY DEF Start
<1>. HIDE DEF live
<1>3. h = 1
  <2>1. 1..(Cardinality(DOMAIN live) + 1) = {1}
    BY <1>1, FS_EmptySet
  <2>. QED  BY <1>1, <2>1
<1>. HIDE DEF h
<1>4. DOMAIN (live @@ (1 :> first)) = {1} /\ (live @@ (1 :> first))[1] = first
  BY <1>1 DEF @@, :>
<1>. QED  BY <1>2, <1>3, <1>4

\* start() keeps the invariant: nothing was moved that is not promised anew.
LEMMA StartKeeps ==
  ASSUME FxOK, UNCHANGED <<kind, chains>>, Accepts,
         NEW T \in SUBSET DOMAIN shown, NEW target \in [T -> Ends], Start(target, Len(soon')),
         soon' = soon \/ (soon # <<>> /\ soon' = Tail(soon)),
         kind \in OneParts => T = {1},
         ~hasty' => \A i \in DOMAIN soon' : soon'[i].does = "start",
         kind = "smooth" => anchor' = target[1],
         kind = "accordion" => /\ DOMAIN active' = DOMAIN shown /\ active' \in Seq(BOOLEAN)
                               /\ previous' \in DOMAIN shown /\ SectionsOK'
  PROVE  FxOK'
<1>1. /\ from' = [p \in T |-> shown[p]] /\ to' = target /\ DOMAIN target = T
      /\ timer' = 1 /\ DOMAIN intervals' = {1} /\ intervals'[1] = Len(soon')
      /\ wheel' = (wheel \/ Scrolls)
      /\ outcome' = Promise(target)
      /\ UNCHANGED <<shown, open, hash>>
  BY StartMeans DEF FxOK
<1>2. outcome \in [DOMAIN shown -> 0..2] /\ shown \in [DOMAIN shown -> 0..2]
  BY DEF FxOK, PartsOK
<1>3. /\ DOMAIN outcome' = DOMAIN shown
      /\ \A p \in T : outcome'[p] = target[p]
      /\ \A p \in DOMAIN shown \ T : outcome'[p] = Either \/ (outcome'[p] = outcome[p] /\ ~(timer # 0 /\ p \in DOMAIN to))
  BY <1>1, <1>2 DEF Promise
<1>4. outcome' \in [DOMAIN shown -> 0..2]
  <2>1. \A p \in DOMAIN shown : outcome'[p] \in 0..2
    BY <1>2, <1>3, EndTypes
  <2>2. outcome' = [p \in DOMAIN shown |-> outcome'[p]]
    BY <1>1, <1>2 DEF Promise
  <2>. QED  BY <2>1, <2>2
<1>5. PartsOK'
  <2>1. from' \in [T -> 0..2]
    BY <1>1, <1>2
  <2>2. kind = "accordion" => shown \in Seq(0..2)
    BY DEF FxOK, PartsOK
  <2>. QED  BY <1>1, <1>2, <1>4, <2>1, <2>2 DEF FxOK, PartsOK
<1>6. TimersOK'
  <2>1. /\ soon' \in Seq(Timeouts)
        /\ \A i \in DOMAIN soon' : i > 1 => soon'[i].does = "start"
        /\ kind \notin Chained => \A i \in DOMAIN soon' : soon'[i].does = "complete"
    <3>1. CASE soon' = soon
      BY <3>1 DEF FxOK, TimersOK
    <3>2. CASE soon # <<>> /\ soon' = Tail(soon)
      <4>. DEFINE t == Tail(soon)
      <4>1. /\ t \in Seq(Timeouts) /\ \A i \in DOMAIN t : t[i].does = "start"
            /\ kind \notin Chained => t = <<>>
        <5>1. TimersOK
          BY DEF FxOK
        <5>. QED  BY <3>2, <5>1, TailTimeouts
      <4>2. soon' = t
        BY <3>2
      <4>. HIDE DEF t
      <4>. QED  BY <4>1, <4>2
    <3>. QED  BY <3>1, <3>2
  <2>. QED  BY <1>1, <2>1 DEF FxOK, TimersOK
<1>7. PromiseOK'
  <2>1. SUFFICES ASSUME kind # "smooth", NEW p \in DOMAIN shown
                 PROVE  IF p \in T THEN outcome'[p] = target[p] ELSE outcome'[p] \in {Either, shown[p]}
    BY <1>1 DEF PromiseOK
  <2>. QED  BY <1>3, <2>1 DEF FxOK, PromiseOK
<1>8. AnchorOK' /\ OpenOK'
  <2>1. kind = "smooth" => outcome'[1] = anchor' /\ anchor' \in Ends
    BY <1>3 DEF OneParts
  <2>. QED  BY <1>1, <2>1 DEF AnchorOK, OpenOK
<1>9. SectionsOK'
  BY DEF SectionsOK
<1>10. WheelOK'
  <2>1. Scrolls' = Scrolls
    BY DEF Scrolls
  <2>. QED  BY <1>1, <2>1 DEF WheelOK
<1>. QED  BY <1>5, <1>6, <1>7, <1>8, <1>9, <1>10 DEF FxOK

\* The page asks for a start.
LEMMA AskStartKeeps ==
  ASSUME FxOK, UNCHANGED kind,
         NEW T \in SUBSET DOMAIN shown, NEW target \in [T -> Ends], AskStart(target),
         kind \in OneParts => T = {1},
         kind = "smooth" => anchor' = target[1],
         kind = "accordion" => /\ DOMAIN active' = DOMAIN shown /\ active' \in Seq(BOOLEAN)
                               /\ previous' \in DOMAIN shown /\ SectionsOK'
  PROVE  FxOK'
<1>1. /\ Accepts /\ Start(target, Len(soon)) /\ UNCHANGED <<soon, chains>>
      /\ hasty' = (\E i \in DOMAIN soon : soon[i].does = "complete")
  BY DEF AskStart
<1>2. ~hasty' => \A i \in DOMAIN soon' : soon'[i].does = "start"
  <2>1. \A i \in DOMAIN soon : soon[i].does \in {"complete", "start"}
    BY DEF FxOK, TimersOK, Timeouts, Links
  <2>. QED  BY <1>1, <2>1
<1>3. Start(target, Len(soon'))
  BY <1>1
<1>. QED  BY <1>1, <1>2, <1>3, StartKeeps

LEMMA OnePart == \A v \in Ends : <<v>> \in [{1} -> Ends] /\ <<v>>[1] = v
OBVIOUS

-----------------------------------------------------------------------------
LEMMA FxInitOK == Init => FxOK
<1>. SUFFICES ASSUME Init PROVE FxOK
  OBVIOUS
<1>. DEFINE displays == kind = "accordion" /\ shown[1] = 0
<1>1. /\ from = shown /\ timer = (IF displays THEN 1 ELSE 0)
      /\ to = IF displays THEN [shown EXCEPT ![1] = 2] ELSE shown
      /\ intervals = IF displays THEN 1 :> 0 ELSE NoParts
      /\ soon = <<>> /\ chains = <<>> /\ open = TRUE /\ wheel = FALSE /\ anchor = 0 /\ hash = 0
      /\ previous = 1 /\ active = [p \in DOMAIN shown |-> to[p] = 2] /\ outcome = to
  BY DEF Init, FxInit
<1>2. /\ shown \in [DOMAIN shown -> Ends]
      /\ kind \in OneParts => DOMAIN shown = {1} /\ shown[1] = (IF kind = "slide" THEN 2 ELSE 0)
      /\ kind = "styles" => DOMAIN shown = {1, 2}
      /\ kind = "accordion" => DOMAIN shown = 1..Sections /\ shown \in Seq(0..2)
  <2>0. shown \in Initially
    BY DEF Init, FxInit
  <2>1. CASE kind = "accordion"
    <3>1. Initially = {[i \in 1..Sections |-> 0], [i \in 1..Sections |-> IF i = 1 THEN 2 ELSE 0]}
      BY <2>1 DEF Initially, Scrolls
    <3>2. shown \in [1..Sections -> {0, 2}]
      BY <2>0, <3>1
    <3>3. shown \in Seq(0..2)
      <4>1. shown \in [1..Sections -> 0..2] /\ Sections \in Nat
        BY <3>2, EffectsAssumption
      <4>. QED  BY <4>1
    <3>. QED  BY <2>1, <3>2, <3>3 DEF Ends, OneParts
  <2>2. CASE kind \in {"style", "slide", "scroll", "smooth"}
    <3>1. shown = IF kind = "slide" THEN <<2>> ELSE <<0>>
      BY <2>0, <2>2 DEF Initially, Scrolls
    <3>. QED  BY <2>2, <3>1 DEF Ends
  <2>3. CASE kind = "styles"
    <3>1. shown = <<0, 0>>
      BY <2>0, <2>3 DEF Initially, Scrolls
    <3>. QED  BY <2>3, <3>1 DEF Ends, OneParts
  <2>4. CASE kind \notin EffectKinds
    <3>1. shown = NoParts
      BY <2>0, <2>4 DEF Initially, Scrolls, EffectKinds
    <3>. QED  BY <2>4, <3>1 DEF Ends, OneParts, NoParts, EffectKinds
  <2>. QED  BY <2>1, <2>2, <2>3, <2>4 DEF EffectKinds
<1>3. to \in [DOMAIN shown -> Ends]
  <2>1. displays => 1 \in DOMAIN shown
    BY <1>2, EffectsAssumption
  <2>. QED  BY <1>1, <1>2, <2>1 DEF Ends
<1>11. /\ displays => to[1] = 2
       /\ \A p \in DOMAIN shown : ~(displays /\ p = 1) => to[p] = shown[p]
  <2>1. displays => 1 \in DOMAIN shown
    BY <1>2, EffectsAssumption
  <2>. QED  BY <1>1, <1>2, <2>1 DEF Ends
<1>. HIDE DEF displays
<1>4. DOMAIN to = DOMAIN shown
  BY <1>3
<1>5. PartsOK
  <2>1. shown \in [DOMAIN shown -> 0..2] /\ outcome \in [DOMAIN shown -> 0..2]
    BY <1>1, <1>2, <1>3, EndTypes
  <2>2. ASSUME kind = "accordion"
        PROVE  DOMAIN active = DOMAIN shown /\ active \in Seq(BOOLEAN) /\ previous \in DOMAIN shown
    <3>1. active \in [1..Sections -> BOOLEAN] /\ Sections \in Nat \ {0}
      BY <1>1, <1>2, <2>2, EffectsAssumption
    <3>2. active \in Seq(BOOLEAN) /\ 1 \in 1..Sections
      BY <3>1
    <3>. QED  BY <1>1, <1>2, <2>2, <3>1, <3>2
  <2>3. DOMAIN from = DOMAIN to /\ DOMAIN to \subseteq DOMAIN shown /\ from \in [DOMAIN to -> 0..2]
    <3>1. from = shown
      BY <1>1
    <3>. QED  BY <1>4, <2>1, <3>1
  <2>4. to \in [DOMAIN to -> Ends]
    BY <1>3, <1>4
  <2>5. /\ kind \in OneParts => DOMAIN shown = {1} /\ DOMAIN to = {1}
        /\ kind = "styles" => DOMAIN shown = {1, 2}
        /\ kind = "accordion" => shown \in Seq(0..2)
    BY <1>2, <1>4
  <2>. QED  BY <2>1, <2>2, <2>3, <2>4, <2>5 DEF PartsOK
<1>6. TimersOK
  <2>1. DOMAIN intervals = (IF timer = 0 THEN {} ELSE {1}) /\ (timer # 0 => intervals[1] = 0)
    BY <1>1 DEF :>, NoParts
  <2>2. soon \in Seq(Timeouts) /\ chains \in Seq(Links) /\ Len(soon) = 0 /\ DOMAIN soon = {}
    BY <1>1
  <2>. QED  BY <1>1, <2>1, <2>2 DEF TimersOK
<1>7. PromiseOK
  BY <1>1, <1>4, <1>11 DEF PromiseOK
<1>8. AnchorOK /\ OpenOK
  <2>1. kind \in {"smooth", "slide"} => outcome[1] = shown[1]
    BY <1>1, <1>2, <1>11 DEF OneParts, displays
  <2>. QED  BY <1>1, <1>2, <2>1 DEF AnchorOK, OpenOK, OneParts, Ends
<1>9. SectionsOK
  <2>1. SUFFICES ASSUME kind = "accordion"
                 PROVE  /\ \A i \in DOMAIN shown : active[i] = (outcome[i] = 2)
                        /\ \A i \in DOMAIN shown : outcome[i] = 2 => i = previous
                        /\ outcome[previous] = 2
    BY DEF SectionsOK
  <2>2. Initially = {[i \in 1..Sections |-> 0], [i \in 1..Sections |-> IF i = 1 THEN 2 ELSE 0]}
    BY <2>1 DEF Initially, Scrolls
  <2>3. shown \in Initially
    BY DEF Init, FxInit
  <2>4. 1 \in 1..Sections
    BY EffectsAssumption
  <2>5. /\ \A i \in 1..Sections : i # 1 => shown[i] = 0
        /\ shown[1] \in {0, 2} /\ DOMAIN shown = 1..Sections
    BY <2>2, <2>3, <2>4
  <2>. QED  BY <1>1, <1>11, <2>1, <2>4, <2>5 DEF displays
<1>10. WheelOK
  BY <1>1 DEF WheelOK, Scrolls, displays
<1>. QED  BY <1>5, <1>6, <1>7, <1>8, <1>9, <1>10 DEF FxOK

\* Of two functions, the first where it is defined.
LEMMA Overlay ==
  ASSUME PartsOK, NEW T \in SUBSET DOMAIN shown, NEW v \in [T -> 0..2]
  PROVE  /\ (v @@ shown) \in [DOMAIN shown -> 0..2]
         /\ \A p \in T : (v @@ shown)[p] = v[p]
         /\ \A p \in DOMAIN shown \ T : (v @@ shown)[p] = shown[p]
         /\ kind = "accordion" => (v @@ shown) \in Seq(0..2)
<1>1. shown \in [DOMAIN shown -> 0..2] /\ DOMAIN v = T
  BY DEF PartsOK
<1>2. DOMAIN v \cup DOMAIN shown = DOMAIN shown
  BY <1>1
<1>3. (v @@ shown) = [x \in DOMAIN shown |-> IF x \in T THEN v[x] ELSE shown[x]]
  BY <1>1, <1>2 DEF @@
<1>4. (v @@ shown) \in [DOMAIN shown -> 0..2]
  BY <1>1, <1>3
<1>5. kind = "accordion" => (v @@ shown) \in Seq(0..2)
  <2>1. SUFFICES ASSUME shown \in Seq(0..2) PROVE (v @@ shown) \in Seq(0..2)
    BY DEF PartsOK
  <2>2. DOMAIN shown = 1..Len(shown) /\ Len(shown) \in Nat
    BY <2>1
  <2>3. (v @@ shown) \in [1..Len(shown) -> 0..2]
    BY <1>4, <2>2
  <2>. QED  BY <2>2, <2>3
<1>. QED  BY <1>3, <1>4, <1>5

\* While an interval is there the effect runs, and when it may tick no timeout is left.
LEMMA TickMeans ==
  ASSUME TimersOK, NEW h \in DOMAIN intervals, intervals[h] = 0
  PROVE  timer = 1 /\ h = 1 /\ soon = <<>> /\ DOMAIN Cleared = {}
<1>1. timer = 1 /\ h = 1 /\ Len(soon) = 0
  BY DEF TimersOK
<1>2. soon \in Seq(Timeouts)
  BY DEF TimersOK
<1>. QED  BY <1>1, <1>2, ClearedIsNone, EmptySeq

LEMMA StepOnOK ==
  ASSUME FxOK, UNCHANGED kind, StepOn
  PROVE  FxOK'
<1>1. PICK h \in DOMAIN intervals, way \in {"begin", "mid", "end"} :
        intervals[h] = 0 /\ shown' = Partway(way) @@ shown
  BY DEF StepOn
<1>2. UNCHANGED <<kind, alwaysHide, timer, intervals, from, to, soon, chains, open,
                  wheel, anchor, hash, previous, active, outcome, hasty>>
  BY DEF StepOn
<1>3. timer = 1
  BY <1>1, TickMeans DEF FxOK
<1>4. DOMAIN from = DOMAIN to /\ DOMAIN to \subseteq DOMAIN shown
  BY DEF FxOK, PartsOK
<1>5. Partway(way) \in [DOMAIN to -> 0..2]
  <2>1. to \in [DOMAIN to -> 0..2] /\ from \in [DOMAIN to -> 0..2]
    BY EndTypes DEF FxOK, PartsOK
  <2>. QED  BY <1>4, <2>1 DEF Partway
<1>6. /\ shown' \in [DOMAIN shown -> 0..2]
      /\ \A p \in DOMAIN shown \ DOMAIN to : shown'[p] = shown[p]
      /\ kind = "accordion" => shown' \in Seq(0..2)
  BY <1>1, <1>4, <1>5, Overlay DEF FxOK
<1>7. DOMAIN shown' = DOMAIN shown
  BY <1>6
<1>8. PartsOK'
  BY <1>2, <1>6, <1>7 DEF FxOK, PartsOK
<1>9. TimersOK'
  BY <1>2 DEF FxOK, TimersOK
<1>10. PromiseOK'
  BY <1>2, <1>3, <1>6, <1>7 DEF FxOK, PromiseOK
<1>11. AnchorOK' /\ OpenOK'
  BY <1>2, <1>3 DEF FxOK, AnchorOK, OpenOK
<1>12. SectionsOK'
  BY <1>2, <1>7 DEF FxOK, SectionsOK
<1>13. WheelOK'
  BY <1>2 DEF FxOK, WheelOK, Scrolls
<1>. QED  BY <1>8, <1>9, <1>10, <1>11, <1>12, <1>13 DEF FxOK

LEMMA TwoInOrder ==
  ASSUME NEW a, NEW b
  PROVE  <<a>> \o <<b>> = <<a, b>> /\ <<>> \o <<a, b>> = <<a, b>>
<1>. DEFINE S == {a, b}
<1>1. <<a>> \in Seq(S) /\ <<b>> \in Seq(S) /\ <<a, b>> \in Seq(S)
  OBVIOUS
<1>. HIDE DEF S
<1>2. <<>> \o <<a, b>> = <<a, b>>
  BY <1>1, ConcatEmptySeq
<1>3. <<a>> \o <<b>> = Append(<<a>>, b)
  BY <1>1, AppendIsConcat
<1>4. Append(<<a>>, b) = <<a, b>>
  <2>1. Append(<<a>>, b) \in Seq(S) /\ Len(Append(<<a>>, b)) = 2
    BY <1>1, b \in S DEF S
  <2>2. Append(<<a>>, b)[1] = a /\ Append(<<a>>, b)[2] = b
    BY <1>1
  <2>3. Len(<<a, b>>) = 2 /\ <<a, b>>[1] = a /\ <<a, b>>[2] = b
    OBVIOUS
  <2>4. \A i \in 1..2 : i = 1 \/ i = 2
    OBVIOUS
  <2>. QED  BY <1>1, <2>1, <2>2, <2>3, <2>4, SeqEqual
<1>. QED  BY <1>2, <1>3, <1>4

\* The parts are at their ends, where they were promised to be.
LEMMA StepEndOK ==
  ASSUME FxOK, UNCHANGED kind, StepEnd
  PROVE  FxOK'
<1>1. PICK h \in DOMAIN intervals : intervals[h] = 0
  BY DEF StepEnd
<1>2. /\ intervals' = Cleared /\ timer' = 0 /\ shown' = to @@ shown /\ soon' = soon \o Scheduled
      /\ chains' = IF chains = <<>> THEN <<>> ELSE Tail(chains)
      /\ UNCHANGED <<kind, alwaysHide, from, to, open, wheel, anchor, hash, previous, active,
                     outcome, hasty>>
  BY DEF StepEnd, Set
<1>3. timer = 1 /\ soon = <<>> /\ DOMAIN Cleared = {}
  BY <1>1, TickMeans DEF FxOK
<1>4. DOMAIN to \subseteq DOMAIN shown /\ to \in [DOMAIN to -> 0..2]
  BY EndTypes DEF FxOK, PartsOK
<1>5. /\ shown' \in [DOMAIN shown -> 0..2]
      /\ \A p \in DOMAIN to : shown'[p] = to[p]
      /\ \A p \in DOMAIN shown \ DOMAIN to : shown'[p] = shown[p]
      /\ kind = "accordion" => shown' \in Seq(0..2)
  BY <1>2, <1>4, Overlay DEF FxOK
<1>6. DOMAIN shown' = DOMAIN shown
  BY <1>5
<1>7. PartsOK'
  BY <1>2, <1>5, <1>6 DEF FxOK, PartsOK
<1>8. TimersOK' /\ soon' # <<>>
  <2>1. chains \in Seq(Links) /\ (kind \notin Chained => chains = <<>>)
    BY DEF FxOK, TimersOK
  <2>2. CASE chains = <<>>
    <3>1. soon' = <<[does |-> "complete"]>> /\ chains' = <<>>
      BY <1>2, <1>3, <2>2 DEF Scheduled, Complete, NextLink
    <3>2. soon' \in Seq(Timeouts) /\ DOMAIN soon' = {1} /\ soon'[1].does = "complete" /\ soon' # <<>>
      BY <3>1 DEF Timeouts
    <3>3. chains' \in Seq(Links)
      BY <3>1
    <3>. QED  BY <1>2, <1>3, <3>1, <3>2, <3>3 DEF TimersOK
  <2>3. CASE chains # <<>>
    <3>. DEFINE link == Head(chains)
    <3>1. link \in Links /\ chains' \in Seq(Links) /\ kind \in Chained
      BY <1>2, <2>1, <2>3
    <3>2. Scheduled = Complete \o <<link>> /\ soon' = <<>> \o Scheduled
      BY <1>2, <1>3, <2>3 DEF Scheduled, NextLink
    <3>. HIDE DEF link
    <3>3. soon' = <<[does |-> "complete"], link>>
      <4>1. Scheduled = <<[does |-> "complete"], link>>
        BY <3>2, TwoInOrder DEF Complete
      <4>. QED  BY <3>2, <4>1, TwoInOrder
    <3>4. link.does = "start"
      <4>1. PICK v \in Ends : link = [does |-> "start", target |-> <<v>>]
        BY <3>1 DEF Links
      <4>. QED  BY <4>1
    <3>5. soon' \in Seq(Timeouts) /\ DOMAIN soon' = {1, 2} /\ soon'[2].does = "start" /\ soon' # <<>>
      <4>1. [does |-> "complete"] \in Timeouts /\ link \in Timeouts
        BY <3>1 DEF Timeouts
      <4>. QED  BY <3>3, <3>4, <4>1
    <3>. QED  BY <1>2, <1>3, <3>1, <3>5 DEF TimersOK
  <2>. QED  BY <2>2, <2>3
<1>9. PromiseOK'
  <2>1. SUFFICES ASSUME kind # "smooth", NEW p \in DOMAIN shown
                 PROVE  outcome[p] \in {Either, shown'[p]}
    BY <1>2, <1>6 DEF PromiseOK
  <2>. QED  BY <1>3, <1>5, <2>1 DEF FxOK, PromiseOK
<1>10. AnchorOK' /\ OpenOK'
  BY <1>2, <1>8 DEF FxOK, AnchorOK, OpenOK
<1>11. SectionsOK'
  BY <1>2, <1>6 DEF FxOK, SectionsOK
<1>12. WheelOK'
  BY <1>2 DEF WheelOK
<1>. QED  BY <1>7, <1>8, <1>9, <1>10, <1>11, <1>12 DEF FxOK

\* onComplete is the first timeout, so it fires with no promise of a scroll outstanding
\* but of one that was started hastily; a link starts the effect, or the effect waits.
LEMMA FireTimeoutOK ==
  ASSUME FxOK, UNCHANGED kind, FireTimeout
  PROVE  FxOK'
<1>. DEFINE t == Tail(soon)
<1>1. /\ soon # <<>> /\ soon' = t
      /\ UNCHANGED <<kind, wait, alwaysHide, chains, anchor, previous, active, requests>>
  BY DEF FireTimeout
<1>2. TimersOK
  BY DEF FxOK
<1>3. /\ Head(soon) \in Timeouts /\ t \in Seq(Timeouts)
      /\ Len(t) = Len(soon) - 1 /\ Len(soon) \in Nat \ {0}
      /\ \A i \in DOMAIN t : t[i].does = "start"
      /\ kind \notin Chained => t = <<>> /\ Head(soon).does = "complete"
  BY <1>1, <1>2, TailTimeouts
<1>4. chains' \in Seq(Links) /\ (kind \notin Chained => chains' = <<>> /\ DOMAIN t = {})
  <2>1. chains \in Seq(Links) /\ (kind \notin Chained => chains = <<>>)
    BY <1>2 DEF TimersOK
  <2>. QED  BY <1>1, <1>3, <2>1
<1>. HIDE DEF t
<1>5. ASSUME intervals' = OneLess(intervals), timer' = timer
      PROVE  TimersOK'
  <2>1. timer \in {0, 1} /\ DOMAIN intervals = (IF timer = 0 THEN {} ELSE {1})
        /\ (timer # 0 => intervals[1] = Len(soon))
    BY <1>2 DEF TimersOK
  <2>2. DOMAIN intervals' = DOMAIN intervals /\ (timer # 0 => intervals'[1] = Len(t))
    BY <1>3, <1>5, <2>1 DEF OneLess
  <2>3. \A i \in DOMAIN t : kind \notin Chained => t[i].does = "complete"
    BY <1>4
  <2>. QED  BY <1>1, <1>3, <1>4, <1>5, <2>1, <2>2, <2>3 DEF TimersOK
<1>6. CASE Head(soon).does = "complete"
  <2>1. /\ open' = OpenAfter /\ wheel' = (wheel /\ ~Scrolls) /\ intervals' = OneLess(intervals)
        /\ IF kind = "smooth" THEN hash' = anchor /\ shown' = <<anchor>> ELSE UNCHANGED <<hash, shown>>
        /\ UNCHANGED <<timer, from, to, css, outcome, hasty>>
    BY <1>6 DEF FireTimeout, Completed
  <2>2. TimersOK'
    BY <1>5, <2>1
  <2>3. shown' \in [DOMAIN shown -> 0..2] /\ (kind # "smooth" => shown' = shown)
    <3>1. CASE kind = "smooth"
      <4>1. shown' = <<anchor>> /\ DOMAIN shown = {1} /\ anchor \in 0..2
        BY <2>1, <3>1, EndTypes DEF FxOK, AnchorOK, PartsOK, OneParts
      <4>. QED  BY <3>1, <4>1
    <3>. QED  BY <2>1, <3>1 DEF FxOK, PartsOK
  <2>4. DOMAIN shown' = DOMAIN shown
    BY <2>3
  <2>5. PartsOK'
    <3>1. kind = "accordion" => shown' = shown
      BY <2>3
    <3>. QED  BY <1>1, <2>1, <2>3, <2>4, <3>1 DEF FxOK, PartsOK
  <2>6. PromiseOK'
    BY <1>1, <2>1, <2>3 DEF FxOK, PromiseOK
  <2>7. AnchorOK'
    <3>1. kind = "smooth" => shown'[1] = anchor /\ hash' = anchor
      BY <2>1
    <3>. QED  BY <1>1, <2>1, <3>1 DEF FxOK, AnchorOK
  <2>8. OpenOK'
    BY <1>1, <2>1, <2>3 DEF OpenOK, OpenAfter
  <2>9. SectionsOK'
    BY <1>1, <2>1, <2>4 DEF FxOK, SectionsOK
  <2>10. WheelOK'
    <3>1. Head(soon) = soon[1] /\ 1 \in DOMAIN soon
      BY <1>1, <1>2, <1>3 DEF TimersOK
    <3>2. ~(Scrolls /\ timer # 0 /\ ~hasty)
      BY <1>6, <3>1 DEF FxOK, WheelOK
    <3>. QED  BY <1>1, <2>1, <3>2 DEF WheelOK, Scrolls
  <2>. QED  BY <2>2, <2>5, <2>6, <2>7, <2>8, <2>9, <2>10 DEF FxOK
<1>7. CASE Head(soon).does # "complete"
  <2>1. PICK v \in Ends : Head(soon) = [does |-> "start", target |-> <<v>>]
    BY <1>3, <1>7 DEF Timeouts, Links
  <2>2. kind \in Chained /\ Linked(<<v>>)
    <3>1. Linked(Head(soon).target)
      BY <1>7 DEF FireTimeout
    <3>. QED  BY <1>3, <1>7, <2>1, <3>1
  <2>3. kind \in OneParts /\ kind # "smooth" /\ kind # "accordion"
    BY <2>2 DEF Chained, OneParts
  <2>4. CASE Accepts
    <3>1. Start(<<v>>, Len(soon) - 1) /\ hasty' = FALSE
      BY <2>2, <2>4 DEF Linked
    <3>2. Start(<<v>>, Len(soon'))
      <4>1. Len(soon') = Len(soon) - 1
        BY <1>1, <1>3
      <4>. QED  BY <3>1, <4>1
    <3>3. <<v>> \in [{1} -> Ends] /\ {1} \subseteq DOMAIN shown
      BY <2>3, OnePart DEF FxOK, PartsOK
    <3>4. \A i \in DOMAIN soon' : soon'[i].does = "start"
      BY <1>1, <1>3
    <3>5. soon' = Tail(soon)
      BY <1>1 DEF t
    <3>. QED  BY <1>1, <2>3, <2>4, <3>2, <3>3, <3>4, <3>5, StartKeeps
  <2>5. CASE ~Accepts
    <3>1. /\ intervals' = OneLess(intervals)
          /\ UNCHANGED <<timer, from, to, css, shown, open, wheel, hash, outcome, hasty>>
      BY <2>2, <2>5 DEF Linked
    <3>2. TimersOK'
      BY <1>5, <3>1
    <3>3. timer # 0
      BY <2>5 DEF Accepts
    <3>4. PartsOK' /\ PromiseOK' /\ AnchorOK' /\ SectionsOK'
      BY <1>1, <2>3, <3>1 DEF FxOK, PartsOK, PromiseOK, AnchorOK, SectionsOK
    <3>5. OpenOK'
      BY <3>1, <3>3 DEF OpenOK
    <3>6. WheelOK'
      BY <1>1, <1>3, <3>1 DEF FxOK, WheelOK, Scrolls
    <3>. QED  BY <3>2, <3>4, <3>5, <3>6 DEF FxOK
  <2>. QED  BY <2>4, <2>5
<1>. QED  BY <1>6, <1>7

\* One call of the page for an effect of one part.
LEMMA StartsOK ==
  ASSUME FxOK, UNCHANGED kind, StyleStart \/ SlideIn \/ SlideOut \/ Toggle \/ ScrollTo
  PROVE  FxOK'
<1>1. /\ kind \in OneParts /\ kind # "smooth" /\ kind # "accordion"
      /\ \E v \in Ends : AskStart(<<v>>)
  BY EndTypes DEF StyleStart, SlideIn, SlideOut, Toggle, ScrollTo, OneParts
<1>2. PICK v \in Ends : AskStart(<<v>>)
  BY <1>1
<1>3. <<v>> \in [{1} -> Ends] /\ {1} \subseteq DOMAIN shown
  BY <1>1, OnePart DEF FxOK, PartsOK
<1>. QED  BY <1>1, <1>2, <1>3, AskStartKeeps

LEMMA StylesStartOK ==
  ASSUME FxOK, UNCHANGED kind, StylesStart
  PROVE  FxOK'
<1>1. kind = "styles" /\ \E v \in Targets(1..2) : AskStart(v)
  BY DEF StylesStart
<1>2. PICK v \in Targets(1..2) : AskStart(v)
  BY <1>1
<1>3. PICK T \in SUBSET (1..2) : v \in [T -> Ends]
  BY DEF Targets
<1>4. DOMAIN shown = {1, 2}
  BY <1>1 DEF FxOK, PartsOK
<1>5. T \subseteq DOMAIN shown
  BY <1>4
<1>. QED  BY <1>1, <1>2, <1>3, <1>5, AskStartKeeps DEF OneParts

\* A refused click promises the anchor it leads to, to which the effect in progress will jump.
LEMMA UseLinkOK ==
  ASSUME FxOK, UNCHANGED kind, UseLink
  PROVE  FxOK'
<1>1. PICK v \in Ends :
        /\ anchor' = v
        /\ \/ AskStart(<<v>>)
           \/ /\ ~Accepts /\ outcome' = <<v>>
              /\ UNCHANGED <<wait, alwaysHide, timer, intervals, from, to, css, shown, soon,
                             chains, open, wheel, hash, hasty>>
        /\ UNCHANGED <<previous, active>>
  BY DEF UseLink
<1>2. kind = "smooth"
  BY DEF UseLink
<1>3. <<v>> \in [{1} -> Ends] /\ <<v>>[1] = v /\ DOMAIN shown = {1}
  BY <1>2, OnePart DEF FxOK, PartsOK, OneParts
<1>4. CASE AskStart(<<v>>)
  BY <1>1, <1>2, <1>3, <1>4, AskStartKeeps
<1>5. CASE /\ ~Accepts /\ outcome' = <<v>>
           /\ UNCHANGED <<wait, alwaysHide, timer, intervals, from, to, css, shown, soon,
                          chains, open, wheel, hash, hasty>>
  <2>1. timer # 0 /\ outcome' \in [DOMAIN shown -> 0..2] /\ outcome'[1] = anchor'
    BY <1>1, <1>3, <1>5, EndTypes DEF Accepts
  <2>2. PartsOK' /\ TimersOK'
    BY <1>2, <1>5, <2>1 DEF FxOK, PartsOK, TimersOK
  <2>3. PromiseOK' /\ AnchorOK' /\ OpenOK' /\ SectionsOK'
    BY <1>1, <1>2, <1>5, <2>1 DEF PromiseOK, AnchorOK, OpenOK, SectionsOK
  <2>4. WheelOK'
    BY <1>5 DEF FxOK, WheelOK, Scrolls
  <2>. QED  BY <2>2, <2>3, <2>4 DEF FxOK
<1>. QED  BY <1>1, <1>4, <1>5

\* The section displayed is the one previous names, unless alwaysHide hides it too.
LEMMA DisplayOK ==
  ASSUME FxOK, UNCHANGED kind, Display
  PROVE  FxOK'
<1>1. PICK index \in DOMAIN shown :
        /\ previous' = index
        /\ active' = [i \in DOMAIN shown |-> ~Hides(i, index)]
        /\ AskStart([i \in DOMAIN shown |-> IF Hides(i, index) THEN 0 ELSE 2])
  BY DEF Display
<1>2. kind = "accordion"
  BY DEF Display
<1>. DEFINE target == [i \in DOMAIN shown |-> IF Hides(i, index) THEN 0 ELSE 2]
<1>3. target \in [DOMAIN shown -> Ends]
  BY DEF Ends
<1>4. DOMAIN active' = DOMAIN shown /\ active' \in Seq(BOOLEAN)
  <2>1. shown \in Seq(0..2)
    BY <1>2 DEF FxOK, PartsOK
  <2>2. DOMAIN shown = 1..Len(shown) /\ Len(shown) \in Nat
    BY <2>1
  <2>3. \A i \in DOMAIN shown : (~Hides(i, index)) \in BOOLEAN
    OBVIOUS
  <2>4. active' \in [1..Len(shown) -> BOOLEAN]
    BY <1>1, <2>2, <2>3
  <2>. QED  BY <2>2, <2>4
<1>5. SectionsOK'
  <2>1. shown' = shown /\ alwaysHide' = alwaysHide /\ DOMAIN outcome = DOMAIN shown
        /\ outcome' = Promise(target)
    BY <1>1 DEF AskStart, Start, FxOK, PartsOK
  <2>2. \A i \in DOMAIN shown : outcome'[i] = (IF Hides(i, index) THEN 0 ELSE 2)
    BY <2>1 DEF Promise
  <2>3. \A i \in DOMAIN shown : active'[i] = ~Hides(i, index)
    BY <1>1
  <2>4. \A i \in DOMAIN shown : (outcome'[i] = 2) = ~Hides(i, index)
    BY <2>2
  <2>5. \A i \in DOMAIN shown : ~Hides(i, index) => i = index
    BY DEF Hides
  <2>6. ~alwaysHide => ~Hides(index, index)
    BY DEF Hides
  <2>7. /\ \A i \in DOMAIN shown' : active'[i] = (outcome'[i] = 2)
        /\ \A i \in DOMAIN shown' : outcome'[i] = 2 => i = previous'
        /\ ~alwaysHide' => outcome'[previous'] = 2
    BY <1>1, <2>1, <2>3, <2>4, <2>5, <2>6
  <2>. QED  BY <2>7 DEF SectionsOK
<1>6. AskStart(target)
  BY <1>1
<1>. HIDE DEF target
<1>. QED  BY <1>1, <1>2, <1>3, <1>4, <1>5, <1>6, AskStartKeeps DEF OneParts

\* set() leaves the promise of the parts that an effect still moves.
LEMMA AskSetKeeps ==
  ASSUME FxOK, UNCHANGED kind, NEW T \in SUBSET DOMAIN shown, NEW v \in [T -> Ends], AskSet(v),
         kind \in {"style", "styles", "slide"},
         kind = "slide" => T = {1} /\ open' = (v[1] = 2)
  PROVE  FxOK'
<1>1. /\ shown' = v @@ shown
      /\ outcome' = [p \in DOMAIN outcome |->
                       IF p \in T /\ ~(timer # 0 /\ p \in DOMAIN to) THEN v[p] ELSE outcome[p]]
      /\ UNCHANGED <<kind, wait, alwaysHide, timer, intervals, from, to, soon, chains, wheel,
                     anchor, hash, previous, active, hasty>>
  BY DEF AskSet, Set
<1>2. PartsOK /\ outcome \in [DOMAIN shown -> 0..2] /\ v \in [T -> 0..2]
  BY EndTypes DEF FxOK, PartsOK
<1>3. /\ shown' \in [DOMAIN shown -> 0..2]
      /\ \A p \in T : shown'[p] = v[p]
      /\ \A p \in DOMAIN shown \ T : shown'[p] = shown[p]
  BY <1>1, <1>2, Overlay
<1>4. DOMAIN shown' = DOMAIN shown
  BY <1>3
<1>5. outcome' \in [DOMAIN shown -> 0..2]
  BY <1>1, <1>2
<1>6. PartsOK'
  BY <1>1, <1>3, <1>4, <1>5 DEF FxOK, PartsOK
<1>7. TimersOK'
  BY <1>1 DEF FxOK, TimersOK
<1>8. PromiseOK'
  <2>1. SUFFICES ASSUME kind # "smooth", NEW p \in DOMAIN shown
                 PROVE  IF timer # 0 /\ p \in DOMAIN to THEN outcome'[p] = to[p]
                        ELSE outcome'[p] \in {Either, shown'[p]}
    BY <1>1, <1>4 DEF PromiseOK
  <2>2. outcome'[p] = (IF p \in T /\ ~(timer # 0 /\ p \in DOMAIN to) THEN v[p] ELSE outcome[p])
    BY <1>1, <1>2, <2>1
  <2>3. IF timer # 0 /\ p \in DOMAIN to THEN outcome[p] = to[p] ELSE outcome[p] \in {Either, shown[p]}
    BY <2>1 DEF FxOK, PromiseOK
  <2>. QED  BY <1>3, <2>1, <2>2, <2>3
<1>9. OpenOK'
  <2>1. kind = "slide" => shown'[1] = v[1]
    BY <1>3
  <2>. QED  BY <1>1, <2>1 DEF OpenOK
<1>10. AnchorOK' /\ SectionsOK' /\ WheelOK'
  BY <1>1 DEF AnchorOK, SectionsOK, WheelOK, Scrolls
<1>. QED  BY <1>6, <1>7, <1>8, <1>9, <1>10 DEF FxOK

LEMMA SetsOK ==
  ASSUME FxOK, UNCHANGED kind, StyleSet \/ ShowHide
  PROVE  FxOK'
<1>1. CASE kind = "style" /\ \E v \in Ends : AskSet(<<v>>) /\ UNCHANGED open
  <2>1. PICK v \in Ends : AskSet(<<v>>)
    BY <1>1
  <2>2. <<v>> \in [{1} -> Ends] /\ {1} \subseteq DOMAIN shown
    BY <1>1, OnePart DEF FxOK, PartsOK, OneParts
  <2>. QED  BY <1>1, <2>1, <2>2, AskSetKeeps
<1>2. CASE kind = "styles" /\ \E v \in Targets(1..2) : AskSet(v) /\ UNCHANGED open
  <2>1. PICK v \in Targets(1..2) : AskSet(v)
    BY <1>2
  <2>2. PICK T \in SUBSET (1..2) : v \in [T -> Ends]
    BY DEF Targets
  <2>3. DOMAIN shown = {1, 2}
    BY <1>2 DEF FxOK, PartsOK
  <2>4. T \subseteq DOMAIN shown
    BY <2>3
  <2>. QED  BY <1>2, <2>1, <2>2, <2>4, AskSetKeeps
<1>3. CASE kind = "slide" /\ \E v \in Ends : AskSet(<<v>>) /\ open' = (v = 2)
  <2>1. PICK v \in Ends : AskSet(<<v>>) /\ open' = (v = 2)
    BY <1>3
  <2>2. <<v>> \in [{1} -> Ends] /\ <<v>>[1] = v /\ {1} \subseteq DOMAIN shown
    BY <1>3, OnePart DEF FxOK, PartsOK, OneParts
  <2>. QED  BY <1>3, <2>1, <2>2, AskSetKeeps
<1>. QED  BY <1>1, <1>2, <1>3 DEF StyleSet, ShowHide

\* The chain may only grow by starts.
LEMMA ChainsOK ==
  ASSUME FxOK, UNCHANGED kind, AddLink \/ ClearChain
  PROVE  FxOK'
<1>1. UNCHANGED <<kind, wait, alwaysHide, timer, intervals, from, to, css, shown, soon, open,
                  wheel, anchor, hash, previous, active, outcome, hasty>>
  BY DEF AddLink, ClearChain
<1>2. chains' \in Seq(Links) /\ (kind \notin Chained => chains' = <<>>)
  <2>1. chains \in Seq(Links) /\ (kind \notin Chained => chains = <<>>)
    BY DEF FxOK, TimersOK
  <2>2. CASE AddLink
    <3>1. PICK v \in Ends : chains' = Append(chains, [does |-> "start", target |-> <<v>>])
      BY <2>2 DEF AddLink
    <3>2. kind \in Chained
      BY <2>2 DEF AddLink, Chained
    <3>3. [does |-> "start", target |-> <<v>>] \in Links
      BY DEF Links
    <3>. QED  BY <2>1, <3>1, <3>2, <3>3
  <2>3. CASE ClearChain
    <3>1. chains' = <<>>
      BY <2>3 DEF ClearChain
    <3>. QED  BY <3>1
  <2>. QED  BY <2>2, <2>3
<1>3. TimersOK'
  BY <1>1, <1>2 DEF FxOK, TimersOK
<1>4. PartsOK' /\ PromiseOK' /\ AnchorOK' /\ OpenOK' /\ SectionsOK'
  BY <1>1 DEF FxOK, PartsOK, PromiseOK, AnchorOK, OpenOK, SectionsOK
<1>5. WheelOK'
  BY <1>1 DEF FxOK, WheelOK, Scrolls
<1>. QED  BY <1>3, <1>4, <1>5 DEF FxOK

\* stop() takes back what was promised of the parts that moved.
LEMMA StopOK ==
  ASSUME FxOK, UNCHANGED kind, Stop
  PROVE  FxOK'
<1>1. /\ timer # 0 /\ intervals' = Cleared /\ timer' = 0 /\ outcome' = Promise(NoParts)
      /\ UNCHANGED <<kind, alwaysHide, from, to, shown, soon, chains, open, wheel,
                     anchor, hash, previous, active, hasty>>
  BY DEF Stop
<1>2. outcome \in [DOMAIN shown -> 0..2] /\ TimersOK
  BY DEF FxOK, PartsOK
<1>3. outcome' = [p \in DOMAIN shown |-> IF p \in DOMAIN to THEN Either ELSE outcome[p]]
  BY <1>1, <1>2 DEF Promise, NoParts
<1>4. outcome' \in [DOMAIN shown -> 0..2]
  BY <1>2, <1>3, EndTypes
<1>5. PartsOK'
  BY <1>1, <1>4 DEF FxOK, PartsOK
<1>6. TimersOK'
  BY <1>1, <1>2, ClearedIsNone DEF TimersOK
<1>7. PromiseOK'
  BY <1>1, <1>3 DEF FxOK, PromiseOK
<1>8. kind \in OneParts => outcome'[1] = Either
  BY <1>3 DEF FxOK, PartsOK
<1>9. AnchorOK' /\ OpenOK'
  BY <1>1, <1>8 DEF FxOK, AnchorOK, OpenOK, OneParts
<1>10. SectionsOK'
  <2>1. SUFFICES ASSUME kind = "accordion", \A i \in DOMAIN shown : outcome'[i] # Either
                 PROVE  SectionsOK'
    BY <1>1 DEF SectionsOK
  <2>2. \A i \in DOMAIN shown : outcome'[i] = outcome[i]
    BY <1>3, <2>1
  <2>3. previous \in DOMAIN shown
    BY <2>1 DEF FxOK, PartsOK
  <2>. QED  BY <1>1, <2>1, <2>2, <2>3 DEF FxOK, SectionsOK
<1>11. WheelOK'
  BY <1>1 DEF WheelOK
<1>. QED  BY <1>5, <1>6, <1>7, <1>9, <1>10, <1>11 DEF FxOK

\* The section that is added is closed, and no effect moves it yet.
LEMMA AddSectionOK ==
  ASSUME FxOK, UNCHANGED kind, AddSection
  PROVE  FxOK'
<1>1. /\ kind = "accordion"
      /\ shown' = Append(shown, 0) /\ active' = Append(active, FALSE) /\ outcome' = Append(outcome, 0)
      /\ UNCHANGED <<kind, wait, alwaysHide, timer, intervals, from, to, css, soon, chains, open,
                     wheel, anchor, hash, previous, hasty>>
  BY DEF AddSection
<1>. DEFINE n == Len(shown)
<1>2. shown \in Seq(0..2) /\ n \in Nat /\ DOMAIN shown = 1..n
  BY <1>1 DEF FxOK, PartsOK
<1>3. active \in Seq(BOOLEAN) /\ Len(active) = n
  <2>1. active \in Seq(BOOLEAN) /\ DOMAIN active = DOMAIN shown
    BY <1>1 DEF FxOK, PartsOK
  <2>. QED  BY <1>2, <2>1
<1>4. outcome \in Seq(0..2) /\ Len(outcome) = n
  <2>1. outcome \in [1..n -> 0..2]
    BY <1>2 DEF FxOK, PartsOK
  <2>. QED  BY <1>2, <2>1
<1>5. /\ shown' \in Seq(0..2) /\ DOMAIN shown' = 1..(n + 1)
      /\ shown'[n + 1] = 0 /\ \A i \in 1..n : shown'[i] = shown[i]
  BY <1>1, <1>2
<1>6. /\ outcome' \in Seq(0..2) /\ DOMAIN outcome' = 1..(n + 1)
      /\ outcome'[n + 1] = 0 /\ \A i \in 1..n : outcome'[i] = outcome[i]
  BY <1>1, <1>2, <1>4
<1>7. /\ active' \in Seq(BOOLEAN) /\ DOMAIN active' = 1..(n + 1)
      /\ active'[n + 1] = FALSE /\ \A i \in 1..n : active'[i] = active[i]
  <2>. DEFINE S == BOOLEAN
              e == FALSE
  <2>1. active \in Seq(S) /\ e \in S /\ active' = Append(active, e) /\ Len(active) = n
    BY <1>1, <1>3
  <2>. HIDE DEF S, e, n
  <2>2. /\ active' \in Seq(S) /\ Len(active') = n + 1
        /\ active'[n + 1] = e /\ \A i \in 1..n : active'[i] = active[i]
    BY <2>1, AppendProperties
  <2>. USE DEF S, e
  <2>3. DOMAIN active' = 1..(n + 1)
    BY <2>2
  <2>. QED  BY <2>2, <2>3
<1>8. shown' \in [1..(n + 1) -> 0..2] /\ outcome' \in [1..(n + 1) -> 0..2]
  <2>1. Len(shown') = n + 1 /\ Len(outcome') = n + 1
    BY <1>1, <1>2, <1>4
  <2>. QED  BY <1>5, <1>6, <2>1
<1>9. 1..n \subseteq 1..(n + 1) /\ n + 1 \notin 1..n /\ \A i \in 1..(n + 1) : i \in 1..n \/ i = n + 1
  BY <1>2
<1>10. DOMAIN to \subseteq 1..n /\ previous \in 1..n
  BY <1>1, <1>2 DEF FxOK, PartsOK
<1>. HIDE DEF n
<1>11. PartsOK'
  <2>1. kind \notin OneParts /\ kind # "styles"
    BY <1>1 DEF OneParts
  <2>2. /\ DOMAIN to' \subseteq DOMAIN shown' /\ DOMAIN from' = DOMAIN to'
        /\ to' \in [DOMAIN to' -> Ends] /\ from' \in [DOMAIN to' -> 0..2]
    BY <1>1, <1>5, <1>9, <1>10 DEF FxOK, PartsOK
  <2>3. previous' \in DOMAIN shown' /\ DOMAIN active' = DOMAIN shown'
    BY <1>1, <1>5, <1>7, <1>9, <1>10
  <2>4. shown' \in [DOMAIN shown' -> 0..2] /\ outcome' \in [DOMAIN shown' -> 0..2]
    BY <1>5, <1>8
  <2>. QED  BY <1>1, <1>5, <1>7, <2>1, <2>2, <2>3, <2>4 DEF PartsOK
<1>12. TimersOK'
  BY <1>1 DEF FxOK, TimersOK
<1>13. PromiseOK'
  <2>1. SUFFICES ASSUME NEW p \in 1..(n + 1)
                 PROVE  IF timer # 0 /\ p \in DOMAIN to THEN outcome'[p] = to[p]
                        ELSE outcome'[p] \in {Either, shown'[p]}
    BY <1>1, <1>5 DEF PromiseOK
  <2>2. CASE p \in 1..n
    <3>1. IF timer # 0 /\ p \in DOMAIN to THEN outcome[p] = to[p] ELSE outcome[p] \in {Either, shown[p]}
      BY <1>1, <1>2, <2>2 DEF FxOK, PromiseOK, n
    <3>. QED  BY <1>5, <1>6, <2>2, <3>1
  <2>3. CASE p = n + 1
    BY <1>5, <1>6, <1>9, <1>10, <2>3
  <2>. QED  BY <1>9, <2>1, <2>2, <2>3
<1>14. AnchorOK' /\ OpenOK' /\ WheelOK'
  BY <1>1 DEF AnchorOK, OpenOK, WheelOK, Scrolls
<1>15. SectionsOK'
  <2>1. SUFFICES ASSUME \A i \in 1..(n + 1) : outcome'[i] # Either
                 PROVE  /\ \A i \in 1..(n + 1) : active'[i] = (outcome'[i] = 2)
                        /\ \A i \in 1..(n + 1) : outcome'[i] = 2 => i = previous
                        /\ ~alwaysHide => outcome'[previous] = 2
    BY <1>1, <1>5 DEF SectionsOK
  <2>2. \A i \in 1..n : outcome[i] # Either
    BY <1>6, <1>9, <2>1
  <2>3. /\ \A i \in 1..n : active[i] = (outcome[i] = 2)
        /\ \A i \in 1..n : outcome[i] = 2 => i = previous
        /\ ~alwaysHide => outcome[previous] = 2
    BY <1>1, <1>2, <2>2 DEF FxOK, SectionsOK, n
  <2>4. active'[n + 1] = (outcome'[n + 1] = 2) /\ outcome'[n + 1] # 2
    <3>1. (outcome'[n + 1] = 2) = FALSE
      BY <1>6
    <3>. QED  BY <1>7, <3>1
  <2>5. \A i \in 1..n : active'[i] = (outcome'[i] = 2)
    BY <1>6, <1>7, <2>3
  <2>6. \A i \in 1..(n + 1) : active'[i] = (outcome'[i] = 2)
    BY <1>9, <2>4, <2>5
  <2>7. \A i \in 1..(n + 1) : outcome'[i] = 2 => i = previous
    BY <1>6, <1>9, <2>3, <2>4
  <2>. QED  BY <1>6, <1>10, <2>3, <2>6, <2>7
<1>. QED  BY <1>11, <1>12, <1>13, <1>14, <1>15 DEF FxOK

LEMMA FxSame ==
  ASSUME FxOK, UNCHANGED <<kind, fxVars>>
  PROVE  FxOK'
<1>1. UNCHANGED <<kind, wait, alwaysHide, timer, intervals, from, to, css, shown, soon, chains,
                  open, wheel, anchor, hash, previous, active, outcome, hasty, requests>>
  BY DEF fxVars
<1>2. PartsOK' /\ TimersOK'
  BY <1>1 DEF FxOK, PartsOK, TimersOK
<1>3. PromiseOK' /\ AnchorOK' /\ OpenOK' /\ SectionsOK' /\ WheelOK'
  BY <1>1 DEF FxOK, PromiseOK, AnchorOK, OpenOK, SectionsOK, WheelOK, Scrolls
<1>. QED  BY <1>2, <1>3 DEF FxOK

LEMMA FxNextOK ==
  ASSUME FxOK, [Next]_vars
  PROVE  FxOK'
<1>1. CASE FxNext /\ UNCHANGED kind
  BY <1>1, StepOnOK, StepEndOK, FireTimeoutOK, StartsOK, StylesStartOK, UseLinkOK, SetsOK,
     ChainsOK, StopOK, DisplayOK, AddSectionOK DEF FxNext, FxAsk, WheelStop
<1>2. CASE UNCHANGED <<kind, fxVars>>
  BY <1>2, FxSame
<1>. QED  BY <1>1, <1>2 DEF Next, vars

\* An effect at rest shows what was promised last, part by part, and its flag, events
\* and location agree with it: Fx.Base and all that is made from it, with every option,
\* whatever the page starts, sets, chains, stops or adds while the effect runs, and
\* whatever the number of sections and of calls.
THEOREM EffectsComeToRest == Spec => []AtRest
<1>1. Init => FxOK
  BY FxInitOK
<1>2. FxOK /\ [Next]_vars => FxOK'
  BY FxNextOK
<1>3. FxOK => AtRest
  <2>1. SUFFICES ASSUME FxOK, FxIdle
                 PROVE  PartsAtRest /\ SlideAtRest /\ SmoothAtRest /\ AccordionAtRest
    BY DEF AtRest
  <2>2. timer = 0 /\ soon = <<>> /\ DOMAIN outcome = DOMAIN shown
    BY <2>1 DEF FxIdle, FxOK, TimersOK, PartsOK
  <2>3. kind = "smooth" => DOMAIN shown = {1} /\ (outcome[1] # Either => outcome[1] = shown[1] /\ hash = shown[1])
    BY <2>1, <2>2 DEF FxOK, AnchorOK, PartsOK, OneParts
  <2>4. kind # "smooth" => \A p \in DOMAIN shown : outcome[p] \in {Either, shown[p]}
    BY <2>1, <2>2 DEF FxOK, PromiseOK
  <2>5. PartsAtRest
    BY <2>2, <2>3, <2>4 DEF PartsAtRest
  <2>6. SlideAtRest /\ SmoothAtRest
    BY <2>1, <2>2, <2>3 DEF SlideAtRest, SmoothAtRest, FxOK, OpenOK
  <2>7. AccordionAtRest
    <3>1. SUFFICES ASSUME kind = "accordion", \A i \in DOMAIN outcome : outcome[i] # Either
                   PROVE  /\ \A i \in DOMAIN shown : active[i] = (shown[i] = 2)
                          /\ \A i \in DOMAIN shown : shown[i] = 2 => i = previous
                          /\ ~alwaysHide => shown[previous] = 2
      BY DEF AccordionAtRest
    <3>2. \A i \in DOMAIN shown : outcome[i] = shown[i]
      BY <2>2, <2>4, <3>1
    <3>3. /\ \A i \in DOMAIN shown : active[i] = (outcome[i] = 2)
          /\ \A i \in DOMAIN shown : outcome[i] = 2 => i = previous
          /\ ~alwaysHide => outcome[previous] = 2
      BY <2>1, <2>2, <3>1 DEF FxOK, SectionsOK
    <3>4. previous \in DOMAIN shown
      BY <2>1, <3>1 DEF FxOK, PartsOK
    <3>. QED  BY <3>2, <3>3, <3>4
  <2>. QED  BY <2>5, <2>6, <2>7
<1>. QED  BY <1>1, <1>2, <1>3, PTL DEF Spec

\* A scroll that runs can be stopped by the wheel, unless it was started hastily:
\* Fx.Scroll.initialize, whatever is started, stopped or chained before.
THEOREM WheelListens == Spec => []WheelStops
<1>1. Init => FxOK
  BY FxInitOK
<1>2. FxOK /\ [Next]_vars => FxOK'
  BY FxNextOK
<1>3. FxOK => WheelStops
  BY DEF FxOK, WheelOK, WheelStops
<1>. QED  BY <1>1, <1>2, <1>3, PTL DEF Spec
=============================================================================
