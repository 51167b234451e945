----------------------------- MODULE HashCookie -----------------------------
(***************************************************************************)
(* Hash, Cookie and Hash.Cookie of mootools-release-1.11.js: an object     *)
(* whose JSON text is kept in a cookie, here opened by several pages.  A   *)
(* value stands for its length.  save() refuses a text that is too long;   *)
(* the cookie holds the text encoded, and the browser ignores one that is  *)
(* too long then.                                                          *)
(***************************************************************************)
EXTENDS Widget, Naturals, Sequences, FiniteSets, FiniteSetsExt

CONSTANTS
  Pages,        \* the pages that use the cookie, from 1
  Names,        \* keys of the hash
  Sizes,        \* values, by the room they take
  MaxText,      \* the longest text save() accepts: 4096 characters
  MaxEncoded    \* the longest text the browser keeps once it is encoded

ASSUME HashAssumption ==
  /\ Pages \subseteq Nat \ {0} /\ IsFiniteSet(Names) /\ Sizes \subseteq Nat
  /\ MaxText \in Nat /\ MaxEncoded \in 0..MaxText

VARIABLES
  obj,          \* per page: this.obj
  length,       \* per page: this.length
  cookie,       \* the cookie, without keys when there is none
  autoSave,     \* options.autoSave
  writer        \* history: the page that saved last, 0 for none

hashVars == <<obj, length, cookie, autoSave, writer>>

Empty == [n \in {} |-> 0]
Objects == UNION {[N -> Sizes] : N \in SUBSET Names}
Text(o) == FoldSet(LAMBDA n, sum : o[n] + sum, 0, DOMAIN o)

HashInit ==
  /\ obj = [p \in Pages |-> Empty]
  /\ length = [p \in Pages |-> 0]
  /\ cookie \in (IF kind = "hash" THEN {Empty} \cup {o \in Objects : Cardinality(DOMAIN o) = 1
                                                      /\ Text(o) <= MaxEncoded}
                 ELSE {Empty})
  /\ autoSave \in (IF kind = "hash" THEN BOOLEAN ELSE {FALSE})
  /\ writer = 0

\* Cookie.set, as the browser takes it.
CookieSet(o) == IF Text(o) <= MaxEncoded THEN o ELSE cookie

\* Mutant: an empty hash is not saved.
SavedUnlessEmpty(o, n) == IF n = 0 \/ Text(o) > MaxText THEN cookie ELSE CookieSet(o)

\* save(): what the cookie becomes.
Saved(o, n) == IF n = 0 THEN Empty ELSE IF Text(o) > MaxText THEN cookie ELSE CookieSet(o)

\* The end of each method of Hash.Cookie.Methods.
Becomes(p, o, n) ==
  /\ obj' = [obj EXCEPT ![p] = o]
  /\ length' = [length EXCEPT ![p] = n]
  /\ IF autoSave THEN cookie' = Saved(o, n) /\ writer' = p ELSE UNCHANGED <<cookie, writer>>
  /\ UNCHANGED autoSave

HashSet == \E p \in Pages, n \in Names, v \in Sizes :
  Becomes(p, n :> v @@ obj[p], IF n \in DOMAIN obj[p] THEN length[p] ELSE length[p] + 1)

HashRemove == \E p \in Pages, n \in Names :
  IF n \in DOMAIN obj[p]
  THEN Becomes(p, [m \in DOMAIN obj[p] \ {n} |-> obj[p][m]], length[p] - 1)
  ELSE Becomes(p, obj[p], length[p])

\* extend() and merge() count the keys anew.
HashExtend == \E p \in Pages, o \in Objects :
  Becomes(p, o @@ obj[p], Cardinality(DOMAIN o \cup DOMAIN obj[p]))

HashEmpty == \E p \in Pages : Becomes(p, Empty, 0)

HashSave == \E p \in Pages :
  /\ cookie' = Saved(obj[p], length[p])
  /\ writer' = p
  /\ UNCHANGED <<obj, length, autoSave>>

\* load(), also when a page is opened.
HashLoad == \E p \in Pages :
  /\ obj' = [obj EXCEPT ![p] = cookie]
  /\ length' = [length EXCEPT ![p] = Cardinality(DOMAIN cookie)]
  /\ UNCHANGED <<cookie, autoSave, writer>>

HashNext == kind = "hash" /\ (\/ HashSet \/ HashRemove \/ HashExtend \/ HashEmpty
                              \/ HashSave \/ HashLoad)
-----------------------------------------------------------------------------
\* With autoSave the cookie is what the page that changed its hash last has, if
\* that fits once it is encoded, and gone when that hash has no keys: the length
\* save() goes by, kept by set and remove, is the number of keys.
CookieIsHash ==
  /\ \A p \in Pages : length[p] = Cardinality(DOMAIN obj[p])
  /\ autoSave /\ writer # 0 /\ Text(obj[writer]) <= MaxEncoded => cookie = obj[writer]
=============================================================================
