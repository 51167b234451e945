--------------------------- MODULE ProactorProofs ---------------------------
(***************************************************************************)
(* Theorems about Proactor: no coroutine that uses a socket is lost or run *)
(* twice, and a token's descriptor is watched, or about to be handled, for *)
(* that very token.  The program does none of the things in Kinds.         *)
(***************************************************************************)
EXTENDS Proactor, FiniteSetTheorems, TLAPS

SockOp == [kind : {"recv", "send"}, c : Coro, n : Nat, f : Fd, timed : BOOLEAN, pr : Prios]
TaskType == [op : SockOp \cup {NoOp, Exc}, coro : Coro]

Phases == {"pick", "run", "nested", "poll", "events", "handled", "timers", "done"}

TypeOK ==
  /\ config \in Config /\ phase \in Phases
  /\ active \in Seq(TaskType)
  /\ urgent \in TaskType \cup {NoPair} /\ cur \in TaskType \cup {NoPair}
  /\ alive \subseteq Coro /\ opn \in [Coro -> Nat]
  /\ tokens \subseteq SockOp /\ shadow \in [Fd -> SockOp \cup {NoOp}]
  /\ armed \subseteq Fd /\ batch \in Seq(Fd)

\* The event at the head of the batch is being handled.
Handling == phase \in {"nested", "handled"}

\* Which part of the loop has what.
Turn ==
  /\ Running => cur # NoPair
  /\ phase \notin {"pick", "timers"} => urgent = NoPair
  /\ Handling => batch # <<>>
  /\ phase \notin {"events", "nested", "handled"} => batch = <<>>
  /\ \A i, j \in DOMAIN batch : batch[i] = batch[j] => i = j

\* The descriptors whose events are still to be handled.
Rest == ToSet(IF Handling THEN Tail(batch) ELSE batch)

\* The table shadow, the tokens and the poller agree.  While a coroutine runs in
\* handle_event, poll still watches the descriptor of an operation that is over.
Watched ==
  /\ \A op \in tokens : shadow[op.f] = op /\ op.f \in armed \cup Rest
  /\ \A f \in Fd : shadow[f] # NoOp => shadow[f] \in tokens /\ shadow[f].f = f
  /\ \A f \in Rest : shadow[f] # NoOp
  /\ \A f \in armed : \/ shadow[f] # NoOp
                      \/ Handling /\ f = Head(batch) /\ config.impl = "poll"
  /\ config.impl = "epoll" => armed \cap Rest = {}
  /\ Handling /\ config.impl = "poll" => shadow[Head(batch)] = NoOp

(***************************************************************************)
(* With deque a, tokens T and the coroutines hot that are run, or will be  *)
(* run first: nobody is in two places, and who lives is in one.            *)
(***************************************************************************)
Coros(a) == {a[i].coro : i \in DOMAIN a}
Owners(T) == {op.c : op \in T}

OnePlace(a, hot, T, living) ==
  /\ \A i, j \in DOMAIN a : a[i].coro = a[j].coro => i = j
  /\ \A s, t \in T : s.c = t.c => s = t
  /\ Coros(a) \cap hot = {} /\ Coros(a) \cap Owners(T) = {} /\ hot \cap Owners(T) = {}
  /\ living = Coros(a) \cup hot \cup Owners(T)

Hot == (IF Running THEN {cur.coro} ELSE {}) \cup ({urgent.coro} \ {None})

Placed == OnePlace(active, Hot, tokens, alive)

Inv == TypeOK /\ Turn /\ Watched /\ Placed
-----------------------------------------------------------------------------
(***************************************************************************)
(* Lemmas about the operators of the model.                                *)
(***************************************************************************)
\* The operations and pairs the model makes.
LEMMA Made ==
  /\ NoPair.coro = None /\ NoPair.op = NoOp /\ NoPair \notin TaskType
  /\ NoOp \notin SockOp /\ Exc # NoOp
  /\ \A p \in TaskType : p.coro \in Coro /\ p.coro # None
  /\ \A op \in SockOp \cup {NoOp, Exc}, c \in Coro :
       /\ Pair(op, c) \in TaskType /\ Pair(op, c) # NoPair
       /\ Pair(op, c).coro = c /\ Pair(op, c).op = op
<1>1. NoOp.kind = "none" /\ Exc.kind = "exception"
  BY DEF NoOp, Exc
<1>2. NoOp \notin SockOp /\ Exc # NoOp
  BY <1>1 DEF SockOp
<1>3. NoPair.coro = None /\ NoPair.op = NoOp
  BY DEF NoPair, Pair
<1>4. \A p \in TaskType : p.coro \in Coro /\ p.coro # None
  BY ProactorAssumption DEF TaskType
<1>5. \A op \in SockOp \cup {NoOp, Exc}, c \in Coro :
        Pair(op, c) \in TaskType /\ Pair(op, c).coro = c /\ Pair(op, c).op = op
  BY DEF Pair, TaskType
<1>. QED  BY <1>2, <1>3, <1>4, <1>5

\* The coroutines of a deque, as pairs come and go.
LEMMA DequeCoros ==
  ASSUME NEW a \in Seq(TaskType), NEW p \in TaskType
  PROVE  /\ Coros(Append(a, p)) = Coros(a) \cup {p.coro}
         /\ Coros(<<p>> \o a) = Coros(a) \cup {p.coro}
         /\ Append(a, p) \in Seq(TaskType) /\ <<p>> \o a \in Seq(TaskType)
         /\ (\A i, j \in DOMAIN a : a[i].coro = a[j].coro => i = j) /\ p.coro \notin Coros(a)
              => /\ \A i, j \in DOMAIN Append(a, p) :
                      Append(a, p)[i].coro = Append(a, p)[j].coro => i = j
                 /\ \A i, j \in DOMAIN (<<p>> \o a) :
                      (<<p>> \o a)[i].coro = (<<p>> \o a)[j].coro => i = j
<1>. DEFINE b == Append(a, p)
            d == <<p>> \o a
<1>1. /\ b \in Seq(TaskType) /\ DOMAIN b = 1 .. Len(a) + 1 /\ b[Len(a) + 1] = p
      /\ \A i \in 1 .. Len(a) : b[i] = a[i]
  OBVIOUS
<1>2. /\ d \in Seq(TaskType) /\ DOMAIN d = 1 .. Len(a) + 1 /\ d[1] = p
      /\ \A i \in 1 .. Len(a) : d[i + 1] = a[i]
      /\ \A i \in 2 .. Len(a) + 1 : i - 1 \in 1 .. Len(a) /\ d[i] = a[i - 1]
  OBVIOUS
<1>3. DOMAIN a = 1 .. Len(a) /\ Len(a) \in Nat
  OBVIOUS
<1>. HIDE DEF b, d
<1>4. Coros(b) = Coros(a) \cup {p.coro}
  <2>1. Coros(b) \subseteq Coros(a) \cup {p.coro}
    BY <1>1, <1>3 DEF Coros
  <2>2. Coros(a) \subseteq Coros(b)
    BY <1>1, <1>3 DEF Coros
  <2>3. p.coro \in Coros(b)
    BY <1>1, <1>3 DEF Coros
  <2>. QED  BY <2>1, <2>2, <2>3
<1>5. Coros(d) = Coros(a) \cup {p.coro}
  <2>1. ASSUME NEW i \in DOMAIN d PROVE d[i].coro \in Coros(a) \cup {p.coro}
    <3>1. CASE i = 1
      BY <1>2, <3>1
    <3>2. CASE i # 1
      <4>1. i - 1 \in 1 .. Len(a) /\ d[i] = a[i - 1]
        BY <1>2, <1>3, <3>2
      <4>. QED  BY <1>3, <4>1 DEF Coros
    <3>. QED  BY <3>1, <3>2
  <2>2. ASSUME NEW i \in DOMAIN a PROVE a[i].coro \in Coros(d)
    <3>1. i + 1 \in DOMAIN d /\ d[i + 1] = a[i]
      BY <1>2, <1>3
    <3>. QED  BY <3>1 DEF Coros
  <2>3. p.coro \in Coros(d)
    BY <1>2, <1>3 DEF Coros
  <2>4. Coros(d) \subseteq Coros(a) \cup {p.coro}
    BY <2>1 DEF Coros
  <2>5. Coros(a) \subseteq Coros(d)
    BY <2>2 DEF Coros
  <2>. QED  BY <2>3, <2>4, <2>5
<1>6. ASSUME \A i, j \in DOMAIN a : a[i].coro = a[j].coro => i = j, p.coro \notin Coros(a)
      PROVE  /\ \A i, j \in DOMAIN b : b[i].coro = b[j].coro => i = j
             /\ \A i, j \in DOMAIN d : d[i].coro = d[j].coro => i = j
  <2>1. \A i \in 1 .. Len(a) : a[i].coro # p.coro
    BY <1>3, <1>6 DEF Coros
  <2>2. \A i, j \in DOMAIN b : b[i].coro = b[j].coro => i = j
    BY <1>1, <1>3, <1>6, <2>1
  <2>3. ASSUME NEW i \in DOMAIN d, NEW j \in DOMAIN d, d[i].coro = d[j].coro
        PROVE  i = j
    <3>1. CASE i = 1 \/ j = 1
      BY <1>2, <1>3, <2>1, <2>3, <3>1
    <3>2. CASE i # 1 /\ j # 1
      <4>1. /\ i - 1 \in 1 .. Len(a) /\ d[i] = a[i - 1]
            /\ j - 1 \in 1 .. Len(a) /\ d[j] = a[j - 1]
        BY <1>2, <1>3, <3>2
      <4>2. i - 1 = j - 1
        BY <1>3, <1>6, <2>3, <4>1
      <4>. QED  BY <1>2, <1>3, <4>2
    <3>. QED  BY <3>1, <3>2
  <2>. QED  BY <2>2, <2>3
<1>. QED  BY <1>1, <1>2, <1>4, <1>5, <1>6 DEF b, d

\* The head of a sequence without repetitions, and the rest of it.
LEMMA HeadApart ==
  ASSUME NEW S, NEW s \in Seq(S), s # <<>>
  PROVE  /\ Head(s) \in S /\ Tail(s) \in Seq(S) /\ Head(s) = s[1] /\ 1 \in DOMAIN s
         /\ Len(s) \in Nat \ {0}
         /\ ToSet(s) = ToSet(Tail(s)) \cup {Head(s)}
         /\ ToSet(s) \subseteq S
         /\ Len(s) = 1 => Tail(s) = <<>>
         /\ Len(s) # 1 => Tail(s) # <<>>
         /\ \A i \in DOMAIN Tail(s) : i + 1 \in DOMAIN s /\ Tail(s)[i] = s[i + 1] /\ i + 1 # 1
<1>. DEFINE t == Tail(s)
<1>1. /\ Head(s) = s[1] /\ t \in Seq(S) /\ DOMAIN t = 1 .. Len(s) - 1 /\ 1 \in DOMAIN s
      /\ Len(s) \in Nat \ {0} /\ DOMAIN s = 1 .. Len(s) /\ Len(t) = Len(s) - 1
      /\ \A i \in 1 .. Len(s) - 1 : t[i] = s[i + 1]
      /\ \A i \in DOMAIN s : s[i] \in S
  OBVIOUS
<1>. HIDE DEF t
<1>2. ASSUME NEW i \in DOMAIN t
      PROVE  i + 1 \in DOMAIN s /\ t[i] = s[i + 1] /\ i + 1 # 1
  BY <1>1
<1>3. ASSUME NEW i \in DOMAIN s, i # 1
      PROVE  i - 1 \in DOMAIN t /\ t[i - 1] = s[i]
  BY <1>1, <1>3
<1>4. ToSet(s) = ToSet(t) \cup {Head(s)}
  <2>1. ToSet(s) \subseteq ToSet(t) \cup {Head(s)}
    BY <1>1, <1>3 DEF ToSet
  <2>2. ToSet(t) \subseteq ToSet(s)
    BY <1>2 DEF ToSet
  <2>3. Head(s) \in ToSet(s)
    BY <1>1 DEF ToSet
  <2>. QED  BY <2>1, <2>2, <2>3
<1>5. /\ Len(s) = 1 => t = <<>>
      /\ Len(s) # 1 => t # <<>>
  BY <1>1
<1>6. ToSet(s) \subseteq S /\ Head(s) \in S
  BY <1>1 DEF ToSet
<1>. QED  BY <1>1, <1>2, <1>4, <1>5, <1>6 DEF t
-----------------------------------------------------------------------------
(***************************************************************************)
(* A coroutine moves from one place to another.                            *)
(***************************************************************************)
\* A token is taken: its coroutine is to run.
LEMMA TokenTaken ==
  ASSUME NEW a, NEW hot, NEW T, NEW living, OnePlace(a, hot, T, living), NEW op \in T
  PROVE  /\ OnePlace(a, hot \cup {op.c}, T \ {op}, living)
         /\ op.c \notin hot /\ op.c \in living
<1>1. Owners(T) = Owners(T \ {op}) \cup {op.c}
  BY DEF Owners
<1>2. op.c \notin Owners(T \ {op})
  BY DEF Owners, OnePlace
<1>3. /\ \A i, j \in DOMAIN a : a[i].coro = a[j].coro => i = j
      /\ \A s, t \in T : s.c = t.c => s = t
      /\ Coros(a) \cap hot = {} /\ Coros(a) \cap Owners(T) = {} /\ hot \cap Owners(T) = {}
      /\ living = Coros(a) \cup hot \cup Owners(T)
  BY DEF OnePlace
<1>4. op.c \notin hot /\ op.c \in living /\ op.c \notin Coros(a)
  BY <1>1, <1>3
<1>5. /\ Coros(a) \cap (hot \cup {op.c}) = {} /\ Coros(a) \cap Owners(T \ {op}) = {}
      /\ (hot \cup {op.c}) \cap Owners(T \ {op}) = {}
      /\ living = Coros(a) \cup (hot \cup {op.c}) \cup Owners(T \ {op})
  <2>. DEFINE O == Owners(T)
              U == Owners(T \ {op})
              A == Coros(a)
              x == op.c
  <2>1. /\ O = U \cup {x} /\ x \notin U /\ x \notin hot /\ x \notin A
        /\ A \cap hot = {} /\ A \cap O = {} /\ hot \cap O = {} /\ living = A \cup hot \cup O
    BY <1>1, <1>2, <1>3, <1>4
  <2>. HIDE DEF O, U, A, x
  <2>2. /\ A \cap (hot \cup {x}) = {} /\ A \cap U = {} /\ (hot \cup {x}) \cap U = {}
        /\ living = A \cup (hot \cup {x}) \cup U
    BY <2>1
  <2>. QED  BY <2>2 DEF O, U, A, x
<1>6. OnePlace(a, hot \cup {op.c}, T \ {op}, living)
  BY <1>3, <1>5 DEF OnePlace
<1>. QED  BY <1>4, <1>6

\* The same for the tokens there are.
LEMMA TokenToRun ==
  ASSUME Placed, NEW op \in tokens
  PROVE  /\ OnePlace(active, Hot \cup {op.c}, tokens \ {op}, alive)
         /\ op.c \notin Hot
BY TokenTaken DEF Placed

\* Who was to run waits with a token instead.
LEMMA TokenKept ==
  ASSUME NEW a, NEW hot, NEW T, NEW living, OnePlace(a, hot, T, living), NEW op, op.c \in hot
  PROVE  OnePlace(a, hot \ {op.c}, T \cup {op}, living)
<1>1. Owners(T \cup {op}) = Owners(T) \cup {op.c}
  BY DEF Owners
<1>2. \A t \in T : t.c # op.c
  BY DEF Owners, OnePlace
<1>. QED  BY <1>1, <1>2 DEF OnePlace

\* Who was to run is queued.
LEMMA HotQueued ==
  ASSUME NEW a \in Seq(TaskType), NEW hot, NEW T, NEW living, OnePlace(a, hot, T, living),
         NEW p \in TaskType, p.coro \in hot
  PROVE  /\ OnePlace(Append(a, p), hot \ {p.coro}, T, living)
         /\ OnePlace(<<p>> \o a, hot \ {p.coro}, T, living)
<1>1. p.coro \notin Coros(a)
  BY DEF OnePlace
<1>. QED  BY <1>1, DequeCoros DEF OnePlace

\* The head of the deque is to run.
LEMMA HeadTaken ==
  ASSUME NEW a \in Seq(TaskType), a # <<>>, NEW hot, NEW T, NEW living, OnePlace(a, hot, T, living)
  PROVE  /\ OnePlace(Tail(a), hot \cup {Head(a).coro}, T, living)
         /\ Head(a).coro \notin hot /\ Head(a).coro \in living
<1>. DEFINE t == Tail(a)
<1>1. /\ 1 \in DOMAIN a /\ Head(a) = a[1]
      /\ \A i \in DOMAIN t : i \in Nat /\ i + 1 \in DOMAIN a /\ t[i] = a[i + 1] /\ i + 1 # 1
      /\ \A i \in DOMAIN a : i # 1 => i - 1 \in DOMAIN t /\ t[i - 1] = a[i]
  OBVIOUS
<1>. HIDE DEF t
<1>2. Coros(a) = Coros(t) \cup {a[1].coro}
  <2>1. ASSUME NEW i \in DOMAIN a PROVE a[i].coro \in Coros(t) \cup {a[1].coro}
    <3>1. CASE i = 1
      BY <3>1
    <3>2. CASE i # 1
      BY <1>1, <3>2 DEF Coros
    <3>. QED  BY <3>1, <3>2
  <2>2. ASSUME NEW i \in DOMAIN t PROVE t[i].coro \in Coros(a)
    <3>1. i + 1 \in DOMAIN a /\ t[i] = a[i + 1]
      BY <1>1
    <3>. QED  BY <3>1 DEF Coros
  <2>. QED  BY <1>1, <2>1, <2>2 DEF Coros
<1>3. a[1].coro \notin Coros(t)
  <2>1. ASSUME NEW i \in DOMAIN t PROVE t[i].coro # a[1].coro
    BY <1>1 DEF OnePlace
  <2>. QED  BY <2>1 DEF Coros
<1>4. ASSUME NEW i \in DOMAIN t, NEW j \in DOMAIN t, t[i].coro = t[j].coro
      PROVE  i = j
  <2>1. i + 1 = j + 1
    BY <1>1, <1>4 DEF OnePlace
  <2>. QED  BY <1>1, <2>1
<1>5. OnePlace(t, hot \cup {a[1].coro}, T, living)
  BY <1>2, <1>3, <1>4 DEF OnePlace
<1>6. a[1].coro \notin hot /\ a[1].coro \in living
  BY <1>2 DEF OnePlace
<1>. QED  BY <1>1, <1>5, <1>6 DEF t

\* Who was to run has ended.
LEMMA HotEnds ==
  ASSUME NEW a, NEW hot, NEW T, NEW living, OnePlace(a, hot, T, living), NEW c \in hot
  PROVE  OnePlace(a, hot \ {c}, T, living \ {c})
BY DEF OnePlace

\* Nobody moves.
LEMMA StaysWatched ==
  ASSUME Watched, UNCHANGED <<config, tokens, shadow, armed, batch>>, Handling' = Handling
  PROVE  Watched' /\ Rest' = Rest
BY DEF Watched, Rest
-----------------------------------------------------------------------------
(***************************************************************************)
(* What the coroutine that runs does.                                      *)
(***************************************************************************)
\* Only the coroutine that runs is to be run first.
LEMMA OnlyRuns ==
  ASSUME TypeOK, Turn, Running
  PROVE  /\ cur \in TaskType /\ cur.coro \in Coro /\ urgent = NoPair /\ Hot = {cur.coro}
         /\ phase \in {"run", "nested"} /\ Handling = (phase = "nested")
<1>1. urgent = NoPair /\ cur \in TaskType
  BY DEF TypeOK, Turn, Running
<1>. QED  BY <1>1, Made DEF Hot, Running, Handling

\* Between the coroutine that runs and the loop, the turn passes.
LEMMA TurnPasses ==
  ASSUME TypeOK, Turn, Running, UNCHANGED <<config, urgent, batch>>,
         phase' \in {phase, IF phase = "run" THEN "poll" ELSE "handled"},
         cur' \in TaskType \cup {NoPair}, phase' = phase => cur' # NoPair
  PROVE  /\ Turn' /\ Handling' = Handling /\ phase' \in Phases
         /\ phase' = phase => Hot' = {cur'.coro}
         /\ phase' # phase => Hot' = {}
<1>1. /\ urgent = NoPair /\ urgent' = NoPair /\ NoPair.coro = None
      /\ phase \in {"run", "nested"} /\ (phase = "nested" => batch # <<>>)
      /\ (phase = "run" => batch = <<>>)
  BY OnlyRuns, Made DEF Turn, Handling
<1>2. Handling' = Handling /\ phase' \in Phases
  BY <1>1 DEF Handling, Phases
<1>3. Turn'
  BY <1>1 DEF Turn, Handling, Running
<1>4. /\ phase' = phase => Hot' = {cur'.coro}
      /\ phase' # phase => Hot' = {}
  BY <1>1 DEF Hot, Running
<1>. QED  BY <1>2, <1>3, <1>4

\* The coroutine goes on with p, or p is queued.
LEMMA Goes ==
  ASSUME TypeOK, Turn, Running, UNCHANGED <<config, urgent, batch, alive, tokens>>, Placed,
         NEW p \in TaskType, p.coro = cur.coro, Continue(active, p),
         p.op # NoOp \/ phase # "nested" \/ config.ops_greedy
  PROVE  /\ Placed' /\ Turn' /\ Handling' = Handling
         /\ active' \in Seq(TaskType) /\ cur' \in TaskType \cup {NoPair} /\ phase' \in Phases
<1>1. /\ cur \in TaskType /\ Hot = {cur.coro} /\ phase \in {"run", "nested"}
      /\ p # NoPair /\ active \in Seq(TaskType)
  BY OnlyRuns, Made DEF TypeOK
<1>2. CASE phase = "nested" /\ ~config.ops_greedy
  <2>1. active' \in {<<p>> \o active, Append(active, p)} /\ cur' = NoPair /\ phase' = "handled"
    BY <1>2 DEF Continue, Queued
  <2>2. Turn' /\ Handling' = Handling /\ phase' \in Phases /\ Hot' = {}
    BY <1>1, <1>2, <2>1, TurnPasses
  <2>3. /\ OnePlace(Append(active, p), {cur.coro} \ {p.coro}, tokens, alive)
        /\ OnePlace(<<p>> \o active, {cur.coro} \ {p.coro}, tokens, alive)
    BY <1>1, HotQueued DEF Placed
  <2>4. {cur.coro} \ {p.coro} = {}
    OBVIOUS
  <2>5. Placed'
    BY <2>1, <2>2, <2>3, <2>4 DEF Placed
  <2>6. active' \in Seq(TaskType)
    <3>1. Append(active, p) \in Seq(TaskType) /\ <<p>> \o active \in Seq(TaskType)
      BY <1>1, DequeCoros
    <3>. QED  BY <2>1, <3>1
  <2>. QED  BY <2>1, <2>2, <2>5, <2>6
<1>3. CASE ~(phase = "nested" /\ ~config.ops_greedy)
  <2>1. active' = active /\ cur' = p /\ phase' = phase
    BY <1>1, <1>3 DEF Continue
  <2>2. Turn' /\ Handling' = Handling /\ phase' \in Phases /\ Hot' = {cur.coro}
    BY <1>1, <2>1, TurnPasses
  <2>. QED  BY <1>1, <2>1, <2>2 DEF Placed
<1>. QED  BY <1>2, <1>3

\* The coroutine leaves the inner loop, or handle_event.
LEMMA Leaves ==
  ASSUME TypeOK, Turn, Running, UNCHANGED <<config, urgent, batch>>,
         NEW a \in Seq(TaskType), OnePlace(a, {}, tokens', alive'), Continue(a, NoPair)
  PROVE  /\ Placed' /\ Turn' /\ Handling' = Handling
         /\ active' \in Seq(TaskType) /\ cur' \in TaskType \cup {NoPair} /\ phase' \in Phases
<1>1. phase \in {"run", "nested"} /\ NoPair.op = NoOp
  BY OnlyRuns, Made
<1>2. active' = a /\ cur' = NoPair /\ phase' = IF phase = "run" THEN "poll" ELSE "handled"
  BY <1>1 DEF Continue
<1>3. Turn' /\ Handling' = Handling /\ phase' \in Phases /\ Hot' = {}
  BY <1>1, <1>2, TurnPasses
<1>. QED  BY <1>2, <1>3 DEF Placed

\* The coroutine ends.
LEMMA EndInv ==
  ASSUME Inv, End
  PROVE  Inv'
<1>. USE DEF Inv, TypeOK
<1>1. /\ Running /\ alive' = alive \ {cur.coro} /\ Continue(active, NoPair)
      /\ UNCHANGED <<config, urgent, opn, tokens, shadow, armed, batch>>
  BY DEF End
<1>2. Hot = {cur.coro}
  BY <1>1, OnlyRuns
<1>3. OnePlace(active, {cur.coro} \ {cur.coro}, tokens, alive \ {cur.coro})
  BY <1>2, HotEnds DEF Placed
<1>4. OnePlace(active, {}, tokens', alive')
  BY <1>1, <1>3
<1>5. /\ Placed' /\ Turn' /\ Handling' = Handling
      /\ active' \in Seq(TaskType) /\ cur' \in TaskType \cup {NoPair} /\ phase' \in Phases
  BY <1>1, <1>4, Leaves
<1>6. Watched'
  BY <1>1, <1>5, StaysWatched
<1>. QED  BY <1>1, <1>5, <1>6

\* A bare yield: behind the others, or on at once.
LEMMA YieldNoneInv ==
  ASSUME Inv, YieldNone, Kinds = {}
  PROVE  Inv'
<1>. USE DEF Inv, TypeOK
<1>. DEFINE p == Pair(NoOp, cur.coro)
<1>1. /\ Running
      /\ phase = "nested" /\ ~config.ops_greedy => active # <<>>
      /\ IF active # <<>> THEN Continue(Append(active, p), NoPair) ELSE Continue(active, p)
      /\ UNCHANGED <<config, urgent, alive, opn, tokens, shadow, armed, batch>>
  BY DEF YieldNone, Resumes
<1>2. Hot = {cur.coro} /\ cur.coro \in Coro /\ p \in TaskType /\ p.coro = cur.coro
  BY <1>1, OnlyRuns, Made
<1>. HIDE DEF p
<1>3. /\ Placed' /\ Turn' /\ Handling' = Handling
      /\ active' \in Seq(TaskType) /\ cur' \in TaskType \cup {NoPair} /\ phase' \in Phases
  <2>1. CASE active # <<>>
    <3>1. OnePlace(Append(active, p), {cur.coro} \ {p.coro}, tokens, alive)
      BY <1>2, HotQueued DEF Placed
    <3>2. OnePlace(Append(active, p), {}, tokens', alive')
      BY <1>1, <1>2, <3>1
    <3>3. Append(active, p) \in Seq(TaskType)
      BY <1>2, DequeCoros
    <3>. QED  BY <1>1, <2>1, <3>2, <3>3, Leaves
  <2>2. CASE active = <<>>
    <3>1. Continue(active, p) /\ (phase # "nested" \/ config.ops_greedy)
      BY <1>1, <2>2 DEF Running
    <3>. QED  BY <1>1, <1>2, <3>1, Goes
  <2>. QED  BY <2>1, <2>2
<1>4. Watched'
  BY <1>1, <1>3, StaysWatched
<1>. QED  BY <1>1, <1>3, <1>4
-----------------------------------------------------------------------------
(***************************************************************************)
(* A socket operation is requested.                                        *)
(***************************************************************************)
\* A descriptor that nobody waits for gets a token.
LEMMA NewToken ==
  ASSUME TypeOK, Turn, Watched, Handling' = Handling, UNCHANGED <<config, batch>>,
         NEW op \in SockOp, \A t \in tokens : t.f # op.f,
         ~(phase = "nested" /\ config.impl = "poll" /\ op.f = Head(batch)), phase # "handled",
         tokens' = tokens \cup {op}, shadow' = [shadow EXCEPT ![op.f] = op],
         armed' = armed \cup {op.f}
  PROVE  Watched'
<1>. USE DEF TypeOK
<1>1. op.f \in Fd /\ op # NoOp
  BY Made DEF SockOp
<1>2. /\ shadow'[op.f] = op
      /\ \A f \in Fd : f # op.f => shadow'[f] = shadow[f]
      /\ \A t \in tokens : t.f \in Fd
  BY <1>1 DEF SockOp
<1>3. shadow[op.f] = NoOp
  BY <1>1 DEF Watched
<1>4. Rest' = Rest /\ Rest \subseteq Fd /\ op.f \notin Rest
  <2>1. Rest' = Rest
    BY DEF Rest
  <2>2. CASE Handling
    <3>1. Tail(batch) \in Seq(Fd) /\ Rest = ToSet(Tail(batch))
      BY <2>2 DEF Turn, Rest
    <3>2. Rest \subseteq Fd
      BY <3>1 DEF ToSet
    <3>. QED  BY <2>1, <3>2, <1>3 DEF Watched
  <2>3. CASE ~Handling
    <3>1. Rest = ToSet(batch)
      BY <2>3 DEF Rest
    <3>2. Rest \subseteq Fd
      BY <3>1 DEF ToSet
    <3>. QED  BY <2>1, <3>2, <1>3 DEF Watched
  <2>. QED  BY <2>2, <2>3
<1>5. \A t \in tokens' : shadow'[t.f] = t /\ t.f \in armed' \cup Rest'
  BY <1>2, <1>4 DEF Watched
<1>6. \A f \in Fd : shadow'[f] # NoOp => shadow'[f] \in tokens' /\ shadow'[f].f = f
  BY <1>2 DEF Watched
<1>7. \A f \in Rest' : shadow'[f] # NoOp
  BY <1>1, <1>2, <1>4 DEF Watched
<1>8. \A f \in armed' : shadow'[f] # NoOp \/ (Handling /\ f = Head(batch) /\ config.impl = "poll")
  BY <1>1, <1>2 DEF Watched
<1>9. config.impl = "epoll" => armed' \cap Rest' = {}
  BY <1>4 DEF Watched
<1>10. Handling /\ config.impl = "poll" => shadow'[Head(batch)] = NoOp
  <2>. SUFFICES ASSUME Handling, config.impl = "poll" PROVE shadow'[Head(batch)] = NoOp
    OBVIOUS
  <2>1. Head(batch) \in Fd /\ Head(batch) # op.f
    BY HeadApart DEF Turn, Handling
  <2>. QED  BY <1>2, <2>1 DEF Watched
<1>. QED  BY <1>5, <1>6, <1>7, <1>8, <1>9, <1>10 DEF Watched

\* The operation is tried, or becomes a token.
LEMMA YieldSocketOpInv ==
  ASSUME Inv, YieldSocketOp, Kinds = {}
  PROVE  Inv'
<1>. USE DEF Inv, TypeOK
<1>1. /\ Running /\ cur.coro \in alive
      /\ opn' = [opn EXCEPT ![cur.coro] = @ + 1]
      /\ UNCHANGED <<config, urgent, alive, batch>>
  BY DEF YieldSocketOp, Resumes
<1>2. /\ Hot = {cur.coro} /\ cur.coro \in Coro /\ phase \in {"run", "nested"}
      /\ Handling = (phase = "nested")
  BY <1>1, OnlyRuns
<1>3. PICK kind \in {"recv", "send"}, f \in Fd, timed \in BOOLEAN, pr \in Prios :
       LET op == [kind |-> kind, c |-> cur.coro, n |-> opn[cur.coro] + 1, f |-> f,
                  timed |-> timed, pr |-> pr]
           heap == timers \ {cur.op}
       IN /\ Asks(op)
          /\ \/ ~config.multiplex_first /\ AddToken(op, heap)
             \/ config.multiplex_first /\ "again" \in Outcomes(op) /\ AddToken(op, heap)
             \/ /\ config.multiplex_first
                /\ \E outcome \in Outcomes(op) \ {"again"} : GoOn(op, outcome, heap)
  BY DEF YieldSocketOp
<1>. DEFINE op == [kind |-> kind, c |-> cur.coro, n |-> opn[cur.coro] + 1, f |-> f,
                   timed |-> timed, pr |-> pr]
            heap == timers \ {cur.op}
<1>4. op \in SockOp /\ op.c = cur.coro /\ op.f = f
  BY <1>2 DEF SockOp
<1>5. /\ Asks(op)
      /\ AddToken(op, heap) \/ \E outcome \in Outcomes(op) \ {"again"} : GoOn(op, outcome, heap)
  BY <1>3
<1>6. opn' \in [Coro -> Nat]
  BY <1>1, <1>2
<1>. HIDE DEF op, heap
<1>7. CASE AddToken(op, heap)
  <2>1. /\ op.f \notin stale /\ \A t \in tokens : t.f # op.f
        /\ ~(phase = "nested" /\ config.impl = "poll" /\ op.f = Head(batch))
    BY <1>5 DEF Asks
  <2>2. /\ tokens' = tokens \cup {op} /\ shadow' = [shadow EXCEPT ![op.f] = op]
        /\ armed' = armed \cup {op.f} /\ Continue(active, NoPair)
    BY <1>7, <2>1 DEF AddToken
  <2>3. OnePlace(active, {cur.coro} \ {op.c}, tokens \cup {op}, alive)
    BY <1>2, <1>4, TokenKept DEF Placed
  <2>4. OnePlace(active, {}, tokens', alive')
    BY <1>1, <1>4, <2>2, <2>3
  <2>5. /\ Placed' /\ Turn' /\ Handling' = Handling
        /\ active' \in Seq(TaskType) /\ cur' \in TaskType \cup {NoPair} /\ phase' \in Phases
    BY <1>1, <2>2, <2>4, Leaves
  <2>6. Watched'
    BY <1>1, <1>2, <1>4, <2>1, <2>2, <2>5, NewToken
  <2>7. tokens' \subseteq SockOp /\ shadow' \in [Fd -> SockOp \cup {NoOp}] /\ armed' \subseteq Fd
    BY <1>4, <2>2
  <2>. QED  BY <1>1, <1>6, <2>5, <2>6, <2>7
<1>8. ASSUME NEW outcome \in Outcomes(op) \ {"again"}, GoOn(op, outcome, heap)
      PROVE  Inv'
  <2>. DEFINE p == Completed(op, outcome)
  <2>1. Continue(active, p) /\ UNCHANGED <<tokens, shadow, armed>>
    BY <1>8 DEF GoOn
  <2>2. p \in TaskType /\ p.coro = cur.coro /\ p.op # NoOp
    BY <1>2, <1>4, Made DEF Completed
  <2>. HIDE DEF p
  <2>3. /\ Placed' /\ Turn' /\ Handling' = Handling
        /\ active' \in Seq(TaskType) /\ cur' \in TaskType \cup {NoPair} /\ phase' \in Phases
    BY <1>1, <2>1, <2>2, Goes
  <2>4. Watched'
    BY <1>1, <2>1, <2>3, StaysWatched
  <2>. QED  BY <1>1, <1>6, <2>1, <2>3, <2>4
<1>. QED  BY <1>5, <1>7, <1>8
-----------------------------------------------------------------------------
(***************************************************************************)
(* The loop, and the batch of events.                                      *)
(***************************************************************************)
\* iter_run takes the next pair.
LEMMA PickInv ==
  ASSUME Inv, Pick
  PROVE  Inv'
<1>. USE DEF Inv, TypeOK
<1>1. /\ phase = "pick" /\ ~Running /\ ~Handling /\ batch = <<>>
      /\ UNCHANGED <<config, alive, opn, tokens, shadow, armed, batch>>
  BY DEF Pick, tableVars, Running, Handling, Turn
<1>2. NoPair.coro = None /\ \A p \in TaskType : p # NoPair /\ p.coro # None
  BY Made
<1>3. Hot = {urgent.coro} \ {None}
  BY <1>1 DEF Hot
<1>4. CASE urgent # NoPair
  <2>1. cur' = urgent /\ urgent' = NoPair /\ phase' = "run" /\ active' = active
    BY <1>4 DEF Pick
  <2>2. Hot' = Hot
    BY <1>2, <1>3, <1>4, <2>1 DEF Hot, Running
  <2>3. Turn' /\ Handling' = Handling /\ phase' \in Phases
    BY <1>1, <1>4, <2>1 DEF Turn, Running, Handling, Phases
  <2>4. Watched' /\ Placed'
    BY <1>1, <2>1, <2>2, <2>3, StaysWatched DEF Placed
  <2>. QED  BY <1>1, <2>1, <2>3, <2>4
<1>5. CASE urgent = NoPair /\ active # <<>>
  <2>1. cur' = Head(active) /\ active' = Tail(active) /\ phase' = "run" /\ urgent' = NoPair
    BY <1>5 DEF Pick
  <2>2. Head(active) \in TaskType /\ Tail(active) \in Seq(TaskType)
    BY <1>5, HeadApart
  <2>3. Hot = {} /\ Hot' = {Head(active).coro}
    BY <1>2, <1>3, <1>5, <2>1 DEF Hot, Running
  <2>4. Turn' /\ Handling' = Handling /\ phase' \in Phases
    BY <1>1, <1>2, <2>1, <2>2 DEF Turn, Running, Handling, Phases
  <2>5. OnePlace(Tail(active), {} \cup {Head(active).coro}, tokens, alive)
    BY <1>5, <2>3, HeadTaken DEF Placed
  <2>6. Placed'
    BY <1>1, <2>1, <2>3, <2>5 DEF Placed
  <2>7. Watched'
    BY <1>1, <2>4, StaysWatched
  <2>. QED  BY <1>1, <2>1, <2>2, <2>4, <2>6, <2>7
<1>6. CASE urgent = NoPair /\ active = <<>>
  <2>1. phase' \in {"poll", "done"} /\ UNCHANGED <<active, urgent, cur>>
    BY <1>6 DEF Pick
  <2>2. Hot' = Hot
    BY <1>1, <2>1 DEF Hot, Running
  <2>3. Turn' /\ Handling' = Handling /\ phase' \in Phases
    BY <1>1, <1>6, <2>1 DEF Turn, Running, Handling, Phases
  <2>4. Watched' /\ Placed'
    BY <1>1, <2>1, <2>2, <2>3, StaysWatched DEF Placed
  <2>. QED  BY <1>1, <2>1, <2>3, <2>4
<1>. QED  BY <1>4, <1>5, <1>6

\* A sequence of all the elements of a set, without repetitions.
LEMMA InOrder ==
  ASSUME NEW S, IsFiniteSet(S), NEW s \in SetToSeqs(S)
  PROVE  s \in Seq(S) /\ ToSet(s) \subseteq S /\ \A i, j \in DOMAIN s : s[i] = s[j] => i = j
<1>1. Cardinality(S) \in Nat
  BY FS_CardinalityType
<1>2. /\ s \in [1 .. Cardinality(S) -> S]
      /\ \A i, j \in 1 .. Cardinality(S) : i # j => s[i] # s[j]
  BY DEF SetToSeqs
<1>3. s \in Seq(S)
  BY <1>1, <1>2
<1>. QED  BY <1>2, <1>3 DEF ToSet

\* poll() reports descriptors that are watched.
LEMMA PollInv ==
  ASSUME Inv, Poll
  PROVE  Inv'
<1>. USE DEF Inv, TypeOK
<1>1. /\ phase = "poll" /\ ~Running /\ ~Handling /\ batch = <<>> /\ urgent = NoPair
      /\ UNCHANGED <<config, active, urgent, cur, alive, opn, tokens, shadow>>
  BY DEF Poll, Running, Handling, Turn
<1>2. CASE phase' = "timers" /\ UNCHANGED <<batch, armed>>
  <2>1. Turn' /\ Handling' = Handling /\ phase' \in Phases /\ Hot' = Hot
    BY <1>1, <1>2 DEF Turn, Running, Handling, Phases, Hot
  <2>2. Watched' /\ Placed'
    BY <1>1, <1>2, <2>1, StaysWatched DEF Placed
  <2>. QED  BY <1>1, <1>2, <2>1, <2>2
<1>3. CASE /\ batch' \in SetToSeqs({f \in Fd : Ready(f)})
           /\ armed' = IF config.impl = "epoll" THEN armed \ ToSet(batch') ELSE armed
           /\ phase' = "events"
  <2>. DEFINE R == {f \in Fd : Ready(f)}
  <2>1. IsFiniteSet(R)
    BY ProactorAssumption, FS_Subset
  <2>2. R \subseteq armed /\ R \subseteq Fd
    BY DEF Ready
  <2>. HIDE DEF R
  <2>3. /\ batch' \in Seq(R) /\ ToSet(batch') \subseteq R
        /\ \A i, j \in DOMAIN batch' : batch'[i] = batch'[j] => i = j
    BY <1>3, <2>1, InOrder DEF R
  <2>4. batch' \in Seq(Fd) /\ armed' \subseteq armed
    BY <1>3, <2>2, <2>3
  <2>5. ~Running' /\ ~Handling' /\ phase' \in Phases
    BY <1>3 DEF Running, Handling, Phases
  <2>6. Turn' /\ Hot' = Hot
    BY <1>1, <1>3, <2>3, <2>5 DEF Turn, Hot
  <2>7. Rest = {} /\ Rest' = ToSet(batch')
    BY <1>1, <2>5 DEF Rest, ToSet
  <2>8. Watched'
    <3>1. \A op \in tokens' : shadow'[op.f] = op /\ op.f \in armed' \cup Rest'
      BY <1>1, <1>3, <2>7 DEF Watched
    <3>2. \A f \in armed : shadow[f] # NoOp
      BY <1>1 DEF Watched
    <3>3. /\ \A f \in Rest' : shadow'[f] # NoOp
          /\ \A f \in armed' : shadow'[f] # NoOp
      BY <1>1, <2>2, <2>3, <2>4, <2>7, <3>2
    <3>4. config'.impl = "epoll" => armed' \cap Rest' = {}
      BY <1>1, <1>3, <2>7
    <3>. QED  BY <1>1, <2>5, <3>1, <3>3, <3>4 DEF Watched
  <2>. QED  BY <1>1, <2>4, <2>5, <2>6, <2>8 DEF Placed
<1>. QED  BY <1>2, <1>3 DEF Poll
-----------------------------------------------------------------------------
(***************************************************************************)
(* An event is handled.                                                    *)
(***************************************************************************)
\* An event meets a token, whose coroutine is nowhere else.
LEMMA EventAt ==
  ASSUME Inv, NEW f \in Fd, Event(f)
  PROVE  /\ phase = "events" /\ batch # <<>> /\ f = Head(batch)
         /\ ~Running /\ ~Handling /\ urgent = NoPair /\ Hot = {}
         /\ shadow[f] \in tokens /\ shadow[f] \in SockOp /\ shadow[f].f = f
         /\ shadow[f] # NoOp /\ shadow[f].c \in Coro
         /\ Rest = ToSet(batch) /\ f \notin ToSet(Tail(batch))
         /\ ToSet(batch) = ToSet(Tail(batch)) \cup {f} /\ ToSet(batch) \subseteq Fd
         /\ config.impl = "epoll" => f \notin armed
<1>. USE DEF Inv, TypeOK
<1>1. /\ phase = "events" /\ batch # <<>> /\ f = Head(batch) /\ ~Running /\ ~Handling
      /\ urgent = NoPair /\ Rest = ToSet(batch) /\ batch \in Seq(Fd)
  BY DEF Event, Running, Handling, Turn, Rest
<1>2. /\ ToSet(batch) = ToSet(Tail(batch)) \cup {f} /\ ToSet(batch) \subseteq Fd
      /\ f = batch[1] /\ 1 \in DOMAIN batch
      /\ \A i \in DOMAIN Tail(batch) :
           i + 1 \in DOMAIN batch /\ Tail(batch)[i] = batch[i + 1] /\ i + 1 # 1
  BY <1>1, HeadApart
<1>3. f \notin ToSet(Tail(batch))
  <2>1. \A i \in DOMAIN Tail(batch) : Tail(batch)[i] # f
    BY <1>2 DEF Turn
  <2>. QED  BY <2>1 DEF ToSet
<1>4. /\ shadow[f] # NoOp /\ shadow[f] \in tokens /\ shadow[f].f = f
      /\ config.impl = "epoll" => f \notin armed
  BY <1>1, <1>2 DEF Watched
<1>5. shadow[f] \in SockOp /\ shadow[f].c \in Coro
  BY <1>4 DEF SockOp
<1>6. Hot = {}
  BY <1>1, Made DEF Hot
<1>. QED  BY <1>1, <1>2, <1>3, <1>4, <1>5, <1>6

\* The next event has its turn, or the timers.
LEMMA NextEvent ==
  ASSUME TypeOK, Turn, phase \in {"events", "handled"}, batch # <<>>, Next1,
         UNCHANGED cur, UNCHANGED urgent \/ Len(batch) = 1
  PROVE  /\ Turn' /\ ~Handling' /\ ~Running' /\ phase' \in Phases
         /\ batch' \in Seq(Fd) /\ Rest' = ToSet(Tail(batch))
<1>. USE DEF TypeOK
<1>1. /\ batch' = Tail(batch) /\ phase' = IF Len(batch) = 1 THEN "timers" ELSE "events"
      /\ urgent = NoPair
  BY DEF Next1, Turn
<1>2. /\ Tail(batch) \in Seq(Fd) /\ (Len(batch) = 1 => Tail(batch) = <<>>)
      /\ \A i \in DOMAIN Tail(batch) : i + 1 \in DOMAIN batch /\ Tail(batch)[i] = batch[i + 1]
      /\ \A i \in DOMAIN Tail(batch) : i \in Nat
  BY HeadApart
<1>3. ~Handling' /\ ~Running' /\ phase' \in Phases
  BY <1>1 DEF Handling, Running, Phases
<1>4. Rest' = ToSet(Tail(batch))
  BY <1>1, <1>3 DEF Rest
<1>5. \A i, j \in DOMAIN batch' : batch'[i] = batch'[j] => i = j
  <2>. SUFFICES ASSUME NEW i \in DOMAIN Tail(batch), NEW j \in DOMAIN Tail(batch),
                       Tail(batch)[i] = Tail(batch)[j]
                PROVE  i = j
    BY <1>1
  <2>1. i + 1 = j + 1
    BY <1>2 DEF Turn
  <2>. QED  BY <1>2, <2>1
<1>6. Turn'
  BY <1>1, <1>2, <1>3, <1>5 DEF Turn
<1>. QED  BY <1>1, <1>2, <1>3, <1>4, <1>6

\* The operation is over: no token is left on its descriptor, which nobody watches.
LEMMA EventTaken ==
  ASSUME Inv, NEW f \in Fd, Event(f), UNCHANGED config, ~Handling',
         Rest' = ToSet(Tail(batch)),
         tokens' = tokens \ {shadow[f]}, shadow' = Popped(f), armed' = armed \ {f}
  PROVE  Watched'
<1>. USE DEF Inv, TypeOK
<1>1. /\ ~Handling /\ Rest = ToSet(Tail(batch)) \cup {f} /\ f \notin Rest' /\ Rest \subseteq Fd
      /\ shadow[f] \in tokens /\ shadow[f].f = f
  BY EventAt
<1>2. /\ shadow'[f] = NoOp
      /\ \A g \in Fd : g # f => shadow'[g] = shadow[g]
  BY DEF Popped
<1>3. ASSUME NEW op \in tokens'
      PROVE  shadow'[op.f] = op /\ op.f \in armed' \cup Rest'
  <2>1. op \in tokens /\ op.f \in Fd /\ shadow[op.f] = op /\ op.f # f
    BY <1>1 DEF SockOp, Watched
  <2>. QED  BY <1>1, <1>2, <2>1 DEF Watched
<1>4. \A g \in Fd : shadow'[g] # NoOp => shadow'[g] \in tokens' /\ shadow'[g].f = g
  BY <1>1, <1>2 DEF Watched
<1>5. /\ \A g \in Rest' : shadow'[g] # NoOp
      /\ \A g \in armed' : shadow'[g] # NoOp
      /\ config.impl = "epoll" => armed' \cap Rest' = {}
  BY <1>1, <1>2 DEF Watched
<1>. QED  BY <1>3, <1>4, <1>5 DEF Watched

\* The peer has hung up: the operation fails.
LEMMA HangUpInv ==
  ASSUME Inv, HangUp
  PROVE  Inv'
<1>. USE DEF Inv, TypeOK
<1>1. PICK f \in Fd :
        /\ Event(f) /\ tokens' = tokens \ {shadow[f]} /\ shadow' = Popped(f)
        /\ armed' = armed \ {f} /\ active' = Append(active, Pair(Exc, shadow[f].c))
        /\ Next1 /\ UNCHANGED <<config, urgent, cur, alive, opn>>
  BY DEF HangUp
<1>. DEFINE op == shadow[f]
            p == Pair(Exc, op.c)
<1>2. op \in tokens /\ op.c \in Coro /\ Hot = {} /\ phase = "events" /\ batch # <<>> /\ urgent = NoPair
  BY <1>1, EventAt
<1>3. p \in TaskType /\ p.coro = op.c
  BY <1>2, Made
<1>. HIDE DEF op, p
<1>4. /\ Turn' /\ ~Handling' /\ ~Running' /\ phase' \in Phases
      /\ batch' \in Seq(Fd) /\ Rest' = ToSet(Tail(batch))
  BY <1>1, <1>2, NextEvent
<1>5. Watched'
  BY <1>1, <1>4, EventTaken
<1>6. Placed'
  <2>1. OnePlace(active, {} \cup {op.c}, tokens \ {op}, alive)
    BY <1>2, TokenToRun
  <2>2. OnePlace(Append(active, p), ({} \cup {op.c}) \ {p.coro}, tokens \ {op}, alive)
    BY <1>3, <2>1, HotQueued
  <2>3. ({} \cup {op.c}) \ {p.coro} = {}
    BY <1>3
  <2>4. Hot' = {}
    BY <1>1, <1>2, <1>4, Made DEF Hot
  <2>. QED  BY <1>1, <2>2, <2>3, <2>4 DEF Placed, op, p
<1>7. active' \in Seq(TaskType)
  BY <1>1, <1>3, DequeCoros DEF p, op
<1>8. tokens' \subseteq SockOp /\ shadow' \in [Fd -> SockOp \cup {NoOp}] /\ armed' \subseteq Fd
  BY <1>1 DEF Popped
<1>. QED  BY <1>1, <1>4, <1>5, <1>6, <1>7, <1>8

\* The operation is not over: its descriptor is watched again.
LEMMA TryAgainInv ==
  ASSUME Inv, TryAgain
  PROVE  Inv'
<1>. USE DEF Inv, TypeOK
<1>1. PICK f \in Fd :
        /\ Event(f) /\ armed' = armed \cup {f} /\ Next1
        /\ UNCHANGED <<config, active, urgent, cur, alive, opn, tokens, shadow>>
  BY DEF TryAgain, WatchedAgain
<1>2. /\ phase = "events" /\ batch # <<>> /\ ~Handling /\ ~Running /\ shadow[f] # NoOp
      /\ Rest = ToSet(Tail(batch)) \cup {f} /\ f \notin ToSet(Tail(batch))
  BY <1>1, EventAt
<1>3. /\ Turn' /\ ~Handling' /\ ~Running' /\ phase' \in Phases
      /\ batch' \in Seq(Fd) /\ Rest' = ToSet(Tail(batch))
  BY <1>1, <1>2, NextEvent
<1>4. Watched'
  BY <1>1, <1>2, <1>3 DEF Watched
<1>5. Placed'
  <2>1. Hot' = Hot
    BY <1>1, <1>2, <1>3 DEF Hot
  <2>. QED  BY <1>1, <2>1 DEF Placed
<1>. QED  BY <1>1, <1>3, <1>4, <1>5

\* The pair of an operation that is over.
LEMMA CompletedPair ==
  ASSUME NEW op \in SockOp, NEW outcome
  PROVE  /\ Completed(op, outcome) \in TaskType /\ Completed(op, outcome) # NoPair
         /\ Completed(op, outcome).coro = op.c /\ Completed(op, outcome).op # NoOp
<1>1. op.c \in Coro
  BY DEF SockOp
<1>. QED  BY <1>1, Made DEF Completed

\* The last event of a batch: the coroutine is run first in the next turn.
LEMMA YieldEventInv ==
  ASSUME Inv, YieldEvent
  PROVE  Inv'
<1>. USE DEF Inv, TypeOK
<1>1. PICK f \in Fd :
        /\ Event(f) /\ Len(batch) = 1
        /\ \E outcome \in Outcomes(shadow[f]) \ {"again"} : urgent' = Completed(shadow[f], outcome)
        /\ tokens' = tokens \ {shadow[f]} /\ shadow' = Popped(f) /\ armed' = Unwatched(f)
        /\ Next1 /\ UNCHANGED <<config, active, cur, alive, opn>>
  BY DEF YieldEvent
<1>. DEFINE op == shadow[f]
<1>2. /\ op \in tokens /\ op \in SockOp /\ Hot = {} /\ phase = "events" /\ batch # <<>>
      /\ config.impl = "epoll" => f \notin armed
  BY <1>1, EventAt
<1>3. urgent' \in TaskType /\ urgent'.coro = op.c /\ op.c \in Coro
  BY <1>1, <1>2, CompletedPair DEF SockOp
<1>. HIDE DEF op
<1>4. /\ Turn' /\ ~Handling' /\ ~Running' /\ phase' \in Phases
      /\ batch' \in Seq(Fd) /\ Rest' = ToSet(Tail(batch))
  BY <1>1, <1>2, NextEvent
<1>5. armed' = armed \ {f}
  BY <1>1, <1>2 DEF Unwatched, Config
<1>6. Watched'
  BY <1>1, <1>4, <1>5, EventTaken
<1>7. Placed'
  <2>1. OnePlace(active, {} \cup {op.c}, tokens \ {op}, alive)
    BY <1>2, TokenToRun
  <2>2. Hot' = {} \cup {op.c}
    BY <1>3, <1>4, ProactorAssumption DEF Hot
  <2>. QED  BY <1>1, <2>1, <2>2 DEF Placed, op
<1>8. tokens' \subseteq SockOp /\ shadow' \in [Fd -> SockOp \cup {NoOp}] /\ armed' \subseteq Fd
  BY <1>1, <1>5 DEF Popped
<1>. QED  BY <1>1, <1>3, <1>4, <1>6, <1>7, <1>8

\* Another event: the coroutine is run at once, or queued.
LEMMA HandleEventInv ==
  ASSUME Inv, HandleEvent
  PROVE  Inv'
<1>. USE DEF Inv, TypeOK
<1>1. PICK f \in Fd :
        /\ Event(f) /\ Len(batch) > 1
        /\ tokens' = tokens \ {shadow[f]} /\ shadow' = Popped(f)
        /\ \E outcome \in Outcomes(shadow[f]) \ {"again"} :
             LET p == Completed(shadow[f], outcome) IN
             \/ cur' = p /\ phase' = "nested" /\ UNCHANGED active
             \/ active' = Queued(active, p) /\ phase' = "handled" /\ UNCHANGED cur
        /\ UNCHANGED <<config, urgent, alive, opn, armed, batch>>
  BY DEF HandleEvent
<1>. DEFINE op == shadow[f]
<1>2. PICK outcome :
        LET p == Completed(op, outcome) IN
        \/ cur' = p /\ phase' = "nested" /\ UNCHANGED active
        \/ active' = Queued(active, p) /\ phase' = "handled" /\ UNCHANGED cur
  BY <1>1
<1>. DEFINE p == Completed(op, outcome)
<1>3. /\ op \in tokens /\ op \in SockOp /\ op.f = f /\ Hot = {} /\ phase = "events"
      /\ batch # <<>> /\ f = Head(batch) /\ urgent = NoPair /\ ~Handling
      /\ Rest = ToSet(Tail(batch)) \cup {f} /\ f \notin ToSet(Tail(batch)) /\ Rest \subseteq Fd
      /\ config.impl = "epoll" => f \notin armed
  BY <1>1, EventAt
<1>4. p \in TaskType /\ p # NoPair /\ p.coro = op.c
  BY <1>3, CompletedPair
<1>5. \/ cur' = p /\ phase' = "nested" /\ active' = active
      \/ active' \in {<<p>> \o active, Append(active, p)} /\ phase' = "handled" /\ cur' = cur
  BY <1>2 DEF Queued
<1>. HIDE DEF op, p
<1>6. Handling' /\ phase' \in Phases /\ Rest' = ToSet(Tail(batch))
  BY <1>1, <1>5 DEF Handling, Phases, Rest
<1>7. Turn'
  BY <1>1, <1>3, <1>4, <1>5, <1>6 DEF Turn, Running
<1>8. Watched'
  <2>1. /\ shadow'[f] = NoOp
        /\ \A g \in Fd : g # f => shadow'[g] = shadow[g]
    BY <1>1 DEF Popped
  <2>2. ASSUME NEW t \in tokens'
        PROVE  shadow'[t.f] = t /\ t.f \in armed' \cup Rest'
    <3>1. t \in tokens /\ t.f \in Fd /\ shadow[t.f] = t /\ t.f # f
      BY <1>1 DEF SockOp, Watched
    <3>2. t.f \in armed \cup Rest
      BY <3>1 DEF Watched
    <3>. QED  BY <1>1, <1>3, <1>6, <2>1, <3>1, <3>2
  <2>3. \A g \in Fd : shadow'[g] # NoOp => shadow'[g] \in tokens' /\ shadow'[g].f = g
    BY <1>1, <1>3, <2>1 DEF Watched, op
  <2>4. \A g \in Rest' : shadow'[g] # NoOp
    BY <1>3, <1>6, <2>1 DEF Watched
  <2>5. \A g \in armed' : \/ shadow'[g] # NoOp
                          \/ Handling' /\ g = Head(batch') /\ config'.impl = "poll"
    <3>1. config.impl \in {"poll", "epoll"}
      BY DEF Config
    <3>2. ASSUME NEW g \in armed
          PROVE  \/ shadow'[g] # NoOp
                 \/ Handling' /\ g = Head(batch') /\ config'.impl = "poll"
      BY <1>1, <1>3, <1>6, <2>1, <3>1, <3>2 DEF Watched
    <3>. QED  BY <1>1, <3>2
  <2>6. /\ config'.impl = "epoll" => armed' \cap Rest' = {}
        /\ shadow'[Head(batch')] = NoOp
    BY <1>1, <1>3, <1>6, <2>1 DEF Watched
  <2>. QED  BY <2>2, <2>3, <2>4, <2>5, <2>6 DEF Watched
<1>9. OnePlace(active, {} \cup {op.c}, tokens \ {op}, alive)
  BY <1>3, TokenToRun
<1>10. NoPair.coro = None
  BY Made
<1>11. CASE cur' = p /\ phase' = "nested" /\ active' = active
  <2>1. Hot' = {} \cup {op.c}
    BY <1>1, <1>3, <1>4, <1>10, <1>11 DEF Hot, Running
  <2>2. Placed'
    BY <1>1, <1>9, <1>11, <2>1 DEF Placed, op
  <2>3. cur' \in TaskType \cup {NoPair} /\ active' \in Seq(TaskType)
    BY <1>4, <1>11
  <2>4. tokens' \subseteq SockOp /\ shadow' \in [Fd -> SockOp \cup {NoOp}]
    BY <1>1 DEF Popped
  <2>. QED  BY <1>1, <1>6, <1>7, <1>8, <2>2, <2>3, <2>4
<1>12. CASE active' \in {<<p>> \o active, Append(active, p)} /\ phase' = "handled" /\ cur' = cur
  <2>1. Hot' = {}
    BY <1>1, <1>3, <1>10, <1>12 DEF Hot, Running
  <2>2. /\ OnePlace(Append(active, p), ({} \cup {op.c}) \ {p.coro}, tokens \ {op}, alive)
        /\ OnePlace(<<p>> \o active, ({} \cup {op.c}) \ {p.coro}, tokens \ {op}, alive)
    BY <1>4, <1>9, HotQueued
  <2>3. ({} \cup {op.c}) \ {p.coro} = {}
    BY <1>4
  <2>4. Placed'
    BY <1>1, <1>12, <2>1, <2>2, <2>3 DEF Placed, op
  <2>5. active' \in Seq(TaskType)
    BY <1>4, <1>12, DequeCoros
  <2>6. tokens' \subseteq SockOp /\ shadow' \in [Fd -> SockOp \cup {NoOp}]
    BY <1>1 DEF Popped
  <2>. QED  BY <1>1, <1>6, <1>7, <1>8, <1>12, <2>4, <2>5, <2>6
<1>. QED  BY <1>5, <1>11, <1>12

\* handle_event returns: poll stops to watch the descriptor.
LEMMA HandledInv ==
  ASSUME Inv, Handled
  PROVE  Inv'
<1>. USE DEF Inv, TypeOK
<1>1. /\ phase = "handled" /\ armed' = Unwatched(Head(batch)) /\ Next1
      /\ UNCHANGED <<config, active, urgent, cur, alive, opn, tokens, shadow>>
  BY DEF Handled
<1>2. Handling /\ ~Running /\ batch # <<>> /\ Rest = ToSet(Tail(batch))
  BY <1>1 DEF Handling, Running, Turn, Rest
<1>3. /\ Turn' /\ ~Handling' /\ ~Running' /\ phase' \in Phases
      /\ batch' \in Seq(Fd) /\ Rest' = ToSet(Tail(batch))
  BY <1>1, <1>2, NextEvent
<1>4. Head(batch) \in Fd
  BY <1>2, HeadApart
<1>5. Watched'
  <2>1. CASE config.impl = "poll"
    <3>1. armed' = armed \ {Head(batch)} /\ shadow[Head(batch)] = NoOp
      BY <1>1, <1>2, <2>1 DEF Unwatched, Watched
    <3>2. ASSUME NEW op \in tokens'
          PROVE  shadow'[op.f] = op /\ op.f \in armed' \cup Rest'
      <4>1. op \in tokens /\ op # NoOp
        BY <1>1, <3>2, Made
      <4>. QED  BY <1>1, <1>2, <1>3, <3>1, <4>1 DEF Watched
    <3>. QED  BY <1>1, <1>2, <1>3, <2>1, <3>1, <3>2 DEF Watched
  <2>2. CASE config.impl = "epoll"
    <3>1. armed' = armed
      BY <1>1, <2>2 DEF Unwatched
    <3>. QED  BY <1>1, <1>2, <1>3, <2>2, <3>1 DEF Watched
  <2>. QED  BY <2>1, <2>2 DEF Config
<1>6. Placed'
  <2>1. Hot' = Hot
    BY <1>1, <1>2, <1>3 DEF Hot
  <2>. QED  BY <1>1, <2>1 DEF Placed
<1>7. armed' \subseteq Fd
  BY <1>1 DEF Unwatched
<1>. QED  BY <1>1, <1>3, <1>5, <1>6, <1>7
-----------------------------------------------------------------------------
(***************************************************************************)
(* The timers, and what goes on outside.                                   *)
(***************************************************************************)
\* remove_token: the coroutine of a token is told of the timeout.
LEMMA ExpireInv ==
  ASSUME Inv, Expire
  PROVE  Inv'
<1>. USE DEF Inv, TypeOK
<1>1. /\ phase = "timers" /\ UNCHANGED <<config, urgent, cur, phase, alive, opn, batch>>
      /\ ~Running /\ ~Handling /\ ~Running' /\ ~Handling' /\ Handling' = Handling
  BY DEF Expire, Running, Handling
<1>2. Rest' = Rest /\ Rest = {} /\ Turn' /\ Hot' = Hot
  BY <1>1 DEF Rest, Turn, Running, Handling, Hot, ToSet
<1>3. CASE UNCHANGED <<tokens, shadow, armed, active>>
  <2>1. Watched' /\ Placed'
    BY <1>1, <1>2, <1>3, StaysWatched DEF Placed
  <2>. QED  BY <1>1, <1>2, <1>3, <2>1
<1>4. CASE \E op \in tokens :
             /\ tokens' = tokens \ {op} /\ shadow' = Popped(op.f) /\ armed' = armed \ {op.f}
             /\ active' = Append(active, Pair(Exc, op.c))
  <2>1. PICK op \in tokens :
          /\ tokens' = tokens \ {op} /\ shadow' = Popped(op.f) /\ armed' = armed \ {op.f}
          /\ active' = Append(active, Pair(Exc, op.c))
    BY <1>4
  <2>. DEFINE p == Pair(Exc, op.c)
  <2>2. op \in SockOp /\ op.c \in Coro /\ op.f \in Fd /\ shadow[op.f] = op
    BY DEF SockOp, Watched
  <2>3. p \in TaskType /\ p.coro = op.c
    BY <2>2, Made
  <2>. HIDE DEF p
  <2>4. /\ shadow'[op.f] = NoOp
        /\ \A g \in Fd : g # op.f => shadow'[g] = shadow[g]
    BY <2>1, <2>2 DEF Popped
  <2>5. Watched'
    <3>1. ASSUME NEW t \in tokens'
          PROVE  shadow'[t.f] = t /\ t.f \in armed' \cup Rest'
      <4>1. t \in tokens /\ t.f \in Fd /\ shadow[t.f] = t /\ t.f # op.f /\ t.f \in armed
        BY <1>2, <2>1, <2>2 DEF SockOp, Watched
      <4>. QED  BY <2>1, <2>4, <4>1
    <3>2. \A g \in Fd : shadow'[g] # NoOp => shadow'[g] \in tokens' /\ shadow'[g].f = g
      BY <2>1, <2>2, <2>4 DEF Watched
    <3>3. \A g \in armed' : shadow'[g] # NoOp
      BY <1>1, <2>1, <2>4 DEF Watched
    <3>. QED  BY <1>1, <1>2, <3>1, <3>2, <3>3 DEF Watched
  <2>6. Placed'
    <3>1. OnePlace(active, Hot \cup {op.c}, tokens \ {op}, alive) /\ op.c \notin Hot
      BY TokenToRun
    <3>2. OnePlace(Append(active, p), (Hot \cup {op.c}) \ {p.coro}, tokens \ {op}, alive)
      BY <2>3, <3>1, HotQueued
    <3>3. (Hot \cup {op.c}) \ {p.coro} = Hot
      BY <2>3, <3>1
    <3>. QED  BY <1>1, <1>2, <2>1, <3>2, <3>3 DEF Placed, p
  <2>7. active' \in Seq(TaskType)
    BY <2>1, <2>3, DequeCoros DEF p
  <2>8. tokens' \subseteq SockOp /\ shadow' \in [Fd -> SockOp \cup {NoOp}] /\ armed' \subseteq Fd
    BY <2>1 DEF Popped
  <2>. QED  BY <1>1, <1>2, <2>5, <2>6, <2>7, <2>8
<1>. QED  BY <1>3, <1>4 DEF Expire

\* The loop passes on, or nothing of it changes.
LEMMA PassesInv ==
  ASSUME Inv, NoEvent \/ EndTimers \/ Arrive \/ Close \/ UNCHANGED vars
  PROVE  Inv'
<1>. USE DEF Inv, TypeOK
<1>1. UNCHANGED <<config, active, urgent, cur, alive, opn, tokens, shadow, armed, batch>>
  BY DEF NoEvent, EndTimers, Arrive, Close, vars, loopVars, tableVars
<1>2. \/ phase' = phase
      \/ phase = "events" /\ batch = <<>> /\ phase' = "timers"
      \/ phase = "timers" /\ phase' = "pick"
  BY DEF NoEvent, EndTimers, Arrive, Close, vars, loopVars
<1>3. Running' = Running /\ Handling' = Handling /\ phase' \in Phases
  BY <1>2 DEF Running, Handling, Phases
<1>4. Turn'
  BY <1>1, <1>2, <1>3 DEF Turn
<1>5. Hot' = Hot
  BY <1>1, <1>3 DEF Hot
<1>6. Watched' /\ Placed'
  BY <1>1, <1>3, <1>5, StaysWatched DEF Placed
<1>. QED  BY <1>1, <1>3, <1>4, <1>6
-----------------------------------------------------------------------------
(***************************************************************************)
(* The theorem.                                                            *)
(***************************************************************************)
\* A finite set is listed in order, each member once.
LEMMA Listed ==
  ASSUME NEW S, IsFiniteSet(S)
  PROVE  /\ SetToSeq(S) \in Seq(S) /\ ToSet(SetToSeq(S)) = S
         /\ \A i, j \in DOMAIN SetToSeq(S) : SetToSeq(S)[i] = SetToSeq(S)[j] => i = j
<1>. DEFINE n == Cardinality(S)
<1>1. n \in Nat /\ ExistsBijection(1 .. n, S)
  BY FS_CardinalityType
<1>2. PICK f \in Bijection(1 .. n, S) : TRUE
  BY <1>1 DEF ExistsBijection
<1>3. f \in [1 .. n -> S] /\ IsInjective(f)
  BY <1>2 DEF Bijection, Injection
<1>. DEFINE s == SetToSeq(S)
<1>4. s \in [1 .. n -> S] /\ IsInjective(s)
  BY <1>3 DEF SetToSeq
<1>. HIDE DEF s
<1>5. s \in Injection(1 .. n, S)
  BY <1>4 DEF Injection
<1>6. IsFiniteSet(1 .. n) /\ Cardinality(1 .. n) = n
  BY <1>1, FS_Interval
<1>7. s \in Surjection(1 .. n, S)
  BY <1>5, <1>6, FS_Injection
<1>8. s \in Seq(S)
  BY <1>1, <1>4
<1>9. ToSet(s) = S
  BY <1>4, <1>7 DEF ToSet, Surjection
<1>10. \A i, j \in DOMAIN s : s[i] = s[j] => i = j
  BY <1>4 DEF IsInjective
<1>. QED  BY <1>8, <1>9, <1>10 DEF s

\* At first everyone is queued, and no descriptor is watched.
LEMMA InitInv == Init => Inv
<1>. SUFFICES ASSUME Init PROVE Inv
  OBVIOUS
<1>. DEFINE S == {Pair(NoOp, c) : c \in Coro}
<1>1. IsFiniteSet(S)
  <2>. DEFINE f == [c \in Coro |-> Pair(NoOp, c)]
  <2>1. f \in Surjection(Coro, S)
    BY DEF Surjection
  <2>. QED  BY <2>1, ProactorAssumption, FS_Surjection
<1>2. active = SetToSeq(S) /\ S \subseteq TaskType /\ \A p, q \in S : p.coro = q.coro => p = q
  BY Made DEF Init
<1>3. {p.coro : p \in S} = Coro
  BY Made
<1>. HIDE DEF S
<1>4. /\ active \in Seq(S) /\ ToSet(active) = S
      /\ \A i, j \in DOMAIN active : active[i] = active[j] => i = j
  BY <1>1, <1>2, Listed
<1>5. active \in Seq(TaskType)
  BY <1>2, <1>4
<1>6. \A i \in DOMAIN active : active[i] \in S
  BY <1>4
<1>7. Coros(active) = Coro
  BY <1>3, <1>4 DEF Coros, ToSet
<1>8. \A i, j \in DOMAIN active : active[i].coro = active[j].coro => i = j
  BY <1>2, <1>4, <1>6
<1>9. /\ config \in Config /\ urgent = NoPair /\ cur = NoPair /\ phase = "pick" /\ alive = Coro
      /\ opn = [c \in Coro |-> 0] /\ tokens = {} /\ shadow = [f \in Fd |-> NoOp]
      /\ armed = {} /\ batch = <<>> /\ ~Running /\ ~Handling
  BY ProactorAssumption DEF Init, Running, Handling
<1>10. Hot = {} /\ Owners(tokens) = {}
  BY <1>9, Made DEF Hot, Owners
<1>11. Placed
  BY <1>7, <1>8, <1>9, <1>10 DEF Placed, OnePlace
<1>12. Rest = {}
  BY <1>9 DEF Rest, ToSet
<1>13. Turn /\ Watched
  BY <1>9, <1>12 DEF Turn, Watched
<1>14. TypeOK
  BY <1>5, <1>9 DEF TypeOK, Phases
<1>. QED  BY <1>11, <1>13, <1>14 DEF Inv

\* Every step keeps the invariant.
LEMMA NextInv ==
  ASSUME Inv, [Next]_vars, Kinds = {}
  PROVE  Inv'
BY PassesInv, PickInv, EndInv, YieldNoneInv, YieldSocketOpInv, PollInv, HangUpInv,
   TryAgainInv, YieldEventInv, HandleEventInv, HandledInv, ExpireInv DEF Next

\* Who is in one place for the invariant has one of the places of the model.
LEMMA PlacesOnce ==
  ASSUME Inv, NEW c \in alive
  PROVE  Cardinality(Places(c)) = 1
<1>. USE DEF Inv, TypeOK
<1>1. c \in Coro /\ c # None /\ NoPair.coro = None
  BY ProactorAssumption, Made
<1>. DEFINE A == {<<"active", i>> : i \in {i \in DOMAIN active : active[i].coro = c}}
            U == {<<"urgent">> : x \in {urgent.coro} \cap {c}}
            R == {<<"cur">> : x \in {x \in {c} : Running /\ cur.coro = c}}
            T == {<<"token", op>> : op \in {op \in tokens : op.c = c}}
<1>2. Places(c) = A \cup U \cup R \cup T
  BY DEF Places
<1>3. c \in Coros(active) \cup Hot \cup Owners(tokens)
  BY DEF Placed, OnePlace
<1>4. /\ c \notin Coros(active) => A = {}
      /\ c \notin Hot => U = {} /\ R = {}
      /\ c \notin Owners(tokens) => T = {}
  BY <1>1 DEF Coros, Hot, Owners
<1>5. /\ Coros(active) \cap Hot = {} /\ Coros(active) \cap Owners(tokens) = {}
      /\ Hot \cap Owners(tokens) = {}
  BY DEF Placed, OnePlace
<1>6. \E x : Places(c) = {x}
  <2>1. CASE c \in Coros(active)
    <3>1. PICK i \in DOMAIN active : active[i].coro = c
      BY <2>1 DEF Coros
    <3>2. A = {<<"active", i>>}
      BY <3>1 DEF Placed, OnePlace
    <3>3. U = {} /\ R = {} /\ T = {}
      BY <1>4, <1>5, <2>1
    <3>. HIDE DEF A, U, R, T
    <3>. QED  BY <1>2, <3>2, <3>3
  <2>2. CASE c \in Hot
    <3>1. A = {} /\ T = {}
      BY <1>4, <1>5, <2>2
    <3>2. \/ U = {<<"urgent">>} /\ R = {}
          \/ R = {<<"cur">>} /\ U = {}
      <4>1. CASE Running
        <5>1. urgent = NoPair /\ Hot = {cur.coro}
          BY <4>1, OnlyRuns
        <5>. QED  BY <1>1, <2>2, <4>1, <5>1
      <4>2. CASE ~Running
        BY <1>1, <2>2, <4>2 DEF Hot
      <4>. QED  BY <4>1, <4>2
    <3>. HIDE DEF A, U, R, T
    <3>. QED  BY <1>2, <3>1, <3>2
  <2>3. CASE c \in Owners(tokens)
    <3>1. PICK op \in tokens : op.c = c
      BY <2>3 DEF Owners
    <3>2. T = {<<"token", op>>}
      BY <3>1 DEF Placed, OnePlace
    <3>3. A = {} /\ U = {} /\ R = {}
      BY <1>4, <1>5, <2>3
    <3>. HIDE DEF A, U, R, T
    <3>. QED  BY <1>2, <3>2, <3>3
  <2>. QED  BY <1>3, <2>1, <2>2, <2>3
<1>. QED  BY <1>6, FS_Singleton

\* Whoever uses a socket comes back, once, and each token is heard, for any number of
\* coroutines and descriptors, poll or epoll, and every combination of the options.
\* The program avoids what Kinds stands for.
THEOREM NobodyWaitsUnheard ==
  ASSUME Kinds = {}
  PROVE  Spec => []WakeupsKept
<1>1. Inv => WakeupsKept
  <2>. SUFFICES ASSUME Inv PROVE WakeupsKept
    OBVIOUS
  <2>. USE DEF Inv, TypeOK
  <2>1. ASSUME Running PROVE cur.coro \in alive
    <3>1. cur.coro \in Hot
      BY <2>1 DEF Hot
    <3>. QED  BY <3>1 DEF Placed, OnePlace
  <2>2. ASSUME phase = "events", NEW f \in ToSet(batch) PROVE shadow[f] \in tokens
    <3>1. Rest = ToSet(batch) /\ f \in Fd
      BY <2>2 DEF Rest, Handling, ToSet
    <3>. QED  BY <3>1 DEF Watched
  <2>3. ASSUME NEW op \in tokens PROVE Heard(op)
    <3>1. Rest \subseteq ToSet(batch)
      <4>1. CASE Handling
        BY <4>1, HeadApart DEF Rest, Turn
      <4>2. CASE ~Handling
        BY <4>2 DEF Rest
      <4>. QED  BY <4>1, <4>2
    <3>. QED  BY <3>1 DEF Heard, Watched
  <2>. QED  BY <2>1, <2>2, <2>3, PlacesOnce DEF WakeupsKept
<1>2. Inv /\ [Next]_vars => Inv'
  BY NextInv
<1>. QED  BY <1>1, <1>2, InitInv, PTL DEF Spec
=============================================================================
