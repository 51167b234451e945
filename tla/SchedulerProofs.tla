-------------------------- MODULE SchedulerProofs --------------------------
(***************************************************************************)
(* Theorems about Scheduler: any number of coroutines, any names, timeouts *)
(* and priorities, and any program.                                        *)
(***************************************************************************)
EXTENDS Scheduler, LoopProofs

\* The operations that stand for None, an exception or the end of a coroutine.
LEMMA PlainOps ==
  /\ NoOp \in OpType /\ TimeoutExc \in OpType /\ ErrorExc \in OpType
  /\ \A c \in Coro : CoroOp(c) \in OpType
<1>1. NoOp \in OpType
  BY DEF NoOp, OpType, RawOpType, AllKinds
<1>2. TimeoutExc \in OpType
  BY DEF NoOp, TimeoutExc, OpType, RawOpType, AllKinds
<1>3. ErrorExc \in OpType
  BY DEF NoOp, ErrorExc, OpType, RawOpType, AllKinds
<1>4. ASSUME NEW c \in Coro
      PROVE  CoroOp(c) \in OpType
  BY <1>4 DEF CoroOp, OpType, RawOpType, AllKinds
<1>. QED  BY <1>1, <1>2, <1>3, <1>4

\* What is in the fields of every operation that is created.
LEMMA OwnOps ==
  /\ \A k, c, arg, at, pr, recipients :
       /\ Op(k, c, arg, at, pr, recipients).k = k
       /\ Op(k, c, arg, at, pr, recipients).c = c
       /\ Op(k, c, arg, at, pr, recipients).at = at
       /\ Op(k, c, arg, at, pr, recipients).arg = arg
       /\ Op(k, c, arg, at, pr, recipients).pr = pr
       /\ Op(k, c, arg, at, pr, recipients).recipients = recipients
  /\ \A c : CoroOp(c).k = "coro" /\ CoroOp(c).c = c /\ CoroOp(c).at = 0
  /\ NoOp.k = "none" /\ NoOp.at = 0
  /\ TimeoutExc.k = "timeout" /\ TimeoutExc.at = 0 /\ ErrorExc.k = "error" /\ ErrorExc.at = 0
BY DEF Op, CoroOp, NoOp, TimeoutExc, ErrorExc

\* The operations a coroutine creates are well formed.
LEMMA OpTyping ==
  ASSUME NEW c \in Coro, opn \in [Coro -> Nat], NEW at \in Nat, NEW pr \in 0..3, NEW r \in Nat
  PROVE  /\ \A d \in Coro, k \in {"add", "join"} : Op(k, c, d, at, pr, r) \in OpType
         /\ \A s \in Names, k \in {"wait", "signal"} : Op(k, c, s, at, pr, r) \in OpType
         /\ \A k \in {"sleep", "object"} : Op(k, c, None, at, pr, r) \in OpType
BY DEF Op, OpType, RawOpType, AllKinds

\* A deadline is an instant.
LEMMA DeadlinesType == clock \in Nat => Deadlines \subseteq Nat
BY DelayAssumption DEF Deadlines, Deadline

\* The default timeout changes nothing but the deadline.
LEMMA WithDefaultType ==
  ASSUME NEW op \in TimedType, clock \in Nat
  PROVE  /\ WithDefault(op) \in TimedType
         /\ WithDefault(op).k = op.k /\ WithDefault(op).c = op.c /\ WithDefault(op).arg = op.arg
BY DelayAssumption DEF WithDefault, TimedType, OpType, RawOpType

\* The heap holds timed operations, whatever is pushed, retired or removed.
LEMMA HeapType ==
  ASSUME timeouts \subseteq TimerType
  PROVE  /\ \A op \in TimedType : Pushed(op) \subseteq TimerType
         /\ \A op, h : h \subseteq TimerType => Retired(h, op) \subseteq TimerType
         /\ \A op : \A h \in Finalized(op) : h \subseteq TimerType
<1>1. ASSUME NEW op \in TimedType
      PROVE  Pushed(op) \subseteq TimerType
  <2>1. [op |-> op, live |-> TRUE] \in TimerType
    BY DEF TimerType
  <2>. QED  BY <2>1 DEF Pushed
<1>2. ASSUME NEW op, NEW h, h \subseteq TimerType
      PROVE  Retired(h, op) \subseteq TimerType
  BY <1>2 DEF Retired, TimerType
<1>3. ASSUME NEW op, NEW h \in Finalized(op)
      PROVE  h \subseteq TimerType
  <2>1. CASE op.at = 0 \/ op.k = "sleep"
    BY <2>1, <1>3 DEF Finalized
  <2>2. CASE ~(op.at = 0 \/ op.k = "sleep")
    <3>1. PICK e \in timeouts : h = Retired(timeouts \ {e}, op)
      BY <2>2, <1>3 DEF Finalized
    <3>. QED  BY <3>1, <1>2
  <2>. QED  BY <2>1, <2>2
<1>. QED  BY <1>1, <1>2, <1>3

\* process_op leaves a well-formed deque and a pair to run, or none.
LEMMA ContinueType ==
  ASSUME NEW a \in Seq(TaskType), NEW p \in TaskType \cup {NoPair}, Continue(a, p)
  PROVE  /\ active' \in Seq(TaskType)
         /\ cur' \in TaskType \cup {NoPair}
         /\ phase' \in {"pick", "run", "process", "timers", "done", "dead"}
         /\ phase' \in {"run", "process"} => cur' \in TaskType
BY DEF Continue

\* A pair for a coroutine.
LEMMA PairTypes ==
  \A op \in OpType, c \in Coro :
    Pair(op, c) \in TaskType /\ Pair(op, c).op = op /\ Pair(op, c).coro = c
BY DEF Pair, TaskType
-----------------------------------------------------------------------------
(***************************************************************************)
(* What a coroutine may do when it is resumed.                             *)
(***************************************************************************)
\* The running coroutine comes back with op: it ends, or it has created op.
ComesBack(op, st) ==
  /\ Comeback(op, st)
  /\ IF st = "running"
     THEN \/ op = NoOp
          \/ op.k = "coro" /\ op = CoroOp(op.c) /\ op.c \in Absent
          \/ op.k \in {"add", "join", "sleep", "wait", "signal", "object"} /\ op.c = cur.coro
     ELSE op = CoroOp(cur.coro)
  /\ op.k = "add" => op.arg \in Absent /\ "add" \in Kinds
  /\ op.k = "join" => op.arg \in Coro \ Absent /\ op.arg # cur.coro
  /\ op.k = "sleep" /\ op.at = 0 => "nap" \in Kinds
  /\ op.k = "object" => "object" \in Kinds
  /\ op.k = "wait" => "wait" \in Kinds
  /\ op.k = "signal" => op.recipients \in Recipients
  /\ op.at # 0 => op.at \in Deadlines /\ op.k \in {"join", "sleep", "wait"}

\* A coroutine that is resumed comes back, or calls the scheduler while it runs.
LEMMA ResumeCases ==
  ASSUME LoopTypeOK, Resume
  PROVE  /\ phase = "run" /\ cur.coro \in Coro /\ Alive(cur.coro) /\ UNCHANGED coVars
         /\ \/ \E op \in OpType, st \in {"running", "completed", "failed"} :
                 ComesBack(op, st) /\ opn' \in [Coro -> Nat]
            \/ Spawn
            \/ Shutdown
<1>. USE DEF LoopTypeOK
<1>1. /\ phase = "run" /\ cur \in TaskType /\ cur.coro \in Coro /\ Alive(cur.coro) /\ UNCHANGED coVars
      /\ opn \in [Coro -> Nat] /\ clock \in Nat
  BY DEF Resume, Spawn, YieldCall, YieldAdd, YieldJoin, YieldLateJoin, YieldSleep, YieldWait,
         YieldSignal, YieldObject, Does, TaskType
<1>. DEFINE Back == \E op \in OpType, st \in {"running", "completed", "failed"} :
                      ComesBack(op, st) /\ opn' \in [Coro -> Nat]
<1>2. ASSUME NEW op \in OpType, YieldOp(op),
             \/ op.k = "coro" /\ op = CoroOp(op.c) /\ op.c \in Absent
             \/ op.k \in {"add", "join", "sleep", "wait", "signal", "object"} /\ op.c = cur.coro,
             op.k = "add" => op.arg \in Absent /\ "add" \in Kinds,
             op.k = "join" => op.arg \in Coro \ Absent /\ op.arg # cur.coro,
             op.k = "sleep" /\ op.at = 0 => "nap" \in Kinds,
             op.k = "object" => "object" \in Kinds,
             op.k = "wait" => "wait" \in Kinds,
             op.k = "signal" => op.recipients \in Recipients,
             op.at # 0 => op.at \in Deadlines /\ op.k \in {"join", "sleep", "wait"}
      PROVE  Back
  <2>1. ComesBack(op, "running")
    BY <1>2 DEF YieldOp, ComesBack
  <2>2. opn' \in [Coro -> Nat]
    BY <1>1, <1>2 DEF YieldOp
  <2>. QED  BY <1>2, <2>1, <2>2
<1>3. Deadlines \subseteq Nat /\ Prios \subseteq 0..3 /\ Recipients \subseteq Nat /\ 0 \in 0..3 /\ 0 \in Nat
  BY <1>1, DeadlinesType, PrioAssumption, RecipientsAssumption
<1>4. CASE YieldNone
  <2>1. ComesBack(NoOp, "running") /\ opn' \in [Coro -> Nat]
    BY <1>1, <1>4, OwnOps DEF YieldNone, ComesBack
  <2>. QED  BY <1>1, <2>1, PlainOps
<1>5. CASE Return \/ Raise
  <2>1. PICK st \in {"completed", "failed"} : Comeback(CoroOp(cur.coro), st)
    BY <1>5 DEF Return, Raise
  <2>2. ComesBack(CoroOp(cur.coro), st)
    BY <2>1, OwnOps DEF ComesBack
  <2>3. opn' \in [Coro -> Nat] /\ CoroOp(cur.coro) \in OpType
    BY <1>1, <1>5, PlainOps DEF Return, Raise
  <2>. QED  BY <1>1, <2>2, <2>3
<1>6. CASE YieldCall
  <2>1. PICK d \in Absent : YieldOp(CoroOp(d))
    BY <1>6 DEF YieldCall
  <2>2. CoroOp(d) \in OpType
    BY PlainOps DEF Absent
  <2>3. Back
    BY <1>2, <2>1, <2>2, OwnOps
  <2>. QED  BY <1>1, <2>3
<1>7. CASE YieldAdd
  <2>1. PICK d \in Absent, pr \in Prios : Does("add") /\ YieldOp(Op("add", cur.coro, d, 0, pr, 0))
    BY <1>7 DEF YieldAdd
  <2>. DEFINE op == Op("add", cur.coro, d, 0, pr, 0)
  <2>2. op \in OpType
    BY <1>1, <1>3, OpTyping DEF Absent
  <2>3. op.k = "add" /\ op.c = cur.coro /\ op.arg = d /\ op.at = 0 /\ "add" \in Kinds
    BY <2>1, OwnOps DEF Does
  <2>. HIDE DEF op
  <2>4. Back
    BY <1>2, <2>1, <2>2, <2>3 DEF op
  <2>. QED  BY <1>1, <2>4
<1>8. CASE YieldJoin \/ YieldLateJoin
  <2>1. PICK d \in Coro, at \in Deadlines :
          /\ YieldOp(Op("join", cur.coro, d, at, 0, 0))
          /\ d \notin Absent /\ d # cur.coro
    BY <1>1, <1>8 DEF YieldJoin, YieldLateJoin, Ended, Absent, Alive
  <2>. DEFINE op == Op("join", cur.coro, d, at, 0, 0)
  <2>2. op \in OpType
    BY <1>1, <1>3, OpTyping
  <2>3. op.k = "join" /\ op.c = cur.coro /\ op.arg = d /\ op.at = at
    BY OwnOps
  <2>. HIDE DEF op
  <2>4. Back
    BY <1>2, <2>1, <2>2, <2>3 DEF op
  <2>. QED  BY <1>1, <2>4
<1>9. CASE YieldSleep
  <2>1. PICK at \in Deadlines : /\ Does(IF at = 0 THEN "nap" ELSE "sleep")
                                /\ YieldOp(Op("sleep", cur.coro, None, at, 0, 0))
    BY <1>9 DEF YieldSleep
  <2>. DEFINE op == Op("sleep", cur.coro, None, at, 0, 0)
  <2>2. op \in OpType
    BY <1>1, <1>3, OpTyping
  <2>3. op.k = "sleep" /\ op.c = cur.coro /\ op.at = at /\ (at = 0 => "nap" \in Kinds)
    BY <2>1, OwnOps DEF Does
  <2>. HIDE DEF op
  <2>4. Back
    BY <1>2, <2>1, <2>2, <2>3 DEF op
  <2>. QED  BY <1>1, <2>4
<1>10. CASE YieldWait
  <2>1. PICK s \in Names, at \in Deadlines :
          YieldOp(Op("wait", cur.coro, s, at, 0, 0)) /\ "wait" \in Kinds
    BY <1>10 DEF YieldWait, Does
  <2>. DEFINE op == Op("wait", cur.coro, s, at, 0, 0)
  <2>2. op \in OpType
    BY <1>1, <1>3, OpTyping
  <2>3. op.k = "wait" /\ op.c = cur.coro /\ op.at = at
    BY OwnOps
  <2>. HIDE DEF op
  <2>4. Back
    BY <1>2, <2>1, <2>2, <2>3 DEF op
  <2>. QED  BY <1>1, <2>4
<1>11. CASE YieldSignal
  <2>1. PICK s \in Names, pr \in Prios, r \in Recipients :
          Comeback(Op("signal", cur.coro, s, 0, pr, r), "running") /\ UNCHANGED opn
    BY <1>11 DEF YieldSignal
  <2>. DEFINE op == Op("signal", cur.coro, s, 0, pr, r)
  <2>2. op \in OpType
    BY <1>1, <1>3, OpTyping
  <2>3. op.k = "signal" /\ op.c = cur.coro /\ op.at = 0 /\ op.recipients = r
    BY OwnOps
  <2>4. Comeback(op, "running") /\ opn' = opn
    BY <2>1
  <2>. HIDE DEF op
  <2>5. ComesBack(op, "running")
    BY <2>3, <2>4 DEF ComesBack
  <2>. QED  BY <1>1, <2>2, <2>4, <2>5
<1>12. CASE YieldObject
  <2>. DEFINE op == Op("object", cur.coro, None, 0, 0, 0)
  <2>1. YieldOp(op) /\ "object" \in Kinds
    BY <1>12 DEF YieldObject, Does
  <2>2. op \in OpType
    BY <1>1, <1>3, OpTyping
  <2>3. op.k = "object" /\ op.c = cur.coro /\ op.at = 0
    BY OwnOps
  <2>. HIDE DEF op
  <2>4. Back
    BY <1>2, <2>1, <2>2, <2>3
  <2>. QED  BY <1>1, <2>4
<1>. QED  BY <1>1, <1>4, <1>5, <1>6, <1>7, <1>8, <1>9, <1>10, <1>11, <1>12 DEF Resume
-----------------------------------------------------------------------------
(***************************************************************************)
(* Type correctness, one lemma for each part of the next-state relation.   *)
(***************************************************************************)
\* deque.remove and list.remove: the first occurrence is taken out, if any.
LEMMA RemoveFirstCases ==
  ASSUME NEW S, NEW s \in Seq(S), NEW e
  PROVE  \/ RemoveFirst(s, e) = s /\ \A i \in 1 .. Len(s) : s[i] # e
         \/ \E i \in DOMAIN s : s[i] = e /\ RemoveFirst(s, e) = RemoveAt(s, i)
<1>1. CASE \A i \in 1 .. Len(s) : s[i] # e
  BY <1>1 DEF RemoveFirst
<1>2. CASE \E i \in 1 .. Len(s) : s[i] = e
  <2>. DEFINE I == {i \in 1 .. Len(s) : s[i] = e}
  <2>1. I \in SUBSET Nat /\ I # {}
    BY <1>2
  <2>2. PICK x \in I : \A y \in I : x <= y
    BY <2>1, LeastNumber
  <2>3. Min(I) \in I
    BY <2>2 DEF Min
  <2>4. RemoveFirst(s, e) = RemoveAt(s, Min(I))
    BY <1>2 DEF RemoveFirst, SelectInSeq
  <2>5. Min(I) \in DOMAIN s /\ s[Min(I)] = e
    BY <2>3
  <2>. QED  BY <2>4, <2>5
<1>. QED  BY <1>1, <1>2

\* What is removed leaves the rest, in the types it had, and no more of it.
LEMMA RemoveFirstType ==
  ASSUME NEW S, NEW s \in Seq(S), NEW e
  PROVE  RemoveFirst(s, e) \in Seq(S) /\ Len(RemoveFirst(s, e)) <= Len(s)
<1>1. \A i \in DOMAIN s : RemoveAt(s, i) \in Seq(S) /\ Len(RemoveAt(s, i)) <= Len(s)
  BY DEF RemoveAt
<1>. QED  BY <1>1, RemoveFirstCases

\* Nothing is there that was not there before.
LEMMA RemoveFirstMembers ==
  ASSUME NEW S, NEW s \in Seq(S), NEW e
  PROVE  ToSet(RemoveFirst(s, e)) \subseteq ToSet(s)
<1>1. ASSUME NEW i \in DOMAIN s
      PROVE  ToSet(RemoveAt(s, i)) \subseteq ToSet(s)
  BY <1>1, RemoveAtMembers
<1>. QED  BY <1>1, RemoveFirstCases

\* run() starts with the coroutines that were added, which wait for nothing.
LEMMA InitType == Init => TypeOK
<1>. SUFFICES ASSUME Init PROVE TypeOK
  OBVIOUS
<1>1. active \in Seq(TaskType)
  <2>1. Started \in Seq(Coro)
    BY StartedAssumption
  <2>2. \A i \in 1 .. Len(Started) : Pair(NoOp, Started[i]) \in TaskType
    BY <2>1, PlainOps, PairTypes
  <2>3. DOMAIN Started = 1 .. Len(Started) /\ Len(Started) \in Nat
    BY <2>1
  <2>. QED  BY <2>2, <2>3 DEF Init, LoopInit
<1>2. pend \in [Coro -> OpType]
  BY PlainOps DEF Init, LoopInit
<1>3. CoTypeOK
  <2>1. <<>> \in Seq(Coro) /\ <<>> \in Seq(TaskType)
    OBVIOUS
  <2>. QED  BY <2>1 DEF Init, CoTypeOK
<1>. QED  BY <1>1, <1>2, <1>3 DEF Init, LoopInit, TypeOK, LoopTypeOK

\* The running coroutine comes back with an operation.
LEMMA ComebackType ==
  ASSUME LoopTypeOK, NEW op \in OpType, NEW st \in {"running", "completed", "failed"},
         Comeback(op, st), opn' \in [Coro -> Nat]
  PROVE  LoopTypeOK'
<1>1. cur \in TaskType /\ cur.coro \in Coro /\ cur.op \in OpType
  BY DEF LoopTypeOK, Comeback, TaskType
<1>2. timeouts' \subseteq TimerType
  BY HeapType DEF LoopTypeOK, Comeback
<1>3. state' \in [Coro -> {"absent", "need_init", "running", "completed",
                           "failed", "finalized"}]
  BY <1>1 DEF LoopTypeOK, Comeback, StateAfterFinalize
<1>4. cur' \in TaskType
  BY <1>1, PairTypes DEF Comeback
<1>5. pend' \in [Coro -> OpType]
  BY <1>1 DEF Comeback, LoopTypeOK
<1>. QED  BY <1>2, <1>3, <1>4, <1>5 DEF LoopTypeOK, Comeback

\* A new instance is queued.
LEMMA SpawnType ==
  ASSUME LoopTypeOK, Spawn
  PROVE  LoopTypeOK'
<1>1. PICK d \in Absent :
        /\ state' = [state EXCEPT ![d] = "need_init"]
        /\ active' = Append(active, Pair(NoOp, d))
        /\ UNCHANGED <<timeouts, running, cur, phase, clock, opn, pend>>
  BY DEF Spawn
<1>2. d \in Coro
  BY DEF Absent
<1>3. Pair(NoOp, d) \in TaskType
  BY <1>2, PlainOps, PairTypes
<1>4. active' \in Seq(TaskType)
  BY <1>1, <1>3 DEF LoopTypeOK
<1>5. state' \in [Coro -> {"absent", "need_init", "running", "completed",
                           "failed", "finalized"}]
  BY <1>1, <1>2 DEF LoopTypeOK
<1>. QED  BY <1>1, <1>4, <1>5 DEF LoopTypeOK

\* What a coroutine does when it is resumed.
LEMMA ResumeType ==
  ASSUME TypeOK, Resume
  PROVE  TypeOK'
<1>1. LoopTypeOK /\ UNCHANGED coVars
  BY ResumeCases DEF TypeOK
<1>2. CASE \E op \in OpType, st \in {"running", "completed", "failed"} :
             ComesBack(op, st) /\ opn' \in [Coro -> Nat]
  BY <1>1, <1>2, ComebackType DEF TypeOK, CoTypeOK, coVars, ComesBack
<1>3. CASE Spawn
  BY <1>1, <1>3, SpawnType DEF TypeOK, CoTypeOK, coVars
<1>4. CASE Shutdown
  BY <1>1, <1>4 DEF Shutdown, TypeOK, LoopTypeOK, CoTypeOK, coVars
<1>. QED  BY <1>1, <1>2, <1>3, <1>4, ResumeCases

\* The steps of the main loop that no operation takes part in.
LEMMA LoopStepType ==
  ASSUME LoopTypeOK, LoopStep
  PROVE  LoopTypeOK'
<1>1. CASE Pick
  BY <1>1 DEF Pick, LoopTypeOK
<1>2. CASE IdleTurn \/ Leave \/ EndTimers
  BY <1>2 DEF IdleTurn, Leave, EndTimers, LoopTypeOK
<1>3. CASE RunDeadCoro
  BY <1>3 DEF RunDeadCoro, LoopTypeOK
<1>4. CASE Start
  <2>1. cur \in TaskType /\ cur.coro \in Coro
    BY <1>4 DEF Start, LoopTypeOK, TaskType
  <2>. QED  BY <1>4, <2>1 DEF Start, LoopTypeOK
<1>5. CASE FinalizeRaises
  <2>1. cur \in TaskType /\ cur.coro \in Coro
    BY <1>5 DEF FinalizeRaises, LoopTypeOK, TaskType
  <2>2. cur' \in TaskType
    BY <1>5, <2>1, PlainOps, PairTypes DEF FinalizeRaises
  <2>3. pend' \in [Coro -> OpType]
    BY <1>5, <2>1, PlainOps DEF FinalizeRaises, LoopTypeOK
  <2>4. state' \in [Coro -> {"absent", "need_init", "running", "completed",
                             "failed", "finalized"}]
    BY <1>5, <2>1 DEF FinalizeRaises, LoopTypeOK
  <2>. QED  BY <1>5, <2>2, <2>3, <2>4 DEF FinalizeRaises, LoopTypeOK
<1>6. CASE ProcessNone
  <2>1. cur \in TaskType
    BY <1>6 DEF ProcessNone, LoopTypeOK
  <2>2. active \in Seq(TaskType) /\ Append(active, cur) \in Seq(TaskType)
    BY <2>1 DEF LoopTypeOK
  <2>3. PICK a \in Seq(TaskType), p \in TaskType \cup {NoPair} : Continue(a, p)
    BY <1>6, <2>1, <2>2 DEF ProcessNone
  <2>4. /\ active' \in Seq(TaskType)
        /\ cur' \in TaskType \cup {NoPair}
        /\ phase' \in {"pick", "run", "process", "timers", "done", "dead"}
        /\ phase' \in {"run", "process"} => cur' \in TaskType
    BY <2>3, ContinueType
  <2>. QED  BY <1>6, <2>4 DEF ProcessNone, LoopTypeOK
<1>7. CASE DropStale
  BY <1>7 DEF DropStale, LoopTypeOK
<1>. QED  BY <1>1, <1>2, <1>3, <1>4, <1>5, <1>6, <1>7 DEF LoopStep

\* process_op leaves the loop well formed if it leaves well-formed tasks, timers
\* and coroutines.
LEMMA HandOverType ==
  ASSUME LoopTypeOK, NEW a \in Seq(TaskType), NEW p \in TaskType \cup {NoPair},
         Continue(a, p), timeouts' \subseteq TimerType,
         state' \in [Coro -> {"absent", "need_init", "running", "completed",
                              "failed", "finalized"}],
         UNCHANGED <<running, clock, opn, pend>>
  PROVE  LoopTypeOK'
BY ContinueType DEF LoopTypeOK

\* Tasks that are turned round are tasks.
LEMMA ReverseType ==
  ASSUME NEW S, NEW s \in Seq(S)
  PROVE  Reverse(s) \in Seq(S)
BY DEF Reverse

\* The pairs in which the waiters of a coroutine are told, however they are queued.
LEMMA WaiterPairsType ==
  ASSUME active \in Seq(TaskType), NEW c \in Coro, NEW s \in Seq(Coro)
  PROVE  /\ WaiterPairs(c, s) \in Seq(TaskType)
         /\ Len(WaiterPairs(c, s)) = Len(s)
         /\ \A i \in 1 .. Len(s) : WaiterPairs(c, s)[i] = Pair(CoroOp(c), s[i])
         /\ \A t \in Seq(TaskType) : Queued(t) \in Seq(TaskType)
<1>1. DOMAIN s = 1 .. Len(s) /\ Len(s) \in Nat /\ \A i \in 1 .. Len(s) : s[i] \in Coro
  OBVIOUS
<1>2. \A i \in 1 .. Len(s) : Pair(CoroOp(c), s[i]) \in TaskType
  BY <1>1, PlainOps, PairTypes
<1>3. WaiterPairs(c, s) = [i \in 1 .. Len(s) |-> Pair(CoroOp(c), s[i])]
  BY <1>1 DEF WaiterPairs
<1>4. WaiterPairs(c, s) \in Seq(TaskType) /\ Len(WaiterPairs(c, s)) = Len(s)
  BY <1>1, <1>2, <1>3
<1>5. ASSUME NEW t \in Seq(TaskType)
      PROVE  Queued(t) \in Seq(TaskType)
  <2>1. Reverse(t) \in Seq(TaskType)
    BY ReverseType
  <2>. QED  BY <2>1 DEF Queued
<1>. QED  BY <1>3, <1>4, <1>5

\* A sequence that is not empty, without its last element, and that element.
LEMMA FrontLast ==
  ASSUME NEW S, NEW s \in Seq(S), s # <<>>
  PROVE  Front(s) \in Seq(S) /\ Last(s) \in S
BY DEF Front, Last

\* The waiting coroutines, queued, and the one that signals.
LEMMA DeliveredType ==
  ASSUME active \in Seq(TaskType), NEW sig \in TaskType, NEW W \in Seq(TaskType)
  PROVE  Delivered(sig, W) \in Seq(TaskType)
<1>1. Reverse(W) \in Seq(TaskType)
  BY ReverseType
<1>2. Pair(NoOp, sig.coro) \in TaskType
  BY PlainOps, PairTypes DEF TaskType
<1>. QED  BY <1>1, <1>2 DEF Delivered

\* The process methods of the operations.
LEMMA ProcessType ==
  ASSUME TypeOK, Process
  PROVE  TypeOK'
<1>. USE DEF TypeOK
<1>. DEFINE op == WithDefault(cur.op)
            States == {"absent", "need_init", "running", "completed", "failed", "finalized"}
<1>1. /\ phase = "process" /\ UNCHANGED <<running, clock, opn, pend>>
      /\ cur \in TaskType /\ cur.op \in OpType /\ cur.coro \in Coro
  BY DEF Process, ProcessCall, ProcessEnd, ProcessAdd, ProcessJoin, ProcessSleep,
         ProcessSignal, ProcessWait, ProcessObject, Processing, LoopTypeOK, TaskType
<1>2. /\ active \in Seq(TaskType) /\ timeouts \subseteq TimerType /\ clock \in Nat
      /\ state \in [Coro -> States]
      /\ caller \in [Coro -> Coro \cup {None}] /\ waiters \in [Coro -> Seq(Coro)]
      /\ sigwait \in [Names -> Seq(TaskType)] /\ signals \in [Names -> TaskType \cup {NoPair}]
  BY DEF LoopTypeOK, CoTypeOK
<1>3. CASE ProcessCall
  <2>1. cur.op.c \in Coro /\ Pair(NoOp, cur.op.c) \in TaskType
    BY <1>1, <1>3, PlainOps, PairTypes DEF ProcessCall, Processing, OpType
  <2>2. LoopTypeOK'
    BY <1>1, <1>2, <1>3, <2>1, HandOverType DEF ProcessCall
  <2>. QED  BY <1>1, <1>2, <1>3, <2>1, <2>2 DEF ProcessCall, CoTypeOK
<1>4. CASE ProcessEnd
  <2>. DEFINE c == cur.coro
              W == WaiterPairs(c, waiters[c])
              outcome == IF state[c] = "failed" THEN ErrorExc ELSE CoroOp(c)
  <2>1. waiters[c] \in Seq(Coro) /\ caller[c] \in Coro \cup {None}
    BY <1>1, <1>2
  <2>2. /\ W \in Seq(TaskType) /\ \A t \in Seq(TaskType) : Queued(t) \in Seq(TaskType)
    BY <1>1, <1>2, <2>1, WaiterPairsType
  <2>3. caller[c] # None => Pair(outcome, caller[c]) \in TaskType
    BY <1>1, <2>1, PlainOps, PairTypes
  <2>4. W # <<>> => Front(W) \in Seq(TaskType) /\ Last(W) \in TaskType
    BY <2>2, FrontLast
  <2>5. IF caller[c] # None
        THEN Continue(Queued(W), Pair(outcome, caller[c]))
        ELSE IF W = <<>> THEN Continue(active, NoPair)
                         ELSE Continue(Queued(Front(W)), Last(W))
    BY <1>4 DEF ProcessEnd
  <2>. HIDE DEF W, outcome
  <2>6. \E a \in Seq(TaskType), p \in TaskType \cup {NoPair} : Continue(a, p)
    <3>1. CASE caller[c] # None
      <4>1. Queued(W) \in Seq(TaskType) /\ Pair(outcome, caller[c]) \in TaskType
        BY <2>2, <2>3, <3>1
      <4>. QED  BY <2>5, <3>1, <4>1
    <3>2. CASE caller[c] = None /\ W = <<>>
      BY <1>2, <2>5, <3>2
    <3>3. CASE caller[c] = None /\ W # <<>>
      <4>1. Queued(Front(W)) \in Seq(TaskType) /\ Last(W) \in TaskType
        BY <2>2, <2>4, <3>3
      <4>. QED  BY <2>5, <3>3, <4>1
    <3>. QED  BY <3>1, <3>2, <3>3
  <2>7. LoopTypeOK'
    BY <1>1, <1>2, <1>4, <2>6, HandOverType DEF ProcessEnd
  <2>8. <<>> \in Seq(Coro)
    OBVIOUS
  <2>. QED  BY <1>1, <1>2, <1>4, <2>7, <2>8 DEF ProcessEnd, CoTypeOK, SetAttribute
<1>5. CASE ProcessAdd
  <2>. DEFINE new == Pair(NoOp, cur.op.arg)
              a == IF FavorsOp(cur.op.pr) THEN Append(active, new) ELSE <<new>> \o active
  <2>1. cur.op.arg \in Coro
    BY <1>1, <1>5 DEF ProcessAdd, Processing, OpType
  <2>2. new \in TaskType /\ Pair(NoOp, cur.coro) \in TaskType
    BY <1>1, <2>1, PlainOps, PairTypes
  <2>3. a \in Seq(TaskType)
    BY <1>2, <2>2
  <2>4. IF FavorsCoro(cur.op.pr) THEN Continue(a, cur)
                                 ELSE Continue(Append(a, Pair(NoOp, cur.coro)), NoPair)
    BY <1>5 DEF ProcessAdd
  <2>. HIDE DEF a
  <2>5. Append(a, Pair(NoOp, cur.coro)) \in Seq(TaskType)
    BY <2>2, <2>3
  <2>6. \E b \in Seq(TaskType), p \in TaskType \cup {NoPair} : Continue(b, p)
    BY <1>1, <2>3, <2>4, <2>5
  <2>7. LoopTypeOK'
    BY <1>1, <1>2, <1>5, <2>1, <2>6, HandOverType DEF ProcessAdd
  <2>. QED  BY <1>5, <2>7 DEF ProcessAdd, CoTypeOK, coVars
<1>6. CASE ProcessJoin
  <2>. DEFINE target == IF op.at # 0 THEN cur.coro ELSE op.arg
  <2>1. cur.op \in TimedType /\ cur.op.arg \in Coro
    BY <1>1, <1>6 DEF ProcessJoin, Processing, OpType, TimedType
  <2>2. op \in TimedType /\ op.arg = cur.op.arg
    BY <1>2, <2>1, WithDefaultType
  <2>. HIDE DEF op
  <2>3. target \in Coro /\ Pushed(op) \subseteq TimerType /\ Retired(Pushed(op), cur.op) \subseteq TimerType
    BY <1>1, <1>2, <2>1, <2>2, HeapType
  <2>. HIDE DEF target
  <2>4. waiters' \in [Coro -> Seq(Coro)]
    <3>1. Append(waiters[target], cur.coro) \in Seq(Coro)
      BY <1>1, <1>2, <2>3
    <3>2. waiters' = waiters \/ waiters' = [waiters EXCEPT ![target] = Append(waiters[target], cur.coro)]
      BY <1>6 DEF ProcessJoin, op, target
    <3>. QED  BY <1>2, <3>1, <3>2
  <2>5. timeouts' \subseteq TimerType
    BY <1>6, <2>3 DEF ProcessJoin, Throw, op
  <2>6. PICK p \in TaskType \cup {NoPair} : Continue(active, p)
    BY <1>1, <1>6, PlainOps, PairTypes DEF ProcessJoin, Throw
  <2>7. LoopTypeOK'
    BY <1>1, <1>2, <1>6, <2>5, <2>6, HandOverType DEF ProcessJoin
  <2>. QED  BY <1>6, <2>4, <2>7 DEF ProcessJoin, CoTypeOK
<1>7. CASE ProcessSleep
  <2>1. cur.op \in TimedType
    BY <1>1, <1>7 DEF ProcessSleep, Processing, TimedType
  <2>2. timeouts' \subseteq TimerType
    BY <1>2, <1>7, <2>1, WithDefaultType, HeapType DEF ProcessSleep
  <2>3. LoopTypeOK'
    BY <1>1, <1>2, <1>7, <2>2, HandOverType DEF ProcessSleep
  <2>. QED  BY <1>7, <2>3 DEF ProcessSleep, CoTypeOK, coVars
<1>8. CASE ProcessSignal
  <2>. DEFINE s == cur.op.arg
  <2>1. s \in Names /\ sigwait[s] \in Seq(TaskType) /\ <<>> \in Seq(TaskType)
    BY <1>1, <1>2, <1>8 DEF ProcessSignal, Processing, OpType
  <2>2. Delivered(cur, sigwait[s]) \in Seq(TaskType)
    BY <1>1, <1>2, <2>1, DeliveredType
  <2>3. \E a \in Seq(TaskType) : Continue(a, NoPair)
    BY <1>2, <1>8, <2>2 DEF ProcessSignal
  <2>4. LoopTypeOK'
    BY <1>1, <1>2, <1>8, <2>3, HandOverType DEF ProcessSignal
  <2>5. sigwait' \in [Names -> Seq(TaskType)] /\ signals' \in [Names -> TaskType \cup {NoPair}]
    BY <1>1, <1>2, <1>8, <2>1 DEF ProcessSignal, Emptied
  <2>. QED  BY <1>8, <2>4, <2>5 DEF ProcessSignal, CoTypeOK
<1>9. CASE ProcessWait
  <2>. DEFINE s == op.arg
              W == Append(sigwait[s], Pair(op, cur.coro))
              sig == signals[s]
  <2>1. cur.op \in TimedType /\ cur.op.arg \in Names
    BY <1>1, <1>9 DEF ProcessWait, Processing, OpType, TimedType
  <2>2. op \in TimedType /\ s = cur.op.arg
    BY <1>2, <2>1, WithDefaultType
  <2>. HIDE DEF op
  <2>3. Pair(op, cur.coro) \in TaskType /\ sigwait[s] \in Seq(TaskType) /\ sig \in TaskType \cup {NoPair}
    BY <1>1, <1>2, <2>1, <2>2, PairTypes DEF TimedType
  <2>4. W \in Seq(TaskType) /\ <<>> \in Seq(TaskType)
    BY <2>3
  <2>5. Enough(sig, W) => Delivered(sig, W) \in Seq(TaskType)
    BY <1>2, <2>3, <2>4, DeliveredType DEF Enough
  <2>6. \E a \in Seq(TaskType) : Continue(a, NoPair)
    BY <1>2, <1>9, <2>5 DEF ProcessWait, op
  <2>7. timeouts' \subseteq TimerType
    BY <1>2, <1>9, <2>2, HeapType DEF ProcessWait, op
  <2>8. LoopTypeOK'
    BY <1>1, <1>2, <1>9, <2>6, <2>7, HandOverType DEF ProcessWait
  <2>9. sigwait' \in [Names -> Seq(TaskType)] /\ signals' \in [Names -> TaskType \cup {NoPair}]
    BY <1>2, <1>9, <2>1, <2>2, <2>4 DEF ProcessWait, Emptied, op
  <2>. QED  BY <1>9, <2>8, <2>9 DEF ProcessWait, CoTypeOK
<1>10. CASE ProcessObject
  BY <1>1, <1>2, <1>10 DEF ProcessObject, LoopTypeOK, CoTypeOK, coVars
<1>. QED  BY <1>3, <1>4, <1>5, <1>6, <1>7, <1>8, <1>9, <1>10 DEF Process

\* Expired operations, taken out of what they waited in.
LEMMA HandleTimeoutType ==
  ASSUME TypeOK, HandleTimeout
  PROVE  TypeOK'
<1>. USE DEF TypeOK
<1>1. ASSUME NEW e \in timeouts, NEW op \in OpType, Expire(e, Pair(op, e.op.c))
      PROVE  LoopTypeOK'
  <2>1. e.op.c \in Coro
    BY DEF LoopTypeOK, TimerType, TimedType, OpType
  <2>2. active' \in Seq(TaskType)
    BY <1>1, <2>1, PairTypes DEF Expire, LoopTypeOK
  <2>. QED  BY <1>1, <2>2 DEF Expire, LoopTypeOK
<1>2. CASE WakeSleeper
  <2>1. PICK e \in timeouts : Expire(e, Pair(e.op, e.op.c)) /\ UNCHANGED coVars
    BY <1>2 DEF WakeSleeper
  <2>2. e.op \in OpType
    BY DEF LoopTypeOK, TimerType, TimedType
  <2>. QED  BY <1>1, <2>1, <2>2 DEF CoTypeOK, coVars
<1>3. CASE TimeoutJoin
  <2>1. PICK e \in timeouts :
          /\ Expire(e, Pair(TimeoutExc, e.op.c))
          /\ waiters' = [waiters EXCEPT ![e.op.c] = RemoveFirst(@, e.op.c)]
          /\ UNCHANGED <<caller, sigwait, signals>>
    BY <1>3 DEF TimeoutJoin
  <2>2. e.op.c \in Coro /\ waiters[e.op.c] \in Seq(Coro)
    BY DEF LoopTypeOK, CoTypeOK, TimerType, TimedType, OpType
  <2>3. waiters' \in [Coro -> Seq(Coro)]
    BY <2>1, <2>2, RemoveFirstType DEF CoTypeOK
  <2>. QED  BY <1>1, <2>1, <2>3, PlainOps DEF CoTypeOK
<1>4. CASE TimeoutWait
  <2>1. PICK e \in timeouts :
          /\ e.op.k = "wait"
          /\ Expire(e, Pair(TimeoutExc, e.op.c))
          /\ sigwait' = [sigwait EXCEPT ![e.op.arg] = WithoutWait(@, Pair(e.op, e.op.c))]
          /\ UNCHANGED <<caller, waiters, signals>>
    BY <1>4 DEF TimeoutWait
  <2>2. e.op.arg \in Names /\ sigwait[e.op.arg] \in Seq(TaskType)
    BY <2>1 DEF LoopTypeOK, CoTypeOK, TimerType, TimedType, OpType
  <2>3. sigwait' \in [Names -> Seq(TaskType)]
    BY <2>1, <2>2, RemoveFirstType DEF CoTypeOK, WithoutWait
  <2>. QED  BY <1>1, <2>1, <2>3, PlainOps DEF CoTypeOK
<1>5. CASE CleanupRaises
  BY <1>5 DEF CleanupRaises, LoopTypeOK, CoTypeOK, coVars
<1>. QED  BY <1>2, <1>3, <1>4, <1>5 DEF HandleTimeout

\* No step of a program leaves the types.
LEMMA NextType == TypeOK /\ [Next]_vars => TypeOK'
<1>. SUFFICES ASSUME TypeOK, [Next]_vars PROVE TypeOK'
  OBVIOUS
<1>1. CASE LoopStep /\ UNCHANGED coVars
  BY <1>1, LoopStepType DEF TypeOK, CoTypeOK, coVars
<1>2. CASE Tick /\ UNCHANGED coVars
  BY <1>2 DEF Tick, TypeOK, LoopTypeOK, CoTypeOK, coVars
<1>3. CASE UNCHANGED vars
  BY <1>3 DEF TypeOK, LoopTypeOK, CoTypeOK, vars, loopVars, coVars
<1>4. CASE Over /\ UNCHANGED coVars
  BY <1>3, <1>4 DEF Over, vars
<1>. QED
  BY <1>1, <1>2, <1>3, <1>4, ResumeType, ProcessType, HandleTimeoutType DEF Next, Loop

\* The state of the scheduler is well formed, whatever the coroutines yield: what
\* schedulers.py queues, keeps back or times is an operation of a coroutine, on a
\* name or on a coroutine that it is meant for.
THEOREM TypeCorrect == Spec => []TypeOK
BY InitType, NextType, PTL DEF Spec
-----------------------------------------------------------------------------
(***************************************************************************)
(* The signal that is kept back.  A signal is kept while fewer wait than   *)
(* it wants, and the wait that completes the number releases it.           *)
(***************************************************************************)
LEMMA NextKeptBack ==
  ASSUME TypeOK, KeptBackSignal, [Next]_vars
  PROVE  KeptBackSignal'
<1>. USE DEF TypeOK
<1>1. /\ sigwait \in [Names -> Seq(TaskType)] /\ signals \in [Names -> TaskType \cup {NoPair}]
      /\ timeouts \subseteq TimerType /\ clock \in Nat
      /\ \A s \in Names : Len(sigwait[s]) \in Nat
      /\ \A sig \in TaskType : sig.op.recipients \in Nat
  BY DEF CoTypeOK, LoopTypeOK, TaskType, OpType, RawOpType
<1>2. CASE UNCHANGED <<sigwait, signals>>
  BY <1>2 DEF KeptBackSignal
<1>3. CASE ProcessSignal
  <2>1. cur \in TaskType /\ cur.op.arg \in Names
    BY <1>3 DEF ProcessSignal, Processing, LoopTypeOK, TaskType, OpType
  <2>2. CASE Len(sigwait[cur.op.arg]) < cur.op.recipients
    BY <1>1, <1>3, <2>1, <2>2 DEF ProcessSignal, KeptBackSignal
  <2>3. CASE ~(Len(sigwait[cur.op.arg]) < cur.op.recipients)
    <3>1. signals' = signals /\ sigwait' = [sigwait EXCEPT ![cur.op.arg] = <<>>]
      BY <1>3, <2>3 DEF ProcessSignal, Emptied
    <3>2. ASSUME NEW s \in Names, signals'[s] # NoPair
          PROVE  Len(sigwait'[s]) < signals'[s].op.recipients
      <4>1. Len(sigwait[s]) < signals[s].op.recipients /\ signals[s] \in TaskType
        BY <1>1, <3>1, <3>2 DEF KeptBackSignal
      <4>2. CASE s = cur.op.arg
        <5>1. Len(sigwait'[s]) = 0
          BY <1>1, <3>1, <4>2
        <5>. QED  BY <1>1, <3>1, <4>1, <5>1
      <4>3. CASE s # cur.op.arg
        BY <1>1, <3>1, <4>1, <4>3
      <4>. QED  BY <4>2, <4>3
    <3>. QED  BY <3>2 DEF KeptBackSignal
  <2>. QED  BY <2>2, <2>3
<1>4. CASE ProcessWait
  <2>. DEFINE op == WithDefault(cur.op)
              n == op.arg
              W == Append(sigwait[n], Pair(op, cur.coro))
  <2>1. cur \in TaskType /\ cur.op \in TimedType /\ cur.op.arg \in Names
    BY <1>4 DEF ProcessWait, Processing, LoopTypeOK, TaskType, TimedType, OpType
  <2>2. n \in Names /\ op \in OpType /\ cur.coro \in Coro
    BY <1>1, <2>1, WithDefaultType DEF TimedType, TaskType
  <2>3. IF Enough(signals[n], W)
        THEN sigwait' = Emptied(n) /\ signals' = [signals EXCEPT ![n] = NoPair]
        ELSE sigwait' = [sigwait EXCEPT ![n] = W] /\ signals' = signals
    BY <1>4 DEF ProcessWait
  <2>. HIDE DEF op
  <2>4. W \in Seq(TaskType) /\ Len(W) \in Nat
    BY <1>1, <2>2, PairTypes
  <2>5. CASE Enough(signals[n], W)
    BY <1>1, <2>2, <2>3, <2>5 DEF Emptied, KeptBackSignal
  <2>6. CASE ~Enough(signals[n], W)
    <3>. HIDE DEF W
    <3>1. ASSUME NEW s \in Names, signals[s] # NoPair
          PROVE  Len(sigwait'[s]) < signals[s].op.recipients
      <4>1. CASE s = n
        <5>1. sigwait'[s] = W /\ signals[s] \in TaskType
          BY <1>1, <2>3, <2>6, <3>1, <4>1
        <5>. QED  BY <1>1, <2>4, <2>6, <3>1, <4>1, <5>1 DEF Enough
      <4>2. CASE s # n
        BY <1>1, <2>2, <2>3, <2>6, <3>1, <4>2 DEF KeptBackSignal
      <4>. QED  BY <4>1, <4>2
    <3>. QED  BY <2>3, <2>6, <3>1 DEF KeptBackSignal
  <2>. QED  BY <2>5, <2>6
<1>5. CASE TimeoutWait
  <2>1. PICK e \in timeouts :
          /\ e.op.k = "wait"
          /\ sigwait' = [sigwait EXCEPT ![e.op.arg] = WithoutWait(@, Pair(e.op, e.op.c))]
          /\ signals' = signals
    BY <1>5 DEF TimeoutWait
  <2>2. e.op.arg \in Names
    BY <1>1, <2>1 DEF TimerType, TimedType, OpType
  <2>3. /\ sigwait'[e.op.arg] \in Seq(TaskType)
        /\ Len(sigwait'[e.op.arg]) <= Len(sigwait[e.op.arg])
    BY <1>1, <2>1, <2>2, RemoveFirstType DEF WithoutWait
  <2>4. ASSUME NEW s \in Names, signals[s] # NoPair
        PROVE  Len(sigwait'[s]) < signals[s].op.recipients
    <3>1. Len(sigwait[s]) < signals[s].op.recipients /\ signals[s] \in TaskType
      BY <1>1, <2>4 DEF KeptBackSignal
    <3>2. Len(sigwait'[s]) \in Nat /\ Len(sigwait'[s]) <= Len(sigwait[s])
      BY <1>1, <2>1, <2>2, <2>3
    <3>. QED  BY <1>1, <3>1, <3>2
  <2>. QED  BY <2>1, <2>4 DEF KeptBackSignal
<1>6. CASE Resume
  <2>1. UNCHANGED coVars
    BY <1>6, ResumeCases
  <2>. QED  BY <1>2, <2>1 DEF coVars
<1>. QED
  BY <1>2, <1>3, <1>4, <1>5, <1>6
  DEF Next, Loop, vars, coVars, Process, HandleTimeout, ProcessCall, ProcessEnd, ProcessAdd,
      ProcessJoin, ProcessSleep, ProcessObject, WakeSleeper, TimeoutJoin, CleanupRaises

\* A signal that wants more recipients than wait is kept, and no longer: it is
\* never forgotten beside coroutines it should have woken.
THEOREM SignalsKeptBack == Spec => []KeptBackSignal
<1>1. Init => TypeOK /\ KeptBackSignal
  BY InitType DEF Init, KeptBackSignal
<1>2. TypeOK /\ KeptBackSignal /\ [Next]_vars => (TypeOK /\ KeptBackSignal)'
  <2>. SUFFICES ASSUME TypeOK, KeptBackSignal, [Next]_vars PROVE TypeOK' /\ KeptBackSignal'
    OBVIOUS
  <2>. QED  BY NextType, NextKeptBack
<1>. QED  BY <1>1, <1>2, PTL DEF Spec
-----------------------------------------------------------------------------
(***************************************************************************)
(* What the inner loop has in hand.  It has a pair while it runs one, and  *)
(* processes what the coroutine of the pair has just yielded: a call or an *)
(* addition of an instance that is not there yet, its own end, or an       *)
(* operation of its own.  Who is told that a coroutine has ended is told   *)
(* so when it has.                                                         *)
(***************************************************************************)
EndStates == {"completed", "failed", "finalized"}

Handed == ToSet(active) \cup {p \in {cur} : phase = "run"}

Yielded ==
  /\ cur.op = pend[cur.coro]
  /\ \/ cur.op = NoOp
     \/ cur.op.k = "coro" /\ cur.op = CoroOp(cur.op.c)
     \/ cur.op.k \in {"add", "join", "sleep", "wait", "signal", "object"} /\ cur.op.c = cur.coro
  /\ IF cur.op = CoroOp(cur.coro) THEN state[cur.coro] \in EndStates ELSE Alive(cur.coro)
  /\ cur.op.k = "coro" /\ cur.op.c # cur.coro => state[cur.op.c] = "absent"
  /\ cur.op.k = "add" => state[cur.op.arg] = "absent" /\ "add" \in Kinds
  /\ cur.op.k = "join" => state[cur.op.arg] # "absent" /\ cur.op.arg # cur.coro
  /\ cur.op.k = "sleep" /\ cur.op.at = 0 => "nap" \in Kinds
  /\ cur.op.k = "object" => "object" \in Kinds
  /\ cur.op.k = "signal" => cur.op.recipients \in Recipients

Flow ==
  /\ phase \in {"pick", "timers", "done"} => cur = NoPair
  /\ phase = "process" => Yielded
  /\ \A p \in Handed : p.op.k = "coro" => state[p.op.c] \in EndStates
  /\ \A c \in Coro : state[c] \in {"absent", "need_init"} => pend[c] = NoOp
  /\ \A s \in Names : \A i \in DOMAIN sigwait[s] : sigwait[s][i].op.k = "wait"
  /\ NoStaleWait

\* Who waits for the end of d, as its caller or by a join.
Awaits(c, d) == caller[d] = c \/ c \in ToSet(waiters[d])

\* At first nobody waits.
LEMMA InitFlow == Init => Flow
<1>. SUFFICES ASSUME Init PROVE Flow
  OBVIOUS
<1>1. /\ Started \in Seq(Coro) /\ phase = "pick" /\ cur = NoPair
      /\ active = [i \in DOMAIN Started |-> Pair(NoOp, Started[i])]
      /\ \A c \in Coro : pend[c] = NoOp /\ caller[c] = None /\ waiters[c] = <<>>
      /\ \A s \in Names : sigwait[s] = <<>>
  BY StartedAssumption DEF Init, LoopInit
<1>2. \A p \in Handed : p.op = NoOp
  BY <1>1 DEF Handed, ToSet, Pair
<1>3. NoStaleWait
  BY <1>1, CoroAssumption DEF NoStaleWait, ToSet
<1>. QED  BY <1>1, <1>2, <1>3, OwnOps DEF Flow

\* The coroutine of the inner loop comes back with an operation.
LEMMA ComesBackFlow ==
  ASSUME TypeOK, Flow, phase = "run", cur.coro \in Coro, Alive(cur.coro), UNCHANGED coVars,
         NEW op \in OpType, NEW st \in {"running", "completed", "failed"},
         phase' = "process", cur' = Pair(op, cur.coro), active' = active,
         pend' = [pend EXCEPT ![cur.coro] = op],
         \/ state' = [state EXCEPT ![cur.coro] = st]
         \/ state' = [StateAfterFinalize EXCEPT ![cur.coro] = st],
         IF st = "running"
         THEN \/ op = NoOp
              \/ op.k = "coro" /\ op = CoroOp(op.c) /\ op.c \in Absent
              \/ op.k \in {"add", "join", "sleep", "wait", "signal", "object"} /\ op.c = cur.coro
         ELSE op = CoroOp(cur.coro),
         op.k = "add" => op.arg \in Absent /\ "add" \in Kinds,
         op.k = "join" => op.arg \in Coro \ Absent /\ op.arg # cur.coro,
         op.k = "sleep" /\ op.at = 0 => "nap" \in Kinds,
         op.k = "object" => "object" \in Kinds,
         op.k = "signal" => op.recipients \in Recipients
  PROVE  Flow'
<1>. USE DEF TypeOK
<1>1. cur'.coro = cur.coro /\ cur'.op = op
  BY DEF Pair
<1>2. /\ state'[cur.coro] = st
      /\ \A c \in Coro \ {cur.coro} :
           \/ state'[c] = state[c]
           \/ state[c] \in EndStates /\ state'[c] = "finalized"
  <2>1. cur.op.k = "coro" => cur.op.c \in Coro /\ state[cur.op.c] \in EndStates
    BY DEF Flow, Handed, LoopTypeOK, TaskType, OpType
  <2>. QED  BY <2>1 DEF StateAfterFinalize, LoopTypeOK
<1>3. \A c \in Coro : state[c] \in EndStates => state'[c] \in EndStates
  BY <1>2 DEF EndStates, Alive
<1>4. \A c \in Coro : state[c] = "absent" <=> state'[c] = "absent"
  BY <1>2 DEF EndStates, Alive
<1>5. Yielded'
  <2>1. op = pend'[cur.coro]
    BY DEF LoopTypeOK
  <2>2. IF op = CoroOp(cur.coro) THEN state'[cur.coro] \in EndStates ELSE Alive(cur.coro)'
    <3>1. st = "running" => op # CoroOp(cur.coro)
      BY OwnOps DEF Absent, Alive
    <3>2. CASE st = "running"
      BY <3>1, <3>2, <1>1, <1>2 DEF Alive
    <3>3. CASE st # "running"
      <4>1. op = CoroOp(cur.coro) /\ st \in EndStates
        BY <3>3 DEF EndStates
      <4>. QED  BY <4>1, <1>1, <1>2
    <3>. QED  BY <3>2, <3>3
  <2>3. op.k = "coro" => op = CoroOp(op.c)
    BY OwnOps
  <2>4. op.k = "coro" /\ op.c # cur.coro => state'[op.c] = "absent"
    BY <1>4, OwnOps DEF Absent
  <2>5. /\ op.k = "add" => state'[op.arg] = "absent" /\ "add" \in Kinds
        /\ op.k = "join" => state'[op.arg] # "absent" /\ op.arg # cur.coro
    BY <1>4 DEF Absent
  <2>6. \/ op = NoOp
        \/ op.k = "coro" /\ op = CoroOp(op.c)
        \/ op.k \in {"add", "join", "sleep", "wait", "signal", "object"} /\ op.c = cur.coro
    BY OwnOps
  <2>. QED  BY <1>1, <2>1, <2>2, <2>3, <2>4, <2>5, <2>6 DEF Yielded, CoroOp, NoOp, Alive
<1>6. ASSUME NEW p \in Handed', p.op.k = "coro"
      PROVE  state'[p.op.c] \in EndStates
  <2>1. p \in Handed
    BY <1>6 DEF Handed
  <2>2. p.op.c \in Coro
    <3>1. \A i \in DOMAIN active : active[i] \in TaskType
      BY DEF LoopTypeOK
    <3>2. p \in TaskType
      BY <2>1, <3>1 DEF Handed, ToSet, LoopTypeOK
    <3>. QED  BY <1>6, <3>2 DEF TaskType, OpType
  <2>. QED  BY <1>3, <1>6, <2>1, <2>2 DEF Flow
<1>7. ASSUME NEW c \in Coro, state'[c] \in {"absent", "need_init"}
      PROVE  pend'[c] = NoOp
  BY <1>2, <1>7 DEF Flow, LoopTypeOK, EndStates
<1>8. NoStaleWait'
  <2>1. ASSUME NEW c \in Coro, NEW d \in Coro, Awaits(c, d)
        PROVE  Alive(d)' \/ cur' = Pair(CoroOp(d), d)
    <3>1. Alive(d)
      BY <2>1 DEF Flow, NoStaleWait, Awaits
    <3>2. CASE d = cur.coro
      BY <1>2, <3>2 DEF Alive
    <3>3. CASE d # cur.coro
      BY <1>2, <3>1, <3>3 DEF Alive, EndStates
    <3>. QED  BY <3>2, <3>3
  <2>. QED  BY <2>1 DEF NoStaleWait, Awaits, coVars, CoroOp, Pair
<1>. QED  BY <1>5, <1>6, <1>7, <1>8 DEF Flow, coVars

\* What a coroutine does when it is resumed.
LEMMA ResumeFlow ==
  ASSUME TypeOK, Flow, Resume
  PROVE  Flow'
<1>. USE DEF TypeOK
<1>1. phase = "run" /\ cur.coro \in Coro /\ Alive(cur.coro) /\ UNCHANGED coVars
  BY ResumeCases
<1>2. CASE \E op \in OpType, st \in {"running", "completed", "failed"} : ComesBack(op, st)
  <2>1. PICK op \in OpType, st \in {"running", "completed", "failed"} : ComesBack(op, st)
    BY <1>2
  <2>. QED  BY <1>1, <2>1, ComesBackFlow DEF ComesBack, Comeback
<1>3. CASE Spawn
  <2>1. PICK d \in Absent :
          /\ state' = [state EXCEPT ![d] = "need_init"]
          /\ active' = Append(active, Pair(NoOp, d))
          /\ UNCHANGED <<timeouts, running, cur, phase, clock, opn, pend>>
    BY <1>3 DEF Spawn
  <2>2. d \in Coro /\ state[d] = "absent" /\ Pair(NoOp, d) \in TaskType /\ Pair(NoOp, d).op = NoOp
    BY PlainOps, PairTypes DEF Absent
  <2>3. \A p \in Handed' : p \in Handed \/ p = Pair(NoOp, d)
    BY <2>1, <2>2, Members DEF Handed, LoopTypeOK
  <2>4. \A p \in Handed' : p.op.k = "coro" => state'[p.op.c] \in EndStates
    BY <2>1, <2>2, <2>3, OwnOps DEF Flow, EndStates, LoopTypeOK
  <2>5. NoStaleWait'
    BY <1>1, <2>1, <2>2 DEF Flow, NoStaleWait, coVars, Alive, LoopTypeOK
  <2>6. \A c \in Coro : state'[c] \in {"absent", "need_init"} => pend'[c] = NoOp
    BY <2>1, <2>2 DEF Flow, LoopTypeOK
  <2>. QED  BY <1>1, <2>1, <2>4, <2>5, <2>6 DEF Flow, coVars
<1>4. CASE Shutdown
  BY <1>1, <1>4 DEF Shutdown, Flow, Handed, NoStaleWait, coVars, Alive
<1>. QED  BY <1>2, <1>3, <1>4, ResumeCases

\* Who is handed something once the inner loop goes on with p, or ends.
LEMMA HandedAfter ==
  ASSUME NEW a, NEW p, Continue(a, p)
  PROVE  /\ Handed' = ToSet(a) \cup ({p} \ {NoPair})
         /\ active' = a /\ cur' = p
         /\ phase' = IF p = NoPair THEN "timers" ELSE "run"
BY DEF Continue, Handed

\* process_op hands out pairs, and a new instance may be there.
LEMMA ProcessFlow ==
  ASSUME TypeOK, Flow, phase = "process", NEW a, NEW p, Continue(a, p), pend' = pend,
         \/ state' = state
         \/ \E d \in Coro : state[d] = "absent" /\ state' = [state EXCEPT ![d] = "need_init"],
         \A q \in ToSet(a) \cup ({p} \ {NoPair}) :
           \/ q \in ToSet(active)
           \/ q.op.k # "coro"
           \/ q.op.c \in Coro /\ state[q.op.c] \in EndStates,
         \A s \in Names : \A i \in DOMAIN sigwait'[s] : sigwait'[s][i].op.k = "wait",
         \A c, d \in Coro : Awaits(c, d)' =>
           \/ Awaits(c, d) /\ (d = cur.coro => cur.op # CoroOp(d))
           \/ Alive(d)'
  PROVE  Flow'
<1>. USE DEF TypeOK
<1>1. /\ Handed' = ToSet(a) \cup ({p} \ {NoPair})
      /\ cur' = p /\ phase' = IF p = NoPair THEN "timers" ELSE "run"
  BY HandedAfter
<1>2. \A c \in Coro : /\ state[c] \in EndStates => state'[c] \in EndStates
                      /\ Alive(c) => Alive(c)'
                      /\ state'[c] \in {"absent", "need_init"} => state[c] \in {"absent", "need_init"}
  BY DEF LoopTypeOK, EndStates, Alive
<1>3. ASSUME NEW q \in Handed', q.op.k = "coro"
      PROVE  state'[q.op.c] \in EndStates
  <2>1. CASE q \in ToSet(active)
    <3>1. q \in Handed
      BY <2>1 DEF Handed
    <3>2. q.op.c \in Coro
      <4>1. q \in TaskType
        BY <2>1 DEF ToSet, LoopTypeOK
      <4>. QED  BY <1>3, <4>1 DEF TaskType, OpType
    <3>. QED  BY <1>2, <1>3, <3>1, <3>2 DEF Flow
  <2>2. CASE q.op.c \in Coro /\ state[q.op.c] \in EndStates
    BY <1>2, <2>2
  <2>. QED  BY <1>1, <1>3, <2>1, <2>2
<1>4. NoStaleWait'
  <2>1. ASSUME NEW c \in Coro, NEW d \in Coro, Awaits(c, d)'
        PROVE  Alive(d)'
    <3>1. CASE Awaits(c, d) /\ (d = cur.coro => cur.op # CoroOp(d))
      <4>1. Alive(d) \/ cur = Pair(CoroOp(d), d)
        BY <3>1 DEF Flow, NoStaleWait, Awaits
      <4>2. cur # Pair(CoroOp(d), d)
        BY <3>1 DEF Pair
      <4>. QED  BY <1>2, <4>1, <4>2
    <3>. QED  BY <2>1, <3>1
  <2>. QED  BY <2>1 DEF NoStaleWait, Awaits
<1>5. \A c \in Coro : state'[c] \in {"absent", "need_init"} => pend'[c] = NoOp
  BY <1>2 DEF Flow
<1>6. /\ phase' \in {"pick", "timers", "done"} => cur' = NoPair
      /\ phase' # "process"
  BY <1>1
<1>. QED  BY <1>3, <1>4, <1>5, <1>6 DEF Flow

\* What is in the deque once waiters are queued, or a signal is delivered.
LEMMA QueuedMembers ==
  ASSUME active \in Seq(TaskType)
  PROVE  /\ \A t \in Seq(TaskType) : ToSet(Queued(t)) = ToSet(t) \cup ToSet(active)
         /\ \A sig \in TaskType, W \in Seq(TaskType) :
              ToSet(Delivered(sig, W)) = ToSet(W) \cup ToSet(active) \cup {Pair(NoOp, sig.coro)}
<1>1. ASSUME NEW t \in Seq(TaskType)
      PROVE  /\ Reverse(t) \o active \in Seq(TaskType) /\ active \o t \in Seq(TaskType)
             /\ ToSet(Reverse(t) \o active) = ToSet(t) \cup ToSet(active)
             /\ ToSet(active \o t) = ToSet(t) \cup ToSet(active)
  <2>1. Reverse(t) \in Seq(TaskType) /\ ToSet(Reverse(t)) = ToSet(t)
    BY <1>1, ReverseMembers
  <2>2. ToSet(active \o t) = ToSet(active) \cup ToSet(t)
    BY <1>1, MembersOfTwo
  <2>. DEFINE r == Reverse(t)
  <2>3. r \in Seq(TaskType) /\ ToSet(r) = ToSet(t)
    BY <2>1
  <2>. HIDE DEF r
  <2>4. ToSet(r \o active) = ToSet(r) \cup ToSet(active)
    BY <2>3, MembersOfTwo
  <2>5. r \o active \in Seq(TaskType) /\ active \o t \in Seq(TaskType)
    BY <1>1, <2>3
  <2>. QED  BY <2>2, <2>3, <2>4, <2>5 DEF r
<1>2. ASSUME NEW t \in Seq(TaskType)
      PROVE  ToSet(Queued(t)) = ToSet(t) \cup ToSet(active)
  BY <1>1, <1>2 DEF Queued
<1>3. ASSUME NEW sig \in TaskType, NEW W \in Seq(TaskType)
      PROVE  ToSet(Delivered(sig, W)) = ToSet(W) \cup ToSet(active) \cup {Pair(NoOp, sig.coro)}
  <2>. DEFINE signaller == Pair(NoOp, sig.coro)
              front == Reverse(W) \o active
              behind == active \o W
  <2>1. signaller \in TaskType
    BY PlainOps, PairTypes DEF TaskType
  <2>2. /\ front \in Seq(TaskType) /\ ToSet(front) = ToSet(W) \cup ToSet(active)
        /\ behind \in Seq(TaskType) /\ ToSet(behind) = ToSet(W) \cup ToSet(active)
    BY <1>1, <1>3
  <2>3. Delivered(sig, W) \in {<<signaller>> \o front, Append(front, signaller),
                               <<signaller>> \o behind, Append(behind, signaller)}
    BY DEF Delivered
  <2>. HIDE DEF front, behind, signaller
  <2>4. /\ ToSet(<<signaller>> \o front) = ToSet(front) \cup {signaller}
        /\ ToSet(Append(front, signaller)) = ToSet(front) \cup {signaller}
    BY <2>1, <2>2, Members
  <2>5. /\ ToSet(<<signaller>> \o behind) = ToSet(behind) \cup {signaller}
        /\ ToSet(Append(behind, signaller)) = ToSet(behind) \cup {signaller}
    BY <2>1, <2>2, Members
  <2>. QED  BY <2>2, <2>3, <2>4, <2>5 DEF signaller
<1>. QED  BY <1>2, <1>3

\* The process methods of the operations.
LEMMA ProcessKeepsFlow ==
  ASSUME TypeOK, Flow, Process
  PROVE  Flow'
<1>. USE DEF TypeOK
<1>1. /\ phase = "process" /\ UNCHANGED <<running, clock, opn, pend>>
      /\ cur \in TaskType /\ cur.op \in OpType /\ cur.coro \in Coro /\ cur.coro # None
      /\ Yielded
  BY CoroAssumption
  DEF Process, ProcessCall, ProcessEnd, ProcessAdd, ProcessJoin, ProcessSleep,
      ProcessSignal, ProcessWait, ProcessObject, Processing, LoopTypeOK, TaskType, Flow
<1>2. /\ active \in Seq(TaskType) /\ clock \in Nat /\ NoPair.coro = None
      /\ caller \in [Coro -> Coro \cup {None}] /\ waiters \in [Coro -> Seq(Coro)]
      /\ sigwait \in [Names -> Seq(TaskType)] /\ signals \in [Names -> TaskType \cup {NoPair}]
      /\ \A s \in Names : \A i \in DOMAIN sigwait[s] : sigwait[s][i].op.k = "wait"
  BY DEF LoopTypeOK, CoTypeOK, Flow, NoPair, Pair
<1>3. CASE ProcessCall
  <2>. DEFINE d == cur.op.c
              p == Pair(NoOp, d)
  <2>1. /\ d \in Coro /\ d # cur.coro /\ state[d] = "absent"
        /\ Continue(active, p) /\ caller' = [caller EXCEPT ![d] = cur.coro]
        /\ state' = [state EXCEPT ![d] = "need_init"] /\ UNCHANGED <<waiters, sigwait>>
        /\ p.op.k = "none"
    BY <1>1, <1>3, OwnOps DEF ProcessCall, Processing, Yielded, OpType, Pair
  <2>. HIDE DEF p
  <2>2. \A x, y \in Coro : Awaits(x, y)' =>
          (Awaits(x, y) /\ (y = cur.coro => cur.op # CoroOp(y))) \/ Alive(y)'
    <3>1. cur.op # CoroOp(cur.coro)
      BY <2>1, OwnOps
    <3>. QED  BY <1>2, <2>1, <3>1 DEF Awaits, Alive, LoopTypeOK
  <2>. QED  BY <1>1, <1>2, <2>1, <2>2, ProcessFlow
<1>4. CASE ProcessEnd
  <2>. DEFINE c == cur.coro
              W == WaiterPairs(c, waiters[c])
              outcome == IF state[c] = "failed" THEN ErrorExc ELSE CoroOp(c)
  <2>1. /\ waiters[c] \in Seq(Coro) /\ caller[c] \in Coro \cup {None}
        /\ state[c] \in EndStates /\ cur.op.k = "coro"
    <3>1. cur.op.k = "coro" /\ cur.op.c = c
      BY <1>4 DEF ProcessEnd, Processing
    <3>2. cur.op = CoroOp(c)
      BY <1>1, <3>1, OwnOps DEF Yielded
    <3>. QED  BY <1>1, <1>2, <3>1, <3>2 DEF Yielded
  <2>2. /\ W \in Seq(TaskType)
        /\ \A i \in DOMAIN W : W[i].op = CoroOp(c)
        /\ \A t \in Seq(TaskType) : ToSet(Queued(t)) = ToSet(t) \cup ToSet(active)
    <3>1. /\ W \in Seq(TaskType) /\ Len(W) = Len(waiters[c])
          /\ \A i \in 1 .. Len(waiters[c]) : W[i] = Pair(CoroOp(c), waiters[c][i])
      BY <1>1, <1>2, <2>1, WaiterPairsType
    <3>2. \A t \in Seq(TaskType) : ToSet(Queued(t)) = ToSet(t) \cup ToSet(active)
      BY <1>2, QueuedMembers
    <3>. HIDE DEF W
    <3>3. \A i \in 1 .. Len(waiters[c]) : W[i].op = CoroOp(c)
      <4>1. \A x : Pair(CoroOp(c), x).op = CoroOp(c)
        BY DEF Pair
      <4>. QED  BY <3>1, <4>1
    <3>4. DOMAIN W = 1 .. Len(W)
      BY <3>1
    <3>. QED  BY <3>1, <3>2, <3>3, <3>4
  <2>3. W # <<>> => /\ Front(W) \in Seq(TaskType) /\ ToSet(Front(W)) \subseteq ToSet(W)
                    /\ Last(W) \in ToSet(W)
    <3>. HIDE DEF W
    <3>1. ASSUME W # <<>>
          PROVE  /\ DOMAIN Front(W) = 1 .. Len(W) - 1 /\ DOMAIN W = 1 .. Len(W) /\ Len(W) \in DOMAIN W
                 /\ \A i \in 1 .. Len(W) - 1 : i \in DOMAIN W /\ Front(W)[i] = W[i]
                 /\ Front(W) \in Seq(TaskType)
      BY <2>2, <3>1 DEF Front
    <3>. QED  BY <3>1 DEF ToSet, Last
  <2>4. IF caller[c] # None
        THEN Continue(Queued(W), Pair(outcome, caller[c]))
        ELSE IF W = <<>> THEN Continue(active, NoPair)
                         ELSE Continue(Queued(Front(W)), Last(W))
    BY <1>4 DEF ProcessEnd
  <2>5. \A x : outcome = Pair(outcome, x).op /\ (outcome.k # "coro" \/ outcome.c = c)
    BY OwnOps DEF Pair
  <2>6. \A q \in ToSet(W) : q.op.c = c
    BY <2>2, OwnOps DEF ToSet
  <2>. HIDE DEF W, outcome
  <2>7. PICK a, p : /\ Continue(a, p)
                    /\ \A q \in ToSet(a) \cup ({p} \ {NoPair}) :
                         q \in ToSet(active) \/ q.op.k # "coro" \/ q.op.c = c
    <3>1. CASE caller[c] # None
      BY <2>2, <2>4, <2>5, <2>6, <3>1
    <3>2. CASE caller[c] = None /\ W = <<>>
      BY <2>4, <3>2
    <3>3. CASE caller[c] = None /\ W # <<>>
      <4>1. ToSet(Queued(Front(W))) \subseteq ToSet(W) \cup ToSet(active)
        BY <2>2, <2>3, <3>3
      <4>2. \A q \in ToSet(Queued(Front(W))) \cup ({Last(W)} \ {NoPair}) : q \in ToSet(active) \/ q \in ToSet(W)
        BY <2>3, <3>3, <4>1
      <4>. QED  BY <2>4, <2>6, <3>3, <4>2
    <3>. QED  BY <3>1, <3>2, <3>3
  <2>8. /\ state' = state /\ sigwait' = sigwait
        /\ caller' = [caller EXCEPT ![c] = None] /\ waiters' = [waiters EXCEPT ![c] = <<>>]
    BY <1>4 DEF ProcessEnd, SetAttribute
  <2>9. \A x, y \in Coro : Awaits(x, y)' => Awaits(x, y) /\ y # c
    BY <1>2, <2>8, CoroAssumption DEF Awaits, ToSet
  <2>10. \A q \in ToSet(a) \cup ({p} \ {NoPair}) :
           q \in ToSet(active) \/ q.op.k # "coro" \/ (q.op.c \in Coro /\ state[q.op.c] \in EndStates)
    BY <1>1, <2>1, <2>7
  <2>. QED  BY <1>1, <1>2, <2>7, <2>8, <2>9, <2>10, ProcessFlow
<1>5. cur.op.k # "coro" => \A y \in Coro : cur.op # CoroOp(y)
  BY OwnOps
<1>6. CASE ProcessAdd
  <2>. DEFINE new == Pair(NoOp, cur.op.arg)
              back == Pair(NoOp, cur.coro)
              a == IF FavorsOp(cur.op.pr) THEN Append(active, new) ELSE <<new>> \o active
  <2>1. /\ cur.op.arg \in Coro /\ cur.op.k = "add" /\ state[cur.op.arg] = "absent"
        /\ state' = [state EXCEPT ![cur.op.arg] = "need_init"]
        /\ UNCHANGED <<caller, waiters, sigwait>>
    BY <1>1, <1>6 DEF ProcessAdd, Processing, OpType, Yielded, coVars
  <2>2. new \in TaskType /\ back \in TaskType /\ new.op.k = "none" /\ back.op.k = "none"
    BY <1>1, <2>1, PlainOps, PairTypes, OwnOps
  <2>. HIDE DEF new, back
  <2>3. a \in Seq(TaskType) /\ ToSet(a) = ToSet(active) \cup {new}
    BY <1>2, <2>2, Members
  <2>4. IF FavorsCoro(cur.op.pr) THEN Continue(a, cur) ELSE Continue(Append(a, back), NoPair)
    BY <1>6 DEF ProcessAdd, new, back
  <2>. HIDE DEF a
  <2>5. ToSet(Append(a, back)) = ToSet(a) \cup {back}
    BY <2>2, <2>3, Members
  <2>6. PICK b, p : /\ Continue(b, p)
                    /\ \A q \in ToSet(b) \cup ({p} \ {NoPair}) : q \in ToSet(active) \/ q.op.k # "coro"
    BY <2>1, <2>2, <2>3, <2>4, <2>5
  <2>7. \A x, y \in Coro : Awaits(x, y)' => Awaits(x, y) /\ (y = cur.coro => cur.op # CoroOp(y))
    BY <1>5, <2>1 DEF Awaits
  <2>. QED  BY <1>1, <1>2, <2>1, <2>6, <2>7, ProcessFlow
<1>7. CASE ProcessJoin
  <2>. DEFINE target == IF WithDefault(cur.op).at # 0 THEN cur.coro ELSE WithDefault(cur.op).arg
  <2>1. /\ cur.op.k = "join" /\ UNCHANGED <<state, caller, sigwait>>
        /\ \/ Alive(target) /\ waiters' = [waiters EXCEPT ![target] = Append(@, cur.coro)]
           \/ waiters' = waiters
        /\ Continue(active, NoPair) \/ Continue(active, Pair(ErrorExc, cur.coro))
    BY <1>7 DEF ProcessJoin, Processing, Throw
  <2>2. target \in Coro
    <3>1. cur.op \in TimedType /\ cur.op.arg \in Coro
      BY <1>1, <2>1 DEF OpType, TimedType
    <3>. QED  BY <1>1, <1>2, <3>1, WithDefaultType
  <2>. HIDE DEF target
  <2>3. PICK p : Continue(active, p) /\ (p = NoPair \/ p.op.k # "coro")
    BY <2>1, OwnOps DEF Pair
  <2>4. \A q \in ToSet(active) \cup ({p} \ {NoPair}) : q \in ToSet(active) \/ q.op.k # "coro"
    BY <2>3
  <2>5. \A x, y \in Coro : Awaits(x, y)' => Awaits(x, y) \/ Alive(y)'
    BY <1>2, <2>1, <2>2 DEF Awaits, Alive
  <2>. QED  BY <1>1, <1>2, <1>5, <2>1, <2>3, <2>4, <2>5, ProcessFlow
<1>8. CASE ProcessSleep
  <2>1. /\ Continue(active, NoPair) /\ cur.op.k = "sleep"
        /\ UNCHANGED <<state, caller, waiters, sigwait>>
    BY <1>8 DEF ProcessSleep, Processing, coVars
  <2>2. \A x, y \in Coro : Awaits(x, y)' => Awaits(x, y)
    BY <2>1 DEF Awaits
  <2>3. \A q \in ToSet(active) \cup ({NoPair} \ {NoPair}) : q \in ToSet(active)
    OBVIOUS
  <2>. QED  BY <1>1, <1>2, <1>5, <2>1, <2>2, <2>3, ProcessFlow
<1>9. ASSUME NEW sig \in TaskType, NEW W \in Seq(TaskType),
             \A i \in DOMAIN W : W[i].op.k = "wait"
      PROVE  \A q \in ToSet(Delivered(sig, W)) \cup ({NoPair} \ {NoPair}) :
               q \in ToSet(active) \/ q.op.k # "coro"
  <2>1. ToSet(Delivered(sig, W)) = ToSet(W) \cup ToSet(active) \cup {Pair(NoOp, sig.coro)}
    BY <1>2, <1>9, QueuedMembers
  <2>2. \A q \in ToSet(W) : q.op.k = "wait"
    BY <1>9 DEF ToSet
  <2>3. Pair(NoOp, sig.coro).op.k = "none"
    BY OwnOps DEF Pair
  <2>. QED  BY <2>1, <2>2, <2>3
<1>10. CASE ProcessSignal
  <2>. DEFINE s == cur.op.arg
  <2>1. /\ cur.op.k = "signal" /\ s \in Names /\ UNCHANGED <<state, caller, waiters>>
        /\ \/ Continue(active, NoPair) /\ sigwait' = sigwait
           \/ Continue(Delivered(cur, sigwait[s]), NoPair) /\ sigwait' = [sigwait EXCEPT ![s] = <<>>]
    BY <1>1, <1>10 DEF ProcessSignal, Processing, OpType, Emptied
  <2>2. \A n \in Names : \A i \in DOMAIN sigwait'[n] : sigwait'[n][i].op.k = "wait"
    <3>1. \A n \in Names : sigwait'[n] = sigwait[n] \/ sigwait'[n] = <<>>
      BY <1>2, <2>1
    <3>2. \A i \in DOMAIN <<>> : FALSE
      OBVIOUS
    <3>. QED  BY <1>2, <3>1, <3>2
  <2>3. PICK a : /\ Continue(a, NoPair)
                 /\ \A q \in ToSet(a) \cup ({NoPair} \ {NoPair}) :
                      q \in ToSet(active) \/ q.op.k # "coro"
    <3>1. sigwait[s] \in Seq(TaskType) /\ \A i \in DOMAIN sigwait[s] : sigwait[s][i].op.k = "wait"
      BY <1>2, <2>1
    <3>2. \A q \in ToSet(Delivered(cur, sigwait[s])) \cup ({NoPair} \ {NoPair}) :
            q \in ToSet(active) \/ q.op.k # "coro"
      BY <1>1, <1>9, <3>1
    <3>. QED  BY <2>1, <3>2
  <2>4. \A x, y \in Coro : Awaits(x, y)' => Awaits(x, y)
    BY <2>1 DEF Awaits
  <2>. QED  BY <1>1, <1>5, <2>1, <2>2, <2>3, <2>4, ProcessFlow
<1>11. CASE ProcessWait
  <2>. DEFINE op == WithDefault(cur.op)
              s == op.arg
              W == Append(sigwait[s], Pair(op, cur.coro))
  <2>1. /\ cur.op.k = "wait" /\ cur.op \in TimedType /\ cur.op.arg \in Names
        /\ UNCHANGED <<state, caller, waiters>>
    BY <1>1, <1>11 DEF ProcessWait, Processing, OpType, TimedType
  <2>2. op \in OpType /\ op.k = "wait" /\ s \in Names
    BY <1>2, <2>1, WithDefaultType DEF TimedType
  <2>3. \/ Continue(active, NoPair) /\ sigwait' = [sigwait EXCEPT ![s] = W]
        \/ /\ Continue(Delivered(signals[s], W), NoPair) /\ signals[s] # NoPair
           /\ sigwait' = [sigwait EXCEPT ![s] = <<>>]
    BY <1>11 DEF ProcessWait, Emptied, Enough
  <2>. HIDE DEF op
  <2>4. W \in Seq(TaskType) /\ \A i \in DOMAIN W : W[i].op.k = "wait"
    <3>1. Pair(op, cur.coro) \in TaskType /\ Pair(op, cur.coro).op = op
      BY <1>1, <2>2, PairTypes
    <3>2. sigwait[s] \in Seq(TaskType) /\ \A i \in DOMAIN sigwait[s] : sigwait[s][i].op.k = "wait"
      BY <1>2, <2>2
    <3>3. /\ W \in Seq(TaskType) /\ DOMAIN W = 1 .. Len(sigwait[s]) + 1
          /\ \A i \in 1 .. Len(sigwait[s]) + 1 :
               (i \in DOMAIN sigwait[s] /\ W[i] = sigwait[s][i]) \/ W[i] = Pair(op, cur.coro)
      BY <3>1, <3>2
    <3>. QED  BY <2>2, <3>1, <3>2, <3>3
  <2>. HIDE DEF W
  <2>5. \A n \in Names : \A i \in DOMAIN sigwait'[n] : sigwait'[n][i].op.k = "wait"
    <3>1. \A n \in Names : sigwait'[n] = sigwait[n] \/ sigwait'[n] = <<>> \/ sigwait'[n] = W
      BY <1>2, <2>2, <2>3
    <3>2. \A i \in DOMAIN <<>> : FALSE
      OBVIOUS
    <3>. QED  BY <1>2, <2>4, <3>1, <3>2
  <2>6. PICK a : /\ Continue(a, NoPair)
                 /\ \A q \in ToSet(a) \cup ({NoPair} \ {NoPair}) :
                      q \in ToSet(active) \/ q.op.k # "coro"
    <3>1. signals[s] # NoPair => signals[s] \in TaskType
      BY <1>2, <2>2
    <3>2. signals[s] # NoPair =>
            \A q \in ToSet(Delivered(signals[s], W)) \cup ({NoPair} \ {NoPair}) :
              q \in ToSet(active) \/ q.op.k # "coro"
      BY <1>9, <2>4, <3>1
    <3>. QED  BY <2>3, <3>2
  <2>7. \A x, y \in Coro : Awaits(x, y)' => Awaits(x, y)
    BY <2>1 DEF Awaits
  <2>. QED  BY <1>1, <1>5, <2>1, <2>5, <2>6, <2>7, ProcessFlow
<1>12. CASE ProcessObject
  <2>1. /\ phase' = "dead" /\ UNCHANGED <<active, state, pend, coVars>>
    BY <1>1, <1>12 DEF ProcessObject
  <2>2. cur.op # CoroOp(cur.coro)
    BY <1>12, OwnOps DEF ProcessObject, Processing
  <2>3. NoStaleWait'
    <3>1. \A c, d \in Coro : Awaits(c, d) => Alive(d)
      BY <2>2 DEF Flow, NoStaleWait, Awaits, Pair
    <3>. QED  BY <2>1, <3>1 DEF NoStaleWait, Awaits, Alive, coVars
  <2>4. Handed' \subseteq Handed
    BY <2>1 DEF Handed
  <2>. QED  BY <2>1, <2>3, <2>4 DEF Flow, coVars
<1>. QED  BY <1>3, <1>4, <1>6, <1>7, <1>8, <1>10, <1>11, <1>12 DEF Process

\* The steps of the main loop that no operation takes part in.
LEMMA LoopStepFlow ==
  ASSUME TypeOK, Flow, LoopStep, UNCHANGED coVars
  PROVE  Flow'
<1>. USE DEF TypeOK
<1>1. UNCHANGED <<caller, waiters, sigwait, signals>>
  BY DEF coVars
<1>2. CASE Pick
  <2>1. /\ phase' = "run" /\ UNCHANGED <<state, pend>>
        /\ active \in Seq(TaskType) /\ active # <<>> /\ cur' = Head(active) /\ active' = Tail(active)
        /\ phase = "pick"
    BY <1>2 DEF Pick, LoopTypeOK
  <2>2. Handed' \subseteq Handed
    BY <2>1, Members DEF Handed
  <2>3. NoStaleWait'
    BY <1>1, <2>1 DEF Flow, NoStaleWait, Alive
  <2>. QED  BY <1>1, <2>1, <2>2, <2>3 DEF Flow
<1>3. CASE IdleTurn \/ Leave \/ RunDeadCoro \/ EndTimers \/ DropStale
  <2>1. /\ UNCHANGED <<active, cur, state, pend>> /\ phase' \notin {"run", "process"}
        /\ phase \in {"pick", "timers"} \/ phase' = "dead"
        /\ phase # "process"
    BY <1>3 DEF IdleTurn, Leave, RunDeadCoro, EndTimers, DropStale
  <2>2. Handed' \subseteq Handed
    BY <2>1 DEF Handed
  <2>3. NoStaleWait'
    BY <1>1, <2>1 DEF Flow, NoStaleWait, Alive
  <2>. QED  BY <1>1, <2>1, <2>2, <2>3 DEF Flow
<1>4. CASE Start
  <2>1. /\ UNCHANGED <<active, cur, pend>> /\ phase = "run" /\ phase' = "process"
        /\ cur.op = NoOp /\ cur.coro \in Coro /\ state[cur.coro] = "need_init"
        /\ state' = [state EXCEPT ![cur.coro] = "running"]
    BY <1>4 DEF Start, LoopTypeOK, TaskType
  <2>2. Handed' \subseteq Handed
    BY <2>1 DEF Handed
  <2>3. /\ \A c \in Coro : Alive(c)' <=> Alive(c)
        /\ \A c \in Coro : state'[c] \in EndStates <=> state[c] \in EndStates
        /\ \A c \in Coro : state'[c] \in {"absent", "need_init"} => state[c] \in {"absent", "need_init"}
    BY <2>1 DEF LoopTypeOK, Alive, EndStates
  <2>4. Yielded'
    <3>1. cur.op = pend[cur.coro]
      BY <2>1 DEF Flow
    <3>2. cur.op # CoroOp(cur.coro) /\ cur.op.k = "none"
      BY <2>1, OwnOps
    <3>3. state'[cur.coro] = "running"
      BY <2>1 DEF LoopTypeOK
    <3>. QED  BY <2>1, <3>1, <3>2, <3>3 DEF Yielded, CoroOp, Alive, NoOp
  <2>5. NoStaleWait'
    <3>1. \A c, d \in Coro : Awaits(c, d) => Alive(d)
      BY <2>1 DEF Flow, NoStaleWait, Awaits
    <3>. QED  BY <1>1, <2>3, <3>1 DEF NoStaleWait, Awaits
  <2>6. ASSUME NEW p \in Handed', p.op.k = "coro"
        PROVE  state'[p.op.c] \in EndStates
    <3>1. p \in Handed /\ p \in TaskType
      BY <2>1, <2>2, <2>6, Members DEF Handed, LoopTypeOK
    <3>2. p.op.c \in Coro
      BY <2>6, <3>1 DEF TaskType, OpType
    <3>. QED  BY <2>3, <2>6, <3>1, <3>2 DEF Flow
  <2>. QED  BY <1>1, <2>1, <2>3, <2>4, <2>5, <2>6 DEF Flow
<1>5. CASE FinalizeRaises
  <2>1. /\ phase = "run" /\ cur.coro \in Coro /\ Alive(cur.coro)
        /\ CoroOp(cur.coro) \in OpType
    BY <1>5, PlainOps DEF FinalizeRaises, LoopTypeOK, TaskType
  <2>2. /\ state' = [state EXCEPT ![cur.coro] = "failed"]
        /\ cur' = Pair(CoroOp(cur.coro), cur.coro)
        /\ phase' = "process" /\ active' = active
        /\ pend' = [pend EXCEPT ![cur.coro] = CoroOp(cur.coro)]
    BY <1>5 DEF FinalizeRaises
  <2>3. CoroOp(cur.coro).k = "coro"
    BY OwnOps
  <2>. QED  BY <2>1, <2>2, <2>3, ComesBackFlow
<1>6. CASE ProcessNone
  <2>1. /\ phase = "process" /\ cur.op = NoOp /\ UNCHANGED <<state, pend>>
        /\ active \in Seq(TaskType) /\ cur \in TaskType
    BY <1>6 DEF ProcessNone, LoopTypeOK
  <2>2. PICK a, p : /\ Continue(a, p)
                    /\ \A q \in ToSet(a) \cup ({p} \ {NoPair}) : q \in ToSet(active) \/ q = cur
    <3>1. ToSet(Append(active, cur)) = ToSet(active) \cup {cur}
      BY <2>1, Members
    <3>. QED  BY <1>6, <3>1 DEF ProcessNone
  <2>3. \A c, d \in Coro : Awaits(c, d)' => Awaits(c, d)
    BY <1>1 DEF Awaits
  <2>4. cur.op.k # "coro" /\ \A d : cur.op # CoroOp(d)
    BY <2>1, OwnOps
  <2>5. \A s \in Names : \A i \in DOMAIN sigwait'[s] : sigwait'[s][i].op.k = "wait"
    BY <1>1 DEF Flow
  <2>6. \A q \in ToSet(a) \cup ({p} \ {NoPair}) : q \in ToSet(active) \/ q.op.k # "coro"
    BY <2>2, <2>4
  <2>. QED  BY <2>1, <2>2, <2>3, <2>4, <2>5, <2>6, ProcessFlow
<1>. QED  BY <1>2, <1>3, <1>4, <1>5, <1>6 DEF LoopStep

\* What waits is what it was as a timer expires, or less.
LEMMA HandleTimeoutFlow ==
  ASSUME TypeOK, Flow, HandleTimeout
  PROVE  Flow'
<1>. USE DEF TypeOK
<1>1. ASSUME NEW e \in timeouts, NEW p \in TaskType, Expire(e, p), p.op.k # "coro", phase = "timers",
             \A s \in Names : \A i \in DOMAIN sigwait'[s] : sigwait'[s][i].op.k = "wait",
             \A c, d \in Coro : Awaits(c, d)' => Awaits(c, d)
      PROVE  Flow'
  <2>1. /\ active' = Append(active, p) /\ active \in Seq(TaskType)
        /\ UNCHANGED <<cur, phase, state, pend>>
    BY <1>1 DEF Expire, LoopTypeOK
  <2>2. \A q \in Handed' : q \in Handed \/ q = p
    BY <2>1, Members DEF Handed
  <2>3. NoStaleWait'
    <3>1. \A c, d \in Coro : Awaits(c, d) => Alive(d)
      BY <1>1 DEF Flow, NoStaleWait, Awaits
    <3>. QED  BY <1>1, <2>1, <3>1 DEF NoStaleWait, Awaits, Alive
  <2>. QED  BY <1>1, <2>1, <2>2, <2>3 DEF Flow
<1>2. /\ timeouts \subseteq TimerType /\ waiters \in [Coro -> Seq(Coro)]
      /\ sigwait \in [Names -> Seq(TaskType)]
      /\ \A e \in timeouts : e.op \in OpType /\ e.op.c \in Coro
      /\ \A s \in Names : \A i \in DOMAIN sigwait[s] : sigwait[s][i].op.k = "wait"
  BY DEF LoopTypeOK, CoTypeOK, TimerType, TimedType, OpType, Flow
<1>3. \A c \in Coro : /\ Pair(TimeoutExc, c) \in TaskType
                      /\ Pair(TimeoutExc, c).op.k = "timeout"
  BY PlainOps, PairTypes, OwnOps
<1>4. CASE WakeSleeper
  <2>1. PICK e \in timeouts : /\ e.op.k = "sleep" /\ phase = "timers"
                              /\ Expire(e, Pair(e.op, e.op.c)) /\ UNCHANGED coVars
    BY <1>4 DEF WakeSleeper, Due
  <2>2. Pair(e.op, e.op.c) \in TaskType /\ Pair(e.op, e.op.c).op.k = "sleep"
    BY <1>2, <2>1, PairTypes
  <2>3. \A c, d \in Coro : Awaits(c, d)' => Awaits(c, d)
    BY <2>1 DEF Awaits, coVars
  <2>4. \A s \in Names : \A i \in DOMAIN sigwait'[s] : sigwait'[s][i].op.k = "wait"
    BY <1>2, <2>1 DEF coVars
  <2>. QED  BY <1>1, <2>1, <2>2, <2>3, <2>4
<1>5. CASE TimeoutJoin
  <2>1. PICK e \in timeouts :
          /\ phase = "timers" /\ Expire(e, Pair(TimeoutExc, e.op.c))
          /\ waiters' = [waiters EXCEPT ![e.op.c] = RemoveFirst(@, e.op.c)]
          /\ UNCHANGED <<caller, sigwait, signals>>
    BY <1>5 DEF TimeoutJoin, Due
  <2>2. ToSet(RemoveFirst(waiters[e.op.c], e.op.c)) \subseteq ToSet(waiters[e.op.c])
    BY <1>2, RemoveFirstMembers
  <2>3. \A c, d \in Coro : Awaits(c, d)' => Awaits(c, d)
    BY <1>2, <2>1, <2>2 DEF Awaits
  <2>4. \A s \in Names : \A i \in DOMAIN sigwait'[s] : sigwait'[s][i].op.k = "wait"
    BY <1>2, <2>1
  <2>. QED  BY <1>1, <1>2, <1>3, <2>1, <2>3, <2>4
<1>6. CASE TimeoutWait
  <2>1. PICK e \in timeouts :
          /\ phase = "timers" /\ Expire(e, Pair(TimeoutExc, e.op.c)) /\ e.op.k = "wait"
          /\ sigwait' = [sigwait EXCEPT ![e.op.arg] = WithoutWait(@, Pair(e.op, e.op.c))]
          /\ UNCHANGED <<caller, waiters, signals>>
    BY <1>6 DEF TimeoutWait, Due
  <2>2. e.op.arg \in Names
    BY <1>2, <2>1 DEF OpType
  <2>. DEFINE w == WithoutWait(sigwait[e.op.arg], Pair(e.op, e.op.c))
  <2>3. ToSet(w) \subseteq ToSet(sigwait[e.op.arg])
    BY <1>2, <2>2, RemoveFirstMembers DEF WithoutWait
  <2>4. \A s \in Names : ToSet(sigwait'[s]) \subseteq ToSet(sigwait[s])
    BY <1>2, <2>1, <2>2, <2>3
  <2>5. \A s \in Names : \A i \in DOMAIN sigwait'[s] : sigwait'[s][i].op.k = "wait"
    <3>1. \A s \in Names : \A p \in ToSet(sigwait[s]) : p.op.k = "wait"
      BY <1>2 DEF ToSet
    <3>2. \A s : \A i \in DOMAIN sigwait'[s] : sigwait'[s][i] \in ToSet(sigwait'[s])
      BY DEF ToSet
    <3>. QED  BY <2>4, <3>1, <3>2
  <2>6. \A c, d \in Coro : Awaits(c, d)' => Awaits(c, d)
    BY <2>1 DEF Awaits
  <2>. QED  BY <1>1, <1>2, <1>3, <2>1, <2>5, <2>6
<1>7. CASE CleanupRaises
  <2>1. phase' = "dead" /\ phase = "timers" /\ UNCHANGED <<active, cur, state, pend, coVars>>
    BY <1>7 DEF CleanupRaises, Due
  <2>2. Handed' \subseteq Handed
    BY <2>1 DEF Handed
  <2>3. NoStaleWait'
    BY <2>1 DEF Flow, NoStaleWait, Alive, coVars
  <2>. QED  BY <2>1, <2>2, <2>3 DEF Flow, coVars
<1>. QED  BY <1>4, <1>5, <1>6, <1>7 DEF HandleTimeout

\* Every step of the program.
LEMMA NextFlow == TypeOK /\ Flow /\ [Next]_vars => Flow'
<1>. SUFFICES ASSUME TypeOK, Flow, [Next]_vars PROVE Flow'
  OBVIOUS
<1>1. CASE Tick /\ UNCHANGED coVars
  BY <1>1 DEF Tick, Flow, Handed, NoStaleWait, Alive, coVars
<1>2. CASE UNCHANGED vars
  <2>1. UNCHANGED <<phase, cur, active, state, pend, caller, waiters, sigwait>>
    BY <1>2 DEF vars, loopVars, coVars
  <2>2. Handed' = Handed
    BY <2>1 DEF Handed
  <2>3. Yielded => Yielded'
    BY <2>1 DEF Yielded, Alive, CoroOp, NoOp
  <2>4. NoStaleWait'
    BY <2>1 DEF Flow, NoStaleWait, Alive
  <2>. QED  BY <2>1, <2>2, <2>3, <2>4 DEF Flow
<1>3. CASE Over /\ UNCHANGED coVars
  BY <1>2, <1>3 DEF Over, vars
<1>. QED
  BY <1>1, <1>2, <1>3, LoopStepFlow, ResumeFlow, ProcessKeepsFlow, HandleTimeoutFlow DEF Next, Loop

LEMMA AlwaysFlow == Spec => [](TypeOK /\ Flow)
<1>1. Init => TypeOK /\ Flow
  BY InitType, InitFlow
<1>2. TypeOK /\ Flow /\ [Next]_vars => (TypeOK /\ Flow)'
  <2>. SUFFICES ASSUME TypeOK, Flow, [Next]_vars PROVE TypeOK' /\ Flow'
    OBVIOUS
  <2>. QED  BY NextType, NextFlow
<1>. QED  BY <1>1, <1>2, PTL DEF Spec

\* The end of a coroutine releases its caller and all that have joined it: they
\* are told as CoroutineInstance.process processes the end, and nobody begins to
\* wait for a coroutine that has ended.
THEOREM EndsRelease == Spec => []NoStaleWait
<1>1. TypeOK /\ Flow => NoStaleWait
  BY DEF Flow
<1>. QED  BY <1>1, AlwaysFlow, PTL
-----------------------------------------------------------------------------
(***************************************************************************)
(* Theorems about Scheduler: where a coroutine is.  A coroutine that lives *)
(* is in one place that will resume it, and what it waits in, the timer it *)
(* has and the pair it is handed fit the operation it yielded last.        *)
(*                                                                         *)
(* A timed operation is told from another by its deadline only, so no two  *)
(* are to have the same one: not by the program's timeouts (Ties), nor by  *)
(* the default one, which an operation gets as it is processed.            *)
(***************************************************************************)

\* The deadlines of operations tell them apart.
Untied == DefaultTimeout = 0 /\ (~Ties \/ Delays \subseteq {0})

\* What is run next, in order.
Line == IF phase = "run" THEN <<cur>> \o active ELSE active

\* The operation has timed out already: its coroutine has been handed the
\* exception, and finalize raises as it is handed the operation.
Doomed(op) ==
  op.k # "sleep" /\ op.at # 0 /\ op.at <= clock /\ \A e \in timeouts : e.op.at # op.at

\* The pairs that do not resume a coroutine where it waits.
Moot == {p \in TaskType : ~Alive(p.coro) \/ Doomed(p.op)}

\* A coroutine has one pair in s, or others that only end it before the exception.
Spread(s, M) ==
  \A i, j \in DOMAIN s : i < j /\ s[i].coro = s[j].coro => s[i] \in M /\ s[j].op = TimeoutExc

\* c waits: for a name, for a coroutine, with a signal kept back or for time to pass.
Waits(c) ==
  \/ \E s \in Names : \E p \in ToSet(sigwait[s]) : p.coro = c
  \/ \E d \in Coro : Awaits(c, d)
  \/ \E s \in Names : signals[s].coro = c
  \/ \E e \in timeouts : e.op.k = "sleep" /\ e.op.c = c

\* Who is in line does not wait, nor does the coroutine whose operation is processed.
Lined ==
  /\ Spread(Line, Moot)
  /\ \A p \in Handed : /\ ~Waits(p.coro) /\ state[p.coro] # "absent"
                       /\ ~Alive(p.coro) => p.op = TimeoutExc
  /\ phase # "run" /\ cur # NoPair =>
       /\ ~Waits(cur.coro)
       /\ \A p \in Handed : p.coro = cur.coro => ~Alive(cur.coro)

\* What a coroutine waits in is where its last operation put it.
WaitsInSignals == \A s \in Names :
  /\ Distinct(sigwait[s])
  /\ \A p \in ToSet(sigwait[s]) :
       Alive(p.coro) /\ pend[p.coro] = p.op /\ p.op.c = p.coro /\ p.op.arg = s

WaitsInJoins == \A d \in Coro :
  /\ \A i, j \in DOMAIN waiters[d] : waiters[d][i] = waiters[d][j] => i = j
  /\ \A c \in ToSet(waiters[d]) :
       Alive(c) /\ pend[c].k = "join" /\ d = IF pend[c].at = 0 THEN pend[c].arg ELSE c

WaitsInCalls == \A d \in Coro :
  caller[d] # None => Alive(caller[d]) /\ pend[caller[d]] = CoroOp(d)

WaitsToSignal == \A s \in Names : signals[s] # NoPair =>
  LET p == signals[s] IN
  Alive(p.coro) /\ pend[p.coro] = p.op /\ p.op.k = "signal" /\ p.op.arg = s

\* A timer is that of the operation its coroutine yielded last, which is still
\* where it was put.
WaitsForTime == \A e \in timeouts :
  /\ e.live /\ Alive(e.op.c) /\ pend[e.op.c] = e.op
  /\ e.op.k = "join" => e.op.c \in ToSet(waiters[e.op.c])
  /\ e.op.k = "wait" => \/ Pair(e.op, e.op.c) \in Handed
                        \/ Pair(e.op, e.op.c) \in ToSet(sigwait[e.op.arg])

Waiting == WaitsInSignals /\ WaitsInJoins /\ WaitsInCalls /\ WaitsToSignal /\ WaitsForTime

\* A timed operation that may be handed over: a Sleep that is over or a
\* WaitForSignal, whose timer is there until the deadline.
TimedPair(p) ==
  /\ p.op.k \in {"sleep", "wait"} /\ p.op.c = p.coro
  /\ p.op.at > clock => p.op.k = "wait" /\ \E e \in timeouts : e.op.at = p.op.at
  /\ \A e \in timeouts : e.op.at = p.op.at => e.op = p.op

Timed ==
  /\ \A e, f \in timeouts : e.op.at = f.op.at => e = f
  /\ \A e \in timeouts : e.op.at # 0
  /\ \A p \in Handed : p.op.at # 0 => TimedPair(p)
  /\ \A s \in Names : \A p \in ToSet(sigwait[s]) : p.op.at # 0 => TimedPair(p)
  /\ phase = "process" /\ cur.op.at # 0 =>
       /\ cur.op.k \in {"wait", "join", "sleep"} /\ cur.op.at > clock
       /\ \A e \in timeouts : e.op.at # cur.op.at

\* What a coroutine has waited for has happened, unless it is told of a timeout.
Answered == \A p \in Handed :
  Alive(p.coro) /\ p.op # TimeoutExc =>
    /\ pend[p.coro].k = "join" => state[pend[p.coro].arg] \in EndStates
    /\ pend[p.coro].k = "coro" => state[pend[p.coro].c] \in EndStates
    /\ pend[p.coro].k = "sleep" => pend[p.coro].at <= clock

Good == Lined /\ Waiting /\ Timed /\ Answered
-----------------------------------------------------------------------------
(***************************************************************************)
(* Sequences of pairs.                                                     *)
(***************************************************************************)
\* Nobody has two pairs: nothing to ask.
LEMMA DistinctSpread ==
  ASSUME NEW s \in Seq(TaskType), Distinct(s), NEW M
  PROVE  Spread(s, M)
<1>1. DOMAIN s \subseteq Nat
  OBVIOUS
<1>. QED  BY <1>1 DEF Distinct, Spread

\* More pairs are moot.
LEMMA SpreadMore ==
  ASSUME NEW s \in Seq(TaskType), NEW M, Spread(s, M), NEW N, M \cap ToSet(s) \subseteq N
  PROVE  Spread(s, N)
<1>1. \A i \in DOMAIN s : s[i] \in ToSet(s)
  BY DEF ToSet
<1>. QED  BY <1>1 DEF Spread

\* Two lines one behind the other, of different coroutines.
LEMMA ConcatSpread ==
  ASSUME NEW s \in Seq(TaskType), NEW t \in Seq(TaskType), NEW M, Spread(s, M), Spread(t, M),
         Coros(s) \cap Coros(t) = {}
  PROVE  Spread(s \o t, M)
<1>. DEFINE m == Len(s)
            n == Len(t)
            u == s \o t
<1>1. /\ m \in Nat /\ n \in Nat /\ DOMAIN s = 1 .. m /\ DOMAIN t = 1 .. n /\ DOMAIN u = 1 .. m + n
      /\ \A i \in 1 .. m : u[i] = s[i]
      /\ \A i \in m + 1 .. m + n : u[i] = t[i - m]
  OBVIOUS
<1>. HIDE DEF m, n, u
<1>2. ASSUME NEW i \in 1 .. m + n, NEW j \in 1 .. m + n, i < j, u[i].coro = u[j].coro
      PROVE  u[i] \in M /\ u[j].op = TimeoutExc
  <2>1. CASE j <= m
    <3>1. i \in 1 .. m /\ j \in 1 .. m
      BY <1>1, <1>2, <2>1
    <3>. QED  BY <1>1, <1>2, <3>1 DEF Spread
  <2>2. CASE i > m
    <3>. DEFINE k == i - m
                l == j - m
    <3>1. /\ i \in m + 1 .. m + n /\ j \in m + 1 .. m + n
          /\ k \in 1 .. n /\ l \in 1 .. n /\ k < l
      BY <1>1, <1>2, <2>2
    <3>2. u[i] = t[k] /\ u[j] = t[l]
      BY <1>1, <3>1
    <3>. HIDE DEF k, l
    <3>3. k \in DOMAIN t /\ l \in DOMAIN t /\ t[k].coro = t[l].coro
      BY <1>1, <1>2, <3>1, <3>2
    <3>4. t[k] \in M /\ t[l].op = TimeoutExc
      BY <3>1, <3>3 DEF Spread
    <3>. QED  BY <3>2, <3>4
  <2>3. CASE i <= m /\ j > m
    <3>1. i \in 1 .. m /\ j \in m + 1 .. m + n /\ j - m \in 1 .. n
      BY <1>1, <1>2, <2>3
    <3>2. s[i].coro \in Coros(s) /\ t[j - m].coro \in Coros(t)
      BY <1>1, <3>1 DEF Coros
    <3>. QED  BY <1>1, <1>2, <3>1, <3>2
  <2>. QED  BY <1>1, <1>2, <2>1, <2>2, <2>3
<1>. QED  BY <1>1, <1>2 DEF Spread, u

\* A pair behind the line, of a coroutine that has only moot ones in it, or none.
LEMMA AppendSpread ==
  ASSUME NEW s \in Seq(TaskType), NEW p \in TaskType, NEW M, Spread(s, M),
         \A q \in ToSet(s) : q.coro = p.coro => q \in M /\ p.op = TimeoutExc
  PROVE  Spread(Append(s, p), M)
<1>. DEFINE m == Len(s)
            u == Append(s, p)
<1>1. /\ m \in Nat /\ DOMAIN s = 1 .. m /\ DOMAIN u = 1 .. m + 1
      /\ \A i \in 1 .. m : u[i] = s[i]
      /\ u[m + 1] = p
  OBVIOUS
<1>2. \A i \in 1 .. m : s[i] \in ToSet(s)
  BY <1>1 DEF ToSet
<1>. HIDE DEF m, u
<1>3. ASSUME NEW i \in 1 .. m + 1, NEW j \in 1 .. m + 1, i < j, u[i].coro = u[j].coro
      PROVE  u[i] \in M /\ u[j].op = TimeoutExc
  <2>1. CASE j = m + 1
    <3>1. i \in 1 .. m
      BY <1>1, <1>3, <2>1
    <3>. QED  BY <1>1, <1>2, <1>3, <2>1, <3>1
  <2>2. CASE j # m + 1
    <3>1. i \in 1 .. m /\ j \in 1 .. m
      BY <1>1, <1>3, <2>2
    <3>. QED  BY <1>1, <1>3, <3>1 DEF Spread
  <2>. QED  BY <2>1, <2>2
<1>. QED  BY <1>1, <1>3 DEF Spread, u

\* One pair.
LEMMA OneSpread ==
  ASSUME NEW p \in TaskType, NEW M
  PROVE  <<p>> \in Seq(TaskType) /\ Spread(<<p>>, M) /\ Coros(<<p>>) = {p.coro} /\ ToSet(<<p>>) = {p}
<1>1. <<p>> \in Seq(TaskType) /\ DOMAIN <<p>> = {1} /\ <<p>>[1] = p
  OBVIOUS
<1>. QED  BY <1>1 DEF Spread, Coros, ToSet

\* A pair in front of the line.
LEMMA ConsSpread ==
  ASSUME NEW s \in Seq(TaskType), NEW p \in TaskType, NEW M, Spread(s, M), p.coro \notin Coros(s)
  PROVE  Spread(<<p>> \o s, M)
<1>1. <<p>> \in Seq(TaskType) /\ Spread(<<p>>, M) /\ Coros(<<p>>) = {p.coro}
  BY OneSpread
<1>. DEFINE t == <<p>>
<1>2. t \in Seq(TaskType) /\ Spread(t, M) /\ Coros(t) \cap Coros(s) = {}
  BY <1>1
<1>. HIDE DEF t
<1>3. Spread(t \o s, M)
  BY <1>2, ConcatSpread
<1>. QED  BY <1>3 DEF t

\* The first pair of a line, and those behind it.
LEMMA HeadSpread ==
  ASSUME NEW s \in Seq(TaskType), NEW p \in TaskType, NEW M, Spread(<<p>> \o s, M)
  PROVE  /\ Spread(s, M)
         /\ \A q \in ToSet(s) : q.coro = p.coro => p \in M /\ q.op = TimeoutExc
<1>. DEFINE m == Len(s)
            u == <<p>> \o s
<1>1. /\ m \in Nat /\ DOMAIN s = 1 .. m /\ DOMAIN u = 1 .. m + 1 /\ u[1] = p
      /\ \A i \in 1 .. m : u[i + 1] = s[i]
  OBVIOUS
<1>. HIDE DEF m, u
<1>2. Spread(u, M)
  BY DEF u
<1>3. ASSUME NEW i \in 1 .. m, NEW j \in 1 .. m, i < j, s[i].coro = s[j].coro
      PROVE  s[i] \in M /\ s[j].op = TimeoutExc
  <2>. DEFINE k == i + 1
              l == j + 1
  <2>1. /\ k \in 1 .. m + 1 /\ l \in 1 .. m + 1 /\ k < l
        /\ u[k] = s[i] /\ u[l] = s[j]
    BY <1>1, <1>3
  <2>. HIDE DEF k, l
  <2>. QED  BY <1>1, <1>2, <1>3, <2>1 DEF Spread
<1>4. ASSUME NEW i \in 1 .. m, s[i].coro = p.coro
      PROVE  p \in M /\ s[i].op = TimeoutExc
  <2>1. 1 \in 1 .. m + 1 /\ i + 1 \in 1 .. m + 1 /\ 1 < i + 1
    BY <1>1, <1>4
  <2>. QED  BY <1>1, <1>2, <1>4, <2>1 DEF Spread
<1>. QED  BY <1>1, <1>3, <1>4 DEF Spread, ToSet

\* The coroutines of a line are those of its pairs.
LEMMA CorosOf ==
  ASSUME NEW s
  PROVE  Coros(s) = {p.coro : p \in ToSet(s)}
BY DEF Coros, ToSet

\* Who is in line is handed something, and the other way round.
LEMMA LineIsHanded ==
  ASSUME LoopTypeOK
  PROVE  Line \in Seq(TaskType) /\ ToSet(Line) = Handed /\ Handed \subseteq TaskType
<1>1. CASE phase = "run"
  <2>1. cur \in TaskType /\ active \in Seq(TaskType)
    BY <1>1 DEF LoopTypeOK
  <2>2. ToSet(<<cur>> \o active) = ToSet(active) \cup {cur} /\ ToSet(active) \subseteq TaskType
    BY <2>1, Members
  <2>. QED  BY <1>1, <2>1, <2>2 DEF Line, Handed
<1>2. CASE phase # "run"
  <2>1. active \in Seq(TaskType) /\ ToSet(active) \subseteq TaskType
    BY Members DEF LoopTypeOK
  <2>. QED  BY <1>2, <2>1 DEF Line, Handed
<1>. QED  BY <1>1, <1>2

\* What is where, by the types.
LEMMA PlaceTypes ==
  ASSUME TypeOK
  PROVE  /\ Handed \subseteq TaskType /\ ToSet(active) \subseteq TaskType /\ active \in Seq(TaskType)
         /\ \A p \in TaskType : p.op \in OpType /\ p.coro \in Coro
         /\ \A s \in Names : /\ sigwait[s] \in Seq(TaskType) /\ ToSet(sigwait[s]) \subseteq TaskType
                             /\ signals[s] \in TaskType \cup {NoPair}
         /\ \A d \in Coro : /\ waiters[d] \in Seq(Coro) /\ ToSet(waiters[d]) \subseteq Coro
                            /\ caller[d] \in Coro \cup {None} /\ pend[d] \in OpType
         /\ \A e \in timeouts : /\ e.op \in OpType /\ e.op.c \in Coro
                                /\ e.op.k \in {"join", "sleep", "wait"}
                                /\ e.op.k = "wait" => e.op.arg \in Names
         /\ \A op \in OpType : /\ op.k = "join" => op.arg \in Coro
                               /\ op.k = "coro" => op.c \in Coro
                               /\ op.at \in Nat
         /\ clock \in Nat /\ NoPair.coro = None /\ NoPair.op = NoOp /\ None \notin Coro
<1>1. Handed \subseteq TaskType
  BY LineIsHanded DEF TypeOK
<1>2. ToSet(active) \subseteq TaskType /\ active \in Seq(TaskType)
  BY Members DEF TypeOK, LoopTypeOK
<1>3. \A s \in Names : sigwait[s] \in Seq(TaskType) /\ signals[s] \in TaskType \cup {NoPair}
  BY DEF TypeOK, CoTypeOK
<1>4. \A s \in Names : ToSet(sigwait[s]) \subseteq TaskType
  BY <1>3, Members
<1>5. \A d \in Coro : /\ waiters[d] \in Seq(Coro) /\ caller[d] \in Coro \cup {None}
                      /\ pend[d] \in OpType
  BY DEF TypeOK, CoTypeOK, LoopTypeOK
<1>6. \A d \in Coro : ToSet(waiters[d]) \subseteq Coro
  BY <1>5, Members
<1>7. ASSUME NEW e \in timeouts
      PROVE  /\ e.op \in OpType /\ e.op.c \in Coro
             /\ e.op.k \in {"join", "sleep", "wait"}
             /\ e.op.k = "wait" => e.op.arg \in Names
  <2>1. e.op \in TimedType
    BY DEF TypeOK, LoopTypeOK, TimerType
  <2>. QED  BY <2>1 DEF TimedType, OpType
<1>8. \A op \in OpType : /\ op.k = "join" => op.arg \in Coro
                         /\ op.k = "coro" => op.c \in Coro
                         /\ op.at \in Nat
  BY DEF OpType, RawOpType
<1>9. clock \in Nat /\ NoPair.coro = None /\ NoPair.op = NoOp /\ None \notin Coro
  BY CoroAssumption DEF TypeOK, LoopTypeOK, NoPair, Pair
<1>10. \A p \in TaskType : p.op \in OpType /\ p.coro \in Coro
  BY DEF TaskType
<1>. QED  BY <1>1, <1>2, <1>3, <1>4, <1>5, <1>6, <1>7, <1>8, <1>9, <1>10

\* At first everyone is in line, once, and nobody waits.
LEMMA InitGood == Init => Good
<1>. SUFFICES ASSUME Init PROVE Good
  OBVIOUS
<1>1. /\ TypeOK /\ Started \in Seq(Coro) /\ IsInjective(Started)
      /\ phase = "pick" /\ cur = NoPair /\ timeouts = {}
      /\ active = [i \in DOMAIN Started |-> Pair(NoOp, Started[i])]
      /\ state = [c \in Coro |-> IF c \in ToSet(Started) THEN "need_init" ELSE "absent"]
      /\ \A c \in Coro : pend[c] = NoOp /\ caller[c] = None /\ waiters[c] = <<>>
      /\ \A s \in Names : sigwait[s] = <<>> /\ signals[s] = NoPair
  BY StartedAssumption, InitType DEF Init, LoopInit
<1>2. /\ active \in Seq(TaskType) /\ NoPair.coro = None /\ None \notin Coro
      /\ Handed = ToSet(active) /\ Handed \subseteq TaskType
  BY <1>1, PlaceTypes DEF Handed
<1>3. \A c \in Coro : ~Waits(c)
  <2>1. ToSet(<<>>) = {}
    BY DEF ToSet
  <2>. QED  BY <1>1, <1>2, <2>1 DEF Waits, Awaits
<1>4. \A p \in Handed : p.coro \in ToSet(Started) /\ p.op = NoOp /\ p.coro \in Coro
  <2>1. \A i \in DOMAIN Started : Pair(NoOp, Started[i]).coro = Started[i] /\ Pair(NoOp, Started[i]).op = NoOp
    BY DEF Pair
  <2>2. \A p \in ToSet(active) : \E i \in DOMAIN Started : p = Pair(NoOp, Started[i])
    BY <1>1 DEF ToSet
  <2>3. ASSUME NEW p \in ToSet(active)
        PROVE  p.coro \in ToSet(Started) /\ p.op = NoOp /\ p.coro \in Coro
    <3>1. PICK i \in DOMAIN Started : p = Pair(NoOp, Started[i])
      BY <2>2
    <3>. QED  BY <1>1, <2>1, <3>1 DEF ToSet
  <2>. QED  BY <1>2, <2>3
<1>5. Lined
  <2>1. Distinct(active)
    <3>1. \A i \in DOMAIN Started : Pair(NoOp, Started[i]).coro = Started[i]
      BY DEF Pair
    <3>. QED  BY <1>1, <3>1 DEF Distinct, IsInjective
  <2>2. Spread(Line, Moot)
    BY <1>1, <1>2, <2>1, DistinctSpread DEF Line
  <2>3. \A p \in Handed : state[p.coro] = "need_init"
    BY <1>1, <1>4
  <2>. QED  BY <1>1, <1>3, <1>4, <2>2, <2>3 DEF Lined, Alive
<1>6. Waiting
  <2>1. ToSet(<<>>) = {} /\ DOMAIN <<>> = {} /\ Distinct(<<>>)
    BY EmptyCoros DEF ToSet
  <2>2. WaitsInSignals
    BY <1>1, <2>1 DEF WaitsInSignals
  <2>3. WaitsInJoins
    BY <1>1, <2>1 DEF WaitsInJoins
  <2>. QED  BY <1>1, <2>2, <2>3 DEF Waiting, WaitsInCalls, WaitsToSignal, WaitsForTime
<1>7. Timed
  <2>1. ToSet(<<>>) = {} /\ NoOp.at = 0
    BY OwnOps DEF ToSet
  <2>. QED  BY <1>1, <1>4, <2>1 DEF Timed
<1>8. Answered
  BY <1>1, <1>4, OwnOps DEF Answered
<1>. QED  BY <1>5, <1>6, <1>7, <1>8 DEF Good
-----------------------------------------------------------------------------
(***************************************************************************)
(* The coroutine of the inner loop is taken out of the line: it runs, or   *)
(* fails.                                                                  *)
(***************************************************************************)
\* A coroutine that is in line waits in nothing, so that what it does next leaves
\* what the others wait in as it was.
LEMMA TakenOut ==
  ASSUME TypeOK, Good, NEW c \in Coro, phase = "run", cur.coro = c, phase' \in {"process", "dead"},
         cur'.coro = c, UNCHANGED <<active, clock, coVars>>,
         \A x \in Coro \ {c} : pend'[x] = pend[x] /\ (Alive(x)' <=> Alive(x)),
         \A x \in Coro : /\ state'[x] = "absent" <=> state[x] = "absent"
                         /\ state[x] \in EndStates => state'[x] \in EndStates,
         timeouts' \subseteq timeouts,
         \A e \in timeouts' : e.op.c # c,
         \A e \in timeouts : e \notin timeouts' => e.op.c = c,
         \A p \in ToSet(active) : p.coro = c => ~Alive(c)' /\ p.op = TimeoutExc,
         phase' = "process" /\ cur'.op.at # 0 =>
           /\ cur'.op.k \in {"wait", "join", "sleep"} /\ cur'.op.at > clock
           /\ \A e \in timeouts' : e.op.at # cur'.op.at
  PROVE  Good'
<1>1. /\ cur \in Handed /\ Handed = ToSet(active) \cup {cur} /\ Handed' = ToSet(active)
      /\ Line = <<cur>> \o active /\ Line' = active
      /\ UNCHANGED <<caller, waiters, sigwait, signals>> /\ clock \in Nat
  BY PlaceTypes DEF Handed, Line, coVars
<1>2. /\ active \in Seq(TaskType) /\ cur \in TaskType /\ Handed \subseteq TaskType
      /\ \A s \in Names : ToSet(sigwait[s]) \subseteq TaskType
      /\ \A p \in TaskType : p.op \in OpType /\ p.coro \in Coro
  BY <1>1, PlaceTypes
<1>3. ~Waits(c)
  BY <1>1 DEF Good, Lined
<1>4. ASSUME NEW x \in Coro, Waits(x)'
      PROVE  Waits(x) /\ x # c
  BY <1>1, <1>3, <1>4 DEF Waits, Awaits
<1>5. ASSUME NEW p \in ToSet(active), p.coro # c
      PROVE  Alive(p.coro)' <=> Alive(p.coro)
  BY <1>1, <1>2, <1>5
<1>6. TimeoutExc.at = 0
  BY OwnOps
<1>7. Lined'
  <2>1. Spread(active, Moot)
    BY <1>1, <1>2, HeadSpread DEF Good, Lined
  <2>2. ASSUME NEW p \in Moot \cap ToSet(active)
        PROVE  p \in Moot'
    <3>1. p \in TaskType /\ p.coro \in Coro
      BY <1>2, <1>1
    <3>2. Doomed(p.op) => Doomed(p.op)'
      BY <1>1 DEF Doomed
    <3>3. ~Alive(p.coro) => ~Alive(p.coro)'
      BY <3>1
    <3>. QED  BY <3>1, <3>2, <3>3 DEF Moot
  <2>3. Spread(active, Moot')
    BY <1>2, <2>1, <2>2, SpreadMore
  <2>4. \A p \in Handed' : /\ ~Waits(p.coro)' /\ state'[p.coro] # "absent"
                           /\ ~Alive(p.coro)' => p.op = TimeoutExc
    BY <1>1, <1>2, <1>4, <1>5 DEF Good, Lined
  <2>5. ~Waits(c)' /\ \A p \in Handed' : p.coro = c => ~Alive(c)'
    BY <1>1, <1>4
  <2>6. Spread(Line', Moot')
    BY <1>1, <2>3
  <2>. QED  BY <2>4, <2>5, <2>6 DEF Lined
<1>8. Waiting'
  <2>1. WaitsInSignals'
    <3>1. ASSUME NEW s \in Names, NEW p \in ToSet(sigwait[s])
          PROVE  p.coro \in Coro /\ p.coro # c
      BY <1>2, <1>3 DEF Waits
    <3>. QED  BY <1>1, <3>1 DEF WaitsInSignals, Good, Waiting
  <2>2. WaitsInJoins'
    <3>1. ASSUME NEW d \in Coro, NEW x \in ToSet(waiters[d])
          PROVE  x \in Coro /\ x # c
      BY <1>3, PlaceTypes DEF Waits, Awaits
    <3>. QED  BY <1>1, <3>1 DEF WaitsInJoins, Good, Waiting
  <2>3. WaitsInCalls'
    <3>1. ASSUME NEW d \in Coro, caller[d] # None
          PROVE  caller[d] \in Coro /\ caller[d] # c
      BY <1>3, <3>1, PlaceTypes DEF Waits, Awaits
    <3>. QED  BY <1>1, <3>1 DEF WaitsInCalls, Good, Waiting, CoroOp
  <2>4. WaitsToSignal'
    <3>1. ASSUME NEW s \in Names, signals[s] # NoPair
          PROVE  signals[s].coro \in Coro /\ signals[s].coro # c
      BY <1>3, <3>1, PlaceTypes DEF Waits
    <3>2. NoPair' = NoPair
      BY DEF NoPair, Pair, NoOp
    <3>. QED  BY <1>1, <3>1, <3>2 DEF WaitsToSignal, Good, Waiting
  <2>5. WaitsForTime'
    <3>1. ASSUME NEW e \in timeouts'
          PROVE  /\ e \in timeouts /\ e.op.c \in Coro /\ e.op.c # c /\ Pair(e.op, e.op.c).coro # c
      BY PlaceTypes DEF Pair
    <3>. QED  BY <1>1, <3>1 DEF WaitsForTime, Good, Waiting
  <2>. QED  BY <2>1, <2>2, <2>3, <2>4, <2>5 DEF Waiting
<1>9. Timed'
  <2>1. ASSUME NEW p \in TaskType, p.coro # c, TimedPair(p)
        PROVE  TimedPair(p)'
    BY <2>1 DEF TimedPair
  <2>2. ASSUME NEW p \in Handed', p.op.at # 0
        PROVE  TimedPair(p)'
    BY <1>1, <1>2, <1>6, <2>1, <2>2 DEF Good, Timed
  <2>3. ASSUME NEW s \in Names, NEW p \in ToSet(sigwait[s]), p.op.at # 0
        PROVE  TimedPair(p)'
    BY <1>2, <1>3, <2>1, <2>3 DEF Good, Timed, Waits
  <2>. QED  BY <1>1, <2>2, <2>3 DEF Good, Timed
<1>10. Answered'
  <2>1. ASSUME NEW p \in Handed', Alive(p.coro)', p.op # TimeoutExc
        PROVE  /\ p \in Handed /\ p.coro \in Coro /\ p.coro # c /\ Alive(p.coro) 
               /\ pend'[p.coro] = pend[p.coro] /\ pend[p.coro] \in OpType
    BY <1>1, <1>2, <2>1, PlaceTypes
  <2>2. ASSUME NEW p \in Handed', Alive(p.coro)', p.op # TimeoutExc
        PROVE  /\ pend[p.coro].k = "join" => state'[pend[p.coro].arg] \in EndStates
               /\ pend[p.coro].k = "coro" => state'[pend[p.coro].c] \in EndStates
               /\ pend[p.coro].k = "sleep" => pend[p.coro].at <= clock
    BY <2>1, <2>2, PlaceTypes DEF Good, Answered
  <2>. QED  BY <2>1, <2>2 DEF Answered, TimeoutExc, NoOp
<1>. QED  BY <1>7, <1>8, <1>9, <1>10 DEF Good

\* The timer of a coroutine that is in line is that of the operation it is handed.
LEMMA OwnTimer ==
  ASSUME TypeOK, Good, phase = "run", NEW e \in timeouts, e.op.c = cur.coro
  PROVE  e.op = cur.op
<1>1. /\ cur \in Handed /\ cur \in TaskType /\ Handed = ToSet(active) \cup {cur}
      /\ Line = <<cur>> \o active /\ active \in Seq(TaskType) /\ cur.coro \in Coro
  BY PlaceTypes DEF Handed, Line, TypeOK, LoopTypeOK
<1>2. ~Waits(cur.coro)
  BY <1>1 DEF Good, Lined
<1>3. /\ e.op.k \in {"join", "sleep", "wait"}
      /\ e.op.k = "wait" => e.op.arg \in Names
      /\ Pair(e.op, e.op.c).coro = cur.coro /\ Pair(e.op, e.op.c).op = e.op
  BY PlaceTypes DEF Pair
<1>4. e.op.k = "wait" /\ Pair(e.op, e.op.c) \in Handed
  <2>1. e.op.k # "sleep"
    BY <1>2 DEF Waits
  <2>2. e.op.k # "join"
    BY <1>1, <1>2 DEF Waits, Awaits, Good, Waiting, WaitsForTime
  <2>3. e.op.arg \in Names => Pair(e.op, e.op.c) \notin ToSet(sigwait[e.op.arg])
    BY <1>2, <1>3 DEF Waits
  <2>4. e.op.k = "wait" =>
          Pair(e.op, e.op.c) \in Handed \/ Pair(e.op, e.op.c) \in ToSet(sigwait[e.op.arg])
    BY DEF Good, Waiting, WaitsForTime
  <2>. QED  BY <1>3, <2>1, <2>2, <2>3, <2>4
<1>5. \A q \in ToSet(active) : q.coro = cur.coro => q.op = TimeoutExc
  BY <1>1, HeadSpread DEF Good, Lined
<1>. QED  BY <1>1, <1>3, <1>4, <1>5, OwnOps

\* If finalize does not raise, the pair is the only one of its coroutine, and its
\* timer, if it has one, is the one that is removed.
LEMMA Finalizing ==
  ASSUME TypeOK, Good, phase = "run", Alive(cur.coro), NEW h \in Finalized(cur.op)
  PROVE  /\ \A p \in ToSet(active) : p.coro # cur.coro
         /\ h \subseteq timeouts
         /\ \A e \in h : e.op.c # cur.coro
         /\ \A e \in timeouts : e \notin h => e.op.c = cur.coro
<1>1. /\ cur \in Handed /\ cur \in TaskType
      /\ Line = <<cur>> \o active /\ active \in Seq(TaskType)
  BY PlaceTypes DEF Handed, Line, TypeOK, LoopTypeOK
<1>2. cur \notin Moot
  <2>1. ASSUME Doomed(cur.op)
        PROVE  FALSE
    <3>1. {x \in timeouts : x.op.at = cur.op.at} = {}
      BY <2>1 DEF Doomed
    <3>. QED  BY <2>1, <3>1 DEF Finalized, Doomed
  <2>. QED  BY <2>1 DEF Moot
<1>3. \A p \in ToSet(active) : p.coro # cur.coro
  BY <1>1, <1>2, HeadSpread DEF Good, Lined
<1>4. \A e \in timeouts : e.op.at # 0 /\ (e.op.c = cur.coro => e.op = cur.op)
  BY OwnTimer DEF Good, Timed
<1>5. CASE cur.op.at = 0 \/ cur.op.k = "sleep"
  <2>1. h = timeouts
    BY <1>5 DEF Finalized
  <2>2. \A e \in timeouts : e.op.c # cur.coro
    <3>1. ASSUME NEW e \in timeouts, e.op.c = cur.coro
          PROVE  FALSE
      <4>1. e.op = cur.op /\ e.op.k = "sleep"
        BY <1>4, <1>5, <3>1
      <4>. QED  BY <1>1, <3>1, <4>1 DEF Good, Lined, Waits
    <3>. QED  BY <3>1
  <2>. QED  BY <1>3, <2>1, <2>2
<1>6. CASE ~(cur.op.at = 0 \/ cur.op.k = "sleep")
  <2>1. PICK e \in timeouts : e.op.at = cur.op.at /\ h = Retired(timeouts \ {e}, cur.op)
    BY <1>6 DEF Finalized
  <2>2. e.op = cur.op /\ cur.op.c = cur.coro
    BY <1>1, <1>6, <2>1 DEF Good, Timed, TimedPair
  <2>3. \A f \in timeouts \ {e} : f.op.c # cur.coro
    BY <1>4, <2>1, <2>2 DEF Good, Timed
  <2>4. h = timeouts \ {e}
    BY <2>1, <2>2, <2>3 DEF Retired, SameOp
  <2>. QED  BY <1>3, <2>2, <2>3, <2>4
<1>. QED  BY <1>5, <1>6

\* The deadline of an operation that is created lies ahead, and is its own.
LEMMA OwnDeadline ==
  ASSUME Untied, clock \in Nat, NEW at \in Deadlines, at # 0
  PROVE  at > clock /\ \A e \in timeouts : e.op.at # at
<1>1. PICK d \in Delays : at = Deadline(d) /\ (Ties \/ at = 0 \/ \A e \in timeouts : e.op.at # at)
  BY DEF Deadlines
<1>2. d \in Nat /\ d # 0 /\ at = clock + d
  BY <1>1, DelayAssumption DEF Deadline
<1>. QED  BY <1>1, <1>2 DEF Untied

\* The coroutine comes back with an operation, or ends.
LEMMA ComesBackGood ==
  ASSUME TypeOK, Flow, Good, Untied, phase = "run", cur.coro \in Coro, UNCHANGED coVars,
         NEW op \in OpType, NEW st \in {"running", "completed", "failed"}, ComesBack(op, st)
  PROVE  Good'
<1>. DEFINE c == cur.coro
<1>1. /\ Alive(c) /\ timeouts' \in Finalized(cur.op)
      /\ state' = [StateAfterFinalize EXCEPT ![c] = st]
      /\ cur' = Pair(op, c) /\ phase' = "process" /\ pend' = [pend EXCEPT ![c] = op]
      /\ UNCHANGED <<active, running, clock>>
      /\ op.at # 0 => op.at \in Deadlines /\ op.k \in {"join", "sleep", "wait"}
  BY DEF ComesBack, Comeback
<1>2. cur'.coro = c /\ cur'.op = op /\ cur \in Handed /\ cur \in TaskType
  BY <1>1, PlaceTypes DEF Pair, Handed
<1>3. /\ \A p \in ToSet(active) : p.coro # c
      /\ timeouts' \subseteq timeouts
      /\ \A e \in timeouts' : e.op.c # c
      /\ \A e \in timeouts : e \notin timeouts' => e.op.c = c
  BY <1>1, Finalizing
<1>4. \A x \in Coro : \/ state'[x] = state[x] /\ x # c
                      \/ state[x] \in EndStates /\ state'[x] = "finalized" /\ x # c
                      \/ x = c /\ state'[x] = st
  <2>1. cur.op.k = "coro" => cur.op.c \in Coro /\ state[cur.op.c] \in EndStates
    BY <1>2, PlaceTypes DEF Flow
  <2>. QED  BY <1>1, <2>1 DEF StateAfterFinalize, TypeOK, LoopTypeOK
<1>5. /\ \A x \in Coro \ {c} : pend'[x] = pend[x] /\ (Alive(x)' <=> Alive(x))
      /\ \A x \in Coro : /\ state'[x] = "absent" <=> state[x] = "absent"
                         /\ state[x] \in EndStates => state'[x] \in EndStates
  BY <1>1, <1>4 DEF Alive, EndStates, TypeOK, LoopTypeOK
<1>6. op.at # 0 => op.at > clock /\ \A e \in timeouts' : e.op.at # op.at
  BY <1>1, <1>3, OwnDeadline, PlaceTypes
<1>7. cur'.op.at # 0 => /\ cur'.op.k \in {"wait", "join", "sleep"} /\ cur'.op.at > clock
                        /\ \A e \in timeouts' : e.op.at # cur'.op.at
  BY <1>1, <1>2, <1>6
<1>. HIDE DEF c
<1>. QED  BY <1>1, <1>2, <1>3, <1>5, <1>7, TakenOut DEF c

\* The coroutine is started, or fails because its operation has timed out, or has
\* ended before.
LEMMA TakenOutGood ==
  ASSUME TypeOK, Flow, Good, UNCHANGED coVars, Start \/ FinalizeRaises \/ RunDeadCoro
  PROVE  Good'
<1>1. /\ phase = "run" /\ cur \in TaskType /\ cur.coro \in Coro /\ cur \in Handed
      /\ UNCHANGED <<active, timeouts, clock>>
      /\ active \in Seq(TaskType) /\ Line = <<cur>> \o active
  BY DEF Start, FinalizeRaises, RunDeadCoro, TypeOK, LoopTypeOK, TaskType, Handed, Line
<1>0. PICK c \in Coro : c = cur.coro
  BY <1>1
<1>2. \A p \in ToSet(active) : p.coro = c => cur \in Moot /\ p.op = TimeoutExc
  BY <1>0, <1>1, HeadSpread DEF Good, Lined
<1>3. \A e \in timeouts : e.op.c = c => e.op = cur.op /\ Alive(c)
  BY <1>0, <1>1, OwnTimer DEF Good, Waiting, WaitsForTime
<1>4. CASE Start
  <2>1. /\ state[c] = "need_init" /\ cur.op = NoOp /\ state' = [state EXCEPT ![c] = "running"]
        /\ phase' = "process" /\ UNCHANGED <<cur, pend>>
    BY <1>0, <1>4 DEF Start
  <2>2. /\ \A x \in Coro \ {c} : pend'[x] = pend[x] /\ (Alive(x)' <=> Alive(x))
        /\ \A x \in Coro : /\ state'[x] = "absent" <=> state[x] = "absent"
                           /\ state[x] \in EndStates => state'[x] \in EndStates
    BY <1>1, <2>1 DEF Alive, EndStates, TypeOK, LoopTypeOK
  <2>3. cur \notin Moot
    BY <1>0, <2>1, OwnOps DEF Moot, Doomed, Alive
  <2>4. \A e \in timeouts' : e.op.c # c
    BY <1>1, <1>3, <2>1, PlaceTypes, OwnOps
  <2>5. cur'.op.at = 0 /\ cur'.coro = c
    BY <1>0, <2>1, OwnOps
  <2>. QED  BY <1>0, <1>1, <1>2, <2>1, <2>2, <2>3, <2>4, <2>5, TakenOut
<1>5. CASE FinalizeRaises
  <2>1. /\ Alive(c) /\ Finalized(cur.op) = {} /\ state' = [state EXCEPT ![c] = "failed"]
        /\ cur' = Pair(CoroOp(c), c) /\ phase' = "process" /\ pend' = [pend EXCEPT ![c] = CoroOp(c)]
    BY <1>0, <1>5 DEF FinalizeRaises
  <2>2. /\ \A x \in Coro \ {c} : pend'[x] = pend[x] /\ (Alive(x)' <=> Alive(x))
        /\ \A x \in Coro : /\ state'[x] = "absent" <=> state[x] = "absent"
                           /\ state[x] \in EndStates => state'[x] \in EndStates
        /\ state'[c] = "failed"
    BY <1>1, <2>1 DEF Alive, EndStates, TypeOK, LoopTypeOK
  <2>3. \A e \in timeouts : e.op # cur.op
    BY <2>1 DEF Finalized
  <2>4. \A e \in timeouts' : e.op.c # c
    BY <1>1, <1>3, <2>3
  <2>5. cur'.op.at = 0 /\ cur'.coro = c
    BY <1>0, <2>1, OwnOps DEF Pair
  <2>6. ~Alive(c)'
    BY <2>2 DEF Alive
  <2>7. \A p \in ToSet(active) : p.coro = c => ~Alive(c)' /\ p.op = TimeoutExc
    BY <1>2, <2>6
  <2>. QED  BY <1>0, <1>1, <2>1, <2>2, <2>4, <2>5, <2>7, TakenOut
<1>6. CASE RunDeadCoro
  <2>1. ~Alive(c) /\ phase' = "dead" /\ UNCHANGED <<cur, state, pend>>
    BY <1>0, <1>6 DEF RunDeadCoro
  <2>2. /\ \A x \in Coro : pend'[x] = pend[x] /\ (Alive(x)' <=> Alive(x))
        /\ \A x \in Coro : /\ state'[x] = "absent" <=> state[x] = "absent"
                           /\ state[x] \in EndStates => state'[x] \in EndStates
    BY <2>1 DEF Alive
  <2>3. \A e \in timeouts' : e.op.c # c
    BY <1>1, <1>3, <2>1
  <2>4. \A p \in ToSet(active) : p.coro = c => ~Alive(c)' /\ p.op = TimeoutExc
    BY <1>0, <1>2, <2>1, <2>2
  <2>. QED  BY <1>0, <1>1, <2>1, <2>2, <2>3, <2>4, TakenOut
<1>. QED  BY <1>4, <1>5, <1>6

-----------------------------------------------------------------------------
(***************************************************************************)
(* Pairs are handed out: queued, or run at once.                           *)
(***************************************************************************)
\* Who waits lives.
LEMMA WaitersLive ==
  ASSUME TypeOK, Waiting, NEW c \in Coro, Waits(c)
  PROVE  Alive(c)
BY PlaceTypes
DEF Waits, Awaits, Waiting, WaitsInSignals, WaitsInJoins, WaitsInCalls, WaitsToSignal, WaitsForTime

\* A pair whose timer is there, or over, stays one when timers that are due are
\* removed and the one of the operation that is processed is set.
LEMMA StillTimedPair ==
  ASSUME TypeOK, Good, clock' = clock, NEW p \in TaskType, TimedPair(p),
         \A e \in timeouts' :
           \/ e \in timeouts
           \/ phase = "process" /\ cur.op.at # 0 /\ e = [op |-> cur.op, live |-> TRUE],
         \A e \in timeouts : e \notin timeouts' => e.op.at <= clock
  PROVE  TimedPair(p)'
<1>1. p.op.at \in Nat /\ p.op.k \in {"sleep", "wait"} /\ p.op.c = p.coro
  BY PlaceTypes DEF TimedPair
<1>2. p.op.at > clock => p.op.k = "wait" /\ \E e \in timeouts' : e.op.at = p.op.at
  <2>1. p.op.at > clock => p.op.k = "wait" /\ \E e \in timeouts : e.op.at = p.op.at
    BY DEF TimedPair
  <2>2. \A e \in timeouts : e.op.at = p.op.at /\ p.op.at > clock => e \in timeouts'
    BY <1>1, PlaceTypes
  <2>. QED  BY <2>1, <2>2
<1>3. ASSUME NEW e \in timeouts', e.op.at = p.op.at
      PROVE  e.op = p.op
  <2>1. CASE e \in timeouts
    BY <1>3, <2>1 DEF TimedPair
  <2>2. CASE phase = "process" /\ cur.op.at # 0 /\ e = [op |-> cur.op, live |-> TRUE]
    <3>1. p.op.at = cur.op.at /\ p.op.at > clock /\ \A f \in timeouts : f.op.at # p.op.at
      BY <1>3, <2>2 DEF Good, Timed
    <3>. QED  BY <3>1 DEF TimedPair
  <2>. QED  BY <2>1, <2>2
<1>. QED  BY <1>1, <1>2, <1>3 DEF TimedPair

\* What is in line stays there, with new pairs of coroutines that do not wait
\* any more; timers are removed when they are due, and one may be set.
LEMMA HandsOut ==
  ASSUME TypeOK, Good, NEW new \in SUBSET TaskType, Handed' = Handed \cup new,
         UNCHANGED <<clock, pend>>, phase' # "process", phase' = "run" \/ cur' = NoPair,
         \A x \in Coro : state'[x] = state[x] \/ (state[x] = "absent" /\ state'[x] = "need_init"),
         Spread(Line', Moot'),
         \A p \in Handed : ~Waits(p.coro)',
         \A p \in new : Alive(p.coro)' /\ ~Waits(p.coro)',
         \A e \in timeouts' :
           \/ e \in timeouts
           \/ phase = "process" /\ cur.op.at # 0 /\ e = [op |-> cur.op, live |-> TRUE],
         \A e \in timeouts : e \notin timeouts' => e.op.at <= clock,
         \A p \in new : p.op.at # 0 => TimedPair(p)',
         \A s \in Names : \A p \in ToSet(sigwait'[s]) :
           p \in ToSet(sigwait[s]) \/ p.op.at = 0 \/ TimedPair(p)',
         \A p \in new : p.op # TimeoutExc =>
           /\ pend[p.coro].k = "join" => state'[pend[p.coro].arg] \in EndStates
           /\ pend[p.coro].k = "coro" => state'[pend[p.coro].c] \in EndStates
           /\ pend[p.coro].k = "sleep" => pend[p.coro].at <= clock
  PROVE  Lined' /\ Timed' /\ Answered'
<1>1. /\ Handed \subseteq TaskType /\ clock \in Nat
      /\ \A p \in TaskType : p.op \in OpType /\ p.coro \in Coro
      /\ \A c \in Coro : /\ Alive(c) => Alive(c)'
                         /\ state[c] # "absent" => (Alive(c)' <=> Alive(c)) /\ state'[c] # "absent"
                         /\ state[c] \in EndStates => state'[c] \in EndStates
  BY PlaceTypes DEF Alive, EndStates
<1>2. Lined'
  <2>1. \A p \in Handed : /\ ~Waits(p.coro)' /\ state'[p.coro] # "absent"
                          /\ ~Alive(p.coro)' => p.op = TimeoutExc
    BY <1>1 DEF Good, Lined
  <2>2. \A p \in new : ~Waits(p.coro)' /\ Alive(p.coro)' /\ state'[p.coro] # "absent"
    BY DEF Alive
  <2>3. TimeoutExc' = TimeoutExc /\ NoPair' = NoPair
    BY DEF TimeoutExc, NoOp, NoPair, Pair
  <2>. QED  BY <2>1, <2>2, <2>3 DEF Lined
<1>3. Timed'
  <2>1. ASSUME NEW p \in TaskType, TimedPair(p)
        PROVE  TimedPair(p)'
    BY <2>1, StillTimedPair
  <2>2. ASSUME NEW p \in Handed', p.op.at # 0
        PROVE  TimedPair(p)'
    BY <1>1, <2>1, <2>2 DEF Good, Timed
  <2>3. ASSUME NEW s \in Names, NEW p \in ToSet(sigwait'[s]), p.op.at # 0
        PROVE  TimedPair(p)'
    <3>1. p \in ToSet(sigwait[s]) => p \in TaskType
      BY PlaceTypes
    <3>. QED  BY <2>1, <2>3, <3>1 DEF Good, Timed
  <2>4. ASSUME NEW e \in timeouts', NEW f \in timeouts', e.op.at = f.op.at
        PROVE  e = f
    <3>. DEFINE fresh == [op |-> cur.op, live |-> TRUE]
    <3>1. \A x \in timeouts : phase = "process" /\ cur.op.at # 0 => x.op.at # cur.op.at
      BY DEF Good, Timed
    <3>2. fresh.op = cur.op
      OBVIOUS
    <3>3. /\ e \in timeouts \/ (phase = "process" /\ cur.op.at # 0 /\ e = fresh)
          /\ f \in timeouts \/ (phase = "process" /\ cur.op.at # 0 /\ f = fresh)
      OBVIOUS
    <3>4. e \in timeouts /\ f \in timeouts => e = f
      BY <2>4 DEF Good, Timed
    <3>. HIDE DEF fresh
    <3>. QED  BY <2>4, <3>1, <3>2, <3>3, <3>4
  <2>5. \A e \in timeouts' : e.op.at # 0
    BY DEF Good, Timed
  <2>. QED  BY <2>2, <2>3, <2>4, <2>5 DEF Timed
<1>4. Answered'
  <2>1. ASSUME NEW p \in Handed', Alive(p.coro)', p.op # TimeoutExc
        PROVE  /\ pend[p.coro].k = "join" => state'[pend[p.coro].arg] \in EndStates
               /\ pend[p.coro].k = "coro" => state'[pend[p.coro].c] \in EndStates
               /\ pend[p.coro].k = "sleep" => pend[p.coro].at <= clock
    <3>1. CASE p \in new
      BY <2>1, <3>1
    <3>2. CASE p \in Handed
      <4>1. p.coro \in Coro /\ pend[p.coro] \in OpType /\ Alive(p.coro)
        BY <1>1, <2>1, <3>2, PlaceTypes DEF Good, Lined
      <4>2. /\ pend[p.coro].k = "join" => state[pend[p.coro].arg] \in EndStates
            /\ pend[p.coro].k = "coro" => state[pend[p.coro].c] \in EndStates
            /\ pend[p.coro].k = "sleep" => pend[p.coro].at <= clock
        BY <2>1, <3>2, <4>1 DEF Good, Answered
      <4>. QED  BY <1>1, <4>1, <4>2, PlaceTypes
    <3>. QED  BY <2>1, <3>1, <3>2
  <2>2. TimeoutExc' = TimeoutExc
    BY DEF TimeoutExc, NoOp
  <2>. QED  BY <2>1, <2>2 DEF Answered
<1>. QED  BY <1>2, <1>3, <1>4

\* What is waited in stays as it was.
LEMMA StillWaiting ==
  ASSUME TypeOK, Waiting, UNCHANGED <<pend, coVars>>, Handed \subseteq Handed',
         timeouts' \subseteq timeouts, \A c \in Coro : Alive(c) => Alive(c)'
  PROVE  Waiting' /\ \A c \in Coro : Waits(c)' => Waits(c)
<1>1. /\ UNCHANGED <<caller, waiters, sigwait, signals>>
      /\ \A p \in TaskType : p.coro \in Coro
      /\ NoPair' = NoPair
  BY PlaceTypes DEF coVars, NoPair, Pair, NoOp
<1>2. WaitsInSignals'
  BY <1>1, PlaceTypes DEF Waiting, WaitsInSignals
<1>3. WaitsInJoins'
  BY <1>1, PlaceTypes DEF Waiting, WaitsInJoins
<1>4. WaitsInCalls'
  BY <1>1, PlaceTypes DEF Waiting, WaitsInCalls, CoroOp
<1>5. WaitsToSignal'
  BY <1>1, PlaceTypes DEF Waiting, WaitsToSignal
<1>6. WaitsForTime'
  BY <1>1, PlaceTypes DEF Waiting, WaitsForTime
<1>7. \A c \in Coro : Waits(c)' => Waits(c)
  BY <1>1 DEF Waits, Awaits
<1>. QED  BY <1>2, <1>3, <1>4, <1>5, <1>6, <1>7 DEF Waiting

\* Scheduler.add queues an instance that was not there.
LEMMA SpawnGood ==
  ASSUME TypeOK, Flow, Good, Spawn
  PROVE  Good'
<1>1. PICK d \in Absent :
        /\ state' = [state EXCEPT ![d] = "need_init"]
        /\ active' = Append(active, Pair(NoOp, d))
        /\ UNCHANGED <<timeouts, running, cur, phase, clock, opn, pend, coVars>>
        /\ phase = "run"
  BY DEF Spawn, Does
<1>. DEFINE q == Pair(NoOp, d)
<1>2. /\ d \in Coro /\ state[d] = "absent" /\ q \in TaskType /\ q.coro = d /\ q.op = NoOp
      /\ cur \in TaskType /\ active \in Seq(TaskType) /\ Handed \subseteq TaskType
  BY <1>1, PlainOps, PairTypes, PlaceTypes DEF Absent, TypeOK, LoopTypeOK
<1>. HIDE DEF q
<1>3. /\ Handed' = Handed \cup {q} /\ Line \in Seq(TaskType) /\ Line' = Append(Line, q)
      /\ ToSet(Line) = Handed
  <2>1. ToSet(Append(active, q)) = ToSet(active) \cup {q}
    BY <1>2, Members
  <2>2. <<cur>> \o Append(active, q) = Append(<<cur>> \o active, q)
    BY <1>2
  <2>. QED  BY <1>1, <2>1, <2>2, LineIsHanded DEF Handed, Line, q, TypeOK
<1>4. \A x \in Coro : /\ state'[x] = state[x] \/ (state[x] = "absent" /\ state'[x] = "need_init")
                      /\ Alive(x) => Alive(x)'
                      /\ x # d => (Alive(x)' <=> Alive(x))
  BY <1>1, <1>2 DEF TypeOK, LoopTypeOK, Alive
<1>5. Waiting' /\ \A c \in Coro : Waits(c)' => Waits(c)
  BY <1>1, <1>3, <1>4, StillWaiting DEF Good
<1>6. Alive(d)' /\ ~Waits(d)'
  BY <1>1, <1>2, <1>5, WaitersLive DEF Good, Alive, TypeOK, LoopTypeOK
<1>7. \A p \in Handed : p.coro # d /\ p.coro \in Coro /\ ~Waits(p.coro)'
  BY <1>2, <1>5 DEF Good, Lined, TaskType
<1>8. Spread(Line', Moot')
  <2>1. Moot \cap ToSet(Line) \subseteq Moot'
    BY <1>1, <1>3, <1>4, <1>7 DEF Moot, Doomed
  <2>2. Spread(Line, Moot')
    BY <1>3, <2>1, SpreadMore DEF Good, Lined
  <2>. QED  BY <1>2, <1>3, <1>7, <2>2, AppendSpread
<1>9. Lined' /\ Timed' /\ Answered'
  <2>1. q.op.at = 0 /\ pend[q.coro].k = "none"
    BY <1>2, OwnOps DEF Flow
  <2>2. {q} \in SUBSET TaskType /\ UNCHANGED <<clock, pend>> /\ phase' = "run"
    BY <1>1, <1>2
  <2>3. /\ \A p \in {q} : Alive(p.coro)' /\ ~Waits(p.coro)'
        /\ \A p \in {q} : p.op.at = 0 /\ pend[p.coro].k = "none"
    BY <1>2, <1>6, <2>1
  <2>4. /\ timeouts' = timeouts
        /\ \A s \in Names : \A p \in ToSet(sigwait'[s]) : p \in ToSet(sigwait[s])
    BY <1>1 DEF coVars
  <2>5. /\ \A p \in Handed : ~Waits(p.coro)'
        /\ \A x \in Coro : state'[x] = state[x] \/ (state[x] = "absent" /\ state'[x] = "need_init")
        /\ Handed' = Handed \cup {q}
    BY <1>3, <1>4, <1>7
  <2>. QED  BY <1>8, <2>2, <2>3, <2>4, <2>5, HandsOut
<1>. QED  BY <1>5, <1>9 DEF Good

\* The steps in which nothing is handed out.
LEMMA Turn ==
  ASSUME TypeOK, Good, UNCHANGED <<timeouts, clock, state, pend, coVars>>,
         Line' = Line, Handed' = Handed, phase' # "process", phase' = "run" \/ cur' = NoPair
  PROVE  Good'
<1>1. Waiting' /\ \A c \in Coro : Waits(c)' => Waits(c)
  BY StillWaiting DEF Good, Alive
<1>2. Spread(Line', Moot')
  BY DEF Good, Lined, Moot, Doomed, Alive
<1>3. /\ \A p \in Handed : ~Waits(p.coro)'
      /\ \A s \in Names : \A p \in ToSet(sigwait'[s]) : p \in ToSet(sigwait[s])
  BY <1>1, PlaceTypes DEF Good, Lined, coVars
<1>4. Lined' /\ Timed' /\ Answered'
  <2>1. {} \in SUBSET TaskType /\ Handed' = Handed \cup {}
    OBVIOUS
  <2>2. \A x \in Coro : state'[x] = state[x] \/ (state[x] = "absent" /\ state'[x] = "need_init")
    OBVIOUS
  <2>. QED  BY <1>2, <1>3, <2>1, <2>2, HandsOut
<1>. QED  BY <1>1, <1>4 DEF Good

\* Time passes.
LEMMA TickGood ==
  ASSUME TypeOK, Good, Tick, UNCHANGED coVars
  PROVE  Good'
<1>1. /\ phase \in {"pick", "run"} /\ clock' = clock + 1 /\ clock \in Nat
      /\ UNCHANGED <<active, timeouts, cur, phase, state, pend, caller, waiters, sigwait, signals>>
  BY PlaceTypes DEF Tick, coVars
<1>2. /\ Handed' = Handed /\ Line' = Line /\ Handed \subseteq TaskType
      /\ Line \in Seq(TaskType)
      /\ \A c \in Coro : Alive(c)' <=> Alive(c)
  BY <1>1, LineIsHanded DEF Handed, Line, Alive, TypeOK
<1>3. Waiting' /\ \A c \in Coro : Waits(c)' => Waits(c)
  BY <1>1, <1>2, StillWaiting DEF Good
<1>4. Lined'
  <2>1. ASSUME NEW p \in Moot
        PROVE  p \in Moot'
    <3>1. p \in TaskType /\ p.op.at \in Nat /\ p.coro \in Coro
      BY PlaceTypes DEF Moot
    <3>. QED  BY <1>1, <1>2, <3>1 DEF Moot, Doomed
  <2>2. Spread(Line', Moot')
    BY <1>2, <2>1, SpreadMore DEF Good, Lined
  <2>3. \A p \in Handed : p.coro \in Coro
    BY <1>2, PlaceTypes
  <2>4. phase # "run" => cur = NoPair \/ cur.coro \in Coro
    BY PlaceTypes DEF TypeOK, LoopTypeOK
  <2>. QED  BY <1>1, <1>2, <1>3, <2>2, <2>3, <2>4 DEF Good, Lined, NoPair, Pair, NoOp
<1>5. Timed'
  <2>1. ASSUME NEW p \in TaskType, TimedPair(p)
        PROVE  TimedPair(p)'
    <3>1. p.op.at \in Nat
      BY PlaceTypes
    <3>. QED  BY <1>1, <2>1, <3>1 DEF TimedPair
  <2>2. \A s \in Names : ToSet(sigwait[s]) \subseteq TaskType
    BY PlaceTypes
  <2>. QED  BY <1>1, <1>2, <2>1, <2>2 DEF Good, Timed
<1>6. Answered'
  <2>1. ASSUME NEW p \in Handed
        PROVE  p.coro \in Coro /\ pend[p.coro].at \in Nat
    BY <1>2, PlaceTypes
  <2>. QED  BY <1>1, <1>2, <2>1 DEF Good, Answered, TimeoutExc, NoOp
<1>. QED  BY <1>3, <1>4, <1>5, <1>6 DEF Good

\* Nothing changes, or the loop dies.
LEMMA SameGood ==
  ASSUME TypeOK, Good, UNCHANGED <<active, timeouts, cur, clock, state, pend, coVars>>,
         phase' = phase \/ (phase = "process" /\ phase' = "dead")
  PROVE  Good'
<1>1. UNCHANGED <<caller, waiters, sigwait, signals>>
  BY DEF coVars
<1>2. Handed' = Handed /\ Line' = Line /\ Moot' = Moot
  BY DEF Handed, Line, Moot, Doomed, Alive
<1>3. Waiting' /\ \A c : Waits(c)' <=> Waits(c)
  <2>1. Waiting'
    BY <1>2, StillWaiting DEF Good, Alive
  <2>. QED  BY <1>1, <2>1 DEF Waits, Awaits
<1>4. Lined'
  BY <1>2, <1>3 DEF Good, Lined, Alive, NoPair, Pair, NoOp, TimeoutExc
<1>5. Timed'
  BY <1>1, <1>2 DEF Good, Timed, TimedPair
<1>6. Answered'
  BY <1>1, <1>2 DEF Good, Answered, Alive, TimeoutExc, NoOp
<1>. QED  BY <1>3, <1>4, <1>5, <1>6 DEF Good

\* The loop turns.
LEMMA TurnGood ==
  ASSUME TypeOK, Flow, Good, UNCHANGED coVars, Pick \/ IdleTurn \/ Leave \/ DropStale \/ EndTimers
  PROVE  Good'
<1>1. phase \in {"pick", "timers"} /\ cur = NoPair
  BY DEF Pick, IdleTurn, Leave, DropStale, EndTimers, Flow
<1>2. CASE Pick
  <2>1. /\ active \in Seq(TaskType) /\ active # <<>> /\ cur' = Head(active) /\ active' = Tail(active)
        /\ phase' = "run" /\ phase = "pick" /\ UNCHANGED <<timeouts, clock, state, pend>>
    BY <1>2 DEF Pick, TypeOK, LoopTypeOK
  <2>2. <<Head(active)>> \o Tail(active) = active /\ Tail(active) \in Seq(TaskType) /\ Head(active) \in TaskType
    BY <2>1
  <2>3. Line' = Line
    BY <2>1, <2>2 DEF Line
  <2>4. Handed' = Handed
    <3>1. ToSet(<<Head(active)>> \o Tail(active)) = ToSet(Tail(active)) \cup {Head(active)}
      BY <2>2, Members
    <3>. QED  BY <2>1, <2>2, <3>1 DEF Handed
  <2>. QED  BY <2>1, <2>3, <2>4, Turn
<1>3. CASE IdleTurn \/ Leave \/ EndTimers
  <2>1. /\ phase # "run" /\ phase' \notin {"run", "process"} /\ cur' = cur
        /\ UNCHANGED <<active, timeouts, clock, state, pend>>
    BY <1>3 DEF IdleTurn, Leave, EndTimers
  <2>2. Line' = Line /\ Handed' = Handed /\ cur' = NoPair
    BY <1>1, <2>1 DEF Line, Handed, NoPair, Pair, NoOp
  <2>. QED  BY <2>1, <2>2, Turn
<1>4. ~DropStale
  BY DEF DropStale, Good, Waiting, WaitsForTime
<1>. QED  BY <1>2, <1>3, <1>4

\* The pairs in the deque are as moot as before when one operation is processed.
LEMMA StillSpread ==
  ASSUME TypeOK, Good, phase \in {"process", "timers"}, clock' = clock,
         \A x \in Coro : state'[x] = state[x] \/ (state[x] = "absent" /\ state'[x] = "need_init"),
         \A e \in timeouts' :
           \/ e \in timeouts
           \/ phase = "process" /\ cur.op.at # 0 /\ e = [op |-> cur.op, live |-> TRUE]
  PROVE  Handed = ToSet(active) /\ Spread(active, Moot) /\ Spread(active, Moot')
<1>1. Handed = ToSet(active) /\ Line = active /\ active \in Seq(TaskType) /\ Handed \subseteq TaskType
  BY PlaceTypes DEF Handed, Line
<1>2. ASSUME NEW p \in Moot \cap Handed
      PROVE  p \in Moot'
  <2>1. p \in TaskType /\ p.coro \in Coro /\ state[p.coro] # "absent" /\ p.op.at \in Nat /\ clock \in Nat
    BY <1>1, PlaceTypes DEF Good, Lined
  <2>2. CASE ~Alive(p.coro)
    <3>1. ~Alive(p.coro)'
      BY <2>1, <2>2 DEF Alive
    <3>. QED  BY <2>1, <3>1 DEF Moot
  <2>3. CASE Doomed(p.op)
    <3>1. ASSUME NEW e \in timeouts'
          PROVE  e.op.at # p.op.at
      <4>1. CASE e \in timeouts
        BY <2>3, <4>1 DEF Doomed
      <4>2. CASE phase = "process" /\ cur.op.at # 0 /\ e = [op |-> cur.op, live |-> TRUE]
        <5>1. cur.op.at > clock /\ e.op = cur.op
          BY <4>2 DEF Good, Timed
        <5>2. p.op.at <= clock
          BY <2>3 DEF Doomed
        <5>. QED  BY <2>1, <5>1, <5>2
      <4>. QED  BY <4>1, <4>2
    <3>. QED  BY <2>1, <2>3, <3>1 DEF Moot, Doomed
  <2>. QED  BY <2>2, <2>3 DEF Moot
<1>. QED  BY <1>1, <1>2, SpreadMore DEF Good, Lined

\* Who yields an operation is nowhere else while it is processed.
LEMMA ProcessedAlone ==
  ASSUME TypeOK, Good, phase = "process"
  PROVE  /\ cur \in TaskType /\ cur.coro \in Coro /\ ~Waits(cur.coro)
         /\ Alive(cur.coro) => cur.coro \notin Coros(active)
<1>1. cur \in TaskType /\ cur.coro \in Coro /\ cur # NoPair /\ Handed = ToSet(active)
  BY PlaceTypes DEF TypeOK, LoopTypeOK, Handed
<1>. QED  BY <1>1, CorosOf DEF Good, Lined

\* A bare yield puts the coroutine behind the others, or lets it go on.
LEMMA ProcessNoneGood ==
  ASSUME TypeOK, Flow, Good, ProcessNone, UNCHANGED coVars
  PROVE  Good'
<1>1. /\ phase = "process" /\ cur.op = NoOp /\ UNCHANGED <<timeouts, running, clock, state, pend>>
      /\ \/ active' = Append(active, cur) /\ cur' = NoPair /\ phase' = "timers"
         \/ active = <<>> /\ active' = active /\ cur' = cur /\ phase' = "run"
  BY ProcessedAlone, CoroAssumption DEF ProcessNone, Continue, NoPair, Pair
<1>2. /\ cur \in TaskType /\ cur.coro \in Coro /\ ~Waits(cur.coro) /\ Alive(cur.coro)
      /\ cur.coro \notin Coros(active) /\ pend[cur.coro] = NoOp /\ active \in Seq(TaskType)
  <2>1. Yielded /\ cur.op # CoroOp(cur.coro)
    BY <1>1, OwnOps DEF Flow
  <2>. QED  BY <1>1, <2>1, ProcessedAlone, PlaceTypes DEF Yielded
<1>3. Handed = ToSet(active) /\ Spread(active, Moot')
  BY <1>1, StillSpread
<1>4. Handed' = Handed \cup {cur} /\ Spread(Line', Moot')
  <2>1. CASE active' = Append(active, cur) /\ cur' = NoPair /\ phase' = "timers"
    <3>1. ToSet(Append(active, cur)) = ToSet(active) \cup {cur}
      BY <1>2, Members
    <3>2. \A q \in ToSet(active) : q.coro # cur.coro
      BY <1>2, CorosOf
    <3>3. Spread(Append(active, cur), Moot')
      BY <1>2, <1>3, <3>2, AppendSpread
    <3>. QED  BY <1>3, <2>1, <3>1, <3>3 DEF Handed, Line
  <2>2. CASE active' = active /\ cur' = cur /\ phase' = "run"
    <3>1. Spread(<<cur>> \o active, Moot')
      BY <1>2, <1>3, ConsSpread
    <3>. QED  BY <1>3, <2>2, <3>1 DEF Handed, Line
  <2>. QED  BY <1>1, <2>1, <2>2
<1>5. Waiting' /\ \A c \in Coro : Waits(c)' => Waits(c)
  <2>1. \A c \in Coro : Alive(c) => Alive(c)'
    BY <1>1 DEF Alive
  <2>. QED  BY <1>1, <1>4, <2>1, StillWaiting DEF Good
<1>6. Lined' /\ Timed' /\ Answered'
  <2>1. {cur} \in SUBSET TaskType /\ UNCHANGED <<clock, pend>> /\ phase' # "process"
        /\ (phase' = "run" \/ cur' = NoPair)
    BY <1>1, <1>2
  <2>2. \A x \in Coro : state'[x] = state[x] \/ (state[x] = "absent" /\ state'[x] = "need_init")
    BY <1>1
  <2>3. /\ \A p \in {cur} : ~Waits(p.coro)' /\ p.op.at = 0 /\ pend[p.coro].k = "none"
        /\ \A p \in Handed : ~Waits(p.coro)'
    BY <1>1, <1>2, <1>5, PlaceTypes, OwnOps DEF Good, Lined
  <2>4. \A x \in Coro : Alive(x) => Alive(x)'
    BY <1>1 DEF Alive
  <2>5. \A p \in {cur} : Alive(p.coro)'
    BY <1>2, <2>4
  <2>6. /\ timeouts' = timeouts
        /\ \A s \in Names : \A p \in ToSet(sigwait'[s]) : p \in ToSet(sigwait[s])
    BY <1>1 DEF coVars
  <2>. QED  BY <1>4, <2>1, <2>2, <2>3, <2>5, <2>6, HandsOut
<1>. QED  BY <1>5, <1>6 DEF Good

\* An operation is waited in at one place: the last operation tells which.
LEMMA WhereWaits ==
  ASSUME TypeOK, Flow, Waiting, NEW c \in Coro
  PROVE  /\ \A s \in Names : \A p \in ToSet(sigwait[s]) :
              p.coro = c => p.op = pend[c] /\ pend[c].k = "wait" /\ pend[c].arg = s
         /\ \A d \in Coro : caller[d] = c => pend[c].k = "coro" /\ pend[c].c = d
         /\ \A d \in Coro : c \in ToSet(waiters[d]) =>
              pend[c].k = "join" /\ d = IF pend[c].at = 0 THEN pend[c].arg ELSE c
         /\ \A s \in Names : signals[s].coro = c => pend[c].k = "signal" /\ pend[c].arg = s
         /\ \A e \in timeouts : e.op.c = c => pend[c] = e.op
<1>1. ASSUME NEW s \in Names, NEW p \in ToSet(sigwait[s]), p.coro = c
      PROVE  p.op = pend[c] /\ pend[c].k = "wait" /\ pend[c].arg = s
  <2>1. p.op.k = "wait"
    BY DEF Flow, ToSet
  <2>. QED  BY <1>1, <2>1 DEF Waiting, WaitsInSignals
<1>2. ASSUME NEW d \in Coro, caller[d] = c
      PROVE  pend[c].k = "coro" /\ pend[c].c = d
  <2>1. pend[c] = CoroOp(d)
    BY <1>2, PlaceTypes DEF Waiting, WaitsInCalls
  <2>. QED  BY <2>1, OwnOps
<1>3. ASSUME NEW s \in Names, signals[s].coro = c
      PROVE  pend[c].k = "signal" /\ pend[c].arg = s
  BY <1>3, PlaceTypes DEF Waiting, WaitsToSignal
<1>. QED  BY <1>1, <1>2, <1>3 DEF Waiting, WaitsInJoins, WaitsForTime

\* What no operation is taken out of, or put into, is as it was.
LEMMA Remaining ==
  ASSUME TypeOK, Waiting, pend' = pend, \A c \in Coro : Alive(c) => Alive(c)'
  PROVE  /\ sigwait' = sigwait => WaitsInSignals'
         /\ waiters' = waiters => WaitsInJoins'
         /\ caller' = caller => WaitsInCalls'
         /\ signals' = signals => WaitsToSignal'
<1>1. (\A p \in TaskType : p.coro \in Coro) /\ NoPair' = NoPair
  BY PlaceTypes DEF NoPair, Pair, NoOp
<1>2. sigwait' = sigwait => WaitsInSignals'
  BY <1>1, PlaceTypes DEF Waiting, WaitsInSignals
<1>3. waiters' = waiters => WaitsInJoins'
  BY <1>1, PlaceTypes DEF Waiting, WaitsInJoins
<1>4. caller' = caller => WaitsInCalls'
  BY <1>1, PlaceTypes DEF Waiting, WaitsInCalls, CoroOp
<1>5. signals' = signals => WaitsToSignal'
  BY <1>1, PlaceTypes DEF Waiting, WaitsToSignal
<1>. QED  BY <1>2, <1>3, <1>4, <1>5

\* The waiters of a coroutine, or of a name, are queued beside the line.
LEMMA QueuedSpread ==
  ASSUME TypeOK, NEW M, Spread(active, M)
  PROVE  /\ \A t \in Seq(TaskType) : Distinct(t) /\ Coros(t) \cap Coros(active) = {} =>
              Spread(Queued(t), M) /\ Queued(t) \in Seq(TaskType)
         /\ \A sig \in TaskType, W \in Seq(TaskType) :
              /\ Distinct(W) /\ Coros(W) \cap Coros(active) = {}
              /\ sig.coro \notin Coros(active) /\ sig.coro \notin Coros(W)
              => Spread(Delivered(sig, W), M) /\ Delivered(sig, W) \in Seq(TaskType)
<1>1. active \in Seq(TaskType)
  BY PlaceTypes
<1>2. ASSUME NEW t \in Seq(TaskType), Distinct(t), Coros(t) \cap Coros(active) = {}
      PROVE  /\ Spread(Reverse(t) \o active, M) /\ Spread(active \o t, M)
             /\ Reverse(t) \o active \in Seq(TaskType) /\ active \o t \in Seq(TaskType)
             /\ Coros(Reverse(t) \o active) = Coros(t) \cup Coros(active)
             /\ Coros(active \o t) = Coros(t) \cup Coros(active)
  <2>. DEFINE r == Reverse(t)
  <2>1. r \in Seq(TaskType) /\ Coros(r) = Coros(t) /\ Distinct(r)
    BY <1>2, ReverseCoros
  <2>. HIDE DEF r
  <2>2. Spread(r, M) /\ Spread(t, M)
    BY <1>2, <2>1, DistinctSpread
  <2>3. Spread(r \o active, M) /\ Spread(active \o t, M)
    BY <1>1, <1>2, <2>1, <2>2, ConcatSpread
  <2>4. Coros(r \o active) = Coros(r) \cup Coros(active) /\ Coros(active \o t) = Coros(active) \cup Coros(t)
    BY <1>1, <2>1, ConcatCoros
  <2>5. r \o active \in Seq(TaskType) /\ active \o t \in Seq(TaskType)
    BY <1>1, <2>1
  <2>. QED  BY <2>1, <2>3, <2>4, <2>5 DEF r
<1>3. ASSUME NEW t \in Seq(TaskType), Distinct(t), Coros(t) \cap Coros(active) = {}
      PROVE  Spread(Queued(t), M) /\ Queued(t) \in Seq(TaskType)
  BY <1>2, <1>3 DEF Queued
<1>4. ASSUME NEW sig \in TaskType, NEW W \in Seq(TaskType), Distinct(W), Coros(W) \cap Coros(active) = {},
             sig.coro \notin Coros(active), sig.coro \notin Coros(W)
      PROVE  Spread(Delivered(sig, W), M) /\ Delivered(sig, W) \in Seq(TaskType)
  <2>. DEFINE signaller == Pair(NoOp, sig.coro)
              front == Reverse(W) \o active
              behind == active \o W
  <2>1. signaller \in TaskType /\ signaller.coro = sig.coro
    BY PlainOps, PairTypes DEF TaskType
  <2>2. /\ front \in Seq(TaskType) /\ behind \in Seq(TaskType)
        /\ Spread(front, M) /\ Spread(behind, M)
        /\ signaller.coro \notin Coros(front) /\ signaller.coro \notin Coros(behind)
    BY <1>2, <1>4, <2>1
  <2>3. Delivered(sig, W) \in {<<signaller>> \o front, Append(front, signaller),
                               <<signaller>> \o behind, Append(behind, signaller)}
    BY DEF Delivered
  <2>. HIDE DEF front, behind, signaller
  <2>4. ASSUME NEW t \in Seq(TaskType), Spread(t, M), signaller.coro \notin Coros(t)
        PROVE  /\ Spread(<<signaller>> \o t, M) /\ Spread(Append(t, signaller), M)
               /\ <<signaller>> \o t \in Seq(TaskType) /\ Append(t, signaller) \in Seq(TaskType)
    <3>1. \A q \in ToSet(t) : q.coro # signaller.coro
      BY <2>4, CorosOf
    <3>2. Spread(Append(t, signaller), M)
      BY <2>1, <2>4, <3>1, AppendSpread
    <3>3. Spread(<<signaller>> \o t, M)
      BY <2>1, <2>4, ConsSpread
    <3>. QED  BY <2>1, <3>2, <3>3
  <2>. QED  BY <2>2, <2>3, <2>4
<1>. QED  BY <1>3, <1>4

\* process_op leaves the line with new pairs in it.
LEMMA HandsOver ==
  ASSUME TypeOK, Good, phase = "process", NEW a \in Seq(TaskType), NEW p \in TaskType \cup {NoPair},
         Continue(a, p), UNCHANGED <<clock, pend>>, NEW new \in SUBSET TaskType,
         ToSet(a) \cup ({p} \ {NoPair}) = ToSet(active) \cup new,
         Spread(IF p = NoPair THEN a ELSE <<p>> \o a, Moot'),
         \A x \in Coro : state'[x] = state[x] \/ (state[x] = "absent" /\ state'[x] = "need_init"),
         \A x \in Coro : Waits(x)' => Waits(x) \/ (x = cur.coro /\ Alive(cur.coro)),
         \A q \in new : Alive(q.coro)' /\ ~Waits(q.coro)',
         \A e \in timeouts' :
           e \in timeouts \/ (cur.op.at # 0 /\ e = [op |-> cur.op, live |-> TRUE]),
         timeouts \subseteq timeouts',
         \A q \in new : q.op.at # 0 => TimedPair(q)',
         \A s \in Names : \A q \in ToSet(sigwait'[s]) :
           q \in ToSet(sigwait[s]) \/ q.op.at = 0 \/ TimedPair(q)',
         \A q \in new : q.op # TimeoutExc =>
           /\ pend[q.coro].k = "join" => state'[pend[q.coro].arg] \in EndStates
           /\ pend[q.coro].k = "coro" => state'[pend[q.coro].c] \in EndStates
           /\ pend[q.coro].k = "sleep" => pend[q.coro].at <= clock
  PROVE  Lined' /\ Timed' /\ Answered'
<1>1. /\ Handed' = ToSet(a) \cup ({p} \ {NoPair}) /\ active' = a /\ cur' = p
      /\ phase' = IF p = NoPair THEN "timers" ELSE "run"
  BY HandedAfter
<1>2. Handed = ToSet(active) /\ Handed \subseteq TaskType
  BY PlaceTypes DEF Handed
<1>3. Handed' = Handed \cup new
  BY <1>1, <1>2
<1>4. Line' = IF p = NoPair THEN a ELSE <<p>> \o a
  BY <1>1 DEF Line
<1>5. \A q \in Handed : ~Waits(q.coro)'
  BY <1>2, ProcessedAlone, CorosOf, PlaceTypes DEF Good, Lined
<1>6. phase' # "process" /\ (phase' = "run" \/ cur' = NoPair)
  BY <1>1
<1>7. Spread(Line', Moot')
  BY <1>4
<1>. QED  BY <1>3, <1>5, <1>6, <1>7, HandsOut

-----------------------------------------------------------------------------
(***************************************************************************)
(* The process methods of the operations.                                  *)
(***************************************************************************)
\* A call: the callee runs, the caller waits for it.
LEMMA ProcessCallGood ==
  ASSUME TypeOK, Flow, Good, ProcessCall
  PROVE  Good'
<1>1. PICK c \in Coro, d \in Coro :
        /\ c = cur.coro /\ d = cur.op.c /\ d # c /\ cur.op.k = "coro" /\ phase = "process"
        /\ caller' = [caller EXCEPT ![d] = c] /\ state' = [state EXCEPT ![d] = "need_init"]
        /\ Continue(active, Pair(NoOp, d))
        /\ UNCHANGED <<running, clock, opn, pend, timeouts, waiters, sigwait, signals>>
  <2>1. phase = "process" /\ cur.op.k = "coro"
    BY DEF ProcessCall, Processing
  <2>. QED  BY <2>1, ProcessedAlone, PlaceTypes DEF ProcessCall, Processing
<1>2. /\ Yielded /\ cur.op = CoroOp(d) /\ pend[c] = CoroOp(d) /\ Alive(c) /\ state[d] = "absent"
      /\ ~Waits(c) /\ c \notin Coros(active)
  <2>1. Yielded /\ cur.op = CoroOp(d) /\ CoroOp(d) # CoroOp(c)
    BY <1>1, OwnOps DEF Flow, Yielded
  <2>. QED  BY <1>1, <2>1, ProcessedAlone DEF Yielded
<1>. DEFINE p == Pair(NoOp, d)
<1>3. p \in TaskType /\ p.coro = d /\ p.op = NoOp /\ p # NoPair /\ active \in Seq(TaskType)
  BY <1>1, PlainOps, PairTypes, PlaceTypes, CoroAssumption
<1>. HIDE DEF p
<1>4. \A x \in Coro : /\ state'[x] = state[x] \/ (state[x] = "absent" /\ state'[x] = "need_init")
                      /\ Alive(x) => Alive(x)'
  BY <1>1, <1>2 DEF TypeOK, LoopTypeOK, Alive
<1>5. Alive(d)' /\ ~Alive(d) /\ ~Waits(d)
  BY <1>1, <1>2, WaitersLive DEF Good, Alive, TypeOK, LoopTypeOK
<1>6. ASSUME NEW x \in Coro, Waits(x)'
      PROVE  Waits(x) \/ x = c
  <2>1. \A y \in Coro : caller'[y] = x => caller[y] = x \/ x = c
    BY <1>1 DEF TypeOK, CoTypeOK
  <2>. QED  BY <1>1, <1>6, <2>1 DEF Waits, Awaits
<1>7. Handed = ToSet(active) /\ Spread(active, Moot')
  BY <1>1, <1>4, StillSpread
<1>8. d \notin Coros(active)
  BY <1>2, <1>7, CorosOf DEF Good, Lined
<1>9. Lined' /\ Timed' /\ Answered'
  <2>1. Spread(<<p>> \o active, Moot')
    BY <1>3, <1>7, <1>8, ConsSpread
  <2>2. Spread(IF p = NoPair THEN active ELSE <<p>> \o active, Moot')
    BY <1>3, <2>1
  <2>3. ToSet(active) \cup ({p} \ {NoPair}) = ToSet(active) \cup {p} /\ {p} \in SUBSET TaskType
    BY <1>3
  <2>4. \A q \in {p} : /\ Alive(q.coro)' /\ ~Waits(q.coro)' /\ q.op.at = 0 /\ pend[q.coro].k = "none"
    BY <1>1, <1>2, <1>3, <1>5, <1>6, OwnOps DEF Flow
  <2>5. Continue(active, p)
    BY <1>1 DEF p
  <2>6. \A x \in Coro : Waits(x)' => Waits(x) \/ (x = cur.coro /\ Alive(cur.coro))
    BY <1>1, <1>2, <1>6
  <2>. QED  BY <1>1, <1>3, <1>4, <2>2, <2>3, <2>4, <2>5, <2>6, HandsOver
<1>10. Waiting'
  <2>1. WaitsInSignals' /\ WaitsInJoins' /\ WaitsToSignal'
    BY <1>1, <1>4, Remaining DEF Good
  <2>2. WaitsInCalls'
    <3>1. ASSUME NEW y \in Coro, NEW x \in Coro, caller'[y] = x
          PROVE  Alive(x)' /\ pend'[x] = CoroOp(y)
      <4>1. CASE y = d
        <5>1. caller'[y] = c
          BY <1>1, <4>1 DEF TypeOK, CoTypeOK
        <5>. QED  BY <1>1, <1>2, <1>4, <3>1, <4>1, <5>1
      <4>2. CASE y # d
        <5>1. caller[y] = x /\ x # None
          BY <1>1, <3>1, <4>2, CoroAssumption DEF TypeOK, CoTypeOK
        <5>. QED  BY <1>1, <1>4, <5>1 DEF Good, Waiting, WaitsInCalls
      <4>. QED  BY <4>1, <4>2
    <3>2. \A y \in Coro : caller'[y] \in Coro \cup {None}
      BY <1>1 DEF TypeOK, CoTypeOK
    <3>. QED  BY <3>1, <3>2 DEF WaitsInCalls, CoroOp, Alive
  <2>3. Handed \subseteq Handed'
    BY <1>1, <1>7, HandedAfter
  <2>4. WaitsForTime'
    BY <1>1, <1>4, <2>3, PlaceTypes DEF Good, Waiting, WaitsForTime
  <2>. QED  BY <2>1, <2>2, <2>4 DEF Waiting
<1>. QED  BY <1>9, <1>10 DEF Good

\* AddCoro: the new instance is queued, and the adder too, or goes on.
LEMMA ProcessAddGood ==
  ASSUME TypeOK, Flow, Good, ProcessAdd
  PROVE  Good'
<1>. DEFINE new == Pair(NoOp, cur.op.arg)
            back == Pair(NoOp, cur.coro)
            a == IF FavorsOp(cur.op.pr) THEN Append(active, new) ELSE <<new>> \o active
<1>1. /\ phase = "process" /\ cur.op.k = "add" /\ state' = [state EXCEPT ![cur.op.arg] = "need_init"]
      /\ UNCHANGED <<running, clock, opn, pend, timeouts, coVars>>
      /\ IF FavorsCoro(cur.op.pr) THEN Continue(a, cur) ELSE Continue(Append(a, back), NoPair)
  BY DEF ProcessAdd, Processing
<1>2. PICK c \in Coro, d \in Coro : c = cur.coro /\ d = cur.op.arg
  BY <1>1, ProcessedAlone DEF TaskType, OpType
<1>3. /\ pend[c] = cur.op /\ Alive(c) /\ state[d] = "absent" /\ d # c
      /\ ~Waits(c) /\ c \notin Coros(active) /\ cur \in TaskType
      /\ cur.op.at = 0
  <2>1. Yielded /\ cur.op # CoroOp(c)
    BY <1>1, OwnOps DEF Flow
  <2>2. cur.op.at = 0
    BY <1>1 DEF Good, Timed
  <2>. QED  BY <1>1, <1>2, <2>1, <2>2, ProcessedAlone DEF Yielded, Alive
<1>4. /\ new \in TaskType /\ new.coro = d /\ new.op = NoOp /\ active \in Seq(TaskType)
      /\ back \in TaskType /\ back.coro = c /\ back.op = NoOp
  BY <1>2, PlainOps, PairTypes, PlaceTypes
<1>. HIDE DEF new, back
<1>5. \A x \in Coro : /\ state'[x] = state[x] \/ (state[x] = "absent" /\ state'[x] = "need_init")
                      /\ Alive(x) => Alive(x)'
  BY <1>1, <1>2, <1>3 DEF TypeOK, LoopTypeOK, Alive
<1>6. Alive(d)' /\ Alive(c)' /\ ~Alive(d) /\ ~Waits(d)
  BY <1>1, <1>2, <1>3, <1>5, WaitersLive DEF Good, Alive, TypeOK, LoopTypeOK
<1>7. Handed = ToSet(active) /\ Spread(active, Moot')
  BY <1>1, <1>5, StillSpread
<1>8. d \notin Coros(active)
  BY <1>3, <1>7, CorosOf DEF Good, Lined
<1>9. /\ a \in Seq(TaskType) /\ ToSet(a) = ToSet(active) \cup {new} /\ Spread(a, Moot')
      /\ c \notin Coros(a)
  <2>1. Append(active, new) \in Seq(TaskType) /\ <<new>> \o active \in Seq(TaskType)
    BY <1>4
  <2>2. /\ ToSet(Append(active, new)) = ToSet(active) \cup {new}
        /\ ToSet(<<new>> \o active) = ToSet(active) \cup {new}
    BY <1>4, Members
  <2>3. \A q \in ToSet(active) : q.coro # new.coro
    BY <1>4, <1>8, CorosOf
  <2>4. Spread(Append(active, new), Moot')
    BY <1>4, <1>7, <2>3, AppendSpread
  <2>5. Spread(<<new>> \o active, Moot')
    BY <1>4, <1>7, <1>8, ConsSpread
  <2>6. c \notin Coros(Append(active, new)) /\ c \notin Coros(<<new>> \o active)
    BY <1>3, <1>4, <2>2, CorosOf
  <2>. QED  BY <2>1, <2>2, <2>4, <2>5, <2>6
<1>. HIDE DEF a
<1>10. PICK b \in Seq(TaskType), p \in TaskType \cup {NoPair}, mine \in {cur, back} :
         /\ Continue(b, p) /\ ToSet(b) \cup ({p} \ {NoPair}) = ToSet(active) \cup {new, mine}
         /\ Spread(IF p = NoPair THEN b ELSE <<p>> \o b, Moot')
  <2>1. CASE FavorsCoro(cur.op.pr)
    <3>1. Continue(a, cur) /\ cur # NoPair
      BY <1>1, <1>3, <2>1, PlaceTypes
    <3>2. Spread(<<cur>> \o a, Moot')
      BY <1>2, <1>3, <1>9, ConsSpread
    <3>. QED  BY <1>3, <1>9, <3>1, <3>2
  <2>2. CASE ~FavorsCoro(cur.op.pr)
    <3>1. Continue(Append(a, back), NoPair)
      BY <1>1, <2>2
    <3>2. \A q \in ToSet(a) : q.coro # back.coro
      BY <1>4, <1>9, CorosOf
    <3>3. Spread(Append(a, back), Moot') /\ Append(a, back) \in Seq(TaskType)
      BY <1>4, <1>9, <3>2, AppendSpread
    <3>4. ToSet(Append(a, back)) = ToSet(a) \cup {back}
      BY <1>4, <1>9, Members
    <3>. QED  BY <1>9, <3>1, <3>3, <3>4
  <2>. QED  BY <2>1, <2>2
<1>11. Handed \subseteq Handed'
  BY <1>7, <1>10, HandedAfter
<1>12. Waiting' /\ \A x \in Coro : Waits(x)' => Waits(x)
  BY <1>1, <1>5, <1>11, StillWaiting DEF Good
<1>13. Lined' /\ Timed' /\ Answered'
  <2>1. {new, mine} \in SUBSET TaskType
    BY <1>3, <1>4
  <2>2. \A q \in {new, mine} : /\ q.coro \in {c, d} /\ q.op.at = 0 
                               /\ pend[q.coro].k \in {"none", "add"}
    BY <1>1, <1>2, <1>3, <1>4, OwnOps DEF Flow
  <2>3. \A q \in {new, mine} : Alive(q.coro)' /\ ~Waits(q.coro)'
    BY <1>3, <1>6, <1>12, <2>2
  <2>4. timeouts' = timeouts /\ sigwait' = sigwait
    BY <1>1 DEF coVars
  <2>. QED  BY <1>1, <1>5, <1>10, <1>12, <2>1, <2>2, <2>3, <2>4, HandsOver
<1>. QED  BY <1>12, <1>13 DEF Good

\* Who waits for a coroutine that has ended, and for nothing else.
LEMMA TellsWaiters ==
  ASSUME TypeOK, Flow, Good, NEW c \in Coro, ~Alive(c)
  PROVE  LET W == WaiterPairs(c, waiters[c]) IN
         /\ W \in Seq(TaskType) /\ Distinct(W) /\ Coros(W) = ToSet(waiters[c])
         /\ \A q \in ToSet(W) : q.op = CoroOp(c) /\ q.coro \in ToSet(waiters[c])
         /\ \A x \in ToSet(waiters[c]) : Alive(x) /\ pend[x].k = "join" /\ pend[x].arg = c
<1>. DEFINE W == WaiterPairs(c, waiters[c])
            w == waiters[c]
<1>1. /\ w \in Seq(Coro) /\ W \in Seq(TaskType) /\ Len(W) = Len(w)
      /\ \A i \in 1 .. Len(w) : W[i] = Pair(CoroOp(c), w[i])
  BY WaiterPairsType, PlaceTypes
<1>2. /\ \A i, j \in DOMAIN w : w[i] = w[j] => i = j
      /\ \A x \in ToSet(w) : Alive(x) /\ pend[x].k = "join" /\ pend[x].arg = c
  BY DEF Good, Waiting, WaitsInJoins
<1>. HIDE DEF W, w
<1>3. /\ DOMAIN w = 1 .. Len(w) /\ DOMAIN W = 1 .. Len(w)
      /\ \A i \in 1 .. Len(w) : W[i].coro = w[i] /\ W[i].op = CoroOp(c) /\ w[i] \in ToSet(w)
  <2>1. DOMAIN w = 1 .. Len(w) /\ DOMAIN W = 1 .. Len(w) /\ \A i \in 1 .. Len(w) : w[i] \in Coro
    BY <1>1
  <2>2. \A i \in 1 .. Len(w) : w[i] \in ToSet(w)
    BY <2>1 DEF ToSet
  <2>3. \A i \in 1 .. Len(w) : W[i].coro = w[i] /\ W[i].op = CoroOp(c)
    BY <1>1, <2>1, PlainOps, PairTypes
  <2>. QED  BY <2>1, <2>2, <2>3
<1>4. Distinct(W)
  BY <1>2, <1>3 DEF Distinct
<1>5. Coros(W) = ToSet(w)
  BY <1>3 DEF Coros, ToSet
<1>6. \A q \in ToSet(W) : q.op = CoroOp(c) /\ q.coro \in ToSet(w)
  <2>1. ASSUME NEW q \in ToSet(W)
        PROVE  q.op = CoroOp(c) /\ q.coro \in ToSet(w)
    <3>1. PICK i \in DOMAIN W : q = W[i]
      BY DEF ToSet
    <3>. QED  BY <1>3, <3>1
  <2>. QED  BY <2>1
<1>. QED  BY <1>1, <1>2, <1>4, <1>5, <1>6 DEF W, w

\* The end of a coroutine: its caller and its waiters are told, and let go.
LEMMA ProcessEndGood ==
  ASSUME TypeOK, Flow, Good, ProcessEnd
  PROVE  Good'
<1>1. PICK c \in Coro : c = cur.coro /\ cur.op.c = c /\ cur.op.k = "coro" /\ phase = "process"
  <2>1. phase = "process" /\ cur.op.k = "coro" /\ cur.op.c = cur.coro
    BY DEF ProcessEnd, Processing
  <2>. QED  BY <2>1, ProcessedAlone
<1>2. cur.op = CoroOp(c) /\ pend[c] = CoroOp(c) /\ state[c] \in EndStates /\ ~Alive(c) /\ cur.op.at = 0
  <2>1. Yielded /\ cur.op = CoroOp(c)
    BY <1>1, OwnOps DEF Flow, Yielded
  <2>. QED  BY <1>1, <2>1, OwnOps DEF Yielded, Alive, EndStates
<1>. DEFINE W == WaiterPairs(c, waiters[c])
            outcome == IF state[c] = "failed" THEN ErrorExc ELSE CoroOp(c)
            mine == IF caller[c] = None THEN {} ELSE {Pair(outcome, caller[c])}
            new == ToSet(W) \cup mine
<1>3. /\ caller' = [caller EXCEPT ![c] = None] /\ waiters' = [waiters EXCEPT ![c] = <<>>]
      /\ UNCHANGED <<running, clock, opn, pend, timeouts, state, sigwait, signals>>
      /\ IF caller[c] # None
         THEN Continue(Queued(W), Pair(outcome, caller[c]))
         ELSE IF W = <<>> THEN Continue(active, NoPair)
                          ELSE Continue(Queued(Front(W)), Last(W))
  BY <1>1 DEF ProcessEnd, Processing, SetAttribute
<1>4. /\ W \in Seq(TaskType) /\ Distinct(W) /\ Coros(W) = ToSet(waiters[c])
      /\ \A q \in ToSet(W) : q.op = CoroOp(c) /\ q.coro \in ToSet(waiters[c])
      /\ \A x \in ToSet(waiters[c]) : Alive(x) /\ pend[x].k = "join" /\ pend[x].arg = c
  BY <1>2, TellsWaiters
<1>5. /\ outcome \in OpType /\ outcome.at = 0 /\ active \in Seq(TaskType)
      /\ caller[c] # None => /\ caller[c] \in Coro /\ Alive(caller[c]) /\ pend[caller[c]] = CoroOp(c)
                             /\ Pair(outcome, caller[c]) \in TaskType
                             /\ Pair(outcome, caller[c]).op = outcome
                             /\ Pair(outcome, caller[c]).coro = caller[c]
                             /\ Pair(outcome, caller[c]) # NoPair
  <2>1. outcome \in OpType /\ outcome.at = 0 /\ active \in Seq(TaskType)
    BY PlainOps, OwnOps, PlaceTypes
  <2>. HIDE DEF outcome
  <2>. QED  BY <2>1, PairTypes, PlaceTypes DEF Good, Waiting, WaitsInCalls
<1>. HIDE DEF W, outcome
<1>6. \A x \in Coro : Waits(x)' => Waits(x)
  <2>1. \A x \in Coro, d \in Coro : Awaits(x, d)' => Awaits(x, d)
    BY <1>3, CoroAssumption DEF Awaits, ToSet, TypeOK, CoTypeOK
  <2>. QED  BY <1>3, <2>1 DEF Waits
<1>7. \A x \in Coro : x \in ToSet(waiters[c]) \/ caller[c] = x => Waits(x) /\ ~Waits(x)'
  <2>1. ASSUME NEW x \in Coro, x \in ToSet(waiters[c]) \/ caller[c] = x
        PROVE  ~Waits(x)'
    <3>1. \/ pend[x].k = "join" /\ pend[x].arg = c
          \/ pend[x] = CoroOp(c) /\ pend[x].k = "coro" /\ pend[x].c = c
      BY <1>4, <1>5, <2>1, OwnOps, CoroAssumption
    <3>2. x # c
      BY <1>2, <1>4, <1>5, <2>1, CoroAssumption
    <3>3. \A s \in Names : \A p \in ToSet(sigwait'[s]) : p.coro # x
      BY <1>3, <3>1, WhereWaits DEF Good
    <3>4. \A s \in Names : signals'[s].coro # x
      BY <1>3, <3>1, WhereWaits DEF Good
    <3>5. \A e \in timeouts' : e.op.k = "sleep" => e.op.c # x
      BY <1>3, <3>1, WhereWaits DEF Good
    <3>6. \A d \in Coro : caller'[d] = x => caller[d] = x /\ d # c
      BY <1>3, CoroAssumption DEF TypeOK, CoTypeOK
    <3>7. \A d \in Coro : x \in ToSet(waiters'[d]) => x \in ToSet(waiters[d]) /\ d # c
      BY <1>3 DEF ToSet, TypeOK, CoTypeOK
    <3>8. \A d \in Coro : caller[d] = x => pend[x].k = "coro" /\ pend[x].c = d
      BY WhereWaits DEF Good
    <3>9. \A d \in Coro : x \in ToSet(waiters[d]) =>
            pend[x].k = "join" /\ d = IF pend[x].at = 0 THEN pend[x].arg ELSE x
      BY WhereWaits DEF Good
    <3>10. x \in ToSet(waiters[c]) => pend[x].at = 0
      BY <1>1, <3>2, <3>9
    <3>11. \A d \in Coro : caller'[d] # x /\ x \notin ToSet(waiters'[d])
      <4>1. CASE x \in ToSet(waiters[c])
        BY <1>4, <3>6, <3>7, <3>8, <3>9, <3>10, <4>1
      <4>2. CASE caller[c] = x
        BY <1>1, <3>6, <3>7, <3>8, <3>9, <4>2
      <4>. QED  BY <2>1, <4>1, <4>2
    <3>. QED  BY <3>3, <3>4, <3>5, <3>11 DEF Waits, Awaits
  <2>. QED  BY <2>1 DEF Waits, Awaits
<1>8. Handed = ToSet(active) /\ Spread(active, Moot') /\ \A x \in Coro : Alive(x)' <=> Alive(x)
  <2>1. \A x \in Coro : state'[x] = state[x] \/ (state[x] = "absent" /\ state'[x] = "need_init")
    BY <1>3
  <2>. QED  BY <1>1, <1>3, <2>1, StillSpread DEF Alive
<1>9. \A x \in Coro : x \in ToSet(waiters[c]) \/ caller[c] = x => x \notin Coros(active)
  BY <1>7, <1>8, CorosOf DEF Good, Lined
<1>10. /\ ToSet(waiters[c]) \subseteq Coro /\ Coros(W) \cap Coros(active) = {}
       /\ caller[c] \notin ToSet(waiters[c])
  <2>1. ToSet(waiters[c]) \subseteq Coro
    BY PlaceTypes
  <2>. QED  BY <1>4, <1>5, <1>9, <2>1, OwnOps, CoroAssumption
<1>11. PICK a \in Seq(TaskType), p \in TaskType \cup {NoPair} :
         /\ Continue(a, p) /\ ToSet(a) \cup ({p} \ {NoPair}) = ToSet(active) \cup new
         /\ Spread(IF p = NoPair THEN a ELSE <<p>> \o a, Moot')
  <2>1. ASSUME NEW t \in Seq(TaskType), Distinct(t), Coros(t) \subseteq Coros(W)
        PROVE  /\ Queued(t) \in Seq(TaskType) /\ Spread(Queued(t), Moot')
               /\ ToSet(Queued(t)) = ToSet(t) \cup ToSet(active)
               /\ Coros(Queued(t)) = Coros(t) \cup Coros(active)
    <3>1. Coros(t) \cap Coros(active) = {}
      BY <1>10, <2>1
    <3>2. Queued(t) \in Seq(TaskType) /\ Spread(Queued(t), Moot')
      BY <1>8, <2>1, <3>1, QueuedSpread
    <3>3. ToSet(Queued(t)) = ToSet(t) \cup ToSet(active)
      BY <1>5, <2>1, QueuedMembers
    <3>. QED  BY <3>2, <3>3, CorosOf
  <2>2. CASE caller[c] # None
    <3>. DEFINE p == Pair(outcome, caller[c])
                a == Queued(W)
    <3>1. /\ a \in Seq(TaskType) /\ Spread(a, Moot') /\ ToSet(a) = ToSet(W) \cup ToSet(active)
          /\ Coros(a) = Coros(W) \cup Coros(active)
      BY <1>4, <2>1
    <3>2. p \in TaskType /\ p.coro = caller[c] /\ p # NoPair /\ caller[c] \in Coro /\ mine = {p}
      BY <1>5, <2>2
    <3>3. Continue(a, p)
      BY <1>3, <2>2
    <3>. HIDE DEF p, a, mine
    <3>4. Spread(<<p>> \o a, Moot')
      BY <1>4, <1>9, <1>10, <3>1, <3>2, ConsSpread
    <3>5. ToSet(a) \cup ({p} \ {NoPair}) = ToSet(active) \cup new
      BY <3>1, <3>2
    <3>. QED  BY <3>1, <3>2, <3>3, <3>4, <3>5
  <2>3. CASE caller[c] = None /\ W = <<>>
    <3>1. Continue(active, NoPair) /\ new = {}
      BY <1>3, <2>3 DEF ToSet
    <3>. QED  BY <1>5, <1>8, <3>1
  <2>4. CASE caller[c] = None /\ W # <<>>
    <3>. DEFINE t == Front(W)
                p == Last(W)
                a == Queued(t)
    <3>1. /\ t \in Seq(TaskType) /\ p \in TaskType
          /\ Len(W) \in Nat \ {0} /\ DOMAIN W = 1 .. Len(W)
          /\ DOMAIN t = 1 .. Len(W) - 1 /\ p = W[Len(W)]
          /\ \A i \in 1 .. Len(W) - 1 : t[i] = W[i]
      BY <1>4, <2>4 DEF Front, Last
    <3>2. Continue(a, p) /\ mine = {}
      BY <1>3, <2>4
    <3>. HIDE DEF t, p, mine
    <3>3. Distinct(t) /\ p.coro \notin Coros(t) /\ Coros(t) \subseteq Coros(W) /\ p.coro \in Coros(W)
      <4>1. \A i, j \in 1 .. Len(W) : W[i].coro = W[j].coro => i = j
        BY <1>4, <3>1 DEF Distinct
      <4>2. Distinct(t) /\ p.coro \notin Coros(t)
        BY <3>1, <4>1 DEF Distinct, Coros
      <4>3. Coros(t) \subseteq Coros(W) /\ p.coro \in Coros(W)
        BY <3>1 DEF Coros
      <4>. QED  BY <4>2, <4>3
    <3>4. ToSet(t) \cup {p} = ToSet(W)
      <4>1. \A i \in 1 .. Len(W) : i \in 1 .. Len(W) - 1 \/ i = Len(W)
        <5>1. \A n \in Nat : \A i \in 1 .. n : i \in 1 .. n - 1 \/ i = n
          OBVIOUS
        <5>. QED  BY <3>1, <5>1
      <4>2. \A i \in 1 .. Len(W) - 1 : i \in 1 .. Len(W)
        BY <3>1
      <4>3. Len(W) \in 1 .. Len(W)
        BY <3>1
      <4>. QED  BY <3>1, <4>1, <4>2, <4>3 DEF ToSet
    <3>5. /\ a \in Seq(TaskType) /\ Spread(a, Moot') /\ ToSet(a) = ToSet(t) \cup ToSet(active)
          /\ Coros(a) = Coros(t) \cup Coros(active)
      BY <2>1, <3>1, <3>3
    <3>. HIDE DEF a
    <3>6. Spread(<<p>> \o a, Moot')
      BY <1>10, <3>1, <3>3, <3>5, ConsSpread
    <3>7. p # NoPair
      BY <3>1, PlaceTypes
    <3>8. ToSet(a) \cup ({p} \ {NoPair}) = ToSet(active) \cup new
      BY <3>2, <3>4, <3>5, <3>7
    <3>. QED  BY <3>1, <3>2, <3>5, <3>6, <3>7, <3>8
  <2>. QED  BY <2>2, <2>3, <2>4
<1>12. Lined' /\ Timed' /\ Answered'
  <2>1. \A q \in new :
          /\ q \in TaskType /\ q.op.at = 0 /\ q.coro \in Coro
          /\ q.coro \in ToSet(waiters[c]) \/ caller[c] = q.coro
          /\ Alive(q.coro)
          /\ \/ pend[q.coro].k = "join" /\ pend[q.coro].arg = c
             \/ pend[q.coro].k = "coro" /\ pend[q.coro].c = c
    <3>1. \A q \in ToSet(W) : q \in TaskType /\ q.coro \in Coro /\ q.op.at = 0
      BY <1>4, <1>10, Members, OwnOps
    <3>. QED  BY <1>4, <1>5, <3>1, OwnOps
  <2>. HIDE DEF new
  <2>2. new \in SUBSET TaskType
    BY <2>1
  <2>3. \A q \in new : Alive(q.coro)' /\ ~Waits(q.coro)'
    BY <1>7, <1>8, <2>1
  <2>4. \A q \in new : /\ pend[q.coro].k = "join" => state'[pend[q.coro].arg] \in EndStates
                       /\ pend[q.coro].k = "coro" => state'[pend[q.coro].c] \in EndStates
                       /\ pend[q.coro].k # "sleep"
    BY <1>2, <1>3, <2>1
  <2>5. \A x \in Coro : Waits(x)' => Waits(x) \/ (x = cur.coro /\ Alive(cur.coro))
    BY <1>6
  <2>6. timeouts' = timeouts /\ sigwait' = sigwait /\ UNCHANGED <<clock, pend>>
        /\ \A x \in Coro : state'[x] = state[x] \/ (state[x] = "absent" /\ state'[x] = "need_init")
    BY <1>3
  <2>. QED  BY <1>1, <1>11, <2>1, <2>2, <2>3, <2>4, <2>5, <2>6, HandsOver
<1>13. Waiting'
  <2>1. WaitsInSignals' /\ WaitsToSignal'
    BY <1>3, <1>8, Remaining DEF Good
  <2>2. WaitsInCalls'
    <3>1. ASSUME NEW y \in Coro, NEW x \in Coro, caller'[y] = x
          PROVE  Alive(x)' /\ pend'[x] = CoroOp(y)
      <4>1. caller[y] = x /\ x # None
        BY <1>3, <3>1, CoroAssumption DEF TypeOK, CoTypeOK
      <4>. QED  BY <1>3, <1>8, <4>1 DEF Good, Waiting, WaitsInCalls
    <3>2. \A y \in Coro : caller'[y] \in Coro \cup {None}
      BY <1>3 DEF TypeOK, CoTypeOK
    <3>. QED  BY <3>1, <3>2 DEF WaitsInCalls, CoroOp, Alive
  <2>3. WaitsInJoins'
    <3>1. \A d \in Coro : waiters'[d] = waiters[d] \/ waiters'[d] = <<>>
      BY <1>3 DEF TypeOK, CoTypeOK
    <3>2. ASSUME NEW d \in Coro
          PROVE  /\ \A i, j \in DOMAIN waiters'[d] : waiters'[d][i] = waiters'[d][j] => i = j
                 /\ \A x \in ToSet(waiters'[d]) : x \in Coro /\ x \in ToSet(waiters[d])
      <4>1. ToSet(<<>>) = {} /\ DOMAIN <<>> = {}
        BY DEF ToSet
      <4>2. \A i, j \in DOMAIN waiters[d] : waiters[d][i] = waiters[d][j] => i = j
        BY DEF Good, Waiting, WaitsInJoins
      <4>3. ToSet(waiters[d]) \subseteq Coro
        BY PlaceTypes
      <4>. QED  BY <3>1, <4>1, <4>2, <4>3
    <3>3. \A d \in Coro : \A x \in ToSet(waiters[d]) :
            Alive(x) /\ pend[x].k = "join" /\ d = IF pend[x].at = 0 THEN pend[x].arg ELSE x
      BY DEF Good, Waiting, WaitsInJoins
    <3>. QED  BY <1>3, <1>8, <3>2, <3>3 DEF WaitsInJoins
  <2>4. WaitsForTime'
    <3>1. ASSUME NEW e \in timeouts
          PROVE  /\ e.op.c \in Coro /\ e.op.c # c
                 /\ waiters'[e.op.c] = waiters[e.op.c]
      <4>1. e.op.c \in Coro /\ Alive(e.op.c)
        BY PlaceTypes DEF Good, Waiting, WaitsForTime
      <4>. QED  BY <1>2, <1>3, <4>1 DEF TypeOK, CoTypeOK
    <3>2. Handed \subseteq Handed'
      BY <1>8, <1>11, HandedAfter
    <3>. QED  BY <1>3, <1>8, <3>1, <3>2 DEF Good, Waiting, WaitsForTime
  <2>. QED  BY <2>1, <2>2, <2>3, <2>4 DEF Waiting
<1>. QED  BY <1>12, <1>13 DEF Good

\* The timer of the operation that is processed is set, if it has a deadline.
LEMMA SetsTimer ==
  ASSUME TypeOK, Good, phase = "process", cur.op.k \in {"join", "sleep", "wait"}, Flow
  PROVE  /\ Pushed(cur.op) = IF cur.op.at = 0 THEN timeouts
                             ELSE timeouts \cup {[op |-> cur.op, live |-> TRUE]}
         /\ timeouts \subseteq Pushed(cur.op)
         /\ \A e \in Pushed(cur.op) :
              e \in timeouts \/ (cur.op.at # 0 /\ e = [op |-> cur.op, live |-> TRUE])
         /\ cur.op.c = cur.coro /\ pend[cur.coro] = cur.op /\ Alive(cur.coro)
         /\ \A x \in Coro : x # cur.coro => \A e \in Pushed(cur.op) : e.op.c = x => e \in timeouts
<1>1. cur.op.c = cur.coro /\ pend[cur.coro] = cur.op /\ Alive(cur.coro)
  <2>1. Yielded
    BY DEF Flow
  <2>2. cur.op # CoroOp(cur.coro) /\ cur.op.k \notin {"none", "coro"} /\ cur.op # NoOp
    BY OwnOps
  <2>. QED  BY <2>1, <2>2 DEF Yielded
<1>. QED  BY <1>1 DEF Pushed

\* What its own timers are, when one is set for the operation that is processed.
LEMMA TimersFit ==
  ASSUME TypeOK, Flow, Good, phase = "process", cur.op.k \in {"join", "sleep", "wait"},
         timeouts' \subseteq Pushed(cur.op), pend' = pend, \A x \in Coro : Alive(x) => Alive(x)',
         \A e \in timeouts : e.op.k = "join" => e.op.c \in ToSet(waiters'[e.op.c]),
         \A e \in timeouts : e.op.k = "wait" =>
           \/ Pair(e.op, e.op.c) \in Handed'
           \/ Pair(e.op, e.op.c) \in ToSet(sigwait'[e.op.arg]),
         cur.op.at # 0 /\ cur.op.k = "join" => cur.coro \in ToSet(waiters'[cur.coro]),
         cur.op.at # 0 /\ cur.op.k = "wait" =>
           \/ Pair(cur.op, cur.coro) \in Handed'
           \/ Pair(cur.op, cur.coro) \in ToSet(sigwait'[cur.op.arg])
  PROVE  WaitsForTime'
<1>1. ASSUME NEW e \in timeouts'
      PROVE  /\ e.live /\ e.op.c \in Coro /\ Alive(e.op.c) /\ pend[e.op.c] = e.op
             /\ e.op.k = "join" => e.op.c \in ToSet(waiters'[e.op.c])
             /\ e.op.k = "wait" => \/ Pair(e.op, e.op.c) \in Handed'
                                   \/ Pair(e.op, e.op.c) \in ToSet(sigwait'[e.op.arg])
  <2>1. CASE e \in timeouts
    BY <2>1, PlaceTypes DEF Good, Waiting, WaitsForTime
  <2>2. CASE cur.op.at # 0 /\ e = [op |-> cur.op, live |-> TRUE]
    <3>1. e.live /\ e.op = cur.op /\ cur.op.c = cur.coro /\ pend[cur.coro] = cur.op /\ Alive(cur.coro)
      BY <2>2, SetsTimer
    <3>. QED  BY <2>2, <3>1, ProcessedAlone
  <2>. QED  BY <2>1, <2>2, SetsTimer
<1>. QED  BY <1>1 DEF WaitsForTime

\* An element that was not there is behind the others, once.
LEMMA AppendOnce ==
  ASSUME NEW S, NEW w \in Seq(S), NEW c \in S, c \notin ToSet(w),
         \A i, j \in DOMAIN w : w[i] = w[j] => i = j
  PROVE  LET u == Append(w, c) IN \A i, j \in DOMAIN u : u[i] = u[j] => i = j
<1>. DEFINE u == Append(w, c)
            n == Len(w)
<1>1. /\ n \in Nat /\ DOMAIN w = 1 .. n /\ DOMAIN u = 1 .. n + 1
      /\ \A i \in 1 .. n : u[i] = w[i]
      /\ u[n + 1] = c
  OBVIOUS
<1>2. \A i \in 1 .. n : w[i] # c
  BY <1>1 DEF ToSet
<1>. HIDE DEF u, n
<1>3. \A i, j \in 1 .. n + 1 : u[i] = u[j] => i = j
  BY <1>1, <1>2
<1>. QED  BY <1>1, <1>3 DEF u

\* Join: the coroutine waits for another, or, if it set a timeout, for itself, or
\* is told at once that there is nothing to wait for.
LEMMA ProcessJoinGood ==
  ASSUME TypeOK, Flow, Good, Untied, ProcessJoin
  PROVE  Good'
<1>1. phase = "process" /\ cur.op.k = "join" /\ WithDefault(cur.op) = cur.op
  BY DEF ProcessJoin, Processing, WithDefault, Untied
<1>. DEFINE target == IF cur.op.at # 0 THEN cur.coro ELSE cur.op.arg
<1>2. PICK c \in Coro, t \in Coro : c = cur.coro /\ t = target
  <2>1. cur.coro \in Coro /\ cur.op.arg \in Coro
    BY <1>1, ProcessedAlone, PlaceTypes
  <2>. QED  BY <2>1
<1>3. /\ UNCHANGED <<running, clock, opn, pend, state, caller, sigwait, signals>>
      /\ IF Alive(t)
         THEN /\ timeouts' = Pushed(cur.op)
              /\ waiters' = [waiters EXCEPT ![t] = Append(@, c)]
              /\ Continue(active, NoPair)
         ELSE Throw(ErrorExc, Pushed(cur.op)) /\ UNCHANGED waiters
  BY <1>1, <1>2 DEF ProcessJoin, Processing
<1>4. /\ pend[c] = cur.op /\ Alive(c) /\ ~Waits(c) /\ c \notin Coros(active) /\ active \in Seq(TaskType)
      /\ cur.op.c = c /\ t = IF cur.op.at = 0 THEN cur.op.arg ELSE c
      /\ state[cur.op.arg] # "absent" /\ cur.op.arg \in Coro
  BY <1>1, <1>2, SetsTimer, ProcessedAlone, PlaceTypes DEF Flow, Yielded
<1>. HIDE DEF target
<1>5. \A x \in Coro : /\ state'[x] = state[x] \/ (state[x] = "absent" /\ state'[x] = "need_init")
                      /\ Alive(x)' <=> Alive(x)
  BY <1>3 DEF Alive
<1>6. CASE Alive(t)
  <2>1. /\ timeouts \subseteq timeouts' /\ timeouts' = Pushed(cur.op)
        /\ \A e \in timeouts' : e \in timeouts \/ (cur.op.at # 0 /\ e = [op |-> cur.op, live |-> TRUE])
        /\ Continue(active, NoPair)
        /\ \A d \in Coro : waiters'[d] = IF d = t THEN Append(waiters[t], c) ELSE waiters[d]
    BY <1>1, <1>3, <1>6, SetsTimer DEF TypeOK, CoTypeOK
  <2>2. /\ \A d \in Coro : waiters[d] \in Seq(Coro)
        /\ ToSet(Append(waiters[t], c)) = ToSet(waiters[t]) \cup {c}
    BY Members, PlaceTypes
  <2>3. Handed = ToSet(active) /\ Handed' = ToSet(active) /\ Spread(active, Moot')
    <3>1. Handed = ToSet(active) /\ Spread(active, Moot')
      BY <1>1, <1>3, <1>5, <2>1, StillSpread
    <3>. QED  BY <2>1, <3>1, HandedAfter
  <2>4. ASSUME NEW x \in Coro, Waits(x)'
        PROVE  Waits(x) \/ x = c
    <3>1. \A d \in Coro : Awaits(x, d)' => Awaits(x, d) \/ x = c
      BY <1>3, <2>1, <2>2 DEF Awaits
    <3>2. \A e \in timeouts' : e.op.k = "sleep" => e \in timeouts
      BY <1>1, <2>1
    <3>. QED  BY <1>3, <2>4, <3>1, <3>2 DEF Waits
  <2>5. Lined' /\ Timed' /\ Answered'
    <3>1. {} \in SUBSET TaskType /\ ToSet(active) \cup ({NoPair} \ {NoPair}) = ToSet(active) \cup {}
          /\ Spread(IF NoPair = NoPair THEN active ELSE <<NoPair>> \o active, Moot')
      BY <2>3
    <3>2. \A x \in Coro : Waits(x)' => Waits(x) \/ (x = cur.coro /\ Alive(cur.coro))
      BY <1>2, <1>4, <2>4
    <3>3. UNCHANGED <<clock, pend>> /\ sigwait' = sigwait
      BY <1>3
    <3>. QED  BY <1>1, <1>4, <1>5, <2>1, <3>1, <3>2, <3>3, HandsOver
  <2>6. WaitsInSignals' /\ WaitsInCalls' /\ WaitsToSignal'
    BY <1>3, <1>5, Remaining DEF Good
  <2>7. WaitsInJoins'
    <3>1. ASSUME NEW d \in Coro
          PROVE  /\ \A i, j \in DOMAIN waiters'[d] : waiters'[d][i] = waiters'[d][j] => i = j
                 /\ \A x \in ToSet(waiters'[d]) : x \in ToSet(waiters[d]) \/ (x = c /\ d = t)
      <4>1. \A i, j \in DOMAIN waiters[d] : waiters[d][i] = waiters[d][j] => i = j
        BY DEF Good, Waiting, WaitsInJoins
      <4>2. CASE d # t
        BY <2>1, <4>1, <4>2
      <4>3. CASE d = t
        <5>1. waiters[t] \in Seq(Coro) /\ c \notin ToSet(waiters[t])
          BY <1>4, <2>2 DEF Waits, Awaits
        <5>2. \A i, j \in DOMAIN waiters[t] : waiters[t][i] = waiters[t][j] => i = j
          BY <4>1, <4>3
        <5>3. LET u == Append(waiters[t], c) IN \A i, j \in DOMAIN u : u[i] = u[j] => i = j
          BY <5>1, <5>2, AppendOnce
        <5>. QED  BY <2>1, <2>2, <4>3, <5>3
      <4>. QED  BY <4>2, <4>3
    <3>2. \A d \in Coro : \A x \in ToSet(waiters[d]) : 
            /\ x \in Coro
            /\ Alive(x) /\ pend[x].k = "join" /\ d = IF pend[x].at = 0 THEN pend[x].arg ELSE x
      BY PlaceTypes DEF Good, Waiting, WaitsInJoins
    <3>3. ASSUME NEW d \in Coro, NEW x \in ToSet(waiters'[d])
          PROVE  Alive(x)' /\ pend[x].k = "join" /\ d = IF pend[x].at = 0 THEN pend[x].arg ELSE x
      BY <1>1, <1>4, <1>5, <3>1, <3>2
    <3>. QED  BY <1>3, <3>1, <3>3 DEF WaitsInJoins
  <2>8. WaitsForTime'
    <3>1. \A e \in timeouts : e.op.k = "join" => e.op.c \in ToSet(waiters'[e.op.c])
      BY <2>1, <2>2, PlaceTypes DEF Good, Waiting, WaitsForTime
    <3>2. \A e \in timeouts : e.op.k = "wait" =>
            \/ Pair(e.op, e.op.c) \in Handed'
            \/ Pair(e.op, e.op.c) \in ToSet(sigwait'[e.op.arg])
      BY <1>3, <2>3 DEF Good, Waiting, WaitsForTime
    <3>3. cur.op.at # 0 => cur.coro \in ToSet(waiters'[cur.coro])
      BY <1>2, <1>4, <2>1, <2>2
    <3>. QED  BY <1>1, <1>3, <1>5, <2>1, <3>1, <3>2, <3>3, TimersFit
  <2>. QED  BY <2>5, <2>6, <2>7, <2>8 DEF Good, Waiting
<1>7. CASE ~Alive(t)
  <2>1. cur.op.at = 0 /\ t = cur.op.arg /\ state[t] \in EndStates
    <3>1. cur.op.at = 0 /\ t = cur.op.arg
      BY <1>4, <1>7
    <3>. QED  BY <1>4, <1>7, <3>1 DEF Alive, EndStates, TypeOK, LoopTypeOK
  <2>2. timeouts' = timeouts /\ Continue(active, Pair(ErrorExc, c)) /\ UNCHANGED waiters
    <3>1. \A e \in timeouts : ~SameOp(e.op, cur.op)
      BY <1>4, <2>1 DEF SameOp, Good, Waiting, WaitsForTime, Timed
    <3>2. Retired(timeouts, cur.op) = timeouts
      BY <3>1 DEF Retired
    <3>. QED  BY <1>2, <1>3, <1>7, <2>1, <3>2 DEF Throw, Pushed
  <2>. DEFINE p == Pair(ErrorExc, c)
  <2>3. p \in TaskType /\ p.coro = c /\ p.op = ErrorExc /\ p # NoPair
    BY PlainOps, PairTypes, PlaceTypes
  <2>4. Continue(active, p)
    BY <2>2
  <2>. HIDE DEF p
  <2>5. Handed = ToSet(active) /\ Handed' = ToSet(active) \cup {p} /\ Spread(active, Moot')
    <3>1. Handed = ToSet(active) /\ Spread(active, Moot')
      BY <1>1, <1>3, <1>5, <2>2, StillSpread
    <3>. QED  BY <2>3, <2>4, <3>1, HandedAfter
  <2>6. Waiting' /\ \A x \in Coro : Waits(x)' => Waits(x)
    <3>1. UNCHANGED coVars /\ Handed \subseteq Handed' /\ timeouts' \subseteq timeouts
      BY <1>3, <2>2, <2>5 DEF coVars
    <3>. QED  BY <1>3, <1>5, <3>1, StillWaiting DEF Good
  <2>7. Lined' /\ Timed' /\ Answered'
    <3>1. {p} \in SUBSET TaskType /\ ToSet(active) \cup ({p} \ {NoPair}) = ToSet(active) \cup {p}
      BY <2>3
    <3>2. Spread(<<p>> \o active, Moot')
      BY <1>4, <2>3, <2>5, ConsSpread
    <3>3. Spread(IF p = NoPair THEN active ELSE <<p>> \o active, Moot')
      BY <2>3, <3>2
    <3>4. \A q \in {p} : /\ q.op.at = 0 /\ ~Waits(q.coro)' /\ Alive(q.coro)'
                         /\ pend[q.coro].k = "join" /\ state'[pend[q.coro].arg] \in EndStates
      BY <1>1, <1>3, <1>4, <1>5, <2>1, <2>3, <2>6, OwnOps
    <3>5. UNCHANGED <<clock, pend>> /\ sigwait' = sigwait /\ timeouts' = timeouts
      BY <1>3, <2>2
    <3>. QED  BY <1>1, <1>4, <1>5, <2>3, <2>4, <2>6, <3>1, <3>3, <3>4, <3>5, HandsOver
  <2>. QED  BY <2>6, <2>7 DEF Good
<1>. QED  BY <1>6, <1>7

\* Sleep: the coroutine waits for its timer, if it has one.
LEMMA ProcessSleepGood ==
  ASSUME TypeOK, Flow, Good, Untied, ProcessSleep
  PROVE  Good'
<1>1. /\ phase = "process" /\ cur.op.k = "sleep" /\ timeouts' = Pushed(cur.op) /\ Continue(active, NoPair)
      /\ UNCHANGED <<running, clock, opn, pend, state, caller, waiters, sigwait, signals>>
  BY DEF ProcessSleep, Processing, WithDefault, Untied, coVars
<1>2. /\ timeouts \subseteq timeouts'
      /\ \A e \in timeouts' : e \in timeouts \/ (cur.op.at # 0 /\ e = [op |-> cur.op, live |-> TRUE])
      /\ cur.op.c = cur.coro /\ Alive(cur.coro) /\ active \in Seq(TaskType)
  BY <1>1, SetsTimer, PlaceTypes
<1>3. \A x \in Coro : /\ state'[x] = state[x] \/ (state[x] = "absent" /\ state'[x] = "need_init")
                      /\ Alive(x)' <=> Alive(x)
  BY <1>1 DEF Alive
<1>4. Handed = ToSet(active) /\ Handed' = ToSet(active) /\ Spread(active, Moot')
  <2>1. Handed = ToSet(active) /\ Spread(active, Moot')
    BY <1>1, <1>2, <1>3, StillSpread
  <2>. QED  BY <1>1, <2>1, HandedAfter
<1>5. Lined' /\ Timed' /\ Answered'
  <2>1. {} \in SUBSET TaskType /\ ToSet(active) \cup ({NoPair} \ {NoPair}) = ToSet(active) \cup {}
        /\ Spread(IF NoPair = NoPair THEN active ELSE <<NoPair>> \o active, Moot')
    BY <1>4
  <2>2. \A x \in Coro : Waits(x)' => Waits(x) \/ (x = cur.coro /\ Alive(cur.coro))
    <3>1. ASSUME NEW x \in Coro, Waits(x)'
          PROVE  Waits(x) \/ x = cur.coro
      <4>1. \A d \in Coro : Awaits(x, d)' => Awaits(x, d)
        BY <1>1 DEF Awaits
      <4>. QED  BY <1>1, <1>2, <3>1, <4>1 DEF Waits
    <3>. QED  BY <1>2, <3>1
  <2>. QED  BY <1>1, <1>2, <1>3, <2>1, <2>2, HandsOver
<1>6. WaitsInSignals' /\ WaitsInJoins' /\ WaitsInCalls' /\ WaitsToSignal'
  BY <1>1, <1>3, Remaining DEF Good
<1>7. WaitsForTime'
  <2>1. /\ \A e \in timeouts : e.op.k = "join" => e.op.c \in ToSet(waiters'[e.op.c])
        /\ \A e \in timeouts : e.op.k = "wait" =>
             \/ Pair(e.op, e.op.c) \in Handed'
             \/ Pair(e.op, e.op.c) \in ToSet(sigwait'[e.op.arg])
    BY <1>1, <1>4 DEF Good, Waiting, WaitsForTime
  <2>. QED  BY <1>1, <1>3, <2>1, TimersFit
<1>. QED  BY <1>5, <1>6, <1>7 DEF Good, Waiting

\* The pairs that wait for a name keep their timers, and a timer that is set is
\* that of another operation.
LEMMA StillTimed ==
  ASSUME TypeOK, Good, phase = "process", clock' = clock, timeouts \subseteq timeouts',
         \A e \in timeouts' : e \in timeouts \/ (cur.op.at # 0 /\ e = [op |-> cur.op, live |-> TRUE])
  PROVE  \A s \in Names : \A p \in ToSet(sigwait[s]) : p.op.at # 0 => TimedPair(p)'
<1>1. ASSUME NEW s \in Names, NEW p \in ToSet(sigwait[s]), p.op.at # 0
      PROVE  TimedPair(p)'
  <2>1. p \in TaskType /\ TimedPair(p)
    BY <1>1, PlaceTypes DEF Good, Timed
  <2>. QED  BY <2>1, StillTimedPair
<1>. QED  BY <1>1

\* A signal is delivered: all who wait for its name, W, and its coroutine are
\* in line.
LEMMA DeliverGood ==
  ASSUME TypeOK, Flow, Good, phase = "process",
         NEW s \in Names, NEW sig \in TaskType, NEW W \in Seq(TaskType),
         Continue(Delivered(sig, W), NoPair), sigwait' = Emptied(s),
         UNCHANGED <<clock, pend, state, caller, waiters>>,
         timeouts \subseteq timeouts',
         \A e \in timeouts' :
           \/ e \in timeouts
           \/ cur.op.at # 0 /\ e = [op |-> cur.op, live |-> TRUE] /\ cur.op.k = "wait",
         Distinct(W),
         \A p \in ToSet(W) : /\ Alive(p.coro) /\ pend[p.coro] = p.op /\ p.op.k = "wait" /\ p.op.arg = s
                             /\ p.op.at # 0 => TimedPair(p)'
                             /\ p.coro \notin Coros(active),
         Alive(sig.coro), pend[sig.coro].k = "signal", sig.coro \notin Coros(active),
         \A t \in Names : signals'[t] \in {signals[t], NoPair} /\ signals'[t].coro # sig.coro
  PROVE  /\ Lined' /\ Timed' /\ Answered'
         /\ WaitsInSignals' /\ WaitsInJoins' /\ WaitsInCalls' /\ WaitsToSignal'
         /\ ToSet(W) \cup ToSet(active) \subseteq Handed'
<1>. DEFINE signaller == Pair(NoOp, sig.coro)
            new == ToSet(W) \cup {signaller}
            a == Delivered(sig, W)
<1>1. /\ signaller \in TaskType /\ signaller.coro = sig.coro /\ signaller.op = NoOp
      /\ ToSet(W) \subseteq TaskType /\ active \in Seq(TaskType)
      /\ \A p \in TaskType : p.coro \in Coro
      /\ NoPair' = NoPair /\ NoPair.coro = None /\ None \notin Coro
  <2>1. signaller \in TaskType /\ signaller.coro = sig.coro /\ signaller.op = NoOp
    BY PlainOps, PairTypes, PlaceTypes
  <2>. QED  BY <2>1, Members, PlaceTypes DEF NoPair, Pair, NoOp
<1>2. \A t \in Names : sigwait'[t] = IF t = s THEN <<>> ELSE sigwait[t]
  BY DEF Emptied, TypeOK, CoTypeOK
<1>. HIDE DEF signaller
<1>3. \A x \in Coro : Alive(x)' <=> Alive(x)
  BY DEF Alive
<1>4. \A x \in Coro : Waits(x)' =>
        \/ \E t \in Names \ {s} : \E p \in ToSet(sigwait[t]) : p.coro = x
        \/ \E d \in Coro : Awaits(x, d)
        \/ \E t \in Names : signals[t].coro = x /\ x # sig.coro
        \/ \E e \in timeouts : e.op.k = "sleep" /\ e.op.c = x
  <2>1. ASSUME NEW x \in Coro, NEW t \in Names, NEW p \in ToSet(sigwait'[t]), p.coro = x
        PROVE  t # s /\ p \in ToSet(sigwait[t])
    <3>1. ToSet(<<>>) = {}
      BY DEF ToSet
    <3>. QED  BY <1>2, <2>1, <3>1
  <2>2. ASSUME NEW x \in Coro, NEW d \in Coro, Awaits(x, d)'
        PROVE  Awaits(x, d)
    BY <2>2 DEF Awaits
  <2>3. ASSUME NEW x \in Coro, NEW t \in Names, signals'[t].coro = x
        PROVE  signals[t].coro = x /\ x # sig.coro
    BY <1>1, <2>3
  <2>4. ASSUME NEW x \in Coro, NEW e \in timeouts', e.op.k = "sleep"
        PROVE  e \in timeouts
    BY <2>4
  <2>. QED  BY <2>1, <2>2, <2>3, <2>4 DEF Waits
<1>5. \A x \in Coro : Waits(x)' => Waits(x)
  BY <1>4 DEF Waits
<1>6. \A p \in new : Alive(p.coro) /\ ~Waits(p.coro)' /\ pend[p.coro].k \in {"wait", "signal"}
  <2>1. ASSUME NEW x \in Coro, pend[x].k = "wait" /\ pend[x].arg = s
        PROVE  ~Waits(x)'
    BY <1>4, <2>1, WhereWaits DEF Good, Awaits
  <2>2. ASSUME NEW x \in Coro, pend[x].k = "signal", x = sig.coro
        PROVE  ~Waits(x)'
    BY <1>4, <2>2, WhereWaits DEF Good, Awaits
  <2>. QED  BY <1>1, <2>1, <2>2
<1>7. /\ a \in Seq(TaskType) /\ Spread(a, Moot')
      /\ ToSet(a) = ToSet(W) \cup ToSet(active) \cup {signaller}
  <2>1. Spread(active, Moot')
    BY StillSpread
  <2>2. Coros(W) \cap Coros(active) = {}
    BY CorosOf
  <2>3. sig.coro \notin Coros(W)
    BY CorosOf
  <2>4. a \in Seq(TaskType) /\ Spread(a, Moot')
    BY <2>1, <2>2, <2>3, QueuedSpread
  <2>5. ToSet(a) = ToSet(W) \cup ToSet(active) \cup {Pair(NoOp, sig.coro)}
    BY <1>1, QueuedMembers
  <2>. QED  BY <2>4, <2>5 DEF signaller
<1>. HIDE DEF a
<1>8. Lined' /\ Timed' /\ Answered'
  <2>1. new \in SUBSET TaskType /\ NoOp.at = 0
    BY <1>1, OwnOps DEF NoOp
  <2>2. ToSet(a) \cup ({NoPair} \ {NoPair}) = ToSet(active) \cup new
    BY <1>7
  <2>3. \A q \in new : Alive(q.coro)' /\ ~Waits(q.coro)'
    BY <1>3, <1>6, <2>1, <1>1
  <2>4. \A q \in new : q.op.at # 0 => TimedPair(q)'
    BY <1>1, <2>1
  <2>5. \A t \in Names : \A q \in ToSet(sigwait'[t]) : q \in ToSet(sigwait[t])
    <3>1. ToSet(<<>>) = {}
      BY DEF ToSet
    <3>. QED  BY <1>2, <3>1
  <2>6. Continue(a, NoPair) /\ NoPair \in TaskType \cup {NoPair}
    BY DEF a
  <2>7. Spread(IF NoPair = NoPair THEN a ELSE <<NoPair>> \o a, Moot')
    BY <1>7
  <2>8. \A e \in timeouts' :
          e \in timeouts \/ (cur.op.at # 0 /\ e = [op |-> cur.op, live |-> TRUE])
    OBVIOUS
  <2>. HIDE DEF new
  <2>9. \A q \in new : q.op # TimeoutExc =>
           /\ pend[q.coro].k = "join" => state'[pend[q.coro].arg] \in EndStates
           /\ pend[q.coro].k = "coro" => state'[pend[q.coro].c] \in EndStates
           /\ pend[q.coro].k = "sleep" => pend[q.coro].at <= clock
    BY <1>6
  <2>. QED  BY <1>5, <1>7, <2>1, <2>2, <2>3, <2>4, <2>5, <2>6, <2>7, <2>8, <2>9, HandsOver
<1>9. WaitsInSignals'
  <2>1. ASSUME NEW t \in Names, NEW p \in ToSet(sigwait'[t])
        PROVE  /\ t # s /\ p \in ToSet(sigwait[t]) /\ p.coro \in Coro
               /\ Alive(p.coro) /\ pend[p.coro] = p.op /\ p.op.c = p.coro /\ p.op.arg = t
    <3>1. ToSet(<<>>) = {}
      BY DEF ToSet
    <3>2. t # s /\ p \in ToSet(sigwait[t])
      BY <1>2, <2>1, <3>1
    <3>. QED  BY <3>2, PlaceTypes DEF Good, Waiting, WaitsInSignals
  <2>2. \A t \in Names : Distinct(sigwait'[t])
    BY <1>2, EmptyCoros DEF Good, Waiting, WaitsInSignals
  <2>. QED  BY <1>3, <2>1, <2>2 DEF WaitsInSignals
<1>10. WaitsInJoins' /\ WaitsInCalls'
  BY <1>3, Remaining DEF Good
<1>11. WaitsToSignal'
  <2>1. ASSUME NEW t \in Names, signals'[t] # NoPair
        PROVE  signals'[t] = signals[t] /\ signals[t].coro \in Coro
    BY <2>1, PlaceTypes
  <2>. QED  BY <1>1, <1>3, <2>1 DEF WaitsToSignal, Good, Waiting
<1>12. ToSet(W) \cup ToSet(active) \subseteq Handed'
  <2>1. Handed' = ToSet(a) \cup ({NoPair} \ {NoPair})
    BY HandedAfter DEF a
  <2>. QED  BY <1>7, <2>1
<1>. QED  BY <1>8, <1>9, <1>10, <1>11, <1>12

\* Signal: it is delivered, or kept back, maybe in the place of another.
LEMMA ProcessSignalGood ==
  ASSUME TypeOK, Flow, Good, ProcessSignal
  PROVE  Good'
<1>1. /\ phase = "process" /\ cur.op.k = "signal"
      /\ UNCHANGED <<running, clock, opn, pend, timeouts, state, caller, waiters>>
  BY DEF ProcessSignal, Processing
<1>2. PICK c \in Coro, s \in Names : c = cur.coro /\ s = cur.op.arg
  <2>1. cur \in TaskType /\ cur.coro \in Coro /\ cur.op \in OpType
    BY <1>1, ProcessedAlone, PlaceTypes
  <2>. QED  BY <1>1, <2>1 DEF OpType
<1>3. IF Len(sigwait[s]) < cur.op.recipients
      THEN signals' = [signals EXCEPT ![s] = cur] /\ Continue(active, NoPair) /\ UNCHANGED sigwait
      ELSE Continue(Delivered(cur, sigwait[s]), NoPair) /\ sigwait' = Emptied(s) /\ UNCHANGED signals
  BY <1>2 DEF ProcessSignal
<1>4. /\ pend[c] = cur.op /\ Alive(c) /\ ~Waits(c) /\ c \notin Coros(active) /\ cur \in TaskType
      /\ cur.op.at = 0
  <2>1. Yielded /\ cur.op # CoroOp(cur.coro)
    BY <1>1, OwnOps DEF Flow
  <2>. QED  BY <1>1, <1>2, <2>1, ProcessedAlone DEF Yielded, Good, Timed
<1>5. \A x \in Coro : Alive(x)' <=> Alive(x)
  BY <1>1 DEF Alive
<1>6. \A x \in Coro : state'[x] = state[x] \/ (state[x] = "absent" /\ state'[x] = "need_init")
  BY <1>1
<1>7. Handed = ToSet(active) /\ Spread(active, Moot') /\ active \in Seq(TaskType)
  BY <1>1, <1>6, StillSpread, PlaceTypes
<1>8. CASE Len(sigwait[s]) < cur.op.recipients
  <2>1. /\ Continue(active, NoPair) /\ UNCHANGED sigwait
        /\ \A t \in Names : signals'[t] = IF t = s THEN cur ELSE signals[t]
    BY <1>3, <1>8 DEF TypeOK, CoTypeOK
  <2>2. \A x \in Coro : Waits(x)' => Waits(x) \/ (x = cur.coro /\ Alive(cur.coro))
    <3>1. ASSUME NEW x \in Coro, NEW d \in Coro, Awaits(x, d)'
          PROVE  Awaits(x, d)
      BY <1>1, <3>1 DEF Awaits
    <3>. QED  BY <1>1, <1>2, <1>4, <2>1, <3>1 DEF Waits
  <2>3. Lined' /\ Timed' /\ Answered'
    <3>1. {} \in SUBSET TaskType /\ ToSet(active) \cup ({NoPair} \ {NoPair}) = ToSet(active) \cup {}
          /\ Spread(IF NoPair = NoPair THEN active ELSE <<NoPair>> \o active, Moot')
      BY <1>7
    <3>2. timeouts' = timeouts /\ sigwait' = sigwait /\ UNCHANGED <<clock, pend>>
      BY <1>1, <2>1
    <3>. QED  BY <1>1, <1>6, <1>7, <2>1, <2>2, <3>1, <3>2, HandsOver
  <2>4. WaitsInSignals' /\ WaitsInJoins' /\ WaitsInCalls'
    BY <1>1, <1>5, <2>1, Remaining DEF Good
  <2>5. WaitsToSignal'
    <3>1. ASSUME NEW t \in Names, signals'[t] # NoPair
          PROVE  LET p == signals'[t] IN
                 /\ p.coro \in Coro /\ Alive(p.coro) /\ pend[p.coro] = p.op
                 /\ p.op.k = "signal" /\ p.op.arg = t
      <4>1. CASE t = s
        BY <1>1, <1>2, <1>4, <2>1, <4>1
      <4>2. CASE t # s
        BY <2>1, <3>1, <4>2, PlaceTypes DEF Good, Waiting, WaitsToSignal
      <4>. QED  BY <4>1, <4>2
    <3>2. NoPair' = NoPair
      BY DEF NoPair, Pair, NoOp
    <3>. QED  BY <1>1, <1>5, <3>1, <3>2 DEF WaitsToSignal
  <2>6. WaitsForTime'
    <3>1. Handed' = ToSet(active)
      BY <2>1, HandedAfter
    <3>. QED  BY <1>1, <1>5, <1>7, <2>1, <3>1, PlaceTypes DEF Good, Waiting, WaitsForTime
  <2>. QED  BY <2>3, <2>4, <2>5, <2>6 DEF Good, Waiting
<1>9. CASE ~(Len(sigwait[s]) < cur.op.recipients)
  <2>. DEFINE W == sigwait[s]
  <2>1. /\ Continue(Delivered(cur, W), NoPair) /\ sigwait' = Emptied(s) /\ UNCHANGED signals
        /\ W \in Seq(TaskType) /\ ToSet(W) \subseteq TaskType
    BY <1>3, <1>9, PlaceTypes
  <2>2. Distinct(W) /\ \A p \in ToSet(W) :
          /\ p.coro \in Coro /\ Alive(p.coro) /\ pend[p.coro] = p.op /\ p.op.k = "wait" /\ p.op.arg = s
          /\ p.coro \notin Coros(active)
    <3>1. Distinct(W) /\ \A p \in ToSet(W) :
            /\ p.coro \in Coro /\ Alive(p.coro) /\ pend[p.coro] = p.op /\ p.op.arg = s
            /\ Waits(p.coro)
      BY <2>1, PlaceTypes DEF Good, Waiting, WaitsInSignals, Waits
    <3>2. \A p \in ToSet(W) : p.op.k = "wait"
      BY DEF Flow, ToSet
    <3>3. \A x \in Coro : Waits(x) => x \notin Coros(active)
      BY <1>7, CorosOf DEF Good, Lined
    <3>. QED  BY <3>1, <3>2, <3>3
  <2>3. \A p \in ToSet(W) : p.op.at # 0 => TimedPair(p)'
    BY <1>1, StillTimed
  <2>4. \A t \in Names : signals'[t] \in {signals[t], NoPair} /\ signals'[t].coro # c
    BY <1>4, <2>1 DEF Waits
  <2>. HIDE DEF W
  <2>5. /\ Lined' /\ Timed' /\ Answered'
        /\ WaitsInSignals' /\ WaitsInJoins' /\ WaitsInCalls' /\ WaitsToSignal'
        /\ ToSet(W) \cup ToSet(active) \subseteq Handed'
    BY <1>1, <1>2, <1>4, <2>1, <2>2, <2>3, <2>4, DeliverGood
  <2>6. WaitsForTime'
    <3>1. \A t \in Names : sigwait'[t] = IF t = s THEN <<>> ELSE sigwait[t]
      BY <2>1 DEF Emptied, TypeOK, CoTypeOK
    <3>2. ASSUME NEW e \in timeouts, e.op.k = "wait"
          PROVE  \/ Pair(e.op, e.op.c) \in Handed'
                 \/ Pair(e.op, e.op.c) \in ToSet(sigwait'[e.op.arg])
      <4>1. e.op.arg \in Names
        BY <3>2, PlaceTypes
      <4>2. \/ Pair(e.op, e.op.c) \in Handed
            \/ Pair(e.op, e.op.c) \in ToSet(sigwait[e.op.arg])
        BY <3>2 DEF Good, Waiting, WaitsForTime
      <4>. QED  BY <1>7, <2>5, <3>1, <4>1, <4>2 DEF W
    <3>. QED  BY <1>1, <1>5, <3>2, PlaceTypes DEF Good, Waiting, WaitsForTime
  <2>. QED  BY <2>5, <2>6 DEF Good, Waiting
<1>. QED  BY <1>8, <1>9

\* WaitForSignal: the coroutine waits, or completes the signal kept back.
LEMMA ProcessWaitGood ==
  ASSUME TypeOK, Flow, Good, Untied, ProcessWait
  PROVE  Good'
<1>1. /\ phase = "process" /\ cur.op.k = "wait" /\ WithDefault(cur.op) = cur.op
      /\ timeouts' = Pushed(cur.op)
      /\ UNCHANGED <<running, clock, opn, pend, state, caller, waiters>>
  BY DEF ProcessWait, Processing, WithDefault, Untied
<1>2. PICK c \in Coro, s \in Names : c = cur.coro /\ s = cur.op.arg
  <2>1. cur \in TaskType /\ cur.coro \in Coro /\ cur.op \in OpType
    BY <1>1, ProcessedAlone, PlaceTypes
  <2>. QED  BY <1>1, <2>1 DEF OpType
<1>0. PICK q \in TaskType : q = Pair(cur.op, c) /\ q.coro = c /\ q.op = cur.op
  <2>1. cur.op \in OpType
    BY <1>1, ProcessedAlone, PlaceTypes
  <2>. QED  BY <2>1, PairTypes
<1>. DEFINE W == Append(sigwait[s], q)
            sig == signals[s]
<1>3. IF Enough(sig, W)
      THEN Continue(Delivered(sig, W), NoPair) /\ sigwait' = Emptied(s)
           /\ signals' = [signals EXCEPT ![s] = NoPair]
      ELSE sigwait' = [sigwait EXCEPT ![s] = W] /\ Continue(active, NoPair) /\ UNCHANGED signals
  BY <1>0, <1>1, <1>2 DEF ProcessWait
<1>4. /\ q \in TaskType /\ q.coro = c /\ q.op = cur.op /\ active \in Seq(TaskType)
      /\ sigwait[s] \in Seq(TaskType) /\ ToSet(sigwait[s]) \subseteq TaskType
      /\ sig \in TaskType \cup {NoPair}
  BY <1>0, PlaceTypes
<1>5. /\ W \in Seq(TaskType) /\ ToSet(W) = ToSet(sigwait[s]) \cup {q}
      /\ Coros(W) = Coros(sigwait[s]) \cup {c}
      /\ Distinct(sigwait[s]) /\ c \notin Coros(sigwait[s]) => Distinct(W)
  <2>1. W \in Seq(TaskType)
    BY <1>4
  <2>. QED  BY <1>4, <2>1, Members, AppendCoros
<1>. HIDE DEF W
<1>6. /\ timeouts \subseteq timeouts'
      /\ \A e \in timeouts' : e \in timeouts \/ (cur.op.at # 0 /\ e = [op |-> cur.op, live |-> TRUE])
      /\ cur.op.at # 0 => [op |-> cur.op, live |-> TRUE] \in timeouts'
      /\ cur.op.c = c /\ pend[c] = cur.op /\ Alive(c) /\ ~Waits(c) /\ c \notin Coros(active)
  BY <1>1, <1>2, SetsTimer, ProcessedAlone
<1>7. \A x \in Coro : /\ state'[x] = state[x] \/ (state[x] = "absent" /\ state'[x] = "need_init")
                      /\ Alive(x)' <=> Alive(x)
  BY <1>1 DEF Alive
<1>8. Handed = ToSet(active) /\ Spread(active, Moot')
  BY <1>1, <1>6, <1>7, StillSpread
<1>9. q.op.at # 0 => TimedPair(q)'
  <2>1. \A e \in timeouts : cur.op.at # 0 => e.op.at # cur.op.at
    BY <1>1 DEF Good, Timed
  <2>. QED  BY <1>1, <1>2, <1>4, <1>6, <2>1 DEF TimedPair
<1>10. \A p \in ToSet(sigwait[s]) :
         /\ p.coro \in Coro /\ Alive(p.coro) /\ pend[p.coro] = p.op /\ p.op.k = "wait"
         /\ p.op.arg = s /\ p.op.c = p.coro
         /\ p.coro \notin Coros(active) /\ p.coro # c
         /\ p.op.at # 0 => TimedPair(p)'
  <2>1. \A p \in ToSet(sigwait[s]) :
          /\ p.coro \in Coro /\ Alive(p.coro) /\ pend[p.coro] = p.op /\ p.op.arg = s
          /\ p.op.c = p.coro /\ Waits(p.coro)
    BY <1>4, PlaceTypes DEF Good, Waiting, WaitsInSignals, Waits
  <2>2. \A p \in ToSet(sigwait[s]) : p.op.k = "wait"
    BY DEF Flow, ToSet
  <2>3. \A x \in Coro : Waits(x) => x \notin Coros(active)
    BY <1>8, CorosOf DEF Good, Lined
  <2>4. \A p \in ToSet(sigwait[s]) : p.op.at # 0 => TimedPair(p)'
    BY <1>1, <1>6, StillTimed
  <2>. QED  BY <1>6, <2>1, <2>2, <2>3, <2>4
<1>11. Distinct(W)
  <2>1. Distinct(sigwait[s])
    BY DEF Good, Waiting, WaitsInSignals
  <2>2. c \notin Coros(sigwait[s])
    BY <1>10, CorosOf
  <2>. QED  BY <1>5, <2>1, <2>2
<1>12. CASE Enough(sig, W)
  <2>1. /\ Continue(Delivered(sig, W), NoPair) /\ sigwait' = Emptied(s) /\ sig \in TaskType
        /\ \A t \in Names : signals'[t] = IF t = s THEN NoPair ELSE signals[t]
    BY <1>3, <1>4, <1>12 DEF Enough, TypeOK, CoTypeOK
  <2>2. /\ sig.coro \in Coro /\ Alive(sig.coro) /\ pend[sig.coro].k = "signal" /\ pend[sig.coro].arg = s
        /\ sig.coro \notin Coros(active)
    <3>1. /\ sig.coro \in Coro /\ Alive(sig.coro) /\ pend[sig.coro].k = "signal"
          /\ pend[sig.coro].arg = s /\ Waits(sig.coro)
      BY <1>12, <2>1, PlaceTypes DEF Enough, Good, Waiting, WaitsToSignal, Waits
    <3>. QED  BY <1>8, <3>1, CorosOf DEF Good, Lined
  <2>3. \A t \in Names : signals'[t] \in {signals[t], NoPair} /\ signals'[t].coro # sig.coro
    <3>1. \A t \in Names : signals[t].coro = sig.coro => pend[sig.coro].arg = t
      BY <2>2, WhereWaits DEF Good
    <3>. QED  BY <2>1, <2>2, <3>1, PlaceTypes
  <2>4. \A p \in ToSet(W) : /\ Alive(p.coro) /\ pend[p.coro] = p.op /\ p.op.k = "wait" /\ p.op.arg = s
                            /\ p.op.at # 0 => TimedPair(p)'
                            /\ p.coro \notin Coros(active)
    BY <1>1, <1>2, <1>4, <1>5, <1>6, <1>9, <1>10
  <2>. HIDE DEF sig
  <2>5. /\ Lined' /\ Timed' /\ Answered'
        /\ WaitsInSignals' /\ WaitsInJoins' /\ WaitsInCalls' /\ WaitsToSignal'
        /\ ToSet(W) \cup ToSet(active) \subseteq Handed'
    BY <1>1, <1>5, <1>6, <1>11, <2>1, <2>2, <2>3, <2>4, DeliverGood
  <2>6. WaitsForTime'
    <3>1. \A t \in Names : sigwait'[t] = IF t = s THEN <<>> ELSE sigwait[t]
      BY <2>1 DEF Emptied, TypeOK, CoTypeOK
    <3>2. ASSUME NEW e \in timeouts, e.op.k = "wait"
          PROVE  \/ Pair(e.op, e.op.c) \in Handed'
                 \/ Pair(e.op, e.op.c) \in ToSet(sigwait'[e.op.arg])
      <4>1. e.op.arg \in Names
        BY <3>2, PlaceTypes
      <4>2. \/ Pair(e.op, e.op.c) \in Handed
            \/ Pair(e.op, e.op.c) \in ToSet(sigwait[e.op.arg])
        BY <3>2 DEF Good, Waiting, WaitsForTime
      <4>. QED  BY <1>5, <1>8, <2>5, <3>1, <4>1, <4>2
    <3>3. \A e \in timeouts : e.op.k = "join" => e.op.c \in ToSet(waiters'[e.op.c])
      BY <1>1 DEF Good, Waiting, WaitsForTime
    <3>4. Pair(cur.op, cur.coro) \in Handed'
      BY <1>0, <1>2, <1>5, <2>5
    <3>5. timeouts' \subseteq Pushed(cur.op) /\ pend' = pend
      BY <1>1
    <3>. QED  BY <1>1, <1>7, <3>2, <3>3, <3>4, <3>5, TimersFit
  <2>. QED  BY <2>5, <2>6 DEF Good, Waiting
<1>13. CASE ~Enough(sig, W)
  <2>1. /\ Continue(active, NoPair) /\ UNCHANGED signals
        /\ \A t \in Names : sigwait'[t] = IF t = s THEN W ELSE sigwait[t]
    BY <1>3, <1>13 DEF TypeOK, CoTypeOK
  <2>2. \A x \in Coro : Waits(x)' => Waits(x) \/ (x = cur.coro /\ Alive(cur.coro))
    <3>1. ASSUME NEW x \in Coro, NEW d \in Coro, Awaits(x, d)'
          PROVE  Awaits(x, d)
      BY <1>1, <3>1 DEF Awaits
    <3>2. ASSUME NEW x \in Coro, NEW t \in Names, NEW p \in ToSet(sigwait'[t]), p.coro = x
          PROVE  p \in ToSet(sigwait[t]) \/ x = c
      BY <1>4, <1>5, <2>1, <3>2
    <3>3. \A e \in timeouts' : e.op.k = "sleep" => e \in timeouts
      BY <1>1, <1>6
    <3>. QED  BY <1>1, <1>2, <1>6, <2>1, <3>1, <3>2, <3>3 DEF Waits
  <2>3. Lined' /\ Timed' /\ Answered'
    <3>1. {} \in SUBSET TaskType /\ ToSet(active) \cup ({NoPair} \ {NoPair}) = ToSet(active) \cup {}
          /\ Spread(IF NoPair = NoPair THEN active ELSE <<NoPair>> \o active, Moot')
      BY <1>8
    <3>2. \A t \in Names : \A p \in ToSet(sigwait'[t]) :
            p \in ToSet(sigwait[t]) \/ p.op.at = 0 \/ TimedPair(p)'
      BY <1>5, <1>9, <2>1
    <3>3. UNCHANGED <<clock, pend>>
      BY <1>1
    <3>. QED  BY <1>1, <1>4, <1>6, <1>7, <2>1, <2>2, <3>1, <3>2, <3>3, HandsOver
  <2>4. WaitsToSignal' /\ WaitsInJoins' /\ WaitsInCalls'
    BY <1>1, <1>7, <2>1, Remaining DEF Good
  <2>5. WaitsInSignals'
    <3>1. ASSUME NEW t \in Names, NEW p \in ToSet(sigwait'[t])
          PROVE  p.coro \in Coro /\ Alive(p.coro) /\ pend[p.coro] = p.op /\ p.op.c = p.coro /\ p.op.arg = t
      <4>1. CASE t = s
        BY <1>2, <1>4, <1>5, <1>6, <1>10, <2>1, <3>1, <4>1
      <4>2. CASE t # s
        BY <2>1, <3>1, <4>2, PlaceTypes DEF Good, Waiting, WaitsInSignals
      <4>. QED  BY <4>1, <4>2
    <3>2. \A t \in Names : Distinct(sigwait'[t])
      BY <1>11, <2>1 DEF Good, Waiting, WaitsInSignals
    <3>. QED  BY <1>1, <1>7, <3>1, <3>2 DEF WaitsInSignals
  <2>6. WaitsForTime'
    <3>1. Handed' = ToSet(active)
      BY <2>1, HandedAfter
    <3>2. \A e \in timeouts : e.op.k = "join" => e.op.c \in ToSet(waiters'[e.op.c])
      BY <1>1 DEF Good, Waiting, WaitsForTime
    <3>3. \A e \in timeouts : e.op.k = "wait" =>
            \/ Pair(e.op, e.op.c) \in Handed'
            \/ Pair(e.op, e.op.c) \in ToSet(sigwait'[e.op.arg])
      BY <1>5, <1>8, <2>1, <3>1, PlaceTypes DEF Good, Waiting, WaitsForTime
    <3>4. Pair(cur.op, cur.coro) \in ToSet(sigwait'[cur.op.arg])
      BY <1>0, <1>2, <1>5, <2>1
    <3>5. timeouts' \subseteq Pushed(cur.op) /\ pend' = pend
      BY <1>1
    <3>. QED  BY <1>1, <1>7, <3>2, <3>3, <3>4, <3>5, TimersFit
  <2>. QED  BY <2>3, <2>4, <2>5, <2>6 DEF Good, Waiting
<1>. QED  BY <1>12, <1>13

-----------------------------------------------------------------------------
(***************************************************************************)
(* The timers.                                                             *)
(***************************************************************************)
\* What deque.remove or list.remove leaves: the others, and if nothing was
\* there twice, not what is removed.
LEMMA RemoveFirstRest ==
  ASSUME NEW S, NEW s \in Seq(S), NEW e
  PROVE  LET r == RemoveFirst(s, e) IN
         /\ ToSet(s) \ {e} \subseteq ToSet(r)
         /\ (\A i, j \in DOMAIN s : s[i] = s[j] => i = j) =>
              e \notin ToSet(r) /\ \A i, j \in DOMAIN r : r[i] = r[j] => i = j
         /\ Distinct(s) => Distinct(r)
<1>. DEFINE r == RemoveFirst(s, e)
<1>1. CASE r = s /\ \A i \in 1 .. Len(s) : s[i] # e
  <2>1. e \notin ToSet(s)
    BY <1>1 DEF ToSet
  <2>. HIDE DEF r
  <2>. QED  BY <1>1, <2>1 DEF r
<1>2. ASSUME NEW i \in DOMAIN s, s[i] = e, r = RemoveAt(s, i)
      PROVE  /\ ToSet(s) \ {e} \subseteq ToSet(r)
             /\ (\A k, j \in DOMAIN s : s[k] = s[j] => k = j) =>
                  e \notin ToSet(r) /\ \A k, j \in DOMAIN r : r[k] = r[j] => k = j
             /\ Distinct(s) => Distinct(r)
  <2>. DEFINE n == Len(s)
              from(j) == IF j < i THEN j ELSE j + 1
  <2>1. /\ n \in Nat /\ DOMAIN s = 1 .. n /\ i \in 1 .. n
        /\ DOMAIN r = 1 .. n - 1
        /\ \A j \in 1 .. n - 1 : r[j] = s[from(j)]
    BY <1>2, RemoveAtIndices
  <2>. HIDE DEF r, n
  <2>2. \A j \in 1 .. n - 1 : from(j) \in 1 .. n /\ from(j) # i
    BY <2>1
  <2>3. \A j, k \in 1 .. n - 1 : from(j) = from(k) => j = k
    BY <2>1
  <2>4. \A k \in 1 .. n : k # i => \E j \in 1 .. n - 1 : from(j) = k
    <3>1. ASSUME NEW k \in 1 .. n, k # i
          PROVE  \E j \in 1 .. n - 1 : from(j) = k
      <4>1. CASE k < i
        BY <2>1, <4>1
      <4>2. CASE k > i
        <5>1. k - 1 \in 1 .. n - 1 /\ from(k - 1) = k
          BY <2>1, <4>2
        <5>. QED  BY <5>1
      <4>. QED  BY <2>1, <3>1, <4>1, <4>2
    <3>. QED  BY <3>1
  <2>. HIDE DEF from
  <2>5. ToSet(s) \ {e} \subseteq ToSet(r)
    <3>1. ASSUME NEW k \in 1 .. n, s[k] # e
          PROVE  \E j \in 1 .. n - 1 : r[j] = s[k]
      BY <1>2, <2>1, <2>4, <3>1
    <3>. QED  BY <2>1, <3>1 DEF ToSet
  <2>6. ASSUME \A k, j \in DOMAIN s : s[k] = s[j] => k = j
        PROVE  e \notin ToSet(r) /\ \A k, j \in DOMAIN r : r[k] = r[j] => k = j
    BY <1>2, <2>1, <2>2, <2>3, <2>6 DEF ToSet
  <2>7. Distinct(s) => Distinct(r)
    BY <2>1, <2>2, <2>3 DEF Distinct
  <2>. QED  BY <2>5, <2>6, <2>7
<1>. QED  BY <1>1, <1>2, RemoveFirstCases

\* An entry that is due leaves the heap, which leaves the timers of others.
LEMMA OtherTimers ==
  ASSUME TypeOK, Flow, Good, NEW e \in timeouts, NEW f \in timeouts \ {e}
  PROVE  f.op.at # e.op.at /\ f.op # e.op /\ f.op.c # e.op.c
<1>1. f.op.at # e.op.at
  BY DEF Good, Timed
<1>. QED  BY <1>1 DEF Good, Waiting, WaitsForTime

\* The coroutine of an entry that is due is queued: with its Sleep, or with the
\* exception, maybe behind its WaitForSignal.
LEMMA ExpireGood ==
  ASSUME TypeOK, Flow, Good, NEW e \in timeouts, Due(e), NEW p \in TaskType, Expire(e, p),
         p.coro = e.op.c, UNCHANGED <<caller, signals>>,
         \/ p.op = e.op /\ e.op.k = "sleep"
         \/ p.op = TimeoutExc /\ e.op.k \in {"join", "wait"},
         ~Waits(e.op.c)', \A x \in Coro : Waits(x)' => Waits(x),
         \A s \in Names : ToSet(sigwait'[s]) \subseteq ToSet(sigwait[s])
  PROVE  /\ Lined' /\ Timed' /\ Answered'
         /\ Handed = ToSet(active) /\ Handed' = ToSet(active) \cup {p}
<1>1. /\ phase = "timers" /\ e.op.at <= clock /\ Alive(e.op.c) /\ cur = NoPair
      /\ timeouts' = timeouts \ {e} /\ active' = Append(active, p)
      /\ UNCHANGED <<running, cur, phase, clock, state, opn, pend>>
  BY DEF Due, Expire, Earliest, Expired, Flow
<1>2. /\ e.op.c \in Coro /\ active \in Seq(TaskType) /\ ToSet(active) \subseteq TaskType /\ NoPair' = NoPair
      /\ \A q \in TaskType : q.coro \in Coro
  BY PlaceTypes DEF NoPair, Pair, NoOp
<1>3. Handed = ToSet(active) /\ Spread(active, Moot')
  BY <1>1, StillSpread
<1>4. Handed' = ToSet(active) \cup {p} /\ Line' = Append(active, p)
  <2>1. Handed' = ToSet(Append(active, p)) /\ Line' = Append(active, p)
    BY <1>1 DEF Handed, Line
  <2>. QED  BY <1>2, <2>1, Members
<1>5. ASSUME NEW q \in ToSet(active), q.coro = p.coro
      PROVE  q \in Moot' /\ p.op = TimeoutExc
  <2>1. ~Waits(e.op.c)
    BY <1>3, <1>5 DEF Good, Lined
  <2>2. e.op.k # "sleep" /\ e.op.k # "join"
    BY <1>2, <2>1 DEF Waits, Awaits, Good, Waiting, WaitsForTime
  <2>3. e.op.k = "wait" /\ e.op.arg \in Names /\ Pair(e.op, e.op.c) \in Handed
    <3>1. e.op.k = "wait" /\ e.op.arg \in Names /\ Pair(e.op, e.op.c).coro = e.op.c
      BY <2>2, PlaceTypes DEF Pair
    <3>. QED  BY <2>1, <3>1 DEF Waits, Good, Waiting, WaitsForTime
  <2>4. Doomed(e.op)'
    <3>1. \A f \in timeouts' : f.op.at # e.op.at
      BY <1>1, OtherTimers
    <3>. QED  BY <1>1, <2>3, <3>1 DEF Doomed, Good, Timed
  <2>5. q.op = e.op
    <3>1. q \in Handed /\ Pair(e.op, e.op.c) \in ToSet(active) /\ Pair(e.op, e.op.c).coro = e.op.c
      BY <1>3, <2>3 DEF Pair
    <3>2. Line = active /\ ~(Pair(e.op, e.op.c) \in Moot) /\ Pair(e.op, e.op.c).op = e.op
      <4>1. ~Doomed(e.op)
        BY DEF Doomed
      <4>. QED  BY <1>1, <4>1 DEF Line, Moot, Pair
    <3>3. PICK i \in DOMAIN active, j \in DOMAIN active : active[i] = q /\ active[j] = Pair(e.op, e.op.c)
      BY <3>1 DEF ToSet
    <3>4. DOMAIN active \subseteq Nat
      BY <1>2
    <3>5. CASE i < j
      <4>1. Pair(e.op, e.op.c).op = TimeoutExc
        BY <1>5, <3>1, <3>2, <3>3, <3>5 DEF Good, Lined, Spread
      <4>. QED  BY <2>3, <3>2, <4>1, OwnOps
    <3>6. CASE j < i
      BY <1>5, <3>1, <3>2, <3>3, <3>6 DEF Good, Lined, Spread
    <3>. QED  BY <3>2, <3>3, <3>4, <3>5, <3>6
  <2>. QED  BY <1>2, <2>2, <2>4, <2>5 DEF Moot
<1>6. Spread(Line', Moot')
  BY <1>2, <1>3, <1>4, <1>5, AppendSpread
<1>7. {p} \in SUBSET TaskType /\ Handed' = Handed \cup {p}
  BY <1>3, <1>4
<1>8. \A q \in {p} : Alive(q.coro)' /\ ~Waits(q.coro)'
  BY <1>1 DEF Alive
<1>9. \A q \in {p} : q.op.at # 0 => TimedPair(q)'
  <2>1. TimeoutExc.at = 0
    BY OwnOps
  <2>2. CASE p.op = e.op /\ e.op.k = "sleep"
    <3>1. \A f \in timeouts' : f.op.at # e.op.at
      BY <1>1, OtherTimers
    <3>2. clock \in Nat /\ e.op.at \in Nat
      BY PlaceTypes
    <3>. QED  BY <1>1, <2>2, <3>1, <3>2 DEF TimedPair
  <2>. QED  BY <2>1, <2>2
<1>10. \A q \in {p} : q.op # TimeoutExc =>
         /\ pend[q.coro].k = "join" => state'[pend[q.coro].arg] \in EndStates
         /\ pend[q.coro].k = "coro" => state'[pend[q.coro].c] \in EndStates
         /\ pend[q.coro].k = "sleep" => pend[q.coro].at <= clock
  <2>1. pend[e.op.c] = e.op
    BY DEF Good, Waiting, WaitsForTime
  <2>. QED  BY <1>1, <2>1
<1>11. \A q \in Handed : ~Waits(q.coro)'
  BY <1>2, <1>3 DEF Good, Lined
<1>12. phase' # "process" /\ cur' = NoPair' /\ \A f \in timeouts : f \notin timeouts' => f.op.at <= clock
  BY <1>1, <1>2
<1>. QED  BY <1>1, <1>2, <1>3, <1>4, <1>6, <1>7, <1>8, <1>9, <1>10, <1>11, <1>12, HandsOut

\* A sleeping coroutine is woken.
LEMMA WakeSleeperGood ==
  ASSUME TypeOK, Flow, Good, WakeSleeper
  PROVE  Good'
<1>1. PICK e \in timeouts :
        Due(e) /\ e.op.k = "sleep" /\ Expire(e, Pair(e.op, e.op.c)) /\ UNCHANGED coVars
  BY DEF WakeSleeper
<1>. DEFINE p == Pair(e.op, e.op.c)
<1>2. /\ p \in TaskType /\ p.coro = e.op.c /\ p.op = e.op /\ e.op.c \in Coro
      /\ pend[e.op.c] = e.op
  BY PairTypes, PlaceTypes DEF Good, Waiting, WaitsForTime
<1>. HIDE DEF p
<1>3. /\ timeouts' = timeouts \ {e} /\ UNCHANGED <<clock, state, pend, caller, waiters, sigwait, signals>>
      /\ \A x \in Coro : Alive(x)' <=> Alive(x)
  BY <1>1 DEF Expire, coVars, Alive
<1>4. /\ \A x \in Coro : Waits(x)' => Waits(x)
      /\ ~Waits(e.op.c)'
  <2>1. \A x \in Coro : Waits(x)' =>
          \/ \E s \in Names : \E q \in ToSet(sigwait[s]) : q.coro = x
          \/ \E d \in Coro : caller[d] = x \/ x \in ToSet(waiters[d])
          \/ \E s \in Names : signals[s].coro = x
          \/ \E f \in timeouts \ {e} : f.op.k = "sleep" /\ f.op.c = x
    BY <1>3 DEF Waits, Awaits
  <2>2. \A f \in timeouts \ {e} : f.op.c # e.op.c
    BY OtherTimers
  <2>3. ~Waits(e.op.c)'
    BY <1>1, <1>2, <2>1, <2>2, WhereWaits DEF Good
  <2>. QED  BY <2>1, <2>3 DEF Waits, Awaits
<1>5. /\ Lined' /\ Timed' /\ Answered'
      /\ Handed = ToSet(active) /\ Handed' = ToSet(active) \cup {p}
  <2>1. Expire(e, p) /\ \A s \in Names : ToSet(sigwait'[s]) \subseteq ToSet(sigwait[s])
    BY <1>1, <1>3 DEF p
  <2>. QED  BY <1>1, <1>2, <1>3, <1>4, <2>1, ExpireGood
<1>6. Waiting'
  <2>1. Handed \subseteq Handed' /\ timeouts' \subseteq timeouts /\ UNCHANGED <<pend, coVars>>
    BY <1>1, <1>3, <1>5
  <2>. QED  BY <1>3, <2>1, StillWaiting DEF Good
<1>. QED  BY <1>5, <1>6 DEF Good

\* A join times out: the coroutine is told so, and no longer waits.
LEMMA TimeoutJoinGood ==
  ASSUME TypeOK, Flow, Good, TimeoutJoin
  PROVE  Good'
<1>1. PICK e \in timeouts :
        /\ Due(e) /\ e.op.k = "join" /\ Expire(e, Pair(TimeoutExc, e.op.c))
        /\ waiters' = [waiters EXCEPT ![e.op.c] = RemoveFirst(@, e.op.c)]
        /\ UNCHANGED <<caller, sigwait, signals>>
  BY DEF TimeoutJoin
<1>2. PICK c \in Coro : c = e.op.c
  BY PlaceTypes
<1>3. PICK p \in TaskType : p = Pair(TimeoutExc, c) /\ p.coro = c /\ p.op = TimeoutExc
  BY PlainOps, PairTypes
<1>4. /\ timeouts' = timeouts \ {e} /\ UNCHANGED <<clock, state, pend, caller, sigwait, signals>>
      /\ \A x \in Coro : Alive(x)' <=> Alive(x)
      /\ pend[c] = e.op /\ e.op.at # 0
  BY <1>1, <1>2 DEF Expire, Alive, Good, Waiting, WaitsForTime, Timed
<1>5. PICK w \in Seq(Coro) :
        /\ \A d \in Coro : waiters'[d] = IF d = c THEN w ELSE waiters[d]
        /\ ToSet(w) \subseteq ToSet(waiters[c]) /\ ToSet(waiters[c]) \ {c} \subseteq ToSet(w)
        /\ c \notin ToSet(w) /\ \A i, j \in DOMAIN w : w[i] = w[j] => i = j
  <2>. DEFINE w == RemoveFirst(waiters[c], c)
  <2>1. waiters[c] \in Seq(Coro) /\ \A i, j \in DOMAIN waiters[c] : waiters[c][i] = waiters[c][j] => i = j
    BY PlaceTypes DEF Good, Waiting, WaitsInJoins
  <2>2. w \in Seq(Coro) /\ ToSet(w) \subseteq ToSet(waiters[c])
    BY <2>1, RemoveFirstType, RemoveFirstMembers
  <2>3. /\ ToSet(waiters[c]) \ {c} \subseteq ToSet(w)
        /\ c \notin ToSet(w) /\ \A i, j \in DOMAIN w : w[i] = w[j] => i = j
    BY <2>1, RemoveFirstRest
  <2>4. \A d \in Coro : waiters'[d] = IF d = c THEN w ELSE waiters[d]
    BY <1>1, <1>2 DEF TypeOK, CoTypeOK
  <2>. HIDE DEF w
  <2>. QED  BY <2>2, <2>3, <2>4
<1>6. \A d \in Coro : /\ ToSet(waiters'[d]) \subseteq ToSet(waiters[d])
                      /\ c \notin ToSet(waiters'[d])
                      /\ \A x \in ToSet(waiters[d]) : x # c => x \in ToSet(waiters'[d])
  <2>1. \A d \in Coro : c \in ToSet(waiters[d]) => d = c
    BY <1>2, <1>4, WhereWaits DEF Good
  <2>. QED  BY <1>5, <2>1
<1>7. /\ \A x \in Coro : Waits(x)' => Waits(x)
      /\ ~Waits(c)'
  <2>1. \A x \in Coro : Waits(x)' =>
          \/ \E s \in Names : \E q \in ToSet(sigwait[s]) : q.coro = x
          \/ \E d \in Coro : caller[d] = x \/ (x \in ToSet(waiters[d]) /\ x # c)
          \/ \E s \in Names : signals[s].coro = x
          \/ \E f \in timeouts : f.op.k = "sleep" /\ f.op.c = x
    <3>1. ASSUME NEW x \in Coro, NEW d \in Coro, Awaits(x, d)'
          PROVE  caller[d] = x \/ (x \in ToSet(waiters[d]) /\ x # c)
      BY <1>4, <1>6, <3>1 DEF Awaits
    <3>. QED  BY <1>4, <3>1 DEF Waits
  <2>2. ~Waits(c)'
    BY <1>1, <1>2, <1>4, <2>1, WhereWaits DEF Good
  <2>. QED  BY <2>1, <2>2 DEF Waits, Awaits
<1>8. /\ Lined' /\ Timed' /\ Answered'
      /\ Handed = ToSet(active) /\ Handed' = ToSet(active) \cup {p}
  <2>1. Expire(e, p) /\ p.coro = e.op.c /\ ~Waits(e.op.c)'
        /\ \A s \in Names : ToSet(sigwait'[s]) \subseteq ToSet(sigwait[s])
    BY <1>1, <1>2, <1>3, <1>4, <1>7
  <2>. QED  BY <1>1, <1>3, <1>4, <1>7, <2>1, ExpireGood
<1>9. WaitsInSignals' /\ WaitsInCalls' /\ WaitsToSignal'
  BY <1>4, Remaining DEF Good
<1>10. WaitsInJoins'
  <2>1. \A d \in Coro : \A i, j \in DOMAIN waiters'[d] : waiters'[d][i] = waiters'[d][j] => i = j
    BY <1>5 DEF Good, Waiting, WaitsInJoins
  <2>2. ASSUME NEW d \in Coro, NEW x \in ToSet(waiters'[d])
        PROVE  x \in Coro /\ Alive(x) /\ pend[x].k = "join"
               /\ d = IF pend[x].at = 0 THEN pend[x].arg ELSE x
    BY <1>6, PlaceTypes DEF Good, Waiting, WaitsInJoins
  <2>. QED  BY <1>4, <2>1, <2>2 DEF WaitsInJoins
<1>11. WaitsForTime'
  <2>1. ASSUME NEW f \in timeouts'
        PROVE  f \in timeouts /\ f.op.c # c /\ f.op.c \in Coro
    BY <1>2, <1>4, OtherTimers, PlaceTypes
  <2>. QED  BY <1>4, <1>6, <1>8, <2>1 DEF Good, Waiting, WaitsForTime
<1>. QED  BY <1>8, <1>9, <1>10, <1>11 DEF Good, Waiting

\* A wait for a signal times out: the coroutine is told so, and no longer waits,
\* but may be in line already.
LEMMA TimeoutWaitGood ==
  ASSUME TypeOK, Flow, Good, TimeoutWait
  PROVE  Good'
<1>1. PICK e \in timeouts :
        /\ Due(e) /\ e.op.k = "wait" /\ Expire(e, Pair(TimeoutExc, e.op.c))
        /\ sigwait' = [sigwait EXCEPT ![e.op.arg] = RemoveFirst(@, Pair(e.op, e.op.c))]
        /\ UNCHANGED <<caller, waiters, signals>>
  BY DEF TimeoutWait, WithoutWait
<1>2. PICK c \in Coro, s \in Names, q \in TaskType :
        c = e.op.c /\ s = e.op.arg /\ q = Pair(e.op, e.op.c) /\ q.coro = c /\ q.op = e.op
  BY <1>1, PairTypes, PlaceTypes
<1>3. PICK p \in TaskType : p = Pair(TimeoutExc, c) /\ p.coro = c /\ p.op = TimeoutExc
  BY PlainOps, PairTypes
<1>4. /\ timeouts' = timeouts \ {e} /\ UNCHANGED <<clock, state, pend, caller, waiters, signals>>
      /\ \A x \in Coro : Alive(x)' <=> Alive(x)
      /\ pend[c] = e.op
  BY <1>1, <1>2 DEF Expire, Alive, Good, Waiting, WaitsForTime
<1>5. PICK w \in Seq(TaskType) :
        /\ \A t \in Names : sigwait'[t] = IF t = s THEN w ELSE sigwait[t]
        /\ ToSet(w) \subseteq ToSet(sigwait[s]) /\ ToSet(sigwait[s]) \ {q} \subseteq ToSet(w)
        /\ q \notin ToSet(w) /\ Distinct(w)
  <2>. DEFINE w == RemoveFirst(sigwait[s], q)
  <2>1. sigwait[s] \in Seq(TaskType) /\ Distinct(sigwait[s])
    BY PlaceTypes DEF Good, Waiting, WaitsInSignals
  <2>2. w \in Seq(TaskType) /\ ToSet(w) \subseteq ToSet(sigwait[s])
    BY <2>1, RemoveFirstType, RemoveFirstMembers
  <2>3. \A i, j \in DOMAIN sigwait[s] : sigwait[s][i] = sigwait[s][j] => i = j
    BY <2>1 DEF Distinct
  <2>4. /\ ToSet(sigwait[s]) \ {q} \subseteq ToSet(w)
        /\ q \notin ToSet(w) /\ Distinct(w)
    BY <2>1, <2>3, RemoveFirstRest
  <2>5. \A t \in Names : sigwait'[t] = IF t = s THEN w ELSE sigwait[t]
    BY <1>1, <1>2 DEF TypeOK, CoTypeOK
  <2>. HIDE DEF w
  <2>. QED  BY <2>2, <2>4, <2>5
<1>6. \A t \in Names : \A r \in ToSet(sigwait'[t]) : r \in ToSet(sigwait[t]) /\ r.coro \in Coro /\ r.coro # c
  <2>1. ASSUME NEW t \in Names, NEW r \in ToSet(sigwait[t]), r.coro = c
        PROVE  t = s /\ r = q
    <3>1. r.op = pend[c] /\ pend[c].arg = t /\ r \in TaskType
      BY <2>1, WhereWaits, PlaceTypes DEF Good
    <3>. QED  BY <1>2, <1>4, <2>1, <3>1 DEF TaskType
  <2>2. \A t \in Names : \A r \in ToSet(sigwait'[t]) : r \in ToSet(sigwait[t]) /\ r.coro \in Coro
    BY <1>5, PlaceTypes
  <2>. QED  BY <1>5, <2>1, <2>2
<1>7. /\ \A x \in Coro : Waits(x)' => Waits(x)
      /\ ~Waits(c)'
  <2>1. \A x \in Coro : Waits(x)' =>
          \/ \E t \in Names : \E r \in ToSet(sigwait[t]) : r.coro = x /\ x # c
          \/ \E d \in Coro : caller[d] = x \/ x \in ToSet(waiters[d])
          \/ \E t \in Names : signals[t].coro = x
          \/ \E f \in timeouts : f.op.k = "sleep" /\ f.op.c = x
    <3>1. ASSUME NEW x \in Coro, NEW d \in Coro, Awaits(x, d)'
          PROVE  caller[d] = x \/ x \in ToSet(waiters[d])
      BY <1>4, <3>1 DEF Awaits
    <3>. QED  BY <1>4, <1>6, <3>1 DEF Waits
  <2>2. ~Waits(c)'
    BY <1>1, <1>2, <1>4, <2>1, WhereWaits DEF Good
  <2>. QED  BY <2>1, <2>2 DEF Waits, Awaits
<1>8. /\ Lined' /\ Timed' /\ Answered'
      /\ Handed = ToSet(active) /\ Handed' = ToSet(active) \cup {p}
  <2>1. Expire(e, p) /\ p.coro = e.op.c /\ ~Waits(e.op.c)'
        /\ \A t \in Names : ToSet(sigwait'[t]) \subseteq ToSet(sigwait[t])
    BY <1>1, <1>2, <1>3, <1>6, <1>7
  <2>. QED  BY <1>1, <1>3, <1>4, <1>7, <2>1, ExpireGood
<1>9. WaitsInJoins' /\ WaitsInCalls' /\ WaitsToSignal'
  BY <1>4, Remaining DEF Good
<1>10. WaitsInSignals'
  <2>1. \A t \in Names : Distinct(sigwait'[t])
    BY <1>5 DEF Good, Waiting, WaitsInSignals
  <2>. QED  BY <1>4, <1>6, <2>1 DEF Good, Waiting, WaitsInSignals
<1>11. WaitsForTime'
  <2>1. ASSUME NEW f \in timeouts', f.op.k = "wait"
        PROVE  \/ Pair(f.op, f.op.c) \in Handed'
               \/ Pair(f.op, f.op.c) \in ToSet(sigwait'[f.op.arg])
    <3>1. f \in timeouts /\ f.op # e.op /\ f.op.arg \in Names /\ Pair(f.op, f.op.c).op = f.op
      BY <1>4, <2>1, OtherTimers, PlaceTypes DEF Pair
    <3>2. \/ Pair(f.op, f.op.c) \in Handed
          \/ Pair(f.op, f.op.c) \in ToSet(sigwait[f.op.arg])
      BY <2>1, <3>1 DEF Good, Waiting, WaitsForTime
    <3>. QED  BY <1>2, <1>5, <1>8, <3>1, <3>2
  <2>2. \A f \in timeouts' : f \in timeouts /\ f.op.c \in Coro
    BY <1>4, PlaceTypes
  <2>. QED  BY <1>4, <2>1, <2>2 DEF Good, Waiting, WaitsForTime
<1>. QED  BY <1>8, <1>9, <1>10, <1>11 DEF Good, Waiting

\* deque.remove raises TypeError: the loop ends where it is.
LEMMA CleanupRaisesGood ==
  ASSUME TypeOK, Flow, Good, CleanupRaises
  PROVE  Good'
<1>1. PICK e \in timeouts :
        /\ Due(e) /\ timeouts' = timeouts \ {e} /\ phase' = "dead"
        /\ UNCHANGED <<active, running, cur, clock, state, opn, pend, coVars>>
  BY DEF CleanupRaises
<1>2. /\ phase = "timers" /\ cur = NoPair /\ NoPair' = NoPair /\ e.op.at <= clock
      /\ Handed' = Handed /\ Handed = ToSet(active) /\ Line' = active
      /\ \A x \in Coro : Alive(x)' <=> Alive(x)
  BY <1>1 DEF Due, Earliest, Expired, Flow, Handed, Line, NoPair, Pair, NoOp, Alive
<1>3. Spread(Line', Moot')
  BY <1>1, <1>2, StillSpread
<1>4. Waiting' /\ \A x \in Coro : Waits(x)' => Waits(x)
  BY <1>1, <1>2, StillWaiting DEF Good
<1>5. Lined' /\ Timed' /\ Answered'
  <2>1. {} \in SUBSET TaskType /\ Handed' = Handed \cup {}
    BY <1>2
  <2>2. \A q \in Handed : ~Waits(q.coro)'
    BY <1>4, PlaceTypes DEF Good, Lined
  <2>3. \A t \in Names : \A q \in ToSet(sigwait'[t]) : q \in ToSet(sigwait[t])
    BY <1>1 DEF coVars
  <2>4. phase' # "process" /\ cur' = NoPair' /\ UNCHANGED <<clock, pend>> /\ state' = state
        /\ timeouts' \subseteq timeouts /\ \A f \in timeouts : f \notin timeouts' => f.op.at <= clock
    BY <1>1, <1>2
  <2>. QED  BY <1>3, <2>1, <2>2, <2>3, <2>4, HandsOut
<1>. QED  BY <1>4, <1>5 DEF Good
-----------------------------------------------------------------------------
(***************************************************************************)
(* The invariant, and what follows from it.                                *)
(***************************************************************************)
\* No step of a program leaves a coroutine where it should not be.
LEMMA NextGood ==
  ASSUME Untied
  PROVE  TypeOK /\ Flow /\ Good /\ [Next]_vars => Good'
<1>. SUFFICES ASSUME TypeOK, Flow, Good, [Next]_vars PROVE Good'
  OBVIOUS
<1>1. CASE LoopStep /\ UNCHANGED coVars
  BY <1>1, TurnGood, TakenOutGood, ProcessNoneGood DEF LoopStep
<1>2. CASE Resume
  <2>1. /\ phase = "run" /\ cur.coro \in Coro /\ Alive(cur.coro) /\ UNCHANGED coVars
        /\ \/ \E op \in OpType, st \in {"running", "completed", "failed"} : ComesBack(op, st)
           \/ Spawn
           \/ Shutdown
    BY <1>2, ResumeCases DEF TypeOK
  <2>2. ASSUME NEW op \in OpType, NEW st \in {"running", "completed", "failed"}, ComesBack(op, st)
        PROVE  Good'
    BY <2>1, <2>2, ComesBackGood
  <2>3. CASE Shutdown
    <3>1. UNCHANGED <<active, timeouts, cur, phase, clock, state, pend, coVars>>
      BY <2>1, <2>3 DEF Shutdown
    <3>. QED  BY <3>1, SameGood
  <2>. QED  BY <2>1, <2>2, <2>3, SpawnGood
<1>3. CASE Process
  <2>1. CASE ProcessObject
    <3>1. /\ UNCHANGED <<active, timeouts, cur, clock, state, pend, coVars>>
          /\ phase = "process" /\ phase' = "dead"
      BY <2>1 DEF ProcessObject, Processing
    <3>. QED  BY <3>1, SameGood
  <2>. QED  BY <1>3, <2>1, ProcessCallGood, ProcessEndGood, ProcessAddGood, ProcessJoinGood,
               ProcessSleepGood, ProcessSignalGood, ProcessWaitGood DEF Process
<1>4. CASE HandleTimeout
  BY <1>4, WakeSleeperGood, TimeoutJoinGood, TimeoutWaitGood, CleanupRaisesGood DEF HandleTimeout
<1>5. CASE Tick /\ UNCHANGED coVars
  BY <1>5, TickGood
<1>6. CASE (Over /\ UNCHANGED coVars) \/ UNCHANGED vars
  <2>1. UNCHANGED <<active, timeouts, cur, phase, clock, state, pend, coVars>>
    BY <1>6 DEF Over, loopVars, vars
  <2>. QED  BY <2>1, SameGood
<1>. QED  BY <1>1, <1>2, <1>3, <1>4, <1>5, <1>6 DEF Next, Loop

LEMMA AlwaysGood ==
  ASSUME Untied
  PROVE  Spec => [](TypeOK /\ Flow /\ Good)
<1>1. Init => TypeOK /\ Flow /\ Good
  BY InitType, InitFlow, InitGood
<1>2. TypeOK /\ Flow /\ Good /\ [Next]_vars => (TypeOK /\ Flow /\ Good)'
  BY NextType, NextFlow, NextGood
<1>. QED  BY <1>1, <1>2, PTL DEF Spec

\* Who waits for a signal has yielded that operation last, and has not been
\* resumed since: unless deadlines tie, a timeout takes out the pair it is for.
THEOREM NoGhosts ==
  ASSUME Untied
  PROVE  Spec => []NoGhostWait
<1>1. TypeOK /\ Flow /\ Good => NoGhostWait
  <2>. SUFFICES ASSUME TypeOK, Flow, Good PROVE NoGhostWait
    OBVIOUS
  <2>1. \A s \in Names : \A i \in DOMAIN sigwait[s] : sigwait[s][i] \in ToSet(sigwait[s])
    BY DEF ToSet
  <2>. QED  BY <2>1 DEF NoGhostWait, SameOp, Good, Waiting, WaitsInSignals
<1>. QED  BY <1>1, AlwaysGood, PTL

\* Nobody goes on before what it waits for has happened, or has timed out.
THEOREM NotBeforeTime ==
  ASSUME Untied
  PROVE  Spec => []NoEarlyWake
<1>1. TypeOK /\ Flow /\ Good => NoEarlyWake
  <2>. SUFFICES ASSUME TypeOK, Flow, Good PROVE NoEarlyWake
    OBVIOUS
  <2>1. ASSUME NEW c \in Coro, NEW p \in Handed, p.coro = c, Alive(c), p.op # TimeoutExc
        PROVE  Awaited(pend[c])
    <3>1. /\ pend[c].k = "join" => state[pend[c].arg] \in EndStates
          /\ pend[c].k = "coro" => state[pend[c].c] \in EndStates
          /\ pend[c].k = "sleep" => pend[c].at <= clock
      BY <2>1 DEF Good, Answered
    <3>. QED  BY <3>1 DEF Awaited, Alive, EndStates
  <2>2. ToSet(active) \cup (IF phase = "run" THEN {cur} ELSE {}) = Handed
    BY DEF Handed
  <2>. QED  BY <2>1, <2>2 DEF NoEarlyWake
<1>. QED  BY <1>1, AlwaysGood, PTL

-----------------------------------------------------------------------------
(***************************************************************************)
(* No coroutine is lost, if Sleep(0), which sets no timer, is not used and *)
(* no signal is kept back: a second one would take the place of the first. *)
(***************************************************************************)
Lossless == Recipients \subseteq {0} /\ "nap" \notin Kinds

\* c is in line, waits, or is the coroutine of the inner loop.
Held(c) == Waits(c) \/ cur.coro = c \/ \E p \in ToSet(active) : p.coro = c

Found ==
  /\ \A c \in Coro : Alive(c) => Held(c)
  /\ \A s \in Names : signals[s] = NoPair

\* A step that hands out operations that are over, or waits for a signal, to
\* coroutines that live.
HandsNews ==
  /\ \A x \in Coro : Alive(x) => Alive(x)'
  /\ \A q \in Handed' :
       \/ q \in Handed
       \/ q.op.k \in {"none", "coro", "error", "add"}
       \/ \E s \in Names : q \in ToSet(sigwait[s])
       \/ q.op = cur.op /\ cur.op.k = "wait"
  /\ \A s \in Names : \A q \in ToSet(sigwait'[s]) :
       q \in ToSet(sigwait[s]) \/ (q.op = cur.op /\ cur.op.k = "wait")
  /\ \A e \in timeouts' : e \in timeouts \/ (e.op = cur.op /\ cur.op.at # 0)

\* Nobody waits in less than before, but who is in line now.
LEMMA StillFound ==
  ASSUME TypeOK, Found, signals' = signals,
         \A x \in Coro : Alive(x)' => Alive(x) \/ Held(x)',
         \A x \in Coro : cur.coro = x \/ (\E p \in ToSet(active) : p.coro = x) => ~Alive(x)' \/ Held(x)',
         \A s \in Names : \A p \in ToSet(sigwait[s]) : p \in ToSet(sigwait'[s]) \/ ~Alive(p.coro)' \/ Held(p.coro)',
         \A x, d \in Coro : Awaits(x, d) => Awaits(x, d)' \/ ~Alive(x)' \/ Held(x)',
         \A e \in timeouts : e.op.k = "sleep" => e \in timeouts' \/ ~Alive(e.op.c)' \/ Held(e.op.c)'
  PROVE  Found'
<1>1. ASSUME NEW x \in Coro, Alive(x)', ~Held(x)'
      PROVE  FALSE
  <2>1. Waits(x)
    BY <1>1 DEF Found, Held
  <2>2. \A s \in Names : signals[s].coro # x
    BY PlaceTypes DEF Found
  <2>3. ~Waits(x)'
    BY <1>1 DEF Held
  <2>4. ASSUME NEW s \in Names, NEW p \in ToSet(sigwait[s]), p.coro = x
        PROVE  FALSE
    BY <1>1, <2>3, <2>4 DEF Waits
  <2>5. ASSUME NEW d \in Coro, Awaits(x, d)
        PROVE  FALSE
    BY <1>1, <2>3, <2>5 DEF Waits
  <2>6. ASSUME NEW e \in timeouts, e.op.k = "sleep", e.op.c = x
        PROVE  FALSE
    BY <1>1, <2>3, <2>6 DEF Waits
  <2>. QED  BY <2>1, <2>2, <2>4, <2>5, <2>6 DEF Waits
<1>2. \A s \in Names : signals'[s] = NoPair'
  BY DEF Found, NoPair, Pair, NoOp
<1>. QED  BY <1>1, <1>2 DEF Found

\* A call, or the end of a coroutine.
LEMMA ProcessCallHands ==
  ASSUME TypeOK, Flow, Good, ProcessCall
  PROVE  HandsNews /\ (Found => Found')
<1>1. PICK c \in Coro, d \in Coro :
        /\ c = cur.coro /\ d = cur.op.c /\ d # c /\ cur.op.k = "coro" /\ phase = "process"
        /\ caller' = [caller EXCEPT ![d] = c] /\ state' = [state EXCEPT ![d] = "need_init"]
        /\ Continue(active, Pair(NoOp, d))
        /\ UNCHANGED <<running, clock, opn, pend, timeouts, waiters, sigwait, signals>>
  <2>1. phase = "process" /\ cur.op.k = "coro"
    BY DEF ProcessCall, Processing
  <2>. QED  BY <2>1, ProcessedAlone, PlaceTypes DEF ProcessCall, Processing
<1>2. /\ Handed = ToSet(active) /\ Handed' \subseteq ToSet(active) \cup {Pair(NoOp, d)}
      /\ active' = active /\ cur'.coro = d /\ Pair(NoOp, d).op = NoOp
  BY <1>1, HandedAfter DEF Handed, Pair
<1>3. \A x \in Coro : (Alive(x) => Alive(x)') /\ (Alive(x)' => Alive(x) \/ x = d)
  BY <1>1 DEF Alive, TypeOK, LoopTypeOK
<1>4. caller[d] = None /\ \A y \in Coro : caller'[y] = IF y = d THEN c ELSE caller[y]
  <2>1. Yielded /\ cur.op = CoroOp(d) /\ CoroOp(d) # CoroOp(c)
    BY <1>1, OwnOps DEF Flow, Yielded
  <2>2. state[d] = "absent"
    BY <1>1, <2>1 DEF Yielded
  <2>3. cur # Pair(CoroOp(d), d)
    BY <1>1 DEF Pair
  <2>4. \A x \in Coro : caller[d] # x
    BY <2>2, <2>3 DEF Flow, NoStaleWait, Alive
  <2>. QED  BY <1>1, <2>4, PlaceTypes DEF TypeOK, CoTypeOK
<1>5. HandsNews
  BY <1>1, <1>2, <1>3, OwnOps DEF HandsNews
<1>6. ASSUME Found
      PROVE  Found'
  <2>1. Held(c)' /\ Held(d)'
    BY <1>2, <1>4 DEF Held, Waits, Awaits
  <2>2. \A x, y \in Coro : Awaits(x, y) => Awaits(x, y)'
    BY <1>1, <1>4, CoroAssumption DEF Awaits
  <2>3. \A x \in Coro : (\E p \in ToSet(active) : p.coro = x) => Held(x)'
    BY <1>2 DEF Held
  <2>. QED  BY <1>1, <1>3, <1>6, <2>1, <2>2, <2>3, StillFound
<1>. QED  BY <1>5, <1>6

LEMMA ProcessEndHands ==
  ASSUME TypeOK, Flow, Good, ProcessEnd
  PROVE  HandsNews /\ (Found => Found')
<1>1. PICK c \in Coro : c = cur.coro /\ cur.op.c = c /\ cur.op.k = "coro" /\ phase = "process"
  <2>1. phase = "process" /\ cur.op.k = "coro" /\ cur.op.c = cur.coro
    BY DEF ProcessEnd, Processing
  <2>. QED  BY <2>1, ProcessedAlone
<1>2. ~Alive(c)
  <2>1. Yielded /\ cur.op = CoroOp(c)
    BY <1>1, OwnOps DEF Flow, Yielded
  <2>. QED  BY <1>1, <2>1 DEF Yielded, Alive, EndStates
<1>. DEFINE W == WaiterPairs(c, waiters[c])
            outcome == IF state[c] = "failed" THEN ErrorExc ELSE CoroOp(c)
<1>3. /\ caller' = [caller EXCEPT ![c] = None] /\ waiters' = [waiters EXCEPT ![c] = <<>>]
      /\ UNCHANGED <<running, clock, opn, pend, timeouts, state, sigwait, signals>>
      /\ IF caller[c] # None
         THEN Continue(Queued(W), Pair(outcome, caller[c]))
         ELSE IF W = <<>> THEN Continue(active, NoPair)
                          ELSE Continue(Queued(Front(W)), Last(W))
  BY <1>1 DEF ProcessEnd, Processing, SetAttribute
<1>4. /\ W \in Seq(TaskType) /\ Coros(W) = ToSet(waiters[c])
      /\ \A q \in ToSet(W) : q.op = CoroOp(c)
  BY <1>2, TellsWaiters
<1>5. outcome.k \in {"coro", "error"} /\ active \in Seq(TaskType)
  BY OwnOps, PlaceTypes
<1>. HIDE DEF W, outcome
<1>6. /\ \A q \in Handed' : q \in ToSet(active) \/ q.op.k \in {"coro", "error"}
      /\ ToSet(active) \subseteq ToSet(active')
      /\ \A x \in ToSet(waiters[c]) \cup ({caller[c]} \ {None}) :
           cur'.coro = x \/ \E p \in ToSet(active') : p.coro = x
  <2>1. \A t \in Seq(TaskType) : ToSet(Queued(t)) = ToSet(t) \cup ToSet(active)
    BY <1>5, QueuedMembers
  <2>2. \A q \in ToSet(W) : q.op.k = "coro"
    BY <1>4, OwnOps
  <2>3. \A x \in ToSet(waiters[c]) : \E p \in ToSet(W) : p.coro = x
    BY <1>4, CorosOf
  <2>4. CASE caller[c] # None
    <3>1. /\ active' = Queued(W) /\ cur' = Pair(outcome, caller[c])
          /\ Handed' \subseteq ToSet(Queued(W)) \cup {Pair(outcome, caller[c])}
      BY <1>3, <2>4, HandedAfter
    <3>2. Pair(outcome, caller[c]).op = outcome /\ Pair(outcome, caller[c]).coro = caller[c]
      BY DEF Pair
    <3>. QED  BY <1>4, <1>5, <2>1, <2>2, <2>3, <3>1, <3>2
  <2>5. CASE caller[c] = None /\ W = <<>>
    <3>1. active' = active /\ Handed' \subseteq ToSet(active) /\ ToSet(W) = {}
      BY <1>3, <2>5, HandedAfter DEF ToSet
    <3>. QED  BY <2>3, <2>5, <3>1
  <2>6. CASE caller[c] = None /\ W # <<>>
    <3>1. /\ active' = Queued(Front(W)) /\ cur' = Last(W)
          /\ Handed' \subseteq ToSet(Queued(Front(W))) \cup {Last(W)}
      BY <1>3, <2>6, HandedAfter
    <3>2. Front(W) \in Seq(TaskType) /\ ToSet(Front(W)) \cup {Last(W)} = ToSet(W)
      <4>1. /\ Front(W) \in Seq(TaskType)
            /\ Len(W) \in Nat \ {0} /\ DOMAIN W = 1 .. Len(W)
            /\ DOMAIN Front(W) = 1 .. Len(W) - 1 /\ Last(W) = W[Len(W)]
            /\ \A i \in 1 .. Len(W) - 1 : Front(W)[i] = W[i]
        BY <1>4, <2>6 DEF Front, Last
      <4>. DEFINE n == Len(W)
                  t == Front(W)
                  p == Last(W)
      <4>. HIDE DEF n, t, p
      <4>2. n \in Nat \ {0} /\ DOMAIN W = 1 .. n /\ DOMAIN t = 1 .. n - 1 /\ p = W[n]
            /\ \A i \in 1 .. n - 1 : t[i] = W[i]
        BY <4>1 DEF n, t, p
      <4>3. /\ \A i \in 1 .. n : i \in 1 .. n - 1 \/ i = n
            /\ \A i \in 1 .. n - 1 : i \in 1 .. n
            /\ n \in 1 .. n
        BY <4>2
      <4>4. ToSet(t) \cup {p} = ToSet(W)
        BY <4>2, <4>3 DEF ToSet
      <4>. QED  BY <4>1, <4>4 DEF t, p
    <3>. QED  BY <2>1, <2>2, <2>3, <2>6, <3>1, <3>2
  <2>. QED  BY <2>4, <2>5, <2>6
<1>7. Handed = ToSet(active) /\ \A x \in Coro : Alive(x)' <=> Alive(x)
  BY <1>1, <1>3 DEF Handed, Alive
<1>8. HandsNews
  BY <1>3, <1>6, <1>7 DEF HandsNews
<1>9. ASSUME Found
      PROVE  Found'
  <2>1. \A x \in Coro : (\E p \in ToSet(active) : p.coro = x) => Held(x)'
    BY <1>6 DEF Held
  <2>2. \A x, d \in Coro : Awaits(x, d) => Awaits(x, d)' \/ Held(x)'
    <3>1. ASSUME NEW x \in Coro, NEW d \in Coro, Awaits(x, d)
          PROVE  Awaits(x, d)' \/ Held(x)'
      <4>1. CASE d # c
        BY <1>3, <3>1, <4>1 DEF Awaits, TypeOK, CoTypeOK
      <4>2. CASE d = c
        BY <1>6, <3>1, <4>2, CoroAssumption DEF Awaits, Held
      <4>. QED  BY <4>1, <4>2
    <3>. QED  BY <3>1
  <2>. QED  BY <1>1, <1>2, <1>3, <1>7, <1>9, <2>1, <2>2, StillFound
<1>. QED  BY <1>8, <1>9

\* An addition, or a bare yield.
LEMMA ProcessAddHands ==
  ASSUME TypeOK, Flow, Good, ProcessAdd \/ (ProcessNone /\ UNCHANGED coVars)
  PROVE  HandsNews /\ (Found => Found')
<1>1. /\ phase = "process" /\ cur \in TaskType /\ cur.coro \in Coro /\ Handed = ToSet(active)
      /\ active \in Seq(TaskType) /\ cur # NoPair
  <2>1. phase = "process"
    BY DEF ProcessAdd, Processing, ProcessNone
  <2>. QED  BY <2>1, ProcessedAlone, PlaceTypes DEF Handed
<1>2. PICK a \in Seq(TaskType), p \in TaskType \cup {NoPair}, new \in SUBSET TaskType :
        /\ Continue(a, p) /\ ToSet(a) \cup ({p} \ {NoPair}) = ToSet(active) \cup new
        /\ ToSet(active) \subseteq ToSet(a)
        /\ \A q \in new : q.op.k \in {"none", "add"}
        /\ \A x \in Coro : x = cur.coro \/ (Alive(x)' /\ ~Alive(x)) => \E q \in new : q.coro = x
        /\ UNCHANGED <<clock, opn, pend, timeouts, coVars>>
        /\ \A x \in Coro : Alive(x) => Alive(x)'
  <2>1. CASE ProcessNone /\ UNCHANGED coVars
    <3>1. /\ cur.op = NoOp /\ UNCHANGED <<clock, opn, pend, timeouts, coVars, state>>
          /\ \/ Continue(Append(active, cur), NoPair)
             \/ Continue(active, cur)
      BY <2>1 DEF ProcessNone
    <3>2. /\ Append(active, cur) \in Seq(TaskType)
          /\ ToSet(Append(active, cur)) = ToSet(active) \cup {cur}
      BY <1>1, Members
    <3>3. \A x \in Coro : Alive(x)' <=> Alive(x)
      BY <3>1 DEF Alive
    <3>4. {cur} \in SUBSET TaskType /\ \A q \in {cur} : q.op.k \in {"none", "add"}
      BY <1>1, <3>1, OwnOps
    <3>5. \A x \in Coro : x = cur.coro \/ (Alive(x)' /\ ~Alive(x)) => \E q \in {cur} : q.coro = x
      BY <3>3
    <3>6. CASE Continue(Append(active, cur), NoPair)
      <4>1. ToSet(Append(active, cur)) \cup ({NoPair} \ {NoPair}) = ToSet(active) \cup {cur}
        BY <3>2
      <4>. QED  BY <3>1, <3>2, <3>3, <3>4, <3>5, <3>6, <4>1
    <3>7. CASE Continue(active, cur)
      <4>1. ToSet(active) \cup ({cur} \ {NoPair}) = ToSet(active) \cup {cur}
        BY <1>1
      <4>. QED  BY <1>1, <3>1, <3>3, <3>4, <3>5, <3>7, <4>1
    <3>. QED  BY <3>1, <3>6, <3>7
  <2>2. CASE ProcessAdd
    <3>. DEFINE instance == Pair(NoOp, cur.op.arg)
                back == Pair(NoOp, cur.coro)
                a == IF FavorsOp(cur.op.pr) THEN Append(active, instance) ELSE <<instance>> \o active
    <3>1. /\ cur.op.k = "add" /\ state' = [state EXCEPT ![cur.op.arg] = "need_init"]
          /\ UNCHANGED <<clock, opn, pend, timeouts, coVars>>
          /\ IF FavorsCoro(cur.op.pr) THEN Continue(a, cur) ELSE Continue(Append(a, back), NoPair)
      BY <2>2 DEF ProcessAdd, Processing
    <3>2. /\ cur.op.arg \in Coro
          /\ instance \in TaskType /\ instance.coro = cur.op.arg /\ instance.op = NoOp
          /\ back \in TaskType /\ back.coro = cur.coro /\ back.op = NoOp
      <4>1. cur.op.arg \in Coro
        BY <1>1, <3>1 DEF TaskType, OpType
      <4>. QED  BY <1>1, <4>1, PlainOps, PairTypes
    <3>. HIDE DEF instance, back
    <3>3. a \in Seq(TaskType) /\ ToSet(a) = ToSet(active) \cup {instance}
      BY <1>1, <3>2, Members
    <3>. HIDE DEF a
    <3>4. Append(a, back) \in Seq(TaskType) /\ ToSet(Append(a, back)) = ToSet(active) \cup {instance, back}
      <4>1. Append(a, back) \in Seq(TaskType) /\ ToSet(Append(a, back)) = ToSet(a) \cup {back}
        BY <3>2, <3>3, Members
      <4>. QED  BY <3>3, <4>1
    <3>5. \A x \in Coro : (Alive(x) => Alive(x)') /\ (Alive(x)' => Alive(x) \/ x = cur.op.arg)
      BY <3>1 DEF Alive, TypeOK, LoopTypeOK
    <3>6. CASE FavorsCoro(cur.op.pr)
      <4>1. Continue(a, cur) /\ ToSet(a) \cup ({cur} \ {NoPair}) = ToSet(active) \cup {instance, cur}
        BY <1>1, <3>1, <3>3, <3>6
      <4>2. /\ {instance, cur} \in SUBSET TaskType
            /\ \A q \in {instance, cur} : q.op.k \in {"none", "add"}
            /\ \A x \in Coro : x = cur.coro \/ (Alive(x)' /\ ~Alive(x)) => \E q \in {instance, cur} : q.coro = x
        BY <1>1, <3>1, <3>2, <3>5, OwnOps
      <4>. QED  BY <1>1, <3>1, <3>3, <3>5, <4>1, <4>2
    <3>7. CASE ~FavorsCoro(cur.op.pr)
      <4>1. /\ Continue(Append(a, back), NoPair)
            /\ ToSet(Append(a, back)) \cup ({NoPair} \ {NoPair}) = ToSet(active) \cup {instance, back}
        BY <3>1, <3>4, <3>7
      <4>2. /\ {instance, back} \in SUBSET TaskType
            /\ \A q \in {instance, back} : q.op.k \in {"none", "add"}
            /\ \A x \in Coro : x = cur.coro \/ (Alive(x)' /\ ~Alive(x)) => \E q \in {instance, back} : q.coro = x
        BY <3>2, <3>5, OwnOps
      <4>. QED  BY <3>1, <3>4, <3>5, <4>1, <4>2
    <3>. QED  BY <3>6, <3>7
  <2>. QED  BY <2>1, <2>2
<1>3. active' = a /\ cur' = p /\ Handed' = ToSet(active) \cup new
  BY <1>2, HandedAfter
<1>4. HandsNews
  BY <1>1, <1>2, <1>3 DEF HandsNews, coVars
<1>5. ASSUME Found
      PROVE  Found'
  <2>1. \A x \in Coro : (\E q \in ToSet(active) \cup new : q.coro = x) => Held(x)'
    BY <1>2, <1>3 DEF Held
  <2>2. \A x \in Coro : cur.coro = x \/ (Alive(x)' /\ ~Alive(x)) => Held(x)'
    BY <1>2, <2>1
  <2>3. UNCHANGED <<timeouts, sigwait, signals>> /\ \A x, d \in Coro : Awaits(x, d) => Awaits(x, d)'
    BY <1>2 DEF coVars, Awaits
  <2>. QED  BY <1>5, <2>1, <2>2, <2>3, StillFound
<1>. QED  BY <1>4, <1>5

\* Sleeping, and joins.
LEMMA ProcessSleepHands ==
  ASSUME TypeOK, Flow, Good, Untied, ProcessSleep
  PROVE  HandsNews /\ (Found /\ Lossless => Found')
<1>1. /\ phase = "process" /\ cur.op.k = "sleep" /\ timeouts' = Pushed(cur.op) /\ Continue(active, NoPair)
      /\ UNCHANGED <<running, clock, opn, pend, state, caller, waiters, sigwait, signals>>
  BY DEF ProcessSleep, Processing, WithDefault, Untied, coVars
<1>2. /\ timeouts \subseteq timeouts'
      /\ \A e \in timeouts' : e \in timeouts \/ (cur.op.at # 0 /\ e = [op |-> cur.op, live |-> TRUE])
      /\ cur.op.at # 0 => [op |-> cur.op, live |-> TRUE] \in timeouts'
      /\ cur.op.c = cur.coro /\ cur.coro \in Coro
  BY <1>1, SetsTimer, ProcessedAlone
<1>3. /\ Handed = ToSet(active) /\ Handed' = ToSet(active) /\ active' = active
      /\ \A x \in Coro : Alive(x)' <=> Alive(x)
  BY <1>1, HandedAfter DEF Handed, Alive
<1>4. HandsNews
  BY <1>1, <1>2, <1>3 DEF HandsNews
<1>5. ASSUME Found, Lossless
      PROVE  Found'
  <2>1. cur.op.at # 0
    BY <1>1, <1>5 DEF Flow, Yielded, Lossless
  <2>2. PICK c \in Coro : c = cur.coro
    BY <1>2
  <2>3. Held(c)'
    BY <1>1, <1>2, <2>1, <2>2 DEF Held, Waits
  <2>4. \A x \in Coro : (\E p \in ToSet(active) : p.coro = x) => Held(x)'
    BY <1>3 DEF Held
  <2>. QED  BY <1>1, <1>2, <1>3, <1>5, <2>2, <2>3, <2>4, StillFound DEF Awaits
<1>. QED  BY <1>4, <1>5

\* Join: the joiner is among those that wait, or is told at once.
LEMMA ProcessJoinHands ==
  ASSUME TypeOK, Flow, Good, Untied, ProcessJoin
  PROVE  HandsNews /\ (Found => Found')
<1>1. phase = "process" /\ cur.op.k = "join" /\ WithDefault(cur.op) = cur.op
  BY DEF ProcessJoin, Processing, WithDefault, Untied
<1>2. PICK c \in Coro, t \in Coro : c = cur.coro /\ t = IF cur.op.at # 0 THEN cur.coro ELSE cur.op.arg
  BY <1>1, ProcessedAlone, PlaceTypes
<1>3. /\ UNCHANGED <<running, clock, opn, pend, state, caller, sigwait, signals>>
      /\ IF Alive(t)
         THEN /\ timeouts' = Pushed(cur.op)
              /\ waiters' = [waiters EXCEPT ![t] = Append(@, c)]
              /\ Continue(active, NoPair)
         ELSE Throw(ErrorExc, Pushed(cur.op)) /\ UNCHANGED waiters
  BY <1>1, <1>2 DEF ProcessJoin, Processing
<1>4. /\ timeouts \subseteq Pushed(cur.op) /\ Alive(c) /\ pend[c] = cur.op
      /\ \A e \in Pushed(cur.op) : e \in timeouts \/ (cur.op.at # 0 /\ e = [op |-> cur.op, live |-> TRUE])
  BY <1>1, <1>2, SetsTimer
<1>5. Handed = ToSet(active) /\ \A x \in Coro : Alive(x)' <=> Alive(x)
  BY <1>1, <1>3 DEF Handed, Alive
<1>6. CASE Alive(t)
  <2>1. /\ timeouts' = Pushed(cur.op) /\ active' = active /\ Handed' = ToSet(active)
        /\ \A d \in Coro : waiters'[d] = IF d = t THEN Append(waiters[t], c) ELSE waiters[d]
    BY <1>3, <1>6, HandedAfter DEF TypeOK, CoTypeOK
  <2>2. HandsNews
    BY <1>3, <1>4, <1>5, <2>1 DEF HandsNews
  <2>3. ToSet(Append(waiters[t], c)) = ToSet(waiters[t]) \cup {c}
    BY Members, PlaceTypes
  <2>4. Held(c)' /\ \A x \in Coro : (\E p \in ToSet(active) : p.coro = x) => Held(x)'
    BY <2>1, <2>3 DEF Held, Waits, Awaits
  <2>5. \A x, d \in Coro : Awaits(x, d) => Awaits(x, d)'
    BY <1>3, <2>1, <2>3 DEF Awaits
  <2>6. timeouts \subseteq timeouts'
    BY <1>4, <2>1
  <2>. QED  BY <1>2, <1>3, <1>5, <2>2, <2>4, <2>5, <2>6, StillFound
<1>7. CASE ~Alive(t)
  <2>1. cur.op.at = 0
    BY <1>2, <1>4, <1>7
  <2>2. timeouts' = timeouts
    <3>1. \A e \in timeouts : ~SameOp(e.op, cur.op)
      BY <1>2, <1>4, <2>1, SetsTimer, <1>1 DEF SameOp, Good, Waiting, WaitsForTime, Timed
    <3>2. Retired(timeouts, cur.op) = timeouts
      BY <3>1 DEF Retired
    <3>. QED  BY <1>3, <1>7, <2>1, <3>2 DEF Throw, Pushed
  <2>3. /\ active' = active /\ cur'.coro = c /\ UNCHANGED waiters
        /\ \A q \in Handed' : q \in ToSet(active) \/ q.op.k = "error"
    <3>1. Continue(active, Pair(ErrorExc, c)) /\ UNCHANGED waiters
      BY <1>2, <1>3, <1>7 DEF Throw
    <3>2. Pair(ErrorExc, c).coro = c /\ Pair(ErrorExc, c).op = ErrorExc /\ ErrorExc.k = "error"
      BY OwnOps DEF Pair
    <3>. QED  BY <3>1, <3>2, HandedAfter
  <2>4. HandsNews
    BY <1>3, <1>5, <2>2, <2>3 DEF HandsNews
  <2>5. Held(c)' /\ \A x \in Coro : (\E p \in ToSet(active) : p.coro = x) => Held(x)'
    BY <2>3 DEF Held
  <2>6. \A x, d \in Coro : Awaits(x, d) => Awaits(x, d)'
    BY <1>3, <2>3 DEF Awaits
  <2>. QED  BY <1>2, <1>3, <1>5, <2>2, <2>4, <2>5, <2>6, StillFound
<1>. QED  BY <1>6, <1>7

\* A signal is delivered if it waits for nobody.
LEMMA ProcessSignalHands ==
  ASSUME TypeOK, Flow, Good, ProcessSignal
  PROVE  HandsNews /\ (Found /\ Lossless => Found')
<1>1. /\ phase = "process" /\ cur.op.k = "signal"
      /\ UNCHANGED <<running, clock, opn, pend, timeouts, state, caller, waiters>>
  BY DEF ProcessSignal, Processing
<1>2. PICK c \in Coro, s \in Names : c = cur.coro /\ s = cur.op.arg
  <2>1. cur \in TaskType /\ cur.coro \in Coro /\ cur.op \in OpType
    BY <1>1, ProcessedAlone, PlaceTypes
  <2>. QED  BY <1>1, <2>1 DEF OpType
<1>3. IF Len(sigwait[s]) < cur.op.recipients
      THEN signals' = [signals EXCEPT ![s] = cur] /\ Continue(active, NoPair) /\ UNCHANGED sigwait
      ELSE Continue(Delivered(cur, sigwait[s]), NoPair) /\ sigwait' = Emptied(s) /\ UNCHANGED signals
  BY <1>2 DEF ProcessSignal
<1>4. Handed = ToSet(active) /\ \A x \in Coro : Alive(x)' <=> Alive(x)
  BY <1>1 DEF Handed, Alive
<1>5. CASE Len(sigwait[s]) < cur.op.recipients
  <2>1. HandsNews
    BY <1>1, <1>3, <1>4, <1>5, HandedAfter DEF HandsNews
  <2>2. ~Lossless
    <3>1. cur.op.recipients \in Recipients
      <4>1. Yielded
        BY <1>1 DEF Flow
      <4>. QED  BY <1>1, <4>1 DEF Yielded
    <3>2. cur.op.recipients # 0
      BY <1>5, PlaceTypes
    <3>. QED  BY <3>1, <3>2 DEF Lossless
  <2>. QED  BY <2>1, <2>2
<1>6. CASE ~(Len(sigwait[s]) < cur.op.recipients)
  <2>1. PICK signaller \in TaskType : signaller = Pair(NoOp, c) /\ signaller.coro = c /\ signaller.op = NoOp
    BY PlainOps, PairTypes
  <2>2. ToSet(Delivered(cur, sigwait[s])) = ToSet(sigwait[s]) \cup ToSet(active) \cup {signaller}
    BY <1>1, <1>2, <2>1, ProcessedAlone, PlaceTypes, QueuedMembers
  <2>3. /\ active' = Delivered(cur, sigwait[s]) /\ UNCHANGED signals
        /\ Handed' = ToSet(sigwait[s]) \cup ToSet(active) \cup {signaller}
        /\ \A t \in Names : sigwait'[t] = IF t = s THEN <<>> ELSE sigwait[t]
    BY <1>3, <1>6, <2>2, HandedAfter DEF Emptied, TypeOK, CoTypeOK
  <2>4. ToSet(<<>>) = {} /\ NoOp.k = "none"
    BY OwnOps DEF ToSet
  <2>5. HandsNews
    BY <1>1, <1>4, <2>1, <2>3, <2>4 DEF HandsNews
  <2>6. \A x \in Coro : (\E p \in ToSet(sigwait[s]) \cup ToSet(active) \cup {signaller} : p.coro = x) => Held(x)'
    BY <2>2, <2>3 DEF Held
  <2>7. \A t \in Names : \A p \in ToSet(sigwait[t]) : p \in ToSet(sigwait'[t]) \/ Held(p.coro)'
    BY <2>3, <2>6, PlaceTypes
  <2>8. Held(c)' /\ \A x, d \in Coro : Awaits(x, d) => Awaits(x, d)'
    BY <1>1, <2>1, <2>6 DEF Awaits
  <2>. QED  BY <1>1, <1>2, <1>4, <2>3, <2>5, <2>6, <2>7, <2>8, StillFound
<1>. QED  BY <1>5, <1>6

\* WaitForSignal: no signal has been kept back, so the coroutine waits.
LEMMA ProcessWaitHands ==
  ASSUME TypeOK, Flow, Good, Untied, ProcessWait
  PROVE  HandsNews /\ (Found => Found')
<1>1. /\ phase = "process" /\ cur.op.k = "wait" /\ WithDefault(cur.op) = cur.op
      /\ timeouts' = Pushed(cur.op)
      /\ UNCHANGED <<running, clock, opn, pend, state, caller, waiters>>
  BY DEF ProcessWait, Processing, WithDefault, Untied
<1>2. PICK c \in Coro, s \in Names : c = cur.coro /\ s = cur.op.arg
  <2>1. cur \in TaskType /\ cur.coro \in Coro /\ cur.op \in OpType
    BY <1>1, ProcessedAlone, PlaceTypes
  <2>. QED  BY <1>1, <2>1 DEF OpType
<1>3. PICK q \in TaskType : q = Pair(cur.op, c) /\ q.coro = c /\ q.op = cur.op
  <2>1. cur.op \in OpType
    BY <1>1, ProcessedAlone, PlaceTypes
  <2>. QED  BY <2>1, PairTypes
<1>4. PICK W \in Seq(TaskType) : W = Append(sigwait[s], q) /\ ToSet(W) = ToSet(sigwait[s]) \cup {q}
  <2>1. sigwait[s] \in Seq(TaskType)
    BY PlaceTypes
  <2>2. Append(sigwait[s], q) \in Seq(TaskType) /\ ToSet(Append(sigwait[s], q)) = ToSet(sigwait[s]) \cup {q}
    BY <2>1, Members
  <2>. QED  BY <2>2
<1>5. PICK sig \in TaskType \cup {NoPair} : sig = signals[s]
  BY PlaceTypes
<1>6. IF Enough(sig, W)
      THEN Continue(Delivered(sig, W), NoPair) /\ sigwait' = Emptied(s)
           /\ signals' = [signals EXCEPT ![s] = NoPair]
      ELSE sigwait' = [sigwait EXCEPT ![s] = W] /\ Continue(active, NoPair) /\ UNCHANGED signals
  BY <1>1, <1>2, <1>3, <1>4, <1>5 DEF ProcessWait
<1>7. /\ timeouts \subseteq timeouts' /\ Handed = ToSet(active) /\ \A x \in Coro : Alive(x)' <=> Alive(x)
      /\ \A e \in timeouts' : e \in timeouts \/ (cur.op.at # 0 /\ e = [op |-> cur.op, live |-> TRUE])
  BY <1>1, SetsTimer DEF Handed, Alive
<1>8. CASE Enough(sig, W)
  <2>1. sig \in TaskType /\ ~Found
    BY <1>5, <1>8 DEF Enough, Found
  <2>2. PICK signaller \in TaskType : signaller = Pair(NoOp, sig.coro) /\ signaller.op = NoOp
    BY <2>1, PlainOps, PairTypes, PlaceTypes
  <2>3. ToSet(Delivered(sig, W)) = ToSet(W) \cup ToSet(active) \cup {signaller}
    BY <2>1, <2>2, PlaceTypes, QueuedMembers
  <2>4. /\ Handed' = ToSet(sigwait[s]) \cup {q} \cup ToSet(active) \cup {signaller}
        /\ \A t \in Names : sigwait'[t] = IF t = s THEN <<>> ELSE sigwait[t]
    BY <1>4, <1>6, <1>8, <2>3, HandedAfter DEF Emptied, TypeOK, CoTypeOK
  <2>5. ToSet(<<>>) = {} /\ NoOp.k = "none"
    BY OwnOps DEF ToSet
  <2>6. HandsNews
    BY <1>1, <1>3, <1>7, <2>2, <2>4, <2>5 DEF HandsNews
  <2>. QED  BY <2>1, <2>6
<1>9. CASE ~Enough(sig, W)
  <2>1. /\ active' = active /\ Handed' = ToSet(active) /\ UNCHANGED signals
        /\ \A t \in Names : sigwait'[t] = IF t = s THEN W ELSE sigwait[t]
    BY <1>6, <1>9, HandedAfter DEF TypeOK, CoTypeOK
  <2>2. HandsNews
    BY <1>1, <1>3, <1>4, <1>7, <2>1 DEF HandsNews
  <2>3. \A t \in Names : ToSet(sigwait[t]) \subseteq ToSet(sigwait'[t])
    BY <1>4, <2>1
  <2>4. Held(c)' /\ \A x \in Coro : (\E p \in ToSet(active) : p.coro = x) => Held(x)'
    <3>1. q \in ToSet(sigwait'[s])
      BY <1>4, <2>1
    <3>. QED  BY <1>3, <2>1, <3>1 DEF Held, Waits
  <2>5. \A x, d \in Coro : Awaits(x, d) => Awaits(x, d)'
    BY <1>1 DEF Awaits
  <2>. QED  BY <1>2, <1>7, <2>1, <2>2, <2>3, <2>4, <2>5, StillFound
<1>. QED  BY <1>8, <1>9

\* The loop turns, time passes, or a coroutine starts, is found dead or makes
\* another: nobody leaves the place it waits in.
LEMMA KeptFound ==
  ASSUME TypeOK, Found, UNCHANGED <<timeouts, coVars>>,
         \A x \in Coro : Alive(x)' => Alive(x) \/ Held(x)',
         \A x \in Coro : cur.coro = x \/ (\E p \in ToSet(active) : p.coro = x) => ~Alive(x)' \/ Held(x)'
  PROVE  Found'
<1>1. UNCHANGED <<sigwait, signals>> /\ \A x, d \in Coro : Awaits(x, d) => Awaits(x, d)'
  BY DEF coVars, Awaits
<1>. QED  BY <1>1, StillFound

LEMMA TurnFound ==
  ASSUME TypeOK, Flow, Good, Found, UNCHANGED coVars,
         LoopStep \/ Spawn \/ Shutdown \/ Tick \/ ProcessObject \/ UNCHANGED loopVars
  PROVE  Found'
<1>1. CASE ProcessNone
  BY <1>1, ProcessAddHands
<1>2. CASE UNCHANGED <<timeouts, state, cur, active>>
  BY <1>2, KeptFound DEF Held, Alive
<1>3. CASE Pick
  <2>1. /\ active \in Seq(TaskType) /\ active # <<>> /\ cur' = Head(active) /\ active' = Tail(active)
        /\ UNCHANGED <<timeouts, state>> /\ cur = NoPair
    BY <1>3 DEF Pick, TypeOK, LoopTypeOK, Flow
  <2>2. ToSet(active) = ToSet(active') \cup {cur'}
    <3>1. <<Head(active)>> \o Tail(active) = active /\ Tail(active) \in Seq(TaskType) /\ Head(active) \in TaskType
      BY <2>1
    <3>2. ToSet(<<Head(active)>> \o Tail(active)) = ToSet(Tail(active)) \cup {Head(active)}
      BY <3>1, Members
    <3>. QED  BY <2>1, <3>1, <3>2
  <2>3. NoPair.coro = None
    BY DEF NoPair, Pair
  <2>. QED  BY <2>1, <2>2, <2>3, KeptFound, CoroAssumption DEF Held, Alive
<1>4. CASE Start \/ FinalizeRaises \/ RunDeadCoro
  <2>1. /\ cur \in TaskType /\ cur.coro \in Coro /\ cur'.coro = cur.coro /\ UNCHANGED <<active, timeouts>>
        /\ \A x \in Coro : x # cur.coro => state'[x] = state[x]
    BY <1>4 DEF Start, FinalizeRaises, RunDeadCoro, Pair, TypeOK, LoopTypeOK, TaskType
  <2>2. PICK c \in Coro : c = cur.coro
    BY <2>1
  <2>. QED  BY <2>1, <2>2, KeptFound DEF Held, Alive
<1>5. ~DropStale
  BY DEF DropStale, Good, Waiting, WaitsForTime
<1>6. CASE Spawn
  <2>1. PICK d \in Coro : /\ state' = [state EXCEPT ![d] = "need_init"]
                          /\ active' = Append(active, Pair(NoOp, d)) /\ UNCHANGED <<timeouts, cur>>
    BY <1>6 DEF Spawn, Absent
  <2>2. Pair(NoOp, d) \in TaskType /\ Pair(NoOp, d).coro = d /\ active \in Seq(TaskType)
    BY PlainOps, PairTypes, PlaceTypes
  <2>3. ToSet(active') = ToSet(active) \cup {Pair(NoOp, d)}
    BY <2>1, <2>2, Members
  <2>4. Held(d)' /\ \A x \in Coro : x # d => state'[x] = state[x]
    BY <2>1, <2>2, <2>3 DEF Held
  <2>. QED  BY <2>1, <2>3, <2>4, KeptFound DEF Held, Alive
<1>7. LoopStep \/ Shutdown \/ Tick \/ ProcessObject \/ UNCHANGED loopVars =>
        \/ UNCHANGED <<timeouts, state, cur, active>>
        \/ Pick \/ Start \/ FinalizeRaises \/ RunDeadCoro \/ ProcessNone \/ DropStale
  BY DEF LoopStep, IdleTurn, Leave, EndTimers, Shutdown, Tick, ProcessObject, loopVars
<1>. QED  BY <1>1, <1>2, <1>3, <1>4, <1>5, <1>6, <1>7

\* Who comes back with an operation is the coroutine of the inner loop.
LEMMA ComesBackFound ==
  ASSUME TypeOK, Flow, Good, Found, phase = "run", cur.coro \in Coro, UNCHANGED coVars,
         NEW op \in OpType, NEW st \in {"running", "completed", "failed"}, ComesBack(op, st)
  PROVE  Found'
<1>1. PICK c \in Coro : c = cur.coro
  OBVIOUS
<1>2. /\ Alive(c) /\ timeouts' \in Finalized(cur.op)
      /\ state' = [StateAfterFinalize EXCEPT ![c] = st]
      /\ cur' = Pair(op, c) /\ UNCHANGED active
  BY <1>1 DEF ComesBack, Comeback
<1>3. \A e \in timeouts : e \in timeouts' \/ e.op.c = c
  BY <1>1, <1>2, Finalizing
<1>4. cur'.coro = c /\ cur \in Handed /\ cur \in TaskType
  BY <1>2, PlaceTypes DEF Pair, Handed
<1>5. \A x \in Coro : x # c => (Alive(x)' => Alive(x))
  <2>1. cur.op.k = "coro" => cur.op.c \in Coro
    BY <1>4, PlaceTypes
  <2>. QED  BY <1>2, <2>1 DEF StateAfterFinalize, TypeOK, LoopTypeOK, Alive
<1>6. /\ UNCHANGED <<sigwait, signals>>
      /\ \A x, d \in Coro : Awaits(x, d) => Awaits(x, d)'
      /\ \A x \in Coro : (\E p \in ToSet(active) : p.coro = x) => Held(x)'
      /\ Held(c)'
  BY <1>2, <1>4 DEF coVars, Awaits, Held
<1>. QED  BY <1>1, <1>3, <1>5, <1>6, StillFound

\* A coroutine whose time has come is in line.
LEMMA ExpireFound ==
  ASSUME TypeOK, Flow, Found, NEW e \in timeouts, Due(e), NEW p \in TaskType, Expire(e, p),
         p.coro = e.op.c, UNCHANGED <<caller, signals>>,
         \A s \in Names : \A q \in ToSet(sigwait[s]) : q \in ToSet(sigwait'[s]) \/ q.coro = e.op.c,
         \A d \in Coro : \A x \in ToSet(waiters[d]) : x \in ToSet(waiters'[d]) \/ x = e.op.c
  PROVE  Found'
<1>1. PICK c \in Coro : c = e.op.c
  BY PlaceTypes
<1>2. /\ timeouts' = timeouts \ {e} /\ active' = Append(active, p) /\ UNCHANGED <<cur, state>>
      /\ active \in Seq(TaskType)
  BY PlaceTypes DEF Expire
<1>3. ToSet(active') = ToSet(active) \cup {p}
  BY <1>2, Members
<1>4. Held(c)'
  BY <1>1, <1>3 DEF Held
<1>5. \A x \in Coro : cur.coro = x \/ (\E q \in ToSet(active) : q.coro = x) => Held(x)'
  BY <1>2, <1>3 DEF Held
<1>6. \A x, d \in Coro : Awaits(x, d) => Awaits(x, d)' \/ Held(x)'
  BY <1>1, <1>4 DEF Awaits
<1>7. \A x \in Coro : Alive(x)' => Alive(x)
  BY <1>2 DEF Alive
<1>8. /\ \A s \in Names : \A q \in ToSet(sigwait[s]) : q \in ToSet(sigwait'[s]) \/ Held(q.coro)'
      /\ \A f \in timeouts : f \in timeouts' \/ Held(f.op.c)'
  BY <1>1, <1>2, <1>4
<1>. QED  BY <1>5, <1>6, <1>7, <1>8, StillFound

LEMMA HandleTimeoutFound ==
  ASSUME TypeOK, Flow, Good, Found, HandleTimeout
  PROVE  Found'
<1>1. CASE WakeSleeper
  <2>1. PICK e \in timeouts : Due(e) /\ Expire(e, Pair(e.op, e.op.c)) /\ UNCHANGED coVars
    BY <1>1 DEF WakeSleeper
  <2>2. Pair(e.op, e.op.c) \in TaskType /\ Pair(e.op, e.op.c).coro = e.op.c
    BY PairTypes, PlaceTypes
  <2>3. UNCHANGED <<caller, waiters, sigwait, signals>>
    BY <2>1 DEF coVars
  <2>. QED  BY <2>1, <2>2, <2>3, ExpireFound
<1>2. CASE TimeoutJoin
  <2>1. PICK e \in timeouts :
          /\ Due(e) /\ Expire(e, Pair(TimeoutExc, e.op.c))
          /\ waiters' = [waiters EXCEPT ![e.op.c] = RemoveFirst(@, e.op.c)]
          /\ UNCHANGED <<caller, sigwait, signals>>
    BY <1>2 DEF TimeoutJoin
  <2>2. PICK c \in Coro : c = e.op.c
    BY PlaceTypes
  <2>3. Pair(TimeoutExc, c) \in TaskType /\ Pair(TimeoutExc, c).coro = c
    BY PlainOps, PairTypes
  <2>4. ASSUME NEW d \in Coro, NEW x \in ToSet(waiters[d])
        PROVE  x \in ToSet(waiters'[d]) \/ x = c
    <3>1. waiters[c] \in Seq(Coro) /\ \A i, j \in DOMAIN waiters[c] : waiters[c][i] = waiters[c][j] => i = j
      BY PlaceTypes DEF Good, Waiting, WaitsInJoins
    <3>2. ToSet(waiters[c]) \ {c} \subseteq ToSet(RemoveFirst(waiters[c], c))
      BY <3>1, RemoveFirstRest
    <3>3. waiters'[d] = IF d = c THEN RemoveFirst(waiters[c], c) ELSE waiters[d]
      BY <2>1, <2>2 DEF TypeOK, CoTypeOK
    <3>. QED  BY <3>2, <3>3
  <2>. QED  BY <2>1, <2>2, <2>3, <2>4, ExpireFound
<1>3. CASE TimeoutWait
  <2>1. PICK e \in timeouts :
          /\ Due(e) /\ e.op.k = "wait" /\ Expire(e, Pair(TimeoutExc, e.op.c))
          /\ sigwait' = [sigwait EXCEPT ![e.op.arg] = RemoveFirst(@, Pair(e.op, e.op.c))]
          /\ UNCHANGED <<caller, waiters, signals>>
    BY <1>3 DEF TimeoutWait, WithoutWait
  <2>2. PICK c \in Coro, s \in Names, q \in TaskType :
          c = e.op.c /\ s = e.op.arg /\ q = Pair(e.op, e.op.c) /\ q.coro = c
    BY <2>1, PairTypes, PlaceTypes
  <2>3. Pair(TimeoutExc, c) \in TaskType /\ Pair(TimeoutExc, c).coro = c
    BY PlainOps, PairTypes
  <2>4. ASSUME NEW t \in Names, NEW r \in ToSet(sigwait[t])
        PROVE  r \in ToSet(sigwait'[t]) \/ r.coro = c
    <3>1. sigwait[s] \in Seq(TaskType) /\ \A i, j \in DOMAIN sigwait[s] : sigwait[s][i] = sigwait[s][j] => i = j
      BY PlaceTypes DEF Good, Waiting, WaitsInSignals, Distinct
    <3>2. ToSet(sigwait[s]) \ {q} \subseteq ToSet(RemoveFirst(sigwait[s], q))
      BY <3>1, RemoveFirstRest
    <3>3. sigwait'[t] = IF t = s THEN RemoveFirst(sigwait[s], q) ELSE sigwait[t]
      BY <2>1, <2>2 DEF TypeOK, CoTypeOK
    <3>. QED  BY <2>2, <3>2, <3>3
  <2>. QED  BY <2>1, <2>2, <2>3, <2>4, ExpireFound
<1>4. CASE CleanupRaises
  <2>1. PICK e \in timeouts : /\ e.op.k = "wait" /\ timeouts' = timeouts \ {e}
                              /\ UNCHANGED <<active, cur, state, coVars>>
    BY <1>4 DEF CleanupRaises
  <2>2. UNCHANGED <<sigwait, signals>> /\ \A x, d \in Coro : Awaits(x, d) => Awaits(x, d)'
    BY <2>1 DEF coVars, Awaits
  <2>. QED  BY <2>1, <2>2, StillFound DEF Held, Alive
<1>. QED  BY <1>1, <1>2, <1>3, <1>4 DEF HandleTimeout

LEMMA NextFound ==
  ASSUME Untied, Lossless
  PROVE  TypeOK /\ Flow /\ Good /\ Found /\ [Next]_vars => Found'
<1>. SUFFICES ASSUME TypeOK, Flow, Good, Found, [Next]_vars PROVE Found'
  OBVIOUS
<1>1. CASE Resume
  <2>1. /\ phase = "run" /\ cur.coro \in Coro /\ UNCHANGED coVars
        /\ \/ \E op \in OpType, st \in {"running", "completed", "failed"} : ComesBack(op, st)
           \/ Spawn
           \/ Shutdown
    BY <1>1, ResumeCases DEF TypeOK
  <2>2. ASSUME NEW op \in OpType, NEW st \in {"running", "completed", "failed"}, ComesBack(op, st)
        PROVE  Found'
    BY <2>1, <2>2, ComesBackFound
  <2>. QED  BY <2>1, <2>2, TurnFound
<1>2. CASE Process
  <2>1. CASE ProcessObject
    BY <2>1, TurnFound DEF ProcessObject
  <2>. QED  BY <1>2, <2>1, ProcessCallHands, ProcessEndHands, ProcessAddHands, ProcessJoinHands,
               ProcessSleepHands, ProcessSignalHands, ProcessWaitHands DEF Process
<1>3. CASE HandleTimeout
  BY <1>3, HandleTimeoutFound
<1>4. CASE UNCHANGED coVars /\ (LoopStep \/ Tick \/ UNCHANGED loopVars)
  BY <1>4, TurnFound
<1>. QED  BY <1>1, <1>2, <1>3, <1>4 DEF Next, Loop, Over, vars

LEMMA InitFound == Init => Found
<1>. SUFFICES ASSUME Init PROVE Found
  OBVIOUS
<1>1. ASSUME NEW c \in Coro, Alive(c)
      PROVE  \E p \in ToSet(active) : p.coro = c
  <2>1. c \in ToSet(Started) /\ active = [i \in DOMAIN Started |-> Pair(NoOp, Started[i])]
    BY <1>1 DEF Init, LoopInit, Alive
  <2>2. PICK i \in DOMAIN Started : Started[i] = c
    BY <2>1 DEF ToSet
  <2>3. active[i] \in ToSet(active) /\ active[i] = Pair(NoOp, c)
    BY <2>1, <2>2 DEF ToSet
  <2>. QED  BY <2>3 DEF Pair
<1>. QED  BY <1>1 DEF Init, Found, Held

\* Who is held has a place.
LEMMA HeldPlace ==
  ASSUME TypeOK, NEW c \in Coro, Held(c)
  PROVE  Places(c) # {}
<1>1. CASE cur.coro = c
  BY <1>1 DEF Places
<1>2. ASSUME NEW p \in ToSet(active), p.coro = c
      PROVE  Places(c) # {}
  <2>1. PICK i \in DOMAIN active : active[i] = p
    BY DEF ToSet
  <2>2. <<"active", i>> \in Places(c)
    BY <1>2, <2>1 DEF Places, At
  <2>. QED  BY <2>2
<1>3. ASSUME NEW s \in Names, NEW p \in ToSet(sigwait[s]), p.coro = c
      PROVE  Places(c) # {}
  <2>1. PICK i \in DOMAIN sigwait[s] : sigwait[s][i] = p
    BY DEF ToSet
  <2>2. <<"sigwait", s, i>> \in Places(c)
    BY <1>3, <2>1 DEF Places, At
  <2>. QED  BY <2>2
<1>4. ASSUME NEW d \in Coro, c \in ToSet(waiters[d])
      PROVE  Places(c) # {}
  <2>1. PICK i \in DOMAIN waiters[d] : waiters[d][i] = c
    BY <1>4 DEF ToSet
  <2>2. <<"waiters", d, i>> \in Places(c)
    BY <2>1 DEF Places
  <2>. QED  BY <2>2
<1>5. ASSUME NEW d \in Coro, caller[d] = c
      PROVE  Places(c) # {}
  <2>1. <<"caller", d>> \in Places(c)
    BY <1>5 DEF Places
  <2>. QED  BY <2>1
<1>6. ASSUME NEW s \in Names, signals[s].coro = c
      PROVE  Places(c) # {}
  <2>1. <<"signals", s>> \in Places(c)
    BY <1>6 DEF Places
  <2>. QED  BY <2>1
<1>7. ASSUME NEW e \in timeouts, e.op.k = "sleep", e.op.c = c
      PROVE  Places(c) # {}
  <2>1. <<"sleep", e.op.n>> \in Places(c)
    BY <1>7 DEF Places
  <2>. QED  BY <2>1
<1>. QED  BY <1>1, <1>2, <1>3, <1>4, <1>5, <1>6, <1>7 DEF Held, Waits, Awaits

\* No coroutine is lost, in a program that sleeps for some time when it sleeps
\* and whose signals do not wait for recipients.
THEOREM NothingLost ==
  ASSUME Untied, Lossless
  PROVE  Spec => []NeverLost
<1>1. Init => TypeOK /\ Flow /\ Good /\ Found
  BY InitType, InitFlow, InitGood, InitFound
<1>2. TypeOK /\ Flow /\ Good /\ Found /\ [Next]_vars => (TypeOK /\ Flow /\ Good /\ Found)'
  BY NextType, NextFlow, NextGood, NextFound
<1>3. TypeOK /\ Found => NeverLost
  BY HeldPlace DEF Found, NeverLost
<1>. QED  BY <1>1, <1>2, <1>3, PTL DEF Spec

-----------------------------------------------------------------------------
(***************************************************************************)
(* A coroutine whose WaitForSignal times out while the signal is on its    *)
(* way is handed both.  Without such timeouts it has one place, and every  *)
(* pair finds its coroutine alive.                                         *)
(***************************************************************************)
Plain == Untied /\ ("wait" \notin Kinds \/ Delays \subseteq {0})

Simple ==
  /\ \A p \in Handed : Alive(p.coro) /\ (p.op.k = "wait" => p.op.at = 0)
  /\ \A s \in Names : \A p \in ToSet(sigwait[s]) : p.op.at = 0
  /\ \A e \in timeouts : e.op.k # "wait"
  /\ phase = "process" /\ cur.op.k = "wait" => cur.op.at = 0

\* finalize never raises, and nobody is resumed who has ended.
LEMMA NothingMoot ==
  ASSUME TypeOK, Good, Simple
  PROVE  /\ Moot \cap Handed = {}
         /\ ~RunDeadCoro /\ ~FinalizeRaises
<1>1. ASSUME NEW p \in Handed, p.op.at # 0
      PROVE  p.op.k = "sleep"
  BY <1>1 DEF Good, Timed, TimedPair, Simple
<1>2. Moot \cap Handed = {}
  BY <1>1 DEF Moot, Doomed, Simple
<1>3. ~RunDeadCoro
  BY DEF RunDeadCoro, Simple, Handed
<1>4. ~FinalizeRaises
  <2>1. phase = "run" => cur \in Handed
    BY DEF Handed
  <2>2. phase = "run" => Finalized(cur.op) = {timeouts}
    BY <1>1, <2>1 DEF Finalized
  <2>. QED  BY <2>2 DEF FinalizeRaises
<1>. QED  BY <1>2, <1>3, <1>4

\* Processing an operation, every way.
LEMMA ProcessHands ==
  ASSUME TypeOK, Flow, Good, Untied,
         (Process /\ ~ProcessObject) \/ (ProcessNone /\ UNCHANGED coVars)
  PROVE  HandsNews /\ phase = "process" /\ phase' \in {"run", "timers"}
<1>1. HandsNews
  BY ProcessCallHands, ProcessEndHands, ProcessAddHands, ProcessJoinHands,
     ProcessSleepHands, ProcessSignalHands, ProcessWaitHands DEF Process
<1>2. phase = "process" /\ phase' \in {"run", "timers"}
  BY DEF Process, ProcessCall, ProcessEnd, ProcessAdd, ProcessJoin, ProcessSleep, ProcessSignal,
         ProcessWait, ProcessNone, Processing, Continue, Throw
<1>. QED  BY <1>1, <1>2

LEMMA ProcessSimple ==
  ASSUME TypeOK, Flow, Good, Simple, Good', Untied,
         (Process /\ ~ProcessObject) \/ (ProcessNone /\ UNCHANGED coVars)
  PROVE  Simple'
<1>1. HandsNews /\ phase = "process" /\ phase' \in {"run", "timers"}
  BY ProcessHands
<1>2. \A s \in Names : \A p \in ToSet(sigwait[s]) : p.op.k = "wait"
  BY DEF Flow, ToSet
<1>3. ASSUME NEW q \in Handed'
      PROVE  Alive(q.coro)' /\ (q.op.k = "wait" => q.op.at = 0)
  <2>1. q \in TaskType /\ q.coro \in Coro
    <3>1. TypeOK'
      BY NextType DEF Next, Loop, LoopStep
    <3>2. active' \in Seq(TaskType) /\ (phase' = "run" => cur' \in TaskType)
      BY <3>1 DEF TypeOK, LoopTypeOK
    <3>3. ToSet(active') \subseteq TaskType
      BY <3>2, Members
    <3>. QED  BY <3>2, <3>3 DEF Handed, TaskType
  <2>2. CASE q \in Handed
    BY <1>1, <2>1, <2>2 DEF Simple, HandsNews
  <2>3. CASE q \notin Handed
    <3>1. \/ q.op.k \in {"none", "coro", "error", "add"}
          \/ \E s \in Names : q \in ToSet(sigwait[s])
          \/ q.op = cur.op /\ cur.op.k = "wait"
      BY <1>1, <2>3 DEF HandsNews
    <3>2. q.op # TimeoutExc
      BY <1>2, <3>1, OwnOps
    <3>3. Alive(q.coro)'
      BY <3>2 DEF Good, Lined, TimeoutExc, NoOp
    <3>4. q.op.k = "wait" => q.op.at = 0
      BY <1>1, <3>1 DEF Simple
    <3>. QED  BY <3>3, <3>4
  <2>. QED  BY <2>2, <2>3
<1>4. \A s \in Names : \A q \in ToSet(sigwait'[s]) : q.op.at = 0
  BY <1>1 DEF Simple, HandsNews
<1>5. \A e \in timeouts' : e.op.k # "wait"
  BY <1>1 DEF Simple, HandsNews
<1>. QED  BY <1>1, <1>3, <1>4, <1>5 DEF Simple

LEMMA InitSimple == Init => Simple
<1>. SUFFICES ASSUME Init PROVE Simple
  OBVIOUS
<1>1. /\ phase = "pick" /\ timeouts = {} /\ \A s \in Names : sigwait[s] = <<>>
      /\ active = [i \in DOMAIN Started |-> Pair(NoOp, Started[i])]
      /\ Started \in Seq(Coro)
  BY StartedAssumption DEF Init, LoopInit
<1>2. \A p \in Handed : \E i \in DOMAIN Started : p = Pair(NoOp, Started[i])
  BY <1>1 DEF Handed, ToSet
<1>3. \A i \in DOMAIN Started : Started[i] \in Coro /\ Alive(Started[i])
  BY <1>1 DEF Init, LoopInit, Alive, ToSet
<1>4. \A p \in Handed : Alive(p.coro) /\ p.op.k = "none"
  BY <1>2, <1>3, OwnOps DEF Pair
<1>. QED  BY <1>1, <1>4 DEF Simple, ToSet

\* The coroutine is resumed, or the loop turns: nothing is handed out but the
\* operation that it yields.
LEMMA TurnSimple ==
  ASSUME TypeOK, Flow, Good, Simple, Plain,
         Resume \/ (LoopStep /\ ~ProcessNone /\ UNCHANGED coVars) \/ ProcessObject
         \/ (Tick /\ UNCHANGED coVars) \/ UNCHANGED vars
  PROVE  Simple'
<1>0. UNCHANGED <<caller, waiters, sigwait, signals>>
  BY ResumeCases DEF TypeOK, ProcessObject, vars, coVars
<1>1. ASSUME UNCHANGED <<timeouts, sigwait, state, cur>>, Handed' \subseteq Handed,
             phase' # "process" \/ phase' = phase
      PROVE  Simple'
  BY <1>1 DEF Simple, Alive
<1>2. CASE Pick
  <2>1. /\ active \in Seq(TaskType) /\ active # <<>> /\ cur' = Head(active) /\ active' = Tail(active)
        /\ phase' = "run" /\ UNCHANGED <<timeouts, state, sigwait>>
    BY <1>0, <1>2 DEF Pick, TypeOK, LoopTypeOK
  <2>2. Handed' \subseteq Handed
    BY <2>1, Members DEF Handed
  <2>. QED  BY <2>1, <2>2 DEF Simple, Alive
<1>3. CASE Resume
  <2>1. /\ phase = "run" /\ cur.coro \in Coro /\ Alive(cur.coro) /\ UNCHANGED coVars
        /\ \/ \E op \in OpType, st \in {"running", "completed", "failed"} : ComesBack(op, st)
           \/ Spawn
           \/ Shutdown
    BY <1>3, ResumeCases DEF TypeOK
  <2>2. ASSUME NEW op \in OpType, NEW st \in {"running", "completed", "failed"}, ComesBack(op, st)
        PROVE  Simple'
    <3>1. PICK c \in Coro : c = cur.coro
      BY <2>1
    <3>2. /\ Alive(c) /\ timeouts' \in Finalized(cur.op)
          /\ state' = [StateAfterFinalize EXCEPT ![c] = st]
          /\ cur' = Pair(op, c) /\ phase' = "process" /\ UNCHANGED <<active, sigwait>>
          /\ op.k = "wait" => "wait" \in Kinds
          /\ op.at # 0 => op.at \in Deadlines
      BY <2>1, <2>2, <3>1 DEF ComesBack, Comeback, coVars
    <3>3. /\ \A p \in ToSet(active) : p.coro # c
          /\ timeouts' \subseteq timeouts
      BY <2>1, <3>1, <3>2, Finalizing
    <3>4. Handed' = ToSet(active) /\ ToSet(active) \subseteq Handed /\ cur \in Handed /\ cur \in TaskType
      BY <2>1, <3>2, PlaceTypes DEF Handed
    <3>5. \A x \in Coro : x # c /\ Alive(x) => Alive(x)'
      <4>1. cur.op.k = "coro" => cur.op.c \in Coro /\ ~Alive(cur.op.c)
        BY <3>4, PlaceTypes DEF Flow, Alive, EndStates
      <4>. QED  BY <3>2, <4>1 DEF StateAfterFinalize, TypeOK, LoopTypeOK, Alive
    <3>6. op.k = "wait" => op.at = 0
      BY <3>2 DEF Plain, Deadlines, Deadline
    <3>7. cur'.op = op
      BY <3>2 DEF Pair
    <3>8. \A p \in Handed' : p \in Handed /\ p.coro \in Coro /\ p.coro # c
      BY <3>3, <3>4, PlaceTypes
    <3>. QED  BY <3>2, <3>3, <3>5, <3>6, <3>7, <3>8 DEF Simple
  <2>3. CASE Spawn
    <3>1. PICK d \in Coro : /\ state' = [state EXCEPT ![d] = "need_init"]
                            /\ active' = Append(active, Pair(NoOp, d)) /\ UNCHANGED <<timeouts, cur, phase>>
      BY <2>3 DEF Spawn, Absent
    <3>2. /\ Pair(NoOp, d) \in TaskType /\ Pair(NoOp, d).coro = d /\ Pair(NoOp, d).op = NoOp
          /\ active \in Seq(TaskType) /\ NoOp.k = "none"
      BY PlainOps, PairTypes, PlaceTypes, OwnOps
    <3>3. Handed' = Handed \cup {Pair(NoOp, d)}
      <4>1. ToSet(active') = ToSet(active) \cup {Pair(NoOp, d)}
        BY <3>1, <3>2, Members
      <4>. QED  BY <3>1, <4>1 DEF Handed
    <3>4. \A x \in Coro : Alive(x)' <=> Alive(x) \/ x = d
      BY <3>1 DEF Alive, TypeOK, LoopTypeOK
    <3>5. \A p \in Handed : p.coro \in Coro
      BY PlaceTypes
    <3>. QED  BY <2>1, <3>1, <3>2, <3>3, <3>4, <3>5 DEF Simple, coVars
  <2>4. CASE Shutdown
    BY <1>1, <2>1, <2>4 DEF Shutdown, Handed, coVars
  <2>. QED  BY <2>1, <2>2, <2>3, <2>4
<1>4. CASE Start
  <2>1. /\ phase = "run" /\ cur.op = NoOp /\ phase' = "process" /\ UNCHANGED <<active, timeouts, cur, sigwait>>
        /\ cur \in TaskType /\ cur.coro \in Coro /\ state[cur.coro] = "need_init"
        /\ state' = [state EXCEPT ![cur.coro] = "running"]
    BY <1>0, <1>4 DEF Start, TypeOK, LoopTypeOK, TaskType
  <2>2. Handed' \subseteq Handed /\ NoOp.k = "none"
    BY <2>1, OwnOps DEF Handed
  <2>3. \A x \in Coro : Alive(x) => Alive(x)'
    BY <2>1 DEF Alive, TypeOK, LoopTypeOK
  <2>4. \A p \in Handed : p.coro \in Coro
    BY PlaceTypes
  <2>. QED  BY <2>1, <2>2, <2>3, <2>4 DEF Simple
<1>5. ~DropStale
  BY DEF DropStale, Good, Waiting, WaitsForTime
<1>6. CASE IdleTurn \/ Leave \/ EndTimers \/ ProcessObject \/ Tick \/ UNCHANGED vars
  BY <1>0, <1>1, <1>6 DEF IdleTurn, Leave, EndTimers, ProcessObject, Processing, Tick, vars, loopVars, Handed
<1>. QED  BY <1>2, <1>3, <1>4, <1>5, <1>6, NothingMoot DEF LoopStep

LEMMA HandleTimeoutSimple ==
  ASSUME TypeOK, Flow, Good, Simple, HandleTimeout
  PROVE  Simple' /\ phase' = "timers"
<1>1. PICK e \in timeouts, p \in TaskType :
        /\ Due(e) /\ Expire(e, p) /\ p.coro = e.op.c /\ p.op.k # "wait" /\ UNCHANGED sigwait
  <2>1. ~TimeoutWait /\ ~CleanupRaises
    BY DEF TimeoutWait, CleanupRaises, Simple
  <2>2. CASE WakeSleeper
    <3>1. PICK e \in timeouts : Due(e) /\ e.op.k = "sleep" /\ Expire(e, Pair(e.op, e.op.c)) /\ UNCHANGED coVars
      BY <2>2 DEF WakeSleeper
    <3>2. Pair(e.op, e.op.c) \in TaskType /\ Pair(e.op, e.op.c).coro = e.op.c /\ Pair(e.op, e.op.c).op = e.op
      BY PairTypes, PlaceTypes
    <3>. QED  BY <3>1, <3>2 DEF coVars
  <2>3. CASE TimeoutJoin
    <3>1. PICK e \in timeouts : Due(e) /\ Expire(e, Pair(TimeoutExc, e.op.c)) /\ UNCHANGED sigwait
      BY <2>3 DEF TimeoutJoin
    <3>2. /\ Pair(TimeoutExc, e.op.c) \in TaskType /\ Pair(TimeoutExc, e.op.c).coro = e.op.c
          /\ Pair(TimeoutExc, e.op.c).op.k = "timeout"
      BY PlainOps, PairTypes, PlaceTypes, OwnOps
    <3>. QED  BY <3>1, <3>2
  <2>. QED  BY <2>1, <2>2, <2>3 DEF HandleTimeout
<1>2. /\ phase = "timers" /\ Alive(e.op.c) /\ timeouts' \subseteq timeouts
      /\ active' = Append(active, p) /\ UNCHANGED <<cur, phase, state>>
      /\ active \in Seq(TaskType)
  BY <1>1, PlaceTypes DEF Due, Expire
<1>3. Handed' = Handed \cup {p}
  <2>1. ToSet(active') = ToSet(active) \cup {p}
    BY <1>2, Members
  <2>. QED  BY <1>2, <2>1 DEF Handed
<1>. QED  BY <1>1, <1>2, <1>3 DEF Simple, Alive

LEMMA NextSimple ==
  ASSUME Plain
  PROVE  TypeOK /\ Flow /\ Good /\ Simple /\ [Next]_vars => Simple'
<1>. SUFFICES ASSUME TypeOK, Flow, Good, Simple, [Next]_vars PROVE Simple'
  OBVIOUS
<1>1. Untied /\ Good'
  BY NextGood DEF Plain
<1>2. CASE (Process /\ ~ProcessObject) \/ (ProcessNone /\ UNCHANGED coVars)
  BY <1>1, <1>2, ProcessSimple
<1>3. CASE HandleTimeout
  BY <1>3, HandleTimeoutSimple
<1>4. CASE \/ Resume \/ (LoopStep /\ ~ProcessNone /\ UNCHANGED coVars) \/ ProcessObject
           \/ (Tick /\ UNCHANGED coVars) \/ UNCHANGED vars
  BY <1>4, TurnSimple
<1>. QED  BY <1>2, <1>3, <1>4 DEF Next, Loop, Over, vars

LEMMA AlwaysSimple ==
  ASSUME Plain
  PROVE  Spec => [](TypeOK /\ Flow /\ Good /\ Simple)
<1>1. Init => TypeOK /\ Flow /\ Good /\ Simple
  BY InitType, InitFlow, InitGood, InitSimple
<1>2. TypeOK /\ Flow /\ Good /\ Simple /\ [Next]_vars => (TypeOK /\ Flow /\ Good /\ Simple)'
  BY NextType, NextFlow, NextGood, NextSimple DEF Plain
<1>. QED  BY <1>1, <1>2, PTL DEF Spec

\* No exception leaves the main loop, if what a coroutine yields is an operation.
THEOREM LoopGoesOn ==
  ASSUME Plain, "object" \notin Kinds
  PROVE  Spec => []LoopSurvives
<1>1. Init => LoopSurvives
  BY DEF Init, LoopInit, LoopSurvives
<1>2. TypeOK /\ Flow /\ Good /\ Simple /\ LoopSurvives /\ [Next]_vars => LoopSurvives'
  <2>. SUFFICES ASSUME TypeOK, Flow, Good, Simple, phase # "dead", [Next]_vars
                PROVE  phase' # "dead"
    BY DEF LoopSurvives
  <2>1. CASE (Process /\ ~ProcessObject) \/ (ProcessNone /\ UNCHANGED coVars)
    BY <2>1, ProcessHands DEF Plain
  <2>2. CASE HandleTimeout
    BY <2>2, HandleTimeoutSimple
  <2>3. ~ProcessObject
    BY DEF ProcessObject, Processing, Flow, Yielded
  <2>4. CASE Resume
    <3>1. \/ \E op \in OpType, st \in {"running", "completed", "failed"} : ComesBack(op, st)
          \/ Spawn
          \/ Shutdown
      BY <2>4, ResumeCases DEF TypeOK
    <3>. QED  BY <3>1 DEF ComesBack, Comeback, Spawn, Shutdown
  <2>5. CASE LoopStep /\ ~ProcessNone
    BY <2>5, NothingMoot DEF LoopStep, Pick, IdleTurn, Leave, Start, DropStale, EndTimers
  <2>. QED  BY <2>1, <2>2, <2>3, <2>4, <2>5 DEF Next, Loop, Tick, Over, vars, loopVars
<1>. QED  BY <1>1, <1>2, AlwaysSimple, PTL DEF Spec

\* What a place is.
LEMMA PlaceForms ==
  ASSUME NEW c \in Coro, NEW x \in Places(c)
  PROVE  \/ cur.coro = c /\ x = <<"cur">>
         \/ \E i \in DOMAIN active : active[i].coro = c /\ x = <<"active", i>>
         \/ \E s \in Names : \E i \in DOMAIN sigwait[s] : sigwait[s][i].coro = c /\ x = <<"sigwait", s, i>>
         \/ \E s \in Names : signals[s].coro = c /\ x = <<"signals", s>>
         \/ \E d \in Coro : \E i \in DOMAIN waiters[d] : waiters[d][i] = c /\ x = <<"waiters", d, i>>
         \/ \E d \in Coro : caller[d] = c /\ x = <<"caller", d>>
         \/ \E e \in timeouts : e.op.k = "sleep" /\ e.op.c = c /\ x = <<"sleep", e.op.n>>
BY DEF Places, At

\* Who is in line is there once, and waits for nothing.
LEMMA OneInLine ==
  ASSUME TypeOK, Good, Simple, NEW c \in Coro, Alive(c)
  PROVE  /\ cur.coro = c => ~Waits(c) /\ \A p \in ToSet(active) : p.coro # c
         /\ \A i \in DOMAIN active : active[i].coro = c => ~Waits(c)
         /\ \A i, j \in DOMAIN active : active[i].coro = c /\ active[j].coro = c => i = j
<1>1. /\ active \in Seq(TaskType) /\ ToSet(active) \subseteq Handed /\ Moot \cap Handed = {}
      /\ \A i \in DOMAIN active : active[i] \in ToSet(active)
      /\ cur \in TaskType \cup {NoPair} /\ NoPair.coro # c
  BY NothingMoot, PlaceTypes, CoroAssumption DEF Handed, ToSet, TypeOK, LoopTypeOK, NoPair, Pair
<1>2. \A i \in DOMAIN active : active[i].coro = c => ~Waits(c)
  BY <1>1 DEF Good, Lined
<1>3. ASSUME cur.coro = c
      PROVE  ~Waits(c) /\ \A p \in ToSet(active) : p.coro # c
  <2>1. CASE phase = "run"
    <3>1. cur \in Handed /\ cur \notin Moot /\ Line = <<cur>> \o active /\ cur \in TaskType
      BY <1>1, <1>3, <2>1 DEF Handed, Line
    <3>2. \A p \in ToSet(active) : p.coro # c
      BY <1>1, <1>3, <3>1, HeadSpread DEF Good, Lined
    <3>. QED  BY <1>3, <3>1, <3>2 DEF Good, Lined
  <2>2. CASE phase # "run"
    BY <1>1, <1>3, <2>2 DEF Good, Lined
  <2>. QED  BY <2>1, <2>2
<1>4. \A i, j \in DOMAIN active : i < j /\ active[i].coro = c => active[j].coro # c
  <2>1. CASE phase # "run"
    BY <1>1, <2>1 DEF Line, Good, Lined, Spread
  <2>2. CASE phase = "run"
    <3>1. /\ Line = <<cur>> \o active /\ cur \in TaskType
          /\ DOMAIN active = 1 .. Len(active) /\ Len(active) \in Nat
      BY <1>1, <2>2 DEF Line, TypeOK, LoopTypeOK
    <3>2. /\ DOMAIN Line = 1 .. Len(active) + 1
          /\ \A i \in DOMAIN active : i + 1 \in DOMAIN Line /\ Line[i + 1] = active[i]
      BY <1>1, <3>1
    <3>3. ASSUME NEW i \in DOMAIN active, NEW j \in DOMAIN active, i < j,
                 active[i].coro = c, active[j].coro = c
          PROVE  FALSE
      <4>1. i + 1 < j + 1 /\ Line[i + 1] = active[i] /\ Line[j + 1] = active[j]
            /\ i + 1 \in DOMAIN Line /\ j + 1 \in DOMAIN Line
        BY <3>1, <3>2, <3>3
      <4>2. Line[i + 1] \in Moot
        BY <3>3, <4>1 DEF Good, Lined, Spread
      <4>. QED  BY <1>1, <4>1, <4>2
    <3>. QED  BY <3>3
  <2>. QED  BY <2>1, <2>2
<1>5. \A i, j \in DOMAIN active : i < j \/ j < i \/ i = j
  BY <1>1
<1>. QED  BY <1>2, <1>3, <1>4, <1>5

\* Who lives has one place at most.
LEMMA AtMostOnePlace ==
  ASSUME TypeOK, Flow, Good, Simple, NEW c \in Coro, Alive(c), NEW x \in Places(c), NEW y \in Places(c)
  PROVE  x = y
<1>. DEFINE Cur(z) == cur.coro = c /\ z = <<"cur">>
            Act(z) == \E i \in DOMAIN active : active[i].coro = c /\ z = <<"active", i>>
            Sig(z) == \E s \in Names : \E i \in DOMAIN sigwait[s] :
                        sigwait[s][i].coro = c /\ z = <<"sigwait", s, i>>
            Kept(z) == \E s \in Names : signals[s].coro = c /\ z = <<"signals", s>>
            Wtr(z) == \E d \in Coro : \E i \in DOMAIN waiters[d] :
                        waiters[d][i] = c /\ z = <<"waiters", d, i>>
            Clr(z) == \E d \in Coro : caller[d] = c /\ z = <<"caller", d>>
            Slp(z) == \E e \in timeouts : e.op.k = "sleep" /\ e.op.c = c /\ z = <<"sleep", e.op.n>>
<1>1. ASSUME NEW z \in Places(c)
      PROVE  Cur(z) \/ Act(z) \/ Sig(z) \/ Kept(z) \/ Wtr(z) \/ Clr(z) \/ Slp(z)
  BY PlaceForms
<1>2. /\ \A s \in Names : \A i \in DOMAIN sigwait[s] : sigwait[s][i] \in ToSet(sigwait[s])
      /\ \A d \in Coro : \A i \in DOMAIN waiters[d] : waiters[d][i] \in ToSet(waiters[d])
      /\ \A i \in DOMAIN active : active[i] \in ToSet(active)
  BY DEF ToSet
<1>3. /\ \A z : Sig(z) => pend[c].k = "wait" /\ Waits(c)
      /\ \A z : Kept(z) => pend[c].k = "signal" /\ Waits(c)
      /\ \A z : Wtr(z) => pend[c].k = "join" /\ Waits(c)
      /\ \A z : Clr(z) => pend[c].k = "coro" /\ Waits(c)
      /\ \A z : Slp(z) => pend[c].k = "sleep" /\ Waits(c)
  <2>1. \A s \in Names : \A i \in DOMAIN sigwait[s] :
          sigwait[s][i].coro = c => pend[c].k = "wait" /\ Waits(c)
    BY <1>2, WhereWaits DEF Good, Waits
  <2>2. \A s \in Names : signals[s].coro = c => pend[c].k = "signal" /\ Waits(c)
    BY WhereWaits DEF Good, Waits
  <2>3. \A d \in Coro : \A i \in DOMAIN waiters[d] :
          waiters[d][i] = c => pend[c].k = "join" /\ Waits(c)
    BY <1>2, WhereWaits DEF Good, Waits, Awaits
  <2>4. \A d \in Coro : caller[d] = c => pend[c].k = "coro" /\ Waits(c)
    BY WhereWaits DEF Good, Waits, Awaits
  <2>5. \A e \in timeouts : e.op.k = "sleep" /\ e.op.c = c => pend[c].k = "sleep" /\ Waits(c)
    BY WhereWaits DEF Good, Waits
  <2>. QED  BY <2>1, <2>2, <2>3, <2>4, <2>5
<1>4. /\ \A z : Cur(z) => ~Waits(c) /\ \A i \in DOMAIN active : active[i].coro # c
      /\ \A z : Act(z) => ~Waits(c) /\ cur.coro # c
  BY <1>2, OneInLine
<1>5. Act(x) /\ Act(y) => x = y
  BY OneInLine
<1>6. Sig(x) /\ Sig(y) => x = y
  <2>1. ASSUME NEW s \in Names, NEW i \in DOMAIN sigwait[s], sigwait[s][i].coro = c,
               NEW t \in Names, NEW j \in DOMAIN sigwait[t], sigwait[t][j].coro = c
        PROVE  s = t /\ i = j
    <3>1. s = t
      BY <1>2, <2>1, WhereWaits DEF Good
    <3>. QED  BY <2>1, <3>1 DEF Good, Waiting, WaitsInSignals, Distinct
  <2>. QED  BY <2>1
<1>7. Kept(x) /\ Kept(y) => x = y
  <2>1. \A s, t \in Names : signals[s].coro = c /\ signals[t].coro = c => s = t
    BY WhereWaits DEF Good
  <2>. QED  BY <2>1
<1>8. Wtr(x) /\ Wtr(y) => x = y
  <2>1. ASSUME NEW s \in Coro, NEW i \in DOMAIN waiters[s], waiters[s][i] = c,
               NEW t \in Coro, NEW j \in DOMAIN waiters[t], waiters[t][j] = c
        PROVE  s = t /\ i = j
    <3>1. s = t
      BY <1>2, <2>1, WhereWaits DEF Good
    <3>. QED  BY <2>1, <3>1 DEF Good, Waiting, WaitsInJoins
  <2>. QED  BY <2>1
<1>9. Clr(x) /\ Clr(y) => x = y
  <2>1. \A s, t \in Coro : caller[s] = c /\ caller[t] = c => s = t
    BY WhereWaits DEF Good
  <2>. QED  BY <2>1
<1>10. Slp(x) /\ Slp(y) => x = y
  <2>1. \A e, f \in timeouts : e.op.c = c /\ f.op.c = c => e.op = f.op
    BY WhereWaits DEF Good
  <2>. QED  BY <2>1
<1>11. Cur(x) /\ Cur(y) => x = y
  OBVIOUS
<1>12. /\ Cur(x) \/ Act(x) \/ Sig(x) \/ Kept(x) \/ Wtr(x) \/ Clr(x) \/ Slp(x)
       /\ Cur(y) \/ Act(y) \/ Sig(y) \/ Kept(y) \/ Wtr(y) \/ Clr(y) \/ Slp(y)
  BY <1>1
<1>13. /\ Cur(x) => ~Act(y)
       /\ Act(x) => ~Cur(y)
  BY <1>4
<1>. HIDE DEF Cur, Act, Sig, Kept, Wtr, Clr, Slp
<1>. QED  BY <1>3, <1>4, <1>5, <1>6, <1>7, <1>8, <1>9, <1>10, <1>11, <1>12, <1>13

LEMMA FoundOnce ==
  ASSUME TypeOK, Flow, Good, Simple, NeverLost
  PROVE  ExactlyOnePlace
<1>. SUFFICES ASSUME NEW c \in Coro, Alive(c)
              PROVE  Cardinality(Places(c)) = 1
  BY DEF ExactlyOnePlace
<1>1. PICK x : x \in Places(c)
  BY DEF NeverLost
<1>2. Places(c) = {x}
  BY <1>1, AtMostOnePlace
<1>. QED  BY <1>2, FS_Singleton

\* A coroutine that lives is in one place, and one only, that will resume it.
THEOREM PlacedOnce ==
  ASSUME Plain, Lossless
  PROVE  Spec => []ExactlyOnePlace
<1>1. TypeOK /\ Flow /\ Good /\ Simple /\ NeverLost => ExactlyOnePlace
  BY FoundOnce
<1>2. Untied
  BY DEF Plain
<1>. QED  BY <1>1, <1>2, NothingLost, AlwaysSimple, PTL
=============================================================================
