---------------------------- MODULE PubSubProofs ----------------------------
(***************************************************************************)
(* Theorems about PubSub, for any number of coroutines, any timeouts and   *)
(* priorities.  Those about the messages hold as long as nobody calls      *)
(* compact() while coroutines are subscribed, which leaves their levels    *)
(* behind, nor goes on after a yield with the list that a fetch returned,  *)
(* which may be the list of the queue itself.                              *)
(***************************************************************************)
EXTENDS PubSub, LoopProofs

(***************************************************************************)
(* Types.  What is handed to a coroutine is not a coroutine; who yields an *)
(* operation has created it.                                               *)
(***************************************************************************)
OpKind == {"none", "timeout", "error", "coro"} \cup (AllKinds \ {"compact", "compact_unread", "keep"})

RawOpType ==
  [k : OpKind, c : Coro \cup {None}, n : Nat, at : Nat,
   arg : {None} \cup Message \cup Seq(Message), pr : 0..3, recipients : Nat]

OpType == {op \in RawOpType :
  /\ op.k = "publish" => op.arg \in Message
  /\ op.k = "fetch" => op.c \in Coro}

FetchType == {op \in OpType : op.k = "fetch"}
TaskType == [op : OpType, coro : Coro]
TimerType == [op : FetchType, live : BOOLEAN]

LoopTypeOK ==
  /\ active \in Seq(TaskType)
  /\ timeouts \in SUBSET TimerType
  /\ cur \in TaskType \cup {NoPair}
  /\ phase \in {"pick", "run", "process", "timers", "done", "dead"}
  /\ phase \in {"run", "process"} => cur \in TaskType
  /\ phase \in {"pick", "timers", "done"} => cur = NoPair
  /\ clock \in Nat
  /\ state \in [Coro -> {"absent", "need_init", "running", "completed", "failed", "finalized"}]
  /\ opn \in [Coro -> Nat]

QueueTypeOK ==
  /\ messages \in Seq(Message) /\ log \in Seq(Message)
  /\ DOMAIN subscribers \subseteq Coro /\ subscribers \in [DOMAIN subscribers -> Nat]
  /\ DOMAIN active_subscribers \subseteq Coro /\ IsFiniteSet(DOMAIN active_subscribers)
  /\ active_subscribers \in [DOMAIN active_subscribers -> FetchType]
  /\ \A c \in DOMAIN active_subscribers : active_subscribers[c].c = c
  /\ dropped \in Nat /\ start \in [Coro -> Nat] /\ got \in [Coro -> Seq(Message)]
  /\ holders \in SUBSET Coro

\* What the running coroutine has yielded is its own; it has ended if that is itself.
Yielded == phase = "process" /\ cur.op # NoOp =>
  /\ cur.op.c = cur.coro
  /\ cur.op.k = "coro" => ~Alive(cur.coro)

TypeOK == LoopTypeOK /\ QueueTypeOK /\ Yielded

Placed == OnePlace(active, cur.coro, DOMAIN active_subscribers, Living)

\* The queue is the log but for what compact() removed.
QueueIsLog ==
  /\ dropped <= Len(log)
  /\ messages = SubSeq(log, dropped + 1, Len(log))

\* A level counts the messages of the queue that were handed out.
LevelsCount == \A c \in DOMAIN subscribers :
  /\ start[c] = dropped
  /\ subscribers[c] <= Len(messages)
  /\ Handed(c) = SubSeq(messages, 1, subscribers[c])

\* Only the running coroutine has the list of the queue, if a fetch has just returned it.
HoldersRun == \A c \in holders :
  c = cur.coro /\ phase = "run" /\ c \in DOMAIN subscribers /\ got[c] = <<>>

\* Who waits is subscribed and has read all.
WaitersHaveAll == \A c \in DOMAIN active_subscribers :
  c \in DOMAIN subscribers /\ subscribers[c] = Len(messages)

Levels == QueueIsLog /\ LevelsCount /\ HoldersRun /\ WaitersHaveAll

\* Nobody compacts what is subscribed to, and nobody keeps what it has fetched.
Careful == "compact" \notin Kinds /\ "keep" \notin Kinds

Base == TypeOK /\ Placed /\ WaitersSubscribed
Inv == Base /\ Levels
-----------------------------------------------------------------------------
(***************************************************************************)
(* Lemmas about the operators of the model.                                *)
(***************************************************************************)
\* The operations the model makes are operations.
LEMMA PlainOps ==
  /\ NoOp \in OpType /\ TimeoutExc \in OpType /\ ErrorExc \in OpType
  /\ \A c \in Coro : CoroOp(c) \in OpType
<1>1. NoOp \in OpType
  BY DEF NoOp, OpType, RawOpType, OpKind
<1>2. TimeoutExc \in OpType
  BY DEF NoOp, TimeoutExc, OpType, RawOpType, OpKind
<1>3. ErrorExc \in OpType
  BY DEF NoOp, ErrorExc, OpType, RawOpType, OpKind
<1>4. ASSUME NEW c \in Coro
      PROVE  CoroOp(c) \in OpType
  BY DEF CoroOp, OpType, RawOpType, OpKind
<1>. QED  BY <1>1, <1>2, <1>3, <1>4

\* A fetch with its messages, or with its default timeout, is a fetch.
LEMMA FetchOps ==
  /\ \A op \in FetchType, new \in Seq(Message) : With(op, new) \in TaskType /\ With(op, new).coro = op.c
  /\ \A op \in FetchType : clock \in Nat =>
       WithDefault(op) \in FetchType /\ WithDefault(op).c = op.c
<1>1. ASSUME NEW op \in FetchType, NEW new \in Seq(Message)
      PROVE  [op EXCEPT !.arg = new] \in OpType /\ op.c \in Coro
  BY DEF FetchType, OpType, RawOpType
<1>2. ASSUME NEW op \in FetchType, clock \in Nat
      PROVE  WithDefault(op) \in FetchType /\ WithDefault(op).c = op.c
  BY <1>2, DelayAssumption DEF WithDefault, FetchType, OpType, RawOpType
<1>. QED  BY <1>1, <1>2 DEF With, Pair, TaskType

\* The heap holds fetches, whatever is pushed, retired or removed.
LEMMA HeapType ==
  ASSUME timeouts \in SUBSET TimerType
  PROVE  /\ \A op \in FetchType : Pushed(op) \in SUBSET TimerType
         /\ \A op, h : h \in SUBSET TimerType => Retired(h, op) \in SUBSET TimerType
         /\ \A op : \A h \in Finalized(op) : h \in SUBSET TimerType
<1>1. ASSUME NEW op \in FetchType
      PROVE  Pushed(op) \in SUBSET TimerType
  <2>1. [op |-> op, live |-> TRUE] \in TimerType
    BY DEF TimerType
  <2>. QED  BY <2>1 DEF Pushed
<1>2. ASSUME NEW op, NEW h, h \in SUBSET TimerType
      PROVE  Retired(h, op) \in SUBSET TimerType
  BY <1>2 DEF Retired, TimerType
<1>3. ASSUME NEW op, NEW h \in Finalized(op)
      PROVE  h \in SUBSET TimerType
  <2>1. CASE op.at = 0 \/ op.k = "sleep"
    BY <2>1, <1>3 DEF Finalized
  <2>2. CASE ~(op.at = 0 \/ op.k = "sleep")
    <3>1. PICK e \in timeouts : h = Retired(timeouts \ {e}, op)
      BY <2>2, <1>3 DEF Finalized
    <3>. QED  BY <3>1, <1>2
  <2>. QED  BY <2>1, <2>2
<1>. QED  BY <1>1, <1>2, <1>3

\* In whatever order the fetches of S get the message, each gets one pair.
LEMMA AnswersOnce ==
  ASSUME QueueTypeOK, NEW m \in Message,
         NEW S \in SUBSET DOMAIN active_subscribers, NEW s \in SetToSeqs(S)
  PROVE  /\ Answers(s, m) \in Seq(TaskType)
         /\ Coros(Answers(s, m)) = S
         /\ Distinct(Answers(s, m))
<1>. DEFINE n == Cardinality(S)
<1>1. IsFiniteSet(S) /\ n \in Nat
  BY FS_Subset, FS_CardinalityType DEF QueueTypeOK
<1>2. s \in [1 .. n -> S] /\ \A i, j \in 1 .. n : i # j => s[i] # s[j]
  BY DEF SetToSeqs
<1>3. \A x \in S : \E i \in 1 .. n : s[i] = x
  <2>1. s \in Injection(1 .. n, S)
    BY <1>2 DEF Injection, IsInjective
  <2>2. Cardinality(1 .. n) = n
    BY <1>1, FS_Interval
  <2>3. s \in Surjection(1 .. n, S)
    BY <1>1, <2>1, <2>2, FS_Injection
  <2>. QED  BY <2>3 DEF Surjection
<1>. HIDE DEF n
<1>4. ASSUME NEW i \in 1 .. n
      PROVE  Answers(s, m)[i] \in TaskType /\ Answers(s, m)[i].coro = s[i]
  <2>1. s[i] \in S /\ active_subscribers[s[i]] \in FetchType /\ active_subscribers[s[i]].c = s[i]
    BY <1>2 DEF QueueTypeOK
  <2>2. <<m>> \in Seq(Message)
    OBVIOUS
  <2>3. Answers(s, m)[i] = With(active_subscribers[s[i]], <<m>>)
    BY <1>2 DEF Answers
  <2>. QED  BY <2>1, <2>2, <2>3, FetchOps
<1>5. DOMAIN Answers(s, m) = 1 .. n
  BY <1>2 DEF Answers
<1>6. Answers(s, m) \in Seq(TaskType)
  BY <1>1, <1>4, <1>5 DEF Answers
<1>7. Coros(Answers(s, m)) = S
  BY <1>2, <1>3, <1>4, <1>5 DEF Coros
<1>8. Distinct(Answers(s, m))
  BY <1>2, <1>4, <1>5 DEF Distinct
<1>. QED  BY <1>6, <1>7, <1>8
-----------------------------------------------------------------------------
(***************************************************************************)
(* Types, one lemma for each part of the next-state relation.              *)
(***************************************************************************)
\* run() starts with the coroutines that were added, and an empty queue.
LEMMA InitType == Init => TypeOK
<1>. SUFFICES ASSUME Init PROVE TypeOK
  OBVIOUS
<1>1. active \in Seq(TaskType)
  <2>1. Started \in Seq(Coro) /\ DOMAIN Started = 1 .. Len(Started) /\ Len(Started) \in Nat
    BY StartedAssumption
  <2>2. \A i \in 1 .. Len(Started) : Pair(NoOp, Started[i]) \in TaskType
    BY <2>1, PlainOps DEF TaskType, Pair
  <2>. QED  BY <2>1, <2>2 DEF Init, LoopInit
<1>2. LoopTypeOK
  BY <1>1 DEF Init, LoopInit, LoopTypeOK
<1>3. QueueTypeOK
  BY FS_EmptySet DEF Init, QueueTypeOK, Nothing
<1>. QED  BY <1>2, <1>3 DEF Init, LoopInit, TypeOK, Yielded

\* process_op leaves a well-formed deque and a pair to run, or none.
LEMMA HandOverType ==
  ASSUME LoopTypeOK, NEW a \in Seq(TaskType), NEW p \in TaskType \cup {NoPair},
         Continue(a, p), timeouts' \in SUBSET TimerType,
         UNCHANGED <<running, clock, state, opn, pend>>
  PROVE  LoopTypeOK' /\ Yielded'
<1>1. p = NoPair <=> p \notin TaskType
  BY CoroAssumption DEF NoPair, Pair, TaskType
<1>. QED  BY <1>1 DEF Continue, LoopTypeOK, Yielded

\* The running coroutine comes back with an operation of its own.
LEMMA ComebackType ==
  ASSUME LoopTypeOK, NEW op \in OpType, NEW st \in {"running", "completed", "failed"},
         Comeback(op, st), opn' \in [Coro -> Nat],
         op # NoOp => op.c = cur.coro, op.k = "coro" => st # "running"
  PROVE  LoopTypeOK' /\ Yielded' /\ Living' \subseteq Living /\ cur'.coro = cur.coro
<1>1. cur \in TaskType /\ cur.coro \in Coro
  BY DEF LoopTypeOK, Comeback, TaskType
<1>2. timeouts' \in SUBSET TimerType
  BY HeapType DEF LoopTypeOK, Comeback
<1>3. /\ state' \in [Coro -> {"absent", "need_init", "running", "completed", "failed", "finalized"}]
      /\ state'[cur.coro] = st
      /\ Living' \subseteq Living
  BY <1>1 DEF LoopTypeOK, Comeback, StateAfterFinalize, Living, Alive
<1>4. cur' \in TaskType /\ cur' = Pair(op, cur.coro) /\ cur'.coro = cur.coro /\ cur'.op = op
  BY <1>1 DEF Comeback, TaskType, Pair
<1>5. LoopTypeOK'
  BY <1>2, <1>3, <1>4 DEF LoopTypeOK, Comeback
<1>6. Yielded'
  BY <1>3, <1>4 DEF Yielded, Alive
<1>. QED  BY <1>3, <1>4, <1>5, <1>6

\* The steps of the main loop that no operation takes part in.
LEMMA LoopStepType ==
  ASSUME LoopTypeOK, Yielded, LoopStep
  PROVE  LoopTypeOK' /\ Yielded' /\ Living' \subseteq Living
<1>1. CASE Pick
  BY <1>1 DEF Pick, LoopTypeOK, Yielded, Living, Alive
<1>2. CASE IdleTurn \/ Leave \/ EndTimers \/ RunDeadCoro
  BY <1>2 DEF IdleTurn, Leave, EndTimers, RunDeadCoro, LoopTypeOK, Yielded, Living, Alive
<1>3. CASE Start
  <2>1. cur \in TaskType /\ cur.coro \in Coro
    BY <1>3 DEF Start, LoopTypeOK, TaskType
  <2>. QED  BY <1>3, <2>1 DEF Start, LoopTypeOK, Yielded, Living, Alive
<1>4. CASE FinalizeRaises
  <2>1. cur \in TaskType /\ cur.coro \in Coro
    BY <1>4 DEF FinalizeRaises, LoopTypeOK, TaskType
  <2>2. cur' \in TaskType /\ cur'.op = CoroOp(cur.coro) /\ cur'.coro = cur.coro
    BY <1>4, <2>1, PlainOps DEF FinalizeRaises, TaskType, Pair
  <2>3. /\ state' \in [Coro -> {"absent", "need_init", "running", "completed",
                                "failed", "finalized"}]
        /\ state'[cur.coro] = "failed"
        /\ Living' \subseteq Living
    BY <1>4, <2>1 DEF FinalizeRaises, LoopTypeOK, Living, Alive
  <2>4. LoopTypeOK'
    BY <1>4, <2>2, <2>3 DEF FinalizeRaises, LoopTypeOK
  <2>. QED  BY <2>2, <2>3, <2>4 DEF Yielded, Alive, CoroOp
<1>5. CASE ProcessNone
  <2>1. cur \in TaskType /\ active \in Seq(TaskType) /\ Append(active, cur) \in Seq(TaskType)
    BY <1>5 DEF ProcessNone, LoopTypeOK
  <2>2. PICK a \in Seq(TaskType), p \in TaskType \cup {NoPair} : Continue(a, p)
    BY <1>5, <2>1 DEF ProcessNone
  <2>3. Living' = Living /\ timeouts' \in SUBSET TimerType
    BY <1>5 DEF ProcessNone, Living, Alive, LoopTypeOK
  <2>. QED  BY <1>5, <2>2, <2>3, HandOverType DEF ProcessNone
<1>6. CASE DropStale
  BY <1>6 DEF DropStale, LoopTypeOK, Yielded, Living, Alive
<1>. QED  BY <1>1, <1>2, <1>3, <1>4, <1>5, <1>6 DEF LoopStep

\* A deadline is an instant.
LEMMA DeadlinesType == clock \in Nat => Deadlines \subseteq Nat
BY DelayAssumption DEF Deadlines, Deadline

\* What a coroutine does when it is resumed, compact() apart.
LEMMA ResumeType ==
  ASSUME TypeOK, Resume, ~Compact
  PROVE  /\ LoopTypeOK' /\ Yielded' /\ Living' \subseteq Living
         /\ active' = active /\ cur'.coro = cur.coro
         /\ LetGo \/ ("keep" \in Kinds /\ UNCHANGED pubsubVars)
<1>. USE DEF TypeOK
<1>0. LetGo \/ ("keep" \in Kinds /\ UNCHANGED pubsubVars)
  BY DEF Resume
<1>1. phase = "run" /\ cur.coro \in Coro /\ active' = active
  BY DEF Resume, YieldPublish, YieldSubscription, YieldFetch, Does, Return, YieldOp, Comeback,
         LoopTypeOK, TaskType
<1>2. ASSUME NEW op \in OpType, YieldOp(op), op.c = cur.coro, op.k # "coro"
      PROVE  LoopTypeOK' /\ Yielded' /\ Living' \subseteq Living /\ cur'.coro = cur.coro
  <2>1. opn' \in [Coro -> Nat]
    BY <1>1, <1>2 DEF LoopTypeOK, YieldOp
  <2>. QED  BY <1>2, <2>1, ComebackType DEF YieldOp
<1>3. CASE Return
  <2>1. opn' \in [Coro -> Nat]
    BY <1>3 DEF Return, LoopTypeOK
  <2>2. CoroOp(cur.coro) \in OpType /\ CoroOp(cur.coro).c = cur.coro
    BY <1>1, PlainOps DEF CoroOp
  <2>. QED  BY <1>0, <1>1, <1>3, <2>1, <2>2, ComebackType DEF Return
<1>4. CASE YieldPublish
  <2>1. PICK pr \in Prios :
          YieldOp(Op("publish", cur.coro, <<cur.coro, opn[cur.coro] + 1>>, 0, pr, 0))
    BY <1>4 DEF YieldPublish
  <2>. DEFINE op == Op("publish", cur.coro, <<cur.coro, opn[cur.coro] + 1>>, 0, pr, 0)
  <2>2. <<cur.coro, opn[cur.coro] + 1>> \in Message
    BY <1>1, <2>1, BoundAssumption DEF Message, YieldOp, LoopTypeOK
  <2>3. pr \in 0..3 /\ opn[cur.coro] \in Nat
    BY <1>1, PrioAssumption DEF LoopTypeOK
  <2>4. op \in OpType /\ op.c = cur.coro /\ op.k # "coro"
    BY <1>1, <2>2, <2>3 DEF Op, OpType, RawOpType, OpKind, AllKinds
  <2>. QED  BY <1>0, <1>1, <1>2, <2>1, <2>4
<1>5. CASE YieldSubscription
  <2>1. PICK k \in {"subscribe", "unsubscribe"} : YieldOp(Op(k, cur.coro, None, 0, 0, 0))
    BY <1>5 DEF YieldSubscription
  <2>. DEFINE op == Op(k, cur.coro, None, 0, 0, 0)
  <2>2. op \in OpType /\ op.c = cur.coro /\ op.k # "coro"
    BY <1>1 DEF Op, OpType, RawOpType, OpKind, AllKinds, LoopTypeOK
  <2>. QED  BY <1>0, <1>1, <1>2, <2>1, <2>2
<1>6. CASE YieldFetch
  <2>1. PICK at \in Deadlines, pr \in Prios : YieldOp(Op("fetch", cur.coro, None, at, pr, 0))
    BY <1>6 DEF YieldFetch
  <2>. DEFINE op == Op("fetch", cur.coro, None, at, pr, 0)
  <2>2. at \in Nat /\ pr \in 0..3
    BY DeadlinesType, PrioAssumption DEF LoopTypeOK
  <2>3. op \in OpType /\ op.c = cur.coro /\ op.k # "coro"
    BY <1>1, <2>2 DEF Op, OpType, RawOpType, OpKind, AllKinds, LoopTypeOK
  <2>. QED  BY <1>0, <1>1, <1>2, <2>1, <2>3
<1>. QED  BY <1>1, <1>3, <1>4, <1>5, <1>6 DEF Resume
-----------------------------------------------------------------------------
(***************************************************************************)
(* Everyone in one place, and the levels.  Steps of the loop and of the    *)
(* coroutines leave the queue alone; the process methods do not.           *)
(***************************************************************************)
\* Nobody is None.
LEMMA NobodyPlaced ==
  ASSUME LoopTypeOK, QueueTypeOK
  PROVE  /\ None \notin Coros(active) /\ None \notin DOMAIN active_subscribers
         /\ None \notin Living
         /\ NoPair.coro = None /\ \A p \in TaskType : p.coro # None
<1>1. \A i \in DOMAIN active : active[i].coro \in Coro
  <2>1. active \in Seq(TaskType)
    BY DEF LoopTypeOK
  <2>2. \A i \in DOMAIN active : active[i] \in TaskType
    BY <2>1
  <2>. QED  BY <2>2 DEF TaskType
<1>. QED  BY <1>1, CoroAssumption DEF Coros, QueueTypeOK, Living, NoPair, Pair, TaskType

\* At the start each coroutine that was added is in the deque, once.
LEMMA InitInv == Init => Inv
<1>. SUFFICES ASSUME Init PROVE Inv
  OBVIOUS
<1>1. TypeOK
  BY InitType
<1>2. Placed
  <2>1. /\ Started \in Seq(Coro) /\ DOMAIN active = DOMAIN Started
        /\ \A i \in DOMAIN active : active[i].coro = Started[i]
    BY StartedAssumption DEF Init, LoopInit, Pair
  <2>2. Distinct(active)
    BY <2>1, StartedAssumption DEF Distinct, IsInjective
  <2>3. Living \subseteq Coros(active)
    BY <2>1 DEF Init, LoopInit, Living, Alive, Coros, ToSet
  <2>4. cur.coro = None /\ DOMAIN active_subscribers = {}
    BY DEF Init, LoopInit, NoPair, Pair, Nothing
  <2>. QED  BY <1>1, <2>2, <2>3, <2>4, NobodyPlaced DEF Placed, OnePlace, TypeOK
<1>3. Levels /\ WaitersSubscribed
  BY DEF Init, Levels, QueueIsLog, LevelsCount, HoldersRun, WaitersHaveAll, WaitersSubscribed, Nothing
<1>. QED  BY <1>1, <1>2, <1>3 DEF Inv, Base

\* A step that leaves the deque, the inner loop and the queue alone.
LEMMA PlacedStays ==
  ASSUME Placed, active' = active, cur'.coro = cur.coro,
         DOMAIN active_subscribers' = DOMAIN active_subscribers, Living' \subseteq Living
  PROVE  Placed'
BY Ends DEF Placed

\* A step that leaves the queue alone, and who has its list.
LEMMA QueueStays ==
  ASSUME QueueTypeOK, WaitersSubscribed, UNCHANGED pubsubVars
  PROVE  /\ QueueTypeOK' /\ WaitersSubscribed'
         /\ Levels /\ (phase # "run" \/ UNCHANGED <<cur, phase>>) => Levels'
<1>1. QueueTypeOK' /\ WaitersSubscribed'
  BY DEF QueueTypeOK, WaitersSubscribed, pubsubVars, queueVars, historyVars
<1>2. ASSUME Levels, phase # "run" \/ UNCHANGED <<cur, phase>>
      PROVE  QueueIsLog' /\ LevelsCount' /\ HoldersRun' /\ WaitersHaveAll'
  <2>1. QueueIsLog' /\ LevelsCount' /\ WaitersHaveAll'
    BY <1>2 DEF Levels, QueueIsLog, LevelsCount, WaitersHaveAll, Handed, pubsubVars, queueVars,
                historyVars
  <2>2. HoldersRun'
    BY <1>2 DEF Levels, HoldersRun, pubsubVars, queueVars, historyVars
  <2>. QED  BY <2>1, <2>2
<1>. QED  BY <1>1, <1>2 DEF Levels

\* What a coroutine has been handed is a sequence of messages.
LEMMA HandedType ==
  ASSUME QueueTypeOK, NEW c \in Coro
  PROVE  Handed(c) \in Seq(Message)
BY DEF Handed, QueueTypeOK

\* Whoever lets go of the list has what it has been handed.
LEMMA HandedStays ==
  ASSUME QueueTypeOK, LetGo
  PROVE  \A c \in Coro : Handed(c)' = Handed(c)
<1>. SUFFICES ASSUME NEW c \in Coro PROVE Handed(c)' = Handed(c)
  OBVIOUS
<1>1. /\ messages' = messages /\ holders' = holders \ {cur.coro}
      /\ got' = [got EXCEPT ![cur.coro] = Handed(cur.coro)] /\ got \in [Coro -> Seq(Message)]
  BY DEF LetGo, queueVars, QueueTypeOK
<1>2. CASE c = cur.coro
  <2>1. c \notin holders' /\ got'[c] = Handed(c)
    BY <1>1, <1>2
  <2>. QED  BY <2>1 DEF Handed
<1>3. CASE c # cur.coro
  <2>1. (c \in holders' <=> c \in holders) /\ got'[c] = got[c]
    BY <1>1, <1>3
  <2>. QED  BY <1>1, <2>1 DEF Handed
<1>. QED  BY <1>2, <1>3

\* The running coroutine lets go of the list, and nobody has it any more.
LEMMA LetGoStays ==
  ASSUME QueueTypeOK, WaitersSubscribed, LetGo
  PROVE  QueueTypeOK' /\ WaitersSubscribed' /\ (Levels => Levels')
<1>1. UNCHANGED <<messages, subscribers, active_subscribers, log, dropped, start>>
  BY DEF LetGo, queueVars
<1>2. got' \in [Coro -> Seq(Message)] /\ holders' \in SUBSET Coro
  <2>1. cur.coro \in Coro => Handed(cur.coro) \in Seq(Message)
    BY HandedType
  <2>. QED  BY <2>1 DEF LetGo, QueueTypeOK
<1>3. QueueTypeOK' /\ WaitersSubscribed'
  BY <1>1, <1>2 DEF QueueTypeOK, WaitersSubscribed
<1>4. ASSUME Levels
      PROVE  QueueIsLog' /\ LevelsCount' /\ HoldersRun' /\ WaitersHaveAll'
  <2>1. QueueIsLog' /\ WaitersHaveAll'
    BY <1>1, <1>4 DEF Levels, QueueIsLog, WaitersHaveAll
  <2>2. LevelsCount'
    BY <1>1, <1>4, HandedStays DEF Levels, LevelsCount, QueueTypeOK
  <2>3. holders' = {}
    BY <1>4 DEF Levels, HoldersRun, LetGo
  <2>. QED  BY <2>1, <2>2, <2>3 DEF HoldersRun
<1>. QED  BY <1>3, <1>4 DEF Levels

\* Nobody has the list while a process method or a timer runs.
LEMMA NobodyHolds ==
  ASSUME Levels, phase # "run"
  PROVE  holders = {} /\ \A c \in Coro : Handed(c) = got[c]
BY DEF Levels, HoldersRun, Handed

\* Nor after a step that hands it to nobody.
LEMMA StillNobodyHolds ==
  ASSUME Levels, phase # "run", holders' \subseteq holders
  PROVE  HoldersRun' /\ \A c \in Coro : Handed(c)' = got'[c]
BY NobodyHolds DEF HoldersRun, Handed

\* The steps of the main loop that no operation takes part in.
LEMMA LoopStepPlaced ==
  ASSUME TypeOK, Placed, LoopStep, active_subscribers' = active_subscribers
  PROVE  Placed'
<1>. USE DEF TypeOK
<1>1. Living' \subseteq Living
  BY LoopStepType
<1>2. CASE Pick
  <2>1. OnePlace(Tail(active), Head(active).coro, DOMAIN active_subscribers, Living)
    BY <1>2, TakeFirst, NobodyPlaced DEF Pick, LoopTypeOK, Placed
  <2>. QED  BY <1>1, <1>2, <2>1, Ends DEF Pick, Placed
<1>3. CASE IdleTurn \/ Leave \/ EndTimers \/ RunDeadCoro \/ Start \/ DropStale
  BY <1>1, <1>3, PlacedStays DEF IdleTurn, Leave, EndTimers, RunDeadCoro, Start, DropStale
<1>4. CASE FinalizeRaises
  BY <1>1, <1>4, PlacedStays DEF FinalizeRaises, Pair
<1>5. CASE ProcessNone
  <2>1. CASE active # <<>>
    <3>1. /\ cur \in TaskType /\ active \in Seq(TaskType)
          /\ active' = Append(active, cur) /\ cur'.coro = None
      BY <1>5, <2>1 DEF ProcessNone, Continue, LoopTypeOK, NoPair, Pair
    <3>2. OnePlace(Append(active, cur), None, DOMAIN active_subscribers, Living)
      BY <3>1, PutBack, NobodyPlaced DEF Placed
    <3>. QED  BY <1>1, <3>1, <3>2, Ends DEF Placed
  <2>2. CASE active = <<>>
    BY <1>1, <1>5, <2>2, PlacedStays DEF ProcessNone, Continue
  <2>. QED  BY <2>1, <2>2
<1>. QED  BY <1>2, <1>3, <1>4, <1>5 DEF LoopStep

\* The lowest of the levels is a level.
LEMMA LowestLevel ==
  ASSUME QueueTypeOK, DOMAIN subscribers # {}
  PROVE  Min(Range(subscribers)) \in Nat
<1>. DEFINE levels == Range(subscribers)
<1>1. levels \in SUBSET Nat /\ levels # {}
  BY DEF QueueTypeOK, Range
<1>2. \E x \in levels : \A y \in levels : x <= y
  BY <1>1, LeastNumber
<1>. HIDE DEF levels
<1>3. Min(levels) \in levels
  BY <1>2 DEF Min
<1>. QED  BY <1>1, <1>3 DEF levels

\* compact() forgets messages that all have read; while nobody is subscribed, all.
LEMMA CompactInv ==
  ASSUME Base, Compact
  PROVE  Base' /\ (Careful /\ Levels => Levels')
<1>. USE DEF Base, TypeOK
<1>1. /\ UNCHANGED <<loopVars, subscribers, active_subscribers, holders, log, start, got>>
      /\ messages' = SubSeq(messages, ReadByAll + 1, Len(messages))
      /\ dropped' = dropped + Len(messages) - Len(messages')
      /\ messages \in Seq(Message) /\ dropped \in Nat
  BY DEF Compact, QueueTypeOK
<1>2. ReadByAll \in Nat
  <2>1. CASE DOMAIN subscribers = {}
    BY <1>1, <2>1 DEF ReadByAll
  <2>2. CASE DOMAIN subscribers # {}
    BY <2>2, LowestLevel DEF ReadByAll
  <2>. QED  BY <2>1, <2>2
<1>3. messages' \in Seq(Message) /\ dropped' \in Nat
  <2>1. messages' \in Seq(Message) /\ Len(messages') \in Nat /\ Len(messages') <= Len(messages)
    BY <1>1, <1>2
  <2>. QED  BY <1>1, <2>1
<1>4. QueueTypeOK' /\ WaitersSubscribed'
  BY <1>1, <1>3 DEF QueueTypeOK, WaitersSubscribed
<1>5. LoopTypeOK' /\ Yielded' /\ Placed'
  <2>1. Living' \subseteq Living
    BY <1>1 DEF loopVars, Living, Alive
  <2>2. Placed'
    BY <1>1, <2>1, PlacedStays DEF loopVars
  <2>. QED  BY <1>1, <2>2 DEF loopVars, LoopTypeOK, Yielded, Alive
<1>6. ASSUME Careful, Levels
      PROVE  Levels'
  <2>. USE <1>6 DEF Levels
  <2>1. DOMAIN subscribers = {} /\ ReadByAll = Len(messages)
    BY DEF Compact, Does, ReadByAll, Careful
  <2>2. DOMAIN active_subscribers = {}
    BY <2>1 DEF WaitersHaveAll
  <2>3. /\ Len(messages) \in Nat /\ Len(log) \in Nat
        /\ Len(messages) = Len(log) - dropped /\ log \in Seq(Message)
    BY <1>1 DEF QueueTypeOK, QueueIsLog
  <2>4. messages' = <<>>
    BY <1>1, <2>1, <2>3
  <2>5. dropped' = Len(log)
    <3>1. Len(messages') = 0
      BY <2>4
    <3>2. dropped' = dropped + Len(messages) - 0 /\ dropped \in Nat
      BY <1>1, <3>1
    <3>. QED  BY <2>3, <3>2
  <2>6. QueueIsLog'
    <3>1. log' = log
      BY <1>1
    <3>2. SubSeq(log, Len(log) + 1, Len(log)) = <<>> /\ Len(log) <= Len(log)
      BY <2>3
    <3>. QED  BY <2>4, <2>5, <3>1, <3>2 DEF QueueIsLog
  <2>7. LevelsCount' /\ HoldersRun' /\ WaitersHaveAll'
    BY <1>1, <2>1, <2>2 DEF LevelsCount, HoldersRun, WaitersHaveAll
  <2>. QED  BY <2>6, <2>7
<1>. QED  BY <1>4, <1>5, <1>6

\* What a coroutine does when it is resumed.
LEMMA ResumeInv ==
  ASSUME Base, Resume
  PROVE  Base' /\ (Careful /\ Levels => Levels')
<1>1. CASE Compact
  BY <1>1, CompactInv
<1>2. CASE ~Compact
  <2>1. /\ LoopTypeOK' /\ Yielded' /\ Living' \subseteq Living
        /\ active' = active /\ cur'.coro = cur.coro
        /\ LetGo \/ ("keep" \in Kinds /\ UNCHANGED pubsubVars)
    BY <1>2, ResumeType DEF Base
  <2>2. Placed'
    BY <2>1, PlacedStays DEF Base, LetGo, pubsubVars, queueVars
  <2>. QED  BY <2>1, <2>2, LetGoStays, QueueStays DEF Base, TypeOK, Careful
<1>. QED  BY <1>1, <1>2
-----------------------------------------------------------------------------
\* Prefixes and suffixes of a log that grows.
LEMMA SubSeqParts ==
  ASSUME NEW S, NEW s \in Seq(S), NEW x \in S, NEW k \in 0 .. Len(s)
  PROVE  /\ SubSeq(s, 1, Len(s)) = s
         /\ SubSeq(s, 1, k) \in Seq(S) /\ Len(SubSeq(s, 1, k)) = k
         /\ SubSeq(Append(s, x), 1, k) = SubSeq(s, 1, k)
         /\ Append(SubSeq(s, k + 1, Len(s)), x) = SubSeq(Append(s, x), k + 1, Len(s) + 1)
         /\ SubSeq(s, 1, k) \o SubSeq(s, k + 1, Len(s)) = s
<1>1. Len(s) \in Nat
  OBVIOUS
<1>2. SubSeq(s, 1, Len(s)) = s
  OBVIOUS
<1>3. /\ SubSeq(s, 1, k) \in Seq(S) /\ Len(SubSeq(s, 1, k)) = k
      /\ \A i \in 1 .. k : SubSeq(s, 1, k)[i] = s[i]
  BY <1>1
<1>4. SubSeq(Append(s, x), 1, k) = SubSeq(s, 1, k)
  <2>1. /\ SubSeq(Append(s, x), 1, k) \in Seq(S) /\ Len(SubSeq(Append(s, x), 1, k)) = k
        /\ \A i \in 1 .. k : SubSeq(Append(s, x), 1, k)[i] = s[i]
    BY <1>1
  <2>. QED  BY <1>3, <2>1
<1>5. /\ SubSeq(s, k + 1, Len(s)) \in Seq(S) /\ Len(SubSeq(s, k + 1, Len(s))) = Len(s) - k
      /\ \A i \in 1 .. Len(s) - k : SubSeq(s, k + 1, Len(s))[i] = s[k + i]
  BY <1>1
<1>6. Append(SubSeq(s, k + 1, Len(s)), x) = SubSeq(Append(s, x), k + 1, Len(s) + 1)
  <2>. DEFINE t == SubSeq(s, k + 1, Len(s))
              n == Len(s) - k
              u == SubSeq(Append(s, x), k + 1, Len(s) + 1)
  <2>1. /\ u \in Seq(S) /\ Len(u) = n + 1
        /\ \A i \in 1 .. n + 1 : u[i] = Append(s, x)[k + i]
    BY <1>1
  <2>2. n \in Nat /\ k + (n + 1) = Len(s) + 1 /\ \A i \in 1 .. n : k + i \in 1 .. Len(s)
    BY <1>1
  <2>3. t \in Seq(S) /\ Len(t) = n /\ \A i \in 1 .. n : t[i] = s[k + i]
    BY <1>5
  <2>4. /\ \A i \in 1 .. Len(s) : Append(s, x)[i] = s[i]
        /\ Append(s, x)[Len(s) + 1] = x
    OBVIOUS
  <2>. HIDE DEF t, u, n
  <2>5. ASSUME NEW i \in 1 .. n
        PROVE  u[i] = t[i]
    <3>1. i \in 1 .. n + 1 /\ k + i \in 1 .. Len(s)
      BY <2>2
    <3>. QED  BY <2>1, <2>3, <2>4, <3>1
  <2>6. u[n + 1] = x
    BY <2>1, <2>2, <2>4
  <2>7. Append(t, x) \in Seq(S) /\ Len(Append(t, x)) = Len(u)
        /\ \A i \in 1 .. Len(u) : Append(t, x)[i] = u[i]
    BY <2>1, <2>2, <2>3, <2>5, <2>6
  <2>8. Append(t, x) = u
    BY <2>1, <2>7
  <2>. QED  BY <2>8 DEF t, u
<1>7. SubSeq(s, 1, k) \o SubSeq(s, k + 1, Len(s)) = s
  <2>. DEFINE a == SubSeq(s, 1, k)
              b == SubSeq(s, k + 1, Len(s))
  <2>1. a \in Seq(S) /\ Len(a) = k /\ b \in Seq(S) /\ Len(b) = Len(s) - k
    BY <1>3, <1>5
  <2>2. \A i \in 1 .. k : a[i] = s[i]
    BY <1>3
  <2>3. \A i \in 1 .. Len(s) : i > k => i - k \in 1 .. Len(s) - k /\ k + (i - k) = i
    BY <1>1
  <2>4. \A i \in 1 .. Len(s) : i > k => b[i - k] = s[i]
    BY <1>5, <2>3
  <2>. DEFINE c == a \o b
  <2>. HIDE DEF a, b
  <2>5. c \in Seq(S) /\ Len(c) = Len(s)
    BY <1>1, <2>1
  <2>6. \A i \in 1 .. Len(s) : c[i] = s[i]
    BY <1>1, <2>1, <2>2, <2>4
  <2>. HIDE DEF c
  <2>7. c = s
    BY <2>5, <2>6
  <2>. QED  BY <2>7 DEF a, b, c
<1>. QED  BY <1>2, <1>3, <1>4, <1>6, <1>7

\* What all process methods leave alone.
LEMMA ProcessKeeps ==
  ASSUME TypeOK, Process
  PROVE  /\ phase = "process" /\ UNCHANGED <<running, clock, state, opn, pend>> /\ Living' = Living
         /\ cur \in TaskType /\ cur.coro \in Coro /\ cur.op \in OpType
         /\ cur.op.c = cur.coro
         /\ cur.op.k = "coro" => cur.coro \notin Living
         /\ active \in Seq(TaskType) /\ timeouts \in SUBSET TimerType
<1>1. phase = "process" /\ UNCHANGED <<running, clock, state, opn, pend>> /\ cur.op.k # "none"
  BY DEF Process, ProcessEnd, ProcessPublish, ProcessFetch, ProcessSubscribe, ProcessUnsubscribe,
         Processing
<1>2. Living' = Living
  BY <1>1 DEF Living, Alive
<1>3. cur \in TaskType /\ active \in Seq(TaskType) /\ timeouts \in SUBSET TimerType
  BY <1>1 DEF TypeOK, LoopTypeOK
<1>4. cur.op # NoOp
  BY <1>1 DEF NoOp
<1>5. cur.op.c = cur.coro /\ (cur.op.k = "coro" => ~Alive(cur.coro))
  BY <1>1, <1>4 DEF TypeOK, Yielded
<1>. QED  BY <1>1, <1>2, <1>3, <1>5 DEF TaskType, Living

\* A coroutine that has ended is nowhere any more.
LEMMA ProcessEndInv ==
  ASSUME Base, Process, ProcessEnd
  PROVE  Base' /\ (Levels => Levels')
<1>1. /\ active' = active /\ cur' = NoPair /\ cur'.coro = None
      /\ UNCHANGED <<timeouts, pubsubVars>> /\ cur.op.k = "coro"
  BY DEF ProcessEnd, Continue, Processing, NoPair, Pair
<1>2. LoopTypeOK' /\ Yielded'
  BY <1>1, ProcessKeeps, HandOverType DEF ProcessEnd, Base, TypeOK
<1>3. OnePlace(active, None, DOMAIN active_subscribers, Living)
  BY <1>1, ProcessKeeps, NobodyPlaced, Ends DEF Base, TypeOK, Placed
<1>4. Placed'
  BY <1>1, <1>3, ProcessKeeps DEF Base, Placed, pubsubVars, queueVars
<1>. QED  BY <1>1, <1>2, <1>4, ProcessKeeps, QueueStays DEF Base, TypeOK

\* PSPut.process: who waits gets the message and a pair in the deque.
LEMMA ProcessPublishInv ==
  ASSUME Base, Process, ProcessPublish
  PROVE  Base' /\ (Levels => Levels')
<1>. DEFINE m == cur.op.arg
            waiting == DOMAIN active_subscribers
<1>. USE DEF Base, TypeOK
<1>1. m \in Message
  BY ProcessKeeps DEF ProcessPublish, Processing, OpType
<1>2. /\ messages' = Append(messages, m) /\ log' = Append(log, m)
      /\ subscribers' = [c \in DOMAIN subscribers |-> LevelAfter(c)]
      /\ active_subscribers' = Nothing
      /\ got' = [c \in Coro |-> IF c \in waiting THEN Append(got[c], m) ELSE got[c]]
      /\ UNCHANGED <<timeouts, holders, dropped, start>>
  BY DEF ProcessPublish, Cleared
<1>3. PICK front \in InFront, behind \in Behind :
        LET a == Answers(front, m) \o active \o Answers(behind, m)
        IN IF FavorsCoro(cur.op.pr) THEN Continue(a, cur)
           ELSE Continue(IF FavorsOp(cur.op.pr) THEN <<cur>> \o a ELSE Append(a, cur), NoPair)
  BY DEF ProcessPublish
<1>. DEFINE F == Answers(front, m)
            B == Answers(behind, m)
            b == F \o active
            a == b \o B
<1>4. /\ F \in Seq(TaskType) /\ Distinct(F)
      /\ Coros(F) = {c \in DOMAIN active_subscribers : active_subscribers[c].pr # 0}
  BY <1>1, <1>3, AnswersOnce DEF InFront
<1>5. /\ B \in Seq(TaskType) /\ Distinct(B)
      /\ Coros(B) = {c \in DOMAIN active_subscribers : active_subscribers[c].pr = 0}
  BY <1>1, <1>3, AnswersOnce DEF Behind
<1>. HIDE DEF F, B, m
<1>6. b \in Seq(TaskType) /\ a \in Seq(TaskType)
  BY <1>4, <1>5, ProcessKeeps
<1>7. OnePlace(a, cur.coro, {}, Living)
  <2>1. OnePlace(b, cur.coro, waiting \ Coros(F), Living)
    BY <1>4, ProcessKeeps, WakesMany DEF Placed
  <2>2. Coros(B) \subseteq waiting \ Coros(F) /\ (waiting \ Coros(F)) \ Coros(B) = {}
    BY <1>4, <1>5
  <2>. HIDE DEF b, waiting
  <2>3. OnePlace(b \o B, cur.coro, (waiting \ Coros(F)) \ Coros(B), Living)
    BY <1>5, <1>6, <2>1, <2>2, WakesMany
  <2>. QED  BY <2>2, <2>3
<1>8. /\ <<cur>> \o a \in Seq(TaskType) /\ Append(a, cur) \in Seq(TaskType)
      /\ OnePlace(Append(a, cur), None, {}, Living)
      /\ OnePlace(<<cur>> \o a, None, {}, Living)
  <2>1. None \notin Coros(a)
    <3>1. \A i \in DOMAIN a : a[i] \in TaskType
      BY <1>6
    <3>. QED  BY <3>1, NobodyPlaced DEF Coros
  <2>2. cur \in TaskType /\ cur.coro # None
    BY ProcessKeeps, NobodyPlaced
  <2>. HIDE DEF a
  <2>3. <<cur>> \o a \in Seq(TaskType) /\ Append(a, cur) \in Seq(TaskType)
    BY <1>6, <2>2
  <2>. QED  BY <1>6, <1>7, <2>1, <2>2, <2>3, PutBack
<1>. HIDE DEF a
<1>9. PICK d \in Seq(TaskType), p \in TaskType \cup {NoPair} :
        Continue(d, p) /\ OnePlace(d, p.coro, {}, Living)
  <2>1. NoPair.coro = None
    BY DEF NoPair, Pair
  <2>2. CASE FavorsCoro(cur.op.pr)
    BY <1>3, <1>6, <1>7, <2>2, ProcessKeeps DEF a, b, F, B, m
  <2>3. CASE ~FavorsCoro(cur.op.pr)
    <3>1. PICK d \in {<<cur>> \o a, Append(a, cur)} : Continue(d, NoPair)
      BY <1>3, <2>3 DEF a, b, F, B, m
    <3>. QED  BY <1>8, <2>1, <3>1
  <2>. QED  BY <2>2, <2>3
<1>10. LoopTypeOK' /\ Yielded'
  BY <1>2, <1>9, ProcessKeeps, HandOverType
<1>11. Placed'
  BY <1>2, <1>9, ProcessKeeps DEF Placed, Continue, Nothing
<1>12. QueueTypeOK'
  <2>1. messages' \in Seq(Message) /\ log' \in Seq(Message)
    BY <1>1, <1>2 DEF QueueTypeOK
  <2>2. got' \in [Coro -> Seq(Message)]
    BY <1>1, <1>2 DEF QueueTypeOK
  <2>3. DOMAIN subscribers' = DOMAIN subscribers /\ subscribers' \in [DOMAIN subscribers -> Nat]
    BY <1>2 DEF LevelAfter, QueueTypeOK
  <2>4. /\ DOMAIN active_subscribers' = {} /\ active_subscribers' \in [{} -> FetchType]
    BY <1>2 DEF Nothing
  <2>. QED  BY <1>2, <2>1, <2>2, <2>3, <2>4, FS_EmptySet DEF QueueTypeOK
<1>13. ASSUME Levels
      PROVE  QueueIsLog'
  <2>. USE <1>13 DEF Levels
  <2>1. /\ log \in Seq(Message) /\ Len(log) \in Nat /\ dropped \in 0 .. Len(log)
        /\ messages = SubSeq(log, dropped + 1, Len(log))
    BY DEF QueueTypeOK, QueueIsLog
  <2>2. Append(SubSeq(log, dropped + 1, Len(log)), m) = SubSeq(Append(log, m), dropped + 1, Len(log) + 1)
    BY <1>1, <2>1, SubSeqParts
  <2>3. Len(Append(log, m)) = Len(log) + 1
    BY <1>1, <2>1
  <2>. QED  BY <1>2, <2>1, <2>2, <2>3 DEF QueueIsLog
<1>14. ASSUME Levels
      PROVE  LevelsCount'
  <2>. USE <1>14 DEF Levels
  <2>. SUFFICES ASSUME NEW c \in DOMAIN subscribers
                PROVE  /\ start[c] = dropped
                       /\ LevelAfter(c) <= Len(Append(messages, m))
                       /\ got'[c] = SubSeq(Append(messages, m), 1, LevelAfter(c))
    BY <1>2, ProcessKeeps, StillNobodyHolds DEF LevelsCount, QueueTypeOK
  <2>1. /\ c \in Coro /\ subscribers[c] \in 0 .. Len(messages) /\ Len(messages) \in Nat
        /\ start[c] = dropped /\ got[c] = SubSeq(messages, 1, subscribers[c])
        /\ messages \in Seq(Message)
    BY ProcessKeeps, NobodyHolds DEF LevelsCount, QueueTypeOK
  <2>2. CASE c \in waiting
    <3>1. LevelAfter(c) = Len(messages) + 1 /\ got[c] = messages
      BY <2>1, <2>2, <1>1, SubSeqParts DEF LevelAfter, WaitersHaveAll
    <3>2. /\ Append(messages, m) \in Seq(Message) /\ Len(Append(messages, m)) = Len(messages) + 1
          /\ got'[c] = Append(messages, m)
      BY <1>1, <1>2, <2>1, <2>2, <3>1
    <3>3. Append(messages, m) = SubSeq(Append(messages, m), 1, Len(Append(messages, m)))
      BY <3>2
    <3>. QED  BY <2>1, <3>1, <3>2, <3>3
  <2>3. CASE c \notin waiting
    <3>1. LevelAfter(c) = subscribers[c] /\ got'[c] = got[c]
      BY <1>2, <2>1, <2>3 DEF LevelAfter
    <3>2. Len(Append(messages, m)) = Len(messages) + 1
      BY <1>1, <2>1
    <3>. QED  BY <1>1, <2>1, <3>1, <3>2, SubSeqParts
  <2>. QED  BY <2>2, <2>3
<1>15. WaitersHaveAll' /\ WaitersSubscribed'
  BY <1>2 DEF WaitersHaveAll, WaitersSubscribed, Nothing
<1>16. Levels => HoldersRun'
  BY <1>2, ProcessKeeps, StillNobodyHolds
<1>. QED  BY <1>10, <1>11, <1>12, <1>13, <1>14, <1>15, <1>16 DEF Levels

\* The process method answers the running coroutine, with p, and the queue is as it was.
LEMMA AnsweredInv ==
  ASSUME TypeOK, Placed, Process, NEW p \in TaskType, p.coro = cur.coro,
         Continue(active, p), timeouts' \in SUBSET TimerType,
         UNCHANGED active_subscribers
  PROVE  LoopTypeOK' /\ Yielded' /\ Placed'
<1>1. LoopTypeOK' /\ Yielded'
  BY ProcessKeeps, HandOverType DEF TypeOK
<1>2. Placed'
  BY ProcessKeeps DEF Placed, Continue
<1>. QED  BY <1>1, <1>2

\* A fetch hands out all that the queue has.  From level 0 on that is the list of the
\* queue itself, and the coroutine that has it runs.
LEMMA FetchHands ==
  ASSUME Base, Process, Levels, NEW me \in Coro, me = cur.coro,
         NEW op \in FetchType, op.c = me, FetchNew(op)
  PROVE  /\ Handed(me)' = messages
         /\ \A c \in Coro : c # me => Handed(c)' = Handed(c)
         /\ HoldersRun'
<1>. DEFINE level == subscribers[me]
            new == SubSeq(messages, level + 1, Len(messages))
<1>. USE DEF Base, TypeOK
<1>1. /\ me \in DOMAIN subscribers /\ level < Len(messages) /\ UNCHANGED messages
      /\ subscribers' = [subscribers EXCEPT ![me] = Len(messages)]
      /\ IF level = 0 THEN holders' = holders \cup {me} /\ UNCHANGED got
                      ELSE got' = [got EXCEPT ![me] = @ \o new] /\ UNCHANGED holders
      /\ Continue(active, With(op, new))
  BY DEF FetchNew
<1>2. /\ messages \in Seq(Message) /\ Len(messages) \in Nat /\ level \in 0 .. Len(messages)
      /\ got \in [Coro -> Seq(Message)] /\ me \in Coro
  BY <1>1, ProcessKeeps DEF QueueTypeOK
<1>3. holders = {} /\ got[me] = SubSeq(messages, 1, level) /\ \A c \in Coro : Handed(c) = got[c]
  BY <1>1, <1>2, ProcessKeeps, NobodyHolds DEF Levels, LevelsCount
<1>4. new \in Seq(Message)
  BY <1>2
<1>5. got[me] \o new = messages
  <2>1. PICK x : x \in Message
    BY <1>1, <1>2, messages[1] \in Message
  <2>2. SubSeq(messages, 1, level) \o SubSeq(messages, level + 1, Len(messages)) = messages
    BY <1>2, <2>1, SubSeqParts
  <2>. QED  BY <1>3, <2>2
<1>. HIDE DEF new
<1>6. CASE level = 0
  <2>1. holders' = {me} /\ got' = got
    BY <1>1, <1>3, <1>6
  <2>2. got[me] = <<>>
    BY <1>2, <1>3, <1>6
  <2>3. With(op, new) \in TaskType /\ With(op, new).coro = me /\ With(op, new) # NoPair
    BY <1>4, FetchOps, NobodyPlaced
  <2>4. cur'.coro = me /\ phase' = "run"
    BY <1>1, <2>3 DEF Continue
  <2>5. me \in DOMAIN subscribers'
    BY <1>1
  <2>6. HoldersRun'
    BY <2>1, <2>2, <2>4, <2>5 DEF HoldersRun
  <2>7. Handed(me)' = messages
    <3>1. messages \o <<>> = messages
      BY <1>2
    <3>. QED  BY <1>1, <2>1, <2>2, <3>1 DEF Handed
  <2>8. \A c \in Coro : c # me => Handed(c)' = Handed(c)
    BY <1>3, <2>1 DEF Handed
  <2>. QED  BY <2>6, <2>7, <2>8
<1>7. CASE level # 0
  <2>1. holders' = {} /\ got' = [got EXCEPT ![me] = messages]
    BY <1>1, <1>3, <1>5, <1>7
  <2>2. Handed(me)' = messages /\ \A c \in Coro : c # me => Handed(c)' = Handed(c)
    BY <1>2, <1>3, <2>1 DEF Handed
  <2>. QED  BY <2>1, <2>2 DEF HoldersRun
<1>. QED  BY <1>6, <1>7

\* PSGet.process.
LEMMA ProcessFetchInv ==
  ASSUME Base, Process, ProcessFetch
  PROVE  Base' /\ (Levels => Levels')
<1>. DEFINE op == WithDefault(cur.op)
<1>. USE DEF Base, TypeOK
<1>1. cur.op \in FetchType /\ clock \in Nat
  BY ProcessKeeps DEF ProcessFetch, Processing, FetchType, LoopTypeOK
<1>2. op \in FetchType /\ op.c = cur.coro
  BY <1>1, ProcessKeeps, FetchOps
<1>3. Pushed(op) \in SUBSET TimerType /\ Retired(Pushed(op), cur.op) \in SUBSET TimerType
  BY <1>2, ProcessKeeps, HeapType
<1>. HIDE DEF op
<1>4. CASE FetchUnsubscribed(op)
  <2>1. /\ Pair(ErrorExc, cur.coro) \in TaskType /\ Pair(ErrorExc, cur.coro).coro = cur.coro
    BY PlainOps, ProcessKeeps DEF Pair, TaskType
  <2>2. /\ Continue(active, Pair(ErrorExc, cur.coro)) /\ timeouts' = Retired(Pushed(op), cur.op)
        /\ UNCHANGED pubsubVars
    BY <1>4 DEF FetchUnsubscribed, Throw
  <2>3. LoopTypeOK' /\ Yielded' /\ Placed'
    BY <1>3, <2>1, <2>2, AnsweredInv DEF pubsubVars, queueVars
  <2>. QED  BY <2>2, <2>3, ProcessKeeps, QueueStays
<1>5. CASE FetchNew(op)
  <2>. DEFINE level == subscribers[cur.coro]
              new == SubSeq(messages, level + 1, Len(messages))
  <2>1. /\ cur.coro \in DOMAIN subscribers /\ level < Len(messages)
        /\ subscribers' = [subscribers EXCEPT ![cur.coro] = Len(messages)]
        /\ IF level = 0 THEN holders' = holders \cup {cur.coro} /\ UNCHANGED got
                        ELSE got' = [got EXCEPT ![cur.coro] = @ \o new] /\ UNCHANGED holders
        /\ timeouts' = Pushed(op)
        /\ Continue(active, With(op, new))
        /\ UNCHANGED <<messages, active_subscribers, log, dropped, start>>
    BY <1>2, <1>5 DEF FetchNew
  <2>2. /\ messages \in Seq(Message) /\ Len(messages) \in Nat /\ level \in Nat
        /\ got \in [Coro -> Seq(Message)] /\ cur.coro \in Coro
    BY <2>1, ProcessKeeps DEF QueueTypeOK
  <2>3. new \in Seq(Message)
    BY <2>2
  <2>4. With(op, new) \in TaskType /\ With(op, new).coro = cur.coro
    BY <1>2, <2>3, FetchOps
  <2>5. LoopTypeOK' /\ Yielded' /\ Placed'
    BY <1>3, <2>1, <2>4, AnsweredInv
  <2>. HIDE DEF new
  <2>6. QueueTypeOK' /\ WaitersSubscribed'
    <3>1. CASE level = 0
      BY <2>1, <2>2, <3>1 DEF QueueTypeOK, WaitersSubscribed
    <3>2. CASE level # 0
      <4>1. got[cur.coro] \o new \in Seq(Message)
        BY <2>2, <2>3
      <4>2. got' \in [Coro -> Seq(Message)]
        BY <2>1, <2>2, <3>2, <4>1
      <4>. QED  BY <2>1, <2>2, <3>2, <4>2 DEF QueueTypeOK, WaitersSubscribed
    <3>. QED  BY <3>1, <3>2
  <2>7. ASSUME Levels
        PROVE  LevelsCount' /\ HoldersRun'
    <3>0. PICK me \in Coro : me = cur.coro
      BY <2>2
    <3>1. Handed(me)' = messages
      BY <1>2, <1>5, <2>7, <3>0, FetchHands
    <3>2. \A c \in Coro : c # me => Handed(c)' = Handed(c)
      BY <1>2, <1>5, <2>7, <3>0, FetchHands
    <3>3. ASSUME NEW c \in DOMAIN subscribers
          PROVE  /\ start[c] = dropped
                 /\ subscribers'[c] <= Len(messages)
                 /\ Handed(c)' = SubSeq(messages, 1, subscribers'[c])
      <4>1. CASE c = me
        <5>1. subscribers'[c] = Len(messages) /\ messages = SubSeq(messages, 1, Len(messages))
          BY <2>1, <2>2, <3>0, <4>1
        <5>2. start[c] = dropped
          BY <2>7 DEF Levels, LevelsCount
        <5>. QED  BY <2>2, <3>1, <4>1, <5>1, <5>2
      <4>2. CASE c # me
        <5>1. subscribers'[c] = subscribers[c] /\ Handed(c)' = Handed(c)
          BY <2>1, <3>0, <3>2, <4>2 DEF QueueTypeOK
        <5>. QED  BY <2>7, <5>1 DEF Levels, LevelsCount
      <4>. QED  BY <4>1, <4>2
    <3>4. LevelsCount'
      BY <2>1, <3>3 DEF LevelsCount
    <3>5. HoldersRun'
      BY <1>2, <1>5, <2>7, <3>0, FetchHands
    <3>. QED  BY <3>4, <3>5
  <2>8. ASSUME Levels
        PROVE  QueueIsLog' /\ WaitersHaveAll'
    <3>1. cur.coro \notin DOMAIN active_subscribers
      BY DEF Placed, OnePlace
    <3>. QED  BY <2>1, <2>8, <3>1 DEF Levels, QueueIsLog, WaitersHaveAll
  <2>. QED  BY <2>5, <2>6, <2>7, <2>8 DEF Levels
<1>6. CASE FetchWaits(op)
  <2>1. /\ cur.coro \in DOMAIN subscribers /\ subscribers[cur.coro] >= Len(messages)
        /\ active_subscribers' = Assigned(active_subscribers, cur.coro, op)
        /\ timeouts' = Pushed(op)
        /\ Continue(active, NoPair)
        /\ UNCHANGED <<messages, subscribers, holders, historyVars>>
    BY <1>2, <1>6 DEF FetchWaits
  <2>2. /\ DOMAIN active_subscribers' = DOMAIN active_subscribers \cup {cur.coro}
        /\ active_subscribers'[cur.coro] = op
        /\ \A c \in DOMAIN active_subscribers : c # cur.coro => active_subscribers'[c] = active_subscribers[c]
        /\ active_subscribers' \in [DOMAIN active_subscribers' -> FetchType]
    BY <1>2, <2>1 DEF Assigned, QueueTypeOK
  <2>3. LoopTypeOK' /\ Yielded'
    BY <1>3, <2>1, ProcessKeeps, HandOverType
  <2>4. Placed'
    <3>1. cur'.coro = None /\ active' = active /\ cur.coro # None
      BY <2>1, ProcessKeeps, NobodyPlaced DEF Continue, NoPair, Pair
    <3>2. OnePlace(active, None, DOMAIN active_subscribers \cup {cur.coro}, Living)
      BY <3>1, BeginsToWait, NobodyPlaced DEF Placed
    <3>. QED  BY <2>2, <3>1, <3>2, ProcessKeeps DEF Placed
  <2>5. QueueTypeOK'
    <3>1. IsFiniteSet(DOMAIN active_subscribers')
      <4>1. IsFiniteSet(DOMAIN active_subscribers \cup {cur.coro})
        BY FS_AddElement DEF QueueTypeOK
      <4>. QED  BY <2>2, <4>1
    <3>2. DOMAIN active_subscribers' \subseteq Coro /\ \A c \in DOMAIN active_subscribers' : active_subscribers'[c].c = c
      BY <1>2, <2>2, ProcessKeeps DEF QueueTypeOK
    <3>. QED  BY <2>1, <2>2, <3>1, <3>2 DEF QueueTypeOK, historyVars
  <2>6. WaitersSubscribed'
    BY <2>1, <2>2 DEF WaitersSubscribed
  <2>7. ASSUME Levels
        PROVE  QueueIsLog' /\ LevelsCount' /\ HoldersRun' /\ WaitersHaveAll'
    <3>. USE <2>7 DEF Levels
    <3>1. QueueIsLog' /\ LevelsCount' /\ HoldersRun'
      <4>1. HoldersRun'
        BY <2>1, ProcessKeeps, StillNobodyHolds
      <4>. QED  BY <2>1, <4>1 DEF QueueIsLog, LevelsCount, Handed, historyVars
    <3>2. subscribers[cur.coro] = Len(messages)
      BY <2>1 DEF LevelsCount, QueueTypeOK
    <3>. QED  BY <2>1, <2>2, <3>1, <3>2 DEF WaitersHaveAll
  <2>. QED  BY <2>3, <2>4, <2>5, <2>6, <2>7 DEF Levels
<1>. QED  BY <1>4, <1>5, <1>6 DEF ProcessFetch, op

\* PSSubscribe.process: the coroutine begins where the queue does.
LEMMA ProcessSubscribeInv ==
  ASSUME Base, Process, ProcessSubscribe
  PROVE  Base' /\ (Levels => Levels')
<1>. USE DEF Base, TypeOK
<1>1. /\ subscribers' = Assigned(subscribers, cur.coro, 0)
      /\ start' = [start EXCEPT ![cur.coro] = dropped]
      /\ got' = [got EXCEPT ![cur.coro] = <<>>]
      /\ holders' = holders \ {cur.coro}
      /\ Continue(active, cur)
      /\ UNCHANGED <<timeouts, messages, active_subscribers, log, dropped>>
  BY DEF ProcessSubscribe
<1>2. LoopTypeOK' /\ Yielded' /\ Placed'
  BY <1>1, ProcessKeeps, AnsweredInv
<1>3. /\ DOMAIN subscribers' = DOMAIN subscribers \cup {cur.coro}
      /\ subscribers'[cur.coro] = 0
      /\ \A c \in DOMAIN subscribers : c # cur.coro => subscribers'[c] = subscribers[c]
      /\ subscribers' \in [DOMAIN subscribers' -> Nat]
  BY <1>1 DEF Assigned, QueueTypeOK
<1>4. QueueTypeOK'
  <2>1. start' \in [Coro -> Nat] /\ got' \in [Coro -> Seq(Message)]
    <3>1. <<>> \in Seq(Message) /\ dropped \in Nat /\ start \in [Coro -> Nat]
      BY DEF QueueTypeOK
    <3>2. got \in [Coro -> Seq(Message)]
      BY DEF QueueTypeOK
    <3>. QED  BY <1>1, <3>1, <3>2, ProcessKeeps
  <2>. QED  BY <1>1, <1>3, <2>1, ProcessKeeps DEF QueueTypeOK
<1>5. ASSUME Levels
      PROVE  LevelsCount' /\ HoldersRun'
  <2>. USE <1>5 DEF Levels
  <2>. HIDE DEF HoldersRun
  <2>1. messages \in Seq(Message) /\ SubSeq(messages, 1, 0) = <<>> /\ Len(messages) >= 0
    BY DEF QueueTypeOK
  <2>2. start'[cur.coro] = dropped /\ got'[cur.coro] = <<>>
    BY <1>1, ProcessKeeps DEF QueueTypeOK
  <2>3. \A c \in DOMAIN subscribers : c # cur.coro => start'[c] = start[c] /\ got'[c] = got[c]
    BY <1>1 DEF QueueTypeOK
  <2>4. HoldersRun' /\ \A c \in Coro : Handed(c)' = got'[c] /\ Handed(c) = got[c]
    BY <1>1, ProcessKeeps, NobodyHolds, StillNobodyHolds
  <2>5. ASSUME NEW c \in DOMAIN subscribers'
        PROVE  /\ start'[c] = dropped
               /\ subscribers'[c] <= Len(messages)
               /\ Handed(c)' = SubSeq(messages, 1, subscribers'[c])
    <3>1. c \in Coro /\ Handed(c)' = got'[c] /\ Handed(c) = got[c]
      BY <1>3, <2>4, ProcessKeeps DEF QueueTypeOK
    <3>2. CASE c = cur.coro
      BY <1>3, <2>1, <2>2, <3>1, <3>2
    <3>3. CASE c # cur.coro
      BY <1>3, <2>3, <3>1, <3>3 DEF LevelsCount
    <3>. QED  BY <3>2, <3>3
  <2>. QED  BY <1>1, <2>4, <2>5 DEF LevelsCount
<1>6. WaitersSubscribed'
  BY <1>1, <1>3 DEF WaitersSubscribed
<1>7. ASSUME Levels
      PROVE  QueueIsLog' /\ WaitersHaveAll'
  <2>1. cur.coro \notin DOMAIN active_subscribers
    BY DEF Placed, OnePlace
  <2>. QED  BY <1>1, <1>3, <1>7, <2>1 DEF Levels, QueueIsLog, WaitersHaveAll
<1>. QED  BY <1>2, <1>4, <1>5, <1>6, <1>7 DEF Levels

\* PSUnsubscribe.process: who unsubscribes runs, so it does not wait.
LEMMA ProcessUnsubscribeInv ==
  ASSUME Base, Process, ProcessUnsubscribe
  PROVE  Base' /\ (Levels => Levels')
<1>. USE DEF Base, TypeOK
<1>1. UNCHANGED <<messages, active_subscribers, holders, historyVars>>
  BY DEF ProcessUnsubscribe
<1>2. cur.coro \notin DOMAIN active_subscribers
  BY DEF Placed, OnePlace
<1>3. CASE cur.coro \in DOMAIN subscribers
  <2>1. /\ subscribers' = Restrict(subscribers, DOMAIN subscribers \ {cur.coro})
        /\ Continue(active, cur) /\ UNCHANGED timeouts
    BY <1>3 DEF ProcessUnsubscribe
  <2>2. LoopTypeOK' /\ Yielded' /\ Placed'
    BY <1>1, <2>1, ProcessKeeps, AnsweredInv
  <2>3. /\ DOMAIN subscribers' = DOMAIN subscribers \ {cur.coro}
        /\ \A c \in DOMAIN subscribers' : subscribers'[c] = subscribers[c]
        /\ subscribers' \in [DOMAIN subscribers' -> Nat]
    BY <2>1 DEF Restrict, QueueTypeOK
  <2>4. QueueTypeOK' /\ WaitersSubscribed'
    BY <1>1, <1>2, <2>3 DEF QueueTypeOK, WaitersSubscribed, historyVars
  <2>5. ASSUME Levels
        PROVE  QueueIsLog' /\ LevelsCount' /\ HoldersRun' /\ WaitersHaveAll'
    <3>1. HoldersRun'
      BY <1>1, <2>5, ProcessKeeps, StillNobodyHolds
    <3>. QED  BY <1>1, <1>2, <2>3, <2>5, <3>1
              DEF Levels, QueueIsLog, LevelsCount, Handed, WaitersHaveAll, historyVars
  <2>. QED  BY <2>2, <2>4, <2>5 DEF Levels
<1>4. CASE cur.coro \notin DOMAIN subscribers
  <2>1. /\ Continue(active, Pair(ErrorExc, cur.coro)) /\ timeouts' = Retired(timeouts, cur.op)
        /\ UNCHANGED pubsubVars
    BY <1>1, <1>4 DEF ProcessUnsubscribe, Throw, pubsubVars, queueVars
  <2>2. Pair(ErrorExc, cur.coro) \in TaskType /\ Pair(ErrorExc, cur.coro).coro = cur.coro
    BY PlainOps, ProcessKeeps DEF Pair, TaskType
  <2>3. LoopTypeOK' /\ Yielded' /\ Placed'
    BY <1>1, <2>1, <2>2, ProcessKeeps, HeapType, AnsweredInv
  <2>. QED  BY <2>1, <2>3, ProcessKeeps, QueueStays
<1>. QED  BY <1>3, <1>4

\* PSGet.cleanup: a fetch that expires stops to wait and its coroutine is queued.
LEMMA TimeoutFetchInv ==
  ASSUME Base, TimeoutFetch
  PROVE  Base' /\ (Levels => Levels')
<1>. USE DEF Base, TypeOK
<1>1. PICK e \in timeouts :
        /\ e.op.c \in DOMAIN active_subscribers /\ phase = "timers"
        /\ timeouts' = timeouts \ {e}
        /\ active' = Append(active, Pair(TimeoutExc, e.op.c))
        /\ active_subscribers' = Restrict(active_subscribers, DOMAIN active_subscribers \ {e.op.c})
        /\ UNCHANGED <<running, cur, phase, clock, state, opn, pend,
                       messages, subscribers, holders, historyVars>>
  BY DEF TimeoutFetch, Due, WithoutFetch
<1>. DEFINE c == e.op.c
            p == Pair(TimeoutExc, c)
<1>2. c \in Coro /\ p \in TaskType /\ p.coro = c /\ active \in Seq(TaskType)
  BY <1>1, PlainOps DEF LoopTypeOK, QueueTypeOK, Pair, TaskType
<1>3. LoopTypeOK' /\ Yielded' /\ Living' = Living
  BY <1>1, <1>2 DEF LoopTypeOK, Yielded, Living, Alive
<1>4. /\ DOMAIN active_subscribers' = DOMAIN active_subscribers \ {c}
      /\ \A d \in DOMAIN active_subscribers' : active_subscribers'[d] = active_subscribers[d]
      /\ active_subscribers' \in [DOMAIN active_subscribers' -> FetchType]
  BY <1>1 DEF Restrict, QueueTypeOK
<1>5. Placed'
  <2>1. OnePlace(Append(active, p), cur.coro, DOMAIN active_subscribers \ {p.coro}, Living)
    BY <1>1, <1>2, WakesOne DEF Placed
  <2>. QED  BY <1>1, <1>2, <1>3, <1>4, <2>1 DEF Placed
<1>6. QueueTypeOK' /\ WaitersSubscribed'
  <2>1. IsFiniteSet(DOMAIN active_subscribers')
    <3>1. IsFiniteSet(DOMAIN active_subscribers \ {c})
      BY FS_RemoveElement DEF QueueTypeOK
    <3>. QED  BY <1>4, <3>1
  <2>. QED  BY <1>1, <1>4, <2>1 DEF QueueTypeOK, WaitersSubscribed, historyVars
<1>7. ASSUME Levels
      PROVE  QueueIsLog' /\ LevelsCount' /\ HoldersRun' /\ WaitersHaveAll'
  <2>1. HoldersRun'
    BY <1>1, <1>7, StillNobodyHolds
  <2>. QED  BY <1>1, <1>4, <1>7, <2>1
            DEF Levels, QueueIsLog, LevelsCount, Handed, WaitersHaveAll, historyVars
<1>. QED  BY <1>3, <1>5, <1>6, <1>7 DEF Levels
-----------------------------------------------------------------------------
\* No step of the program breaks the invariant; compact() and a list that is kept may
\* break the levels.
LEMMA NextInv ==
  ASSUME Base, [Next]_vars
  PROVE  Base' /\ (Careful /\ Levels => Levels')
<1>1. CASE LoopStep /\ (LetGo \/ (phase # "run" /\ UNCHANGED pubsubVars))
  <2>1. LoopTypeOK' /\ Yielded'
    BY <1>1, LoopStepType DEF Base, TypeOK
  <2>2. Placed'
    BY <1>1, LoopStepPlaced DEF Base, LetGo, pubsubVars, queueVars
  <2>. QED  BY <1>1, <2>1, <2>2, LetGoStays, QueueStays DEF Base, TypeOK
<1>2. CASE Process
  BY <1>2, ProcessEndInv, ProcessPublishInv, ProcessFetchInv, ProcessSubscribeInv,
     ProcessUnsubscribeInv DEF Process
<1>3. ASSUME UNCHANGED <<active, cur, phase, state, opn, pubsubVars>>, timeouts' \in SUBSET timeouts,
             clock' \in Nat
      PROVE  Base' /\ (Levels => Levels')
  <2>1. LoopTypeOK' /\ Yielded' /\ Living' \subseteq Living
    BY <1>3 DEF Base, TypeOK, LoopTypeOK, Yielded, Living, Alive
  <2>2. Placed'
    BY <1>3, <2>1, PlacedStays DEF Base, pubsubVars, queueVars
  <2>. QED  BY <1>3, <2>1, <2>2, QueueStays DEF Base, TypeOK
<1>4. CASE TimeoutTooLate
  BY <1>3, <1>4 DEF TimeoutTooLate, Base, TypeOK, LoopTypeOK
<1>5. CASE Tick /\ UNCHANGED pubsubVars
  BY <1>3, <1>5 DEF Tick, Base, TypeOK, LoopTypeOK
<1>6. CASE UNCHANGED vars
  BY <1>3, <1>6 DEF vars, loopVars, Base, TypeOK, LoopTypeOK
<1>. QED
  BY <1>1, <1>2, <1>4, <1>5, <1>6, ResumeInv, TimeoutFetchInv DEF Next, Loop, Over, vars

\* Types, places and subscriptions are right in every state of every program,
\* of programs that call compact() while coroutines are subscribed too.
THEOREM BaseCorrect == Spec => []Base
<1>1. Init => Base
  BY InitInv DEF Inv
<1>2. Base /\ [Next]_vars => Base'
  BY NextInv
<1>. QED  BY <1>1, <1>2, PTL DEF Spec

\* The levels of pubsub.py say what each subscriber has got, in every state of
\* every program that does not call compact() while coroutines are subscribed and in
\* which nobody goes on after a yield with the list that a fetch returned.
THEOREM InvCorrect ==
  ASSUME "compact" \notin Kinds, "keep" \notin Kinds
  PROVE  Spec => []Inv
<1>1. Init => Inv
  BY InitInv
<1>2. Inv /\ [Next]_vars => Inv'
  BY NextInv DEF Inv, Careful
<1>. QED  BY <1>1, <1>2, PTL DEF Spec

\* Counted as the runs count it: a coroutine that lives has one place.
LEMMA OnePlaceEach == Base => ExactlyOnePlace
<1>. SUFFICES ASSUME Base, NEW c \in Coro, Alive(c)
              PROVE  Cardinality(Places(c)) = 1
  BY DEF ExactlyOnePlace
<1>1. /\ Distinct(active) /\ Coros(active) \cap DOMAIN active_subscribers = {}
      /\ cur.coro \notin Coros(active) /\ cur.coro \notin DOMAIN active_subscribers
      /\ c \in Coros(active) \/ c \in DOMAIN active_subscribers \/ c = cur.coro
  BY DEF Base, Placed, OnePlace, Living
<1>2. CASE c \in Coros(active)
  <2>1. PICK i \in DOMAIN active : active[i].coro = c
    BY <1>2 DEF Coros
  <2>2. At(active, c) = {i}
    BY <1>1, <2>1 DEF At, Distinct
  <2>3. {cur.coro} \cap {c} = {} /\ DOMAIN active_subscribers \cap {c} = {}
    BY <1>1, <1>2
  <2>4. Places(c) = {<<"active", i>>}
    BY <2>2, <2>3 DEF Places
  <2>. QED  BY <2>4, FS_Singleton
<1>3. CASE c \in DOMAIN active_subscribers
  <2>1. At(active, c) = {}
    BY <1>1, <1>3 DEF At, Coros
  <2>2. {cur.coro} \cap {c} = {} /\ DOMAIN active_subscribers \cap {c} = {c}
    BY <1>1, <1>3
  <2>3. Places(c) = {<<"fetch">>}
    BY <2>1, <2>2 DEF Places
  <2>. QED  BY <2>3, FS_Singleton
<1>4. CASE c = cur.coro
  <2>1. At(active, c) = {}
    BY <1>1, <1>4 DEF At, Coros
  <2>2. {cur.coro} \cap {c} = {c} /\ DOMAIN active_subscribers \cap {c} = {}
    BY <1>1, <1>4
  <2>3. Places(c) = {<<"cur">>}
    BY <2>1, <2>2 DEF Places
  <2>. QED  BY <2>3, FS_Singleton
<1>. QED  BY <1>1, <1>2, <1>3, <1>4

\* publish() and timers never lose a coroutine that fetches, nor resume it twice:
\* every coroutine that lives is queued once, runs, or waits once.
THEOREM NobodyLost == Spec => []ExactlyOnePlace
BY BaseCorrect, OnePlaceEach, PTL

\* PSPut.process finds a level for every fetch that waits.
THEOREM NoLevelMissing == Spec => []WaitersSubscribed
<1>1. Base => WaitersSubscribed
  BY DEF Base
<1>. QED  BY <1>1, BaseCorrect, PTL

\* No fetch waits while there is a message its coroutine has not got.
THEOREM WaitersHaveRead ==
  ASSUME "compact" \notin Kinds, "keep" \notin Kinds
  PROVE  Spec => []WaitsUpToDate
<1>1. ASSUME Inv, NEW c \in DOMAIN active_subscribers
      PROVE  Len(Handed(c)) = Len(log) - start[c]
  <2>1. /\ messages \in Seq(Message) /\ log \in Seq(Message)
        /\ dropped \in Nat /\ dropped <= Len(log) /\ messages = SubSeq(log, dropped + 1, Len(log))
    BY <1>1 DEF Inv, Base, TypeOK, QueueTypeOK, Levels, QueueIsLog
  <2>2. start[c] = dropped /\ Handed(c) = SubSeq(messages, 1, Len(messages))
    BY <1>1 DEF Inv, Levels, LevelsCount, WaitersHaveAll
  <2>3. Handed(c) = messages /\ Len(messages) = Len(log) - dropped
    BY <2>1, <2>2
  <2>. QED  BY <2>2, <2>3
<1>2. Inv => WaitsUpToDate
  BY <1>1 DEF WaitsUpToDate
<1>. QED  BY <1>2, InvCorrect, PTL
-----------------------------------------------------------------------------
(***************************************************************************)
(* PubSub implements MessageLog.  The mapping is the history: what was     *)
(* published, where each coroutine began and what it has been handed.      *)
(***************************************************************************)
\* The part of the log that the queue still has, with one more message.
LEMMA LogGrows ==
  ASSUME Inv, NEW m \in Message
  PROVE  Append(messages, m) = SubSeq(Append(log, m), dropped + 1, Len(Append(log, m)))
<1>1. /\ log \in Seq(Message) /\ dropped \in 0 .. Len(log)
      /\ messages = SubSeq(log, dropped + 1, Len(log))
  BY DEF Inv, Base, TypeOK, QueueTypeOK, Levels, QueueIsLog
<1>2. Append(SubSeq(log, dropped + 1, Len(log)), m) = SubSeq(Append(log, m), dropped + 1, Len(log) + 1)
  BY <1>1, SubSeqParts
<1>3. Len(Append(log, m)) = Len(log) + 1
  BY <1>1
<1>. QED  BY <1>1, <1>2, <1>3

\* While nobody has the list of the queue, what was handed out is the copies.
LEMMA CopiesOnly ==
  ASSUME Inv, phase # "run", holders' \subseteq holders
  PROVE  /\ [c \in Coro |-> Handed(c)] = got
         /\ got' \in [Coro -> Seq(Message)] => [c \in Coro |-> Handed(c)]' = got'
<1>1. \A c \in Coro : Handed(c) = got[c] /\ Handed(c)' = got'[c]
  BY NobodyHolds, StillNobodyHolds DEF Inv
<1>2. got \in [Coro -> Seq(Message)]
  BY DEF Inv, Base, TypeOK, QueueTypeOK
<1>. QED  BY <1>1, <1>2

\* PSPut.process publishes to those that wait.
LEMMA PublishMapped ==
  ASSUME Inv, Process, ProcessPublish
  PROVE  Log!Next
<1>. DEFINE m == cur.op.arg
            R == DOMAIN active_subscribers
<1>1. m \in Message /\ phase # "run"
  BY ProcessKeeps DEF ProcessPublish, Processing, OpType, Inv, Base
<1>. HIDE DEF m
<1>2. /\ log' = Append(log, m) /\ start' = start /\ holders' = holders
      /\ got' = [c \in Coro |-> IF c \in R THEN Append(got[c], m) ELSE got[c]]
  BY DEF ProcessPublish, m
<1>3. ASSUME NEW c \in R
      PROVE  Append(got[c], m) = Log!From(start[c], log')
  <2>1. /\ messages \in Seq(Message) /\ start[c] = dropped /\ c \in Coro
        /\ Handed(c) = SubSeq(messages, 1, Len(messages))
    BY DEF Inv, Base, TypeOK, QueueTypeOK, Levels, LevelsCount, WaitersHaveAll
  <2>2. got[c] = messages
    BY <1>1, <2>1, NobodyHolds DEF Inv
  <2>. QED  BY <1>1, <1>2, <2>1, <2>2, LogGrows DEF Log!From
<1>4. got' = [c \in Coro |-> IF c \in R THEN Log!From(start[c], log') ELSE got[c]]
  BY <1>2, <1>3
<1>5. R \in SUBSET Coro
  BY DEF Inv, Base, TypeOK, QueueTypeOK
<1>6. [c \in Coro |-> Handed(c)] = got /\ [c \in Coro |-> Handed(c)]' = got'
  <2>1. Base'
    BY ProcessPublishInv DEF Inv
  <2>. QED  BY <1>1, <1>2, <2>1, CopiesOnly DEF Base, TypeOK, QueueTypeOK
<1>7. Log!Publish(m, R)
  BY <1>2, <1>4, <1>6 DEF Log!Publish
<1>. QED  BY <1>1, <1>5, <1>7 DEF Log!Next

\* PSGet.process reads to the end of the log, or leaves the history alone.
LEMMA FetchMapped ==
  ASSUME Inv, Process, ProcessFetch
  PROVE  Log!Next \/ UNCHANGED Log!vars
<1>. DEFINE op == WithDefault(cur.op)
<1>1. cur.op \in FetchType /\ clock \in Nat /\ cur.coro \in Coro /\ phase # "run"
  BY ProcessKeeps DEF ProcessFetch, Processing, FetchType, LoopTypeOK, TypeOK, Inv, Base
<1>0. PICK c \in Coro : c = cur.coro
  BY <1>1
<1>2. op.c = c /\ op \in FetchType
  BY <1>0, <1>1, ProcessKeeps, FetchOps DEF Inv, Base
<1>. HIDE DEF op
<1>3. CASE FetchUnsubscribed(op)
  BY <1>3 DEF FetchUnsubscribed, pubsubVars, queueVars, historyVars, Handed, Log!vars
<1>4. CASE FetchWaits(op)
  BY <1>4 DEF FetchWaits, historyVars, Handed, Log!vars
<1>5. CASE FetchNew(op)
  <2>1. /\ c \in DOMAIN subscribers /\ UNCHANGED <<log, start>>
    BY <1>2, <1>5 DEF FetchNew
  <2>2. Handed(c)' = messages /\ \A d \in Coro : d # c => Handed(d)' = Handed(d)
    BY <1>0, <1>2, <1>5, FetchHands DEF Inv
  <2>3. messages = Log!From(start[c], log)
    BY <2>1 DEF Inv, Levels, LevelsCount, QueueIsLog, Log!From
  <2>4. [d \in Coro |-> Handed(d)]' =
          [[d \in Coro |-> Handed(d)] EXCEPT ![c] = Log!From(start[c], log)]
    BY <2>2, <2>3
  <2>5. Log!Read(c)
    BY <2>1, <2>4 DEF Log!Read
  <2>. QED  BY <1>1, <2>5 DEF Log!Next
<1>. QED  BY <1>3, <1>4, <1>5 DEF ProcessFetch, op

\* PSSubscribe.process begins at the first message that the queue still has.
LEMMA SubscribeMapped ==
  ASSUME Inv, Process, ProcessSubscribe
  PROVE  Log!Next
<1>1. cur.coro \in Coro /\ dropped \in 0 .. Len(log) /\ phase # "run"
  BY ProcessKeeps DEF Inv, Base, TypeOK, QueueTypeOK, Levels, QueueIsLog
<1>2. [c \in Coro |-> Handed(c)] = got /\ [c \in Coro |-> Handed(c)]' = got'
  <2>1. Base' /\ holders' \subseteq holders
    BY ProcessSubscribeInv DEF Inv, ProcessSubscribe
  <2>. QED  BY <1>1, <2>1, CopiesOnly DEF Base, TypeOK, QueueTypeOK
<1>3. Log!Begin(cur.coro)
  BY <1>1, <1>2 DEF ProcessSubscribe, Log!Begin
<1>. QED  BY <1>1, <1>3 DEF Log!Next

\* Each step of the program is a step of the log or leaves it alone.
LEMMA NextMapped == Careful /\ Inv /\ [Next]_vars => [Log!Next]_(Log!vars)
<1>. SUFFICES ASSUME Careful, Inv, [Next]_vars PROVE Log!Next \/ UNCHANGED Log!vars
  BY DEF Log!vars
<1>1. CASE UNCHANGED pubsubVars \/ UNCHANGED <<messages, holders, historyVars>>
  BY <1>1 DEF pubsubVars, queueVars, historyVars, Handed, Log!vars
<1>2. CASE LetGo
  <2>1. \A c \in Coro : Handed(c)' = Handed(c)
    BY <1>2, HandedStays DEF Inv, Base, TypeOK
  <2>. QED  BY <1>2, <2>1 DEF LetGo, Log!vars
<1>3. CASE Compact
  <2>1. UNCHANGED <<log, start, got, holders>> /\ DOMAIN subscribers = {}
    BY <1>3 DEF Compact, Careful, Does
  <2>2. holders = {}
    BY <2>1 DEF Inv, Levels, HoldersRun
  <2>. QED  BY <2>1, <2>2 DEF Handed, Log!vars
<1>4. CASE Process
  <2>1. CASE ProcessEnd
    BY <1>1, <2>1 DEF ProcessEnd
  <2>2. CASE ProcessUnsubscribe
    BY <1>1, <2>2 DEF ProcessUnsubscribe
  <2>. QED  BY <1>4, <2>1, <2>2, PublishMapped, FetchMapped, SubscribeMapped DEF Process
<1>5. CASE Resume
  BY <1>1, <1>2, <1>3, <1>5 DEF Resume
<1>6. CASE TimeoutFetch \/ TimeoutTooLate
  BY <1>1, <1>6 DEF TimeoutFetch, TimeoutTooLate
<1>7. CASE UNCHANGED vars
  BY <1>1, <1>7 DEF vars
<1>. QED  BY <1>1, <1>2, <1>4, <1>5, <1>6, <1>7 DEF Next, Loop

\* A subscriber gets every message from where it began, once and in order,
\* whatever the interleaving of publishers, fetches and timers, in a program that reads
\* what a fetch returned before it yields again.
THEOREM PubSubIsLog ==
  ASSUME "compact" \notin Kinds, "keep" \notin Kinds
  PROVE  Spec => ImplementsLog
<1>1. Init => Log!Init
  <2>. SUFFICES ASSUME Init PROVE Log!Init
    OBVIOUS
  <2>1. [c \in Coro |-> Handed(c)] = [c \in Coro |-> <<>>]
    BY DEF Init, Handed
  <2>. QED  BY <2>1 DEF Init, Log!Init
<1>2. Spec => []Inv
  BY InvCorrect
<1>3. Inv /\ [Next]_vars => [Log!Next]_(Log!vars)
  BY NextMapped DEF Careful
<1>. QED  BY <1>1, <1>2, <1>3, PTL DEF Spec, ImplementsLog, Log!Spec
=============================================================================
