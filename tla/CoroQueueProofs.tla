-------------------------- MODULE CoroQueueProofs --------------------------
(***************************************************************************)
(* Theorems about CoroQueue, for any number of coroutines, any maxsize,    *)
(* any timeouts and priorities.                                            *)
(***************************************************************************)
EXTENDS CoroQueue, LoopProofs, SequenceTheorems

\* The operations the model makes are operations.
LEMMA PlainOps ==
  /\ NoOp \in OpType /\ TimeoutExc \in OpType /\ ErrorExc \in OpType
  /\ \A c \in Coro : CoroOp(c) \in OpType
<1>1. NoOp \in OpType
  BY DEF NoOp, OpType, RawOpType, AllKinds, IsGet, IsPut
<1>2. TimeoutExc \in OpType
  BY DEF NoOp, TimeoutExc, OpType, RawOpType, AllKinds, IsGet, IsPut
<1>3. ErrorExc \in OpType
  BY DEF NoOp, ErrorExc, OpType, RawOpType, AllKinds, IsGet, IsPut
<1>4. ASSUME NEW c \in Coro
      PROVE  CoroOp(c) \in OpType
  BY DEF CoroOp, OpType, RawOpType, AllKinds, IsGet, IsPut
<1>. QED  BY <1>1, <1>2, <1>3, <1>4

\* The default timeout leaves a get a get and a put a put.
LEMMA WithDefaultType ==
  ASSUME NEW op \in OpType, clock \in Nat
  PROVE  /\ WithDefault(op) \in OpType
         /\ IsGet(op) => WithDefault(op) \in GetType
         /\ IsPut(op) => WithDefault(op) \in PutType
BY DelayAssumption DEF WithDefault, OpType, RawOpType, GetType, PutType, IsGet, IsPut

\* The heap holds timed gets and puts, whatever is pushed, retired or removed.
LEMMA HeapType ==
  ASSUME timeouts \subseteq TimerType
  PROVE  /\ \A op \in GetType \cup PutType : Pushed(op) \subseteq TimerType
         /\ \A op, h : h \subseteq TimerType => Retired(h, op) \subseteq TimerType
         /\ \A op : \A h \in Finalized(op) : h \subseteq TimerType
<1>1. ASSUME NEW op \in GetType \cup PutType
      PROVE  Pushed(op) \subseteq TimerType
  <2>1. [op |-> op, live |-> TRUE] \in TimerType
    BY DEF TimerType
  <2>. QED  BY <2>1 DEF Pushed
<1>2. ASSUME NEW op, NEW h, h \subseteq TimerType
      PROVE  Retired(h, op) \subseteq TimerType
  BY <1>2 DEF Retired, TimerType
<1>3. ASSUME NEW op, NEW h \in Finalized(op)
      PROVE  h \subseteq TimerType
  <2>1. CASE op.at = 0 \/ op.k = "sleep"
    BY <2>1, <1>3 DEF Finalized
  <2>2. CASE ~(op.at = 0 \/ op.k = "sleep")
    <3>1. PICK e \in timeouts : h = Retired(timeouts \ {e}, op)
      BY <2>2, <1>3 DEF Finalized
    <3>. QED  BY <3>1, <1>2
  <2>. QED  BY <2>1, <2>2
<1>. QED  BY <1>1, <1>2, <1>3

\* Sequences of tasks: what is queued in front, behind, or reversed.
LEMMA ReverseType ==
  ASSUME NEW S, NEW s \in Seq(S)
  PROVE  Reverse(s) \in Seq(S)
BY DEF Reverse

\* One operation taken out of a deque leaves a deque, one shorter.
LEMMA RemoveAtType ==
  ASSUME NEW S, NEW s \in Seq(S), NEW i \in DOMAIN s
  PROVE  /\ RemoveAt(s, i) \in Seq(S)
         /\ Len(RemoveAt(s, i)) = Len(s) - 1
BY DEF RemoveAt

\* process_op leaves a well-formed deque and a pair to run, or none.
LEMMA ContinueType ==
  ASSUME NEW a \in Seq(TaskType), NEW p \in TaskType \cup {NoPair}, Continue(a, p)
  PROVE  /\ active' \in Seq(TaskType)
         /\ cur' \in TaskType \cup {NoPair}
         /\ phase' \in {"pick", "run", "process", "timers", "done", "dead"}
         /\ phase' \in {"run", "process"} => cur' \in TaskType
BY DEF Continue

\* The running coroutine comes back with an operation.
LEMMA ComebackType ==
  ASSUME LoopTypeOK, NEW op \in OpType, NEW st \in {"running", "completed", "failed"},
         Comeback(op, st), opn' \in [Coro -> Nat]
  PROVE  LoopTypeOK'
<1>1. cur \in TaskType /\ cur.coro \in Coro
  BY DEF LoopTypeOK, Comeback, TaskType
<1>2. timeouts' \subseteq TimerType
  BY HeapType DEF LoopTypeOK, Comeback
<1>3. state' \in [Coro -> {"absent", "need_init", "running", "completed",
                           "failed", "finalized"}]
  BY <1>1 DEF LoopTypeOK, Comeback, StateAfterFinalize
<1>4. cur' \in TaskType
  BY <1>1 DEF Comeback, TaskType, Pair
<1>5. pend' \in [Coro -> OpType]
  BY <1>1 DEF Comeback, LoopTypeOK
<1>. QED  BY <1>2, <1>3, <1>4, <1>5 DEF LoopTypeOK, Comeback

\* An operation the running coroutine creates with arguments of the right type.
LEMMA OpTyping ==
  ASSUME NEW c \in Coro, opn \in [Coro -> Nat], NEW pr \in 0..3, NEW at \in Nat
  PROVE  /\ \A k \in {"get", "get_nowait", "done", "join"} : Op(k, c, None, at, pr, 0) \in OpType
         /\ \A k \in {"put", "put_nowait"}, item \in Item : Op(k, c, item, at, pr, 0) \in OpType
BY DEF Op, OpType, RawOpType, AllKinds, IsGet, IsPut

\* A deadline is an instant.
LEMMA DeadlinesType == clock \in Nat => Deadlines \subseteq Nat
BY DelayAssumption DEF Deadlines, Deadline

\* The running coroutine yields an operation it has created.
LEMMA YieldOpType ==
  ASSUME LoopTypeOK, NEW op \in OpType, YieldOp(op)
  PROVE  LoopTypeOK'
<1>1. cur.coro \in Coro
  BY DEF LoopTypeOK, YieldOp, Comeback, TaskType
<1>2. opn' \in [Coro -> Nat]
  BY <1>1 DEF LoopTypeOK, YieldOp
<1>. QED  BY <1>2, ComebackType DEF YieldOp

\* The running coroutine yields None.
LEMMA YieldNoneType ==
  ASSUME LoopTypeOK, YieldNone
  PROVE  LoopTypeOK'
<1>1. opn' \in [Coro -> Nat]
  BY DEF LoopTypeOK, YieldNone
<1>. QED  BY <1>1, PlainOps, ComebackType DEF YieldNone
-----------------------------------------------------------------------------
(***************************************************************************)
(* Type correctness, one lemma for each part of the next-state relation.   *)
(***************************************************************************)
\* run() starts with the coroutines that were added, and an empty queue.
LEMMA InitType == Init => TypeOK
<1>. SUFFICES ASSUME Init PROVE TypeOK
  OBVIOUS
<1>1. active \in Seq(TaskType)
  <2>1. Started \in Seq(Coro)
    BY StartedAssumption
  <2>2. \A i \in 1 .. Len(Started) : Pair(NoOp, Started[i]) \in TaskType
    BY <2>1, PlainOps DEF TaskType, Pair
  <2>3. DOMAIN Started = 1 .. Len(Started) /\ Len(Started) \in Nat
    BY <2>1
  <2>. QED  BY <2>2, <2>3 DEF Init, LoopInit
<1>2. pend \in [Coro -> OpType]
  BY PlainOps DEF Init, LoopInit
<1>. QED  BY <1>1, <1>2 DEF Init, LoopInit, TypeOK, LoopTypeOK, QueueTypeOK

\* The steps of the main loop that no operation takes part in.
LEMMA LoopStepType ==
  ASSUME LoopTypeOK, LoopStep
  PROVE  LoopTypeOK'
<1>1. CASE Pick
  BY <1>1 DEF Pick, LoopTypeOK
<1>2. CASE IdleTurn \/ Leave \/ EndTimers
  BY <1>2 DEF IdleTurn, Leave, EndTimers, LoopTypeOK
<1>3. CASE RunDeadCoro
  BY <1>3 DEF RunDeadCoro, LoopTypeOK
<1>4. CASE Start
  <2>1. cur \in TaskType /\ cur.coro \in Coro
    BY <1>4 DEF Start, LoopTypeOK, TaskType
  <2>. QED  BY <1>4, <2>1 DEF Start, LoopTypeOK
<1>5. CASE FinalizeRaises
  <2>1. cur \in TaskType /\ cur.coro \in Coro
    BY <1>5 DEF FinalizeRaises, LoopTypeOK, TaskType
  <2>2. cur' \in TaskType
    BY <1>5, <2>1, PlainOps DEF FinalizeRaises, TaskType, Pair
  <2>3. pend' \in [Coro -> OpType]
    BY <1>5, <2>1, PlainOps DEF FinalizeRaises, LoopTypeOK
  <2>4. state' \in [Coro -> {"absent", "need_init", "running", "completed",
                             "failed", "finalized"}]
    BY <1>5, <2>1 DEF FinalizeRaises, LoopTypeOK
  <2>. QED  BY <1>5, <2>2, <2>3, <2>4 DEF FinalizeRaises, LoopTypeOK
<1>6. CASE ProcessNone
  <2>1. cur \in TaskType
    BY <1>6 DEF ProcessNone, LoopTypeOK
  <2>2. active \in Seq(TaskType) /\ Append(active, cur) \in Seq(TaskType)
    BY <2>1 DEF LoopTypeOK
  <2>3. PICK a \in Seq(TaskType), p \in TaskType \cup {NoPair} : Continue(a, p)
    BY <1>6, <2>1, <2>2 DEF ProcessNone
  <2>4. /\ active' \in Seq(TaskType)
        /\ cur' \in TaskType \cup {NoPair}
        /\ phase' \in {"pick", "run", "process", "timers", "done", "dead"}
        /\ phase' \in {"run", "process"} => cur' \in TaskType
    BY <2>3, ContinueType
  <2>. QED  BY <1>6, <2>4 DEF ProcessNone, LoopTypeOK
<1>7. CASE DropStale
  BY <1>7 DEF DropStale, LoopTypeOK
<1>. QED  BY <1>1, <1>2, <1>3, <1>4, <1>5, <1>6, <1>7 DEF LoopStep

\* What a coroutine does when it is resumed.
LEMMA ResumeType ==
  ASSUME TypeOK, Resume
  PROVE  TypeOK'
<1>. USE DEF TypeOK
<1>1. CASE phase = "run" /\ Return /\ UNCHANGED queueVars
  <2>1. cur.coro \in Coro
    BY <1>1 DEF LoopTypeOK, TaskType
  <2>2. LoopTypeOK'
    <3>1. opn' \in [Coro -> Nat]
      BY <1>1 DEF Return, LoopTypeOK
    <3>. QED  BY <1>1, <2>1, <3>1, PlainOps, ComebackType DEF Return
  <2>. QED  BY <1>1, <2>2 DEF QueueTypeOK, queueVars
<1>2. CASE Fail
  <2>1. cur.coro \in Coro /\ Raise /\ UNCHANGED queueVars
    BY <1>2 DEF Fail, LoopTypeOK, TaskType, Does
  <2>2. LoopTypeOK'
    <3>1. opn' \in [Coro -> Nat]
      BY <2>1 DEF Raise, LoopTypeOK
    <3>. QED  BY <2>1, <3>1, PlainOps, ComebackType DEF Raise
  <2>. QED  BY <2>1, <2>2 DEF QueueTypeOK, queueVars
<1>3. CASE Rest
  BY <1>3, YieldNoneType DEF Rest, QueueTypeOK, queueVars
<1>4. CASE YieldGet
  <2>1. PICK k \in {"get", "get_nowait"}, at \in Deadlines, pr \in Prios :
          Does(k) /\ YieldOp(Op(k, cur.coro, None, at, pr, 0)) /\ UNCHANGED queueVars
    BY <1>4 DEF YieldGet
  <2>2. cur.coro \in Coro /\ at \in Nat /\ pr \in 0..3
    BY <2>1, DeadlinesType, PrioAssumption DEF LoopTypeOK, TaskType, Does
  <2>3. Op(k, cur.coro, None, at, pr, 0) \in OpType
    BY <2>1, <2>2, OpTyping DEF LoopTypeOK
  <2>. QED  BY <2>1, <2>3, YieldOpType DEF QueueTypeOK, queueVars
<1>5. CASE YieldPut
  <2>1. PICK k \in {"put", "put_nowait"}, at \in Deadlines, pr \in Prios :
          /\ Does(k)
          /\ YieldOp(Op(k, cur.coro, <<cur.coro, opn[cur.coro] + 1>>, at, pr, 0))
          /\ UNCHANGED queueVars
    BY <1>5 DEF YieldPut
  <2>2. cur.coro \in Coro /\ at \in Nat /\ pr \in 0..3
    BY <2>1, DeadlinesType, PrioAssumption DEF LoopTypeOK, TaskType, Does
  <2>3. <<cur.coro, opn[cur.coro] + 1>> \in Item
    BY <2>1, <2>2, BoundAssumption DEF Item, YieldOp, LoopTypeOK
  <2>4. Op(k, cur.coro, <<cur.coro, opn[cur.coro] + 1>>, at, pr, 0) \in OpType
    BY <2>1, <2>2, <2>3, OpTyping DEF LoopTypeOK
  <2>. QED  BY <2>1, <2>4, YieldOpType DEF QueueTypeOK, queueVars
<1>6. CASE YieldTaskDone
  <2>1. PICK pr \in Prios :
          /\ Does("task_done") /\ unfinished > 0
          /\ IF unfinished = 1 THEN YieldOp(Op("done", cur.coro, None, 0, pr, 0))
                               ELSE YieldNone
          /\ unfinished' = unfinished - 1
          /\ done' = done + 1
          /\ UNCHANGED <<queue, waiting_gets, waiting_puts, joinees, got>>
    BY <1>6 DEF YieldTaskDone
  <2>2. cur.coro \in Coro /\ pr \in 0..3
    BY <2>1, PrioAssumption DEF LoopTypeOK, TaskType, Does
  <2>3. Op("done", cur.coro, None, 0, pr, 0) \in OpType
    BY <2>2, OpTyping DEF LoopTypeOK
  <2>4. LoopTypeOK'
    BY <2>1, <2>3, YieldOpType, YieldNoneType
  <2>. QED  BY <2>1, <2>4 DEF QueueTypeOK
<1>7. CASE YieldQJoin
  <2>1. cur.coro \in Coro
    BY <1>7 DEF YieldQJoin, LoopTypeOK, TaskType, Does
  <2>2. Op("join", cur.coro, None, 0, 0, 0) \in OpType
    BY <2>1, OpTyping DEF LoopTypeOK
  <2>. QED  BY <1>7, <2>2, YieldOpType DEF YieldQJoin, QueueTypeOK, queueVars
<1>. QED  BY <1>1, <1>2, <1>3, <1>4, <1>5, <1>6, <1>7 DEF Resume

\* process_op leaves the loop well formed if it leaves well-formed tasks and timers.
LEMMA HandOverType ==
  ASSUME LoopTypeOK, NEW a \in Seq(TaskType), NEW p \in TaskType \cup {NoPair},
         Continue(a, p), timeouts' \subseteq TimerType,
         UNCHANGED <<running, clock, state, opn, pend>>
  PROVE  LoopTypeOK'
BY ContinueType DEF LoopTypeOK

\* The pairs that are queued for a get, for a put and for an exception.
LEMMA PairTypes ==
  /\ \A op \in GetType, item \in Item : With(op, item) \in TaskType
  /\ \A op \in GetType \cup PutType : Waiter(op) \in TaskType /\ op.c \in Coro
  /\ \A op \in OpType, c \in Coro : Pair(op, c) \in TaskType
<1>1. ASSUME NEW op \in OpType, NEW c \in Coro
      PROVE  Pair(op, c) \in TaskType
  BY DEF Pair, TaskType
<1>2. ASSUME NEW op \in GetType \cup PutType
      PROVE  op \in OpType /\ op.c \in Coro
  BY DEF GetType, PutType, OpType
<1>3. ASSUME NEW op \in GetType, NEW item \in Item
      PROVE  [op EXCEPT !.arg = item] \in OpType
  BY DEF GetType, OpType, RawOpType, IsGet, IsPut
<1>. QED  BY <1>1, <1>2, <1>3 DEF With, Waiter

\* A pair put in front of the deque, or behind it.
LEMMA DequeType ==
  ASSUME active \in Seq(TaskType), NEW p \in TaskType
  PROVE  ToFront(p) \in Seq(TaskType) /\ ToBack(p) \in Seq(TaskType)
BY DEF ToFront, ToBack

\* QGet.process.
LEMMA ProcessGetType ==
  ASSUME TypeOK, ProcessGet
  PROVE  TypeOK'
<1>. DEFINE op == WithDefault(cur.op)
<1>. USE DEF TypeOK
<1>1. cur \in TaskType /\ cur.op \in OpType /\ cur.coro \in Coro /\ IsGet(cur.op)
  BY DEF ProcessGet, Processing, LoopTypeOK, TaskType
<1>2. op \in GetType
  BY <1>1, WithDefaultType DEF LoopTypeOK
<1>3. Pushed(op) \subseteq TimerType /\ Retired(Pushed(op), cur.op) \subseteq TimerType
  BY <1>2, HeapType DEF LoopTypeOK
<1>4. UNCHANGED <<running, clock, state, opn, pend>>
  BY DEF ProcessGet, Processing
<1>5. active \in Seq(TaskType) /\ NoPair \in TaskType \cup {NoPair}
  BY DEF LoopTypeOK
<1>. HIDE DEF op
<1>6. CASE GetNothing(op)
  <2>1. CASE Blocking(op)
    <3>1. LoopTypeOK'
      BY <1>6, <2>1, <1>3, <1>4, <1>5, HandOverType DEF GetNothing
    <3>2. /\ waiting_gets' = Append(waiting_gets, op)
          /\ UNCHANGED <<queue, waiting_puts, unfinished, joinees, got, done>>
      BY <1>6, <2>1 DEF GetNothing
    <3>3. waiting_gets' \in Seq(GetType)
      BY <3>2, <1>2 DEF QueueTypeOK
    <3>. QED  BY <3>1, <3>2, <3>3 DEF QueueTypeOK
  <2>2. CASE ~Blocking(op)
    <3>1. Pair(ErrorExc, cur.coro) \in TaskType
      BY <1>1, PlainOps, PairTypes
    <3>2. LoopTypeOK'
      BY <1>6, <2>2, <3>1, <1>3, <1>4, <1>5, HandOverType DEF GetNothing, Throw
    <3>. QED  BY <1>6, <2>2, <3>2 DEF GetNothing, QueueTypeOK
  <2>. QED  BY <2>1, <2>2
<1>7. CASE GetItem(op)
  <2>1. Head(queue) \in Item /\ Tail(queue) \in Seq(Item)
    BY <1>7 DEF GetItem, Empty, QueueTypeOK
  <2>2. With(op, Head(queue)) \in TaskType
    BY <2>1, <1>2, PairTypes
  <2>3. LoopTypeOK'
    BY <1>7, <2>2, <1>3, <1>4, <1>5, HandOverType DEF GetItem
  <2>. QED  BY <1>7, <2>1, <2>3 DEF GetItem, QueueTypeOK
<1>8. CASE GetAndRefill(op)
  <2>. DEFINE me == With(op, Head(queue))
              put == Head(waiting_puts)
  <2>1. Head(queue) \in Item /\ Tail(queue) \in Seq(Item)
    BY <1>8 DEF GetAndRefill, Empty, QueueTypeOK
  <2>2. put \in PutType /\ Tail(waiting_puts) \in Seq(PutType)
    BY <1>8 DEF GetAndRefill, QueueTypeOK
  <2>3. me \in TaskType /\ Waiter(put) \in TaskType /\ put.arg \in Item
    BY <2>1, <2>2, <1>2, PairTypes DEF PutType, OpType
  <2>4. /\ ToFront(me) \in Seq(TaskType) /\ ToBack(me) \in Seq(TaskType)
        /\ ToFront(Waiter(put)) \in Seq(TaskType) /\ ToBack(Waiter(put)) \in Seq(TaskType)
    BY <2>3, DequeType DEF LoopTypeOK
  <2>. HIDE DEF me
  <2>5. PICK a \in Seq(TaskType), p \in TaskType : Continue(a, p)
    BY <1>8, <2>3, <2>4 DEF GetAndRefill, me
  <2>6. LoopTypeOK'
    BY <1>8, <2>5, <1>3, <1>4, HandOverType DEF GetAndRefill
  <2>. QED  BY <1>8, <2>1, <2>2, <2>3, <2>6 DEF GetAndRefill, QueueTypeOK
<1>. QED  BY <1>6, <1>7, <1>8 DEF ProcessGet, op

\* QPut.process.
LEMMA ProcessPutType ==
  ASSUME TypeOK, ProcessPut
  PROVE  TypeOK'
<1>. DEFINE op == WithDefault(cur.op)
<1>. USE DEF TypeOK
<1>1. cur \in TaskType /\ cur.op \in OpType /\ cur.coro \in Coro /\ IsPut(cur.op)
  BY DEF ProcessPut, Processing, LoopTypeOK, TaskType
<1>2. op \in PutType /\ op.arg \in Item
  BY <1>1, WithDefaultType DEF LoopTypeOK, PutType, OpType
<1>3. Pushed(op) \subseteq TimerType /\ Retired(Pushed(op), cur.op) \subseteq TimerType
  BY <1>2, HeapType DEF LoopTypeOK
<1>4. UNCHANGED <<running, clock, state, opn, pend>>
  BY DEF ProcessPut, Processing
<1>5. active \in Seq(TaskType) /\ NoPair \in TaskType \cup {NoPair}
  BY DEF LoopTypeOK
<1>6. Waiter(op) \in TaskType
  BY <1>2, PairTypes
<1>. HIDE DEF op
<1>7. CASE PutNoRoom(op)
  <2>1. CASE Blocking(op)
    <3>1. LoopTypeOK'
      BY <1>7, <2>1, <1>3, <1>4, <1>5, HandOverType DEF PutNoRoom
    <3>2. /\ waiting_puts' = Append(waiting_puts, op) /\ unfinished' = unfinished + 1
          /\ UNCHANGED <<queue, waiting_gets, joinees, got, done>>
      BY <1>7, <2>1 DEF PutNoRoom
    <3>3. waiting_puts' \in Seq(PutType)
      BY <3>2, <1>2 DEF QueueTypeOK
    <3>. QED  BY <3>1, <3>2, <3>3 DEF QueueTypeOK
  <2>2. CASE ~Blocking(op)
    <3>1. Pair(ErrorExc, cur.coro) \in TaskType
      BY <1>1, PlainOps, PairTypes
    <3>2. LoopTypeOK'
      BY <1>7, <2>2, <3>1, <1>3, <1>4, <1>5, HandOverType DEF PutNoRoom, Throw
    <3>. QED  BY <1>7, <2>2, <3>2 DEF PutNoRoom, QueueTypeOK
  <2>. QED  BY <2>1, <2>2
<1>8. CASE PutItem(op)
  <2>1. LoopTypeOK'
    BY <1>8, <1>3, <1>4, <1>5, <1>6, HandOverType DEF PutItem
  <2>. QED  BY <1>8, <1>2, <2>1 DEF PutItem, QueueTypeOK
<1>9. CASE PutToGetter(op)
  <2>. DEFINE get == Head(waiting_gets)
              getter == With(get, op.arg)
              me == Waiter(op)
  <2>1. get \in GetType /\ Tail(waiting_gets) \in Seq(GetType)
    BY <1>9 DEF PutToGetter, QueueTypeOK
  <2>2. getter \in TaskType
    BY <2>1, <1>2, PairTypes
  <2>3. /\ ToFront(me) \in Seq(TaskType) /\ ToBack(me) \in Seq(TaskType)
        /\ ToFront(getter) \in Seq(TaskType) /\ ToBack(getter) \in Seq(TaskType)
    BY <1>6, <2>2, DequeType DEF LoopTypeOK
  <2>. HIDE DEF getter
  <2>4. PICK a \in Seq(TaskType), p \in TaskType : Continue(a, p)
    BY <1>9, <1>6, <2>2, <2>3 DEF PutToGetter, getter
  <2>5. LoopTypeOK'
    BY <1>9, <2>4, <1>3, <1>4, HandOverType DEF PutToGetter
  <2>. QED  BY <1>9, <1>2, <2>1, <2>5 DEF PutToGetter, QueueTypeOK
<1>. QED  BY <1>7, <1>8, <1>9 DEF ProcessPut, op

\* The process method of every operation.
LEMMA ProcessType ==
  ASSUME TypeOK, Process
  PROVE  TypeOK'
<1>. USE DEF TypeOK
<1>1. UNCHANGED <<running, clock, state, opn, pend>> /\ cur \in TaskType
  BY DEF Process, ProcessEnd, ProcessGet, ProcessPut, ProcessDone, ProcessQJoin,
         Processing, LoopTypeOK
<1>2. active \in Seq(TaskType) /\ timeouts \subseteq TimerType /\ joinees \in Seq(TaskType)
  BY DEF LoopTypeOK, QueueTypeOK
<1>3. CASE ProcessEnd
  <2>1. LoopTypeOK'
    BY <1>1, <1>2, <1>3, HandOverType DEF ProcessEnd
  <2>. QED  BY <1>3, <2>1 DEF ProcessEnd, QueueTypeOK, queueVars
<1>4. CASE ProcessDone
  <2>1. Reverse(joinees) \in Seq(TaskType)
    BY <1>2, ReverseType
  <2>2. Reverse(joinees) \o active \in Seq(TaskType) /\ active \o joinees \in Seq(TaskType)
    BY <1>2, <2>1
  <2>3. PICK a \in Seq(TaskType) : Continue(a, cur)
    BY <1>4, <2>2 DEF ProcessDone
  <2>4. LoopTypeOK'
    BY <1>1, <1>2, <1>4, <2>3, HandOverType DEF ProcessDone
  <2>. QED  BY <1>4, <2>4 DEF ProcessDone, QueueTypeOK, queueVars
<1>5. CASE ProcessQJoin
  <2>1. PICK p \in TaskType \cup {NoPair} : Continue(active, p)
    BY <1>1, <1>5 DEF ProcessQJoin
  <2>2. LoopTypeOK'
    BY <1>1, <1>2, <1>5, <2>1, HandOverType DEF ProcessQJoin
  <2>3. joinees' \in Seq(TaskType)
    BY <1>1, <1>2, <1>5 DEF ProcessQJoin
  <2>. QED  BY <1>5, <2>2, <2>3 DEF ProcessQJoin, QueueTypeOK
<1>. QED  BY <1>3, <1>4, <1>5, ProcessGetType, ProcessPutType DEF Process

\* Expired operations, taken out of what they waited in.
LEMMA HandleTimeoutType ==
  ASSUME TypeOK, HandleTimeout
  PROVE  TypeOK'
<1>. USE DEF TypeOK
<1>1. ASSUME NEW e \in timeouts, Expire(e)
      PROVE  LoopTypeOK' /\ UNCHANGED <<queue, unfinished, joinees, got, done>>
  <2>1. e.op.c \in Coro
    BY PairTypes DEF LoopTypeOK, TimerType
  <2>2. active' \in Seq(TaskType)
    BY <1>1, <2>1, PlainOps, PairTypes, DequeType DEF Expire, LoopTypeOK
  <2>. QED  BY <1>1, <2>2 DEF Expire, LoopTypeOK
<1>2. CASE TimeoutGet
  <2>1. PICK e \in timeouts :
          /\ \E i \in Removable(waiting_gets, e.op) : waiting_gets' = RemoveAt(waiting_gets, i)
          /\ Expire(e)
          /\ UNCHANGED waiting_puts
    BY <1>2 DEF TimeoutGet
  <2>2. waiting_gets' \in Seq(GetType)
    BY <2>1, RemoveAtType DEF Removable, QueueTypeOK
  <2>. QED  BY <1>1, <2>1, <2>2 DEF QueueTypeOK
<1>3. CASE TimeoutPut
  <2>1. PICK e \in timeouts :
          /\ \E i \in Removable(waiting_puts, e.op) : waiting_puts' = RemoveAt(waiting_puts, i)
          /\ Expire(e)
          /\ UNCHANGED waiting_gets
    BY <1>3 DEF TimeoutPut
  <2>2. waiting_puts' \in Seq(PutType)
    BY <2>1, RemoveAtType DEF Removable, QueueTypeOK
  <2>. QED  BY <1>1, <2>1, <2>2 DEF QueueTypeOK
<1>4. CASE TimeoutTooLate
  BY <1>4 DEF TimeoutTooLate, LoopTypeOK, QueueTypeOK, queueVars
<1>5. CASE CleanupRaises
  BY <1>5 DEF CleanupRaises, LoopTypeOK, QueueTypeOK, queueVars
<1>. QED  BY <1>2, <1>3, <1>4, <1>5 DEF HandleTimeout

\* No step of the program leaves the types.
LEMMA NextType == TypeOK /\ [Next]_vars => TypeOK'
<1>. SUFFICES ASSUME TypeOK, [Next]_vars PROVE TypeOK'
  OBVIOUS
<1>1. CASE LoopStep /\ UNCHANGED queueVars
  BY <1>1, LoopStepType DEF TypeOK, QueueTypeOK, queueVars
<1>2. CASE Tick /\ UNCHANGED queueVars
  BY <1>2 DEF Tick, TypeOK, LoopTypeOK, QueueTypeOK, queueVars
<1>3. CASE UNCHANGED vars
  BY <1>3 DEF TypeOK, LoopTypeOK, QueueTypeOK, vars, loopVars, queueVars
<1>4. CASE Over /\ UNCHANGED queueVars
  BY <1>3, <1>4 DEF Over, vars
<1>. QED
  BY <1>1, <1>2, <1>3, <1>4, ResumeType, ProcessType, HandleTimeoutType DEF Next, Loop

\* The state of the loop and of the queue is well formed, whatever coroutines
\* there are and whatever they yield: what queue.py hands over, queues or lets
\* wait is an operation with its coroutine.
THEOREM TypeCorrect == Spec => []TypeOK
BY InitType, NextType, PTL DEF Spec
-----------------------------------------------------------------------------
(***************************************************************************)
(* The handover discipline: with types, the three properties below are     *)
(* inductive together and not one by one.  QGet.process lets a getter wait *)
(* on an empty queue without a look at waiting_puts (it needs              *)
(* FullWhilePutsWait), QPut.process stores an item without a look at it    *)
(* (it needs WithinCapacity), and takes a full queue for one that no get   *)
(* waits at (it needs EmptyWhileGetsWait).                                 *)
(***************************************************************************)
Discipline == EmptyWhileGetsWait /\ FullWhilePutsWait /\ WithinCapacity

Inv == TypeOK /\ Discipline

\* An empty queue, on which nobody waits, keeps the discipline.
LEMMA InitDiscipline == Init => Discipline
BY SizeAssumption DEF Init, Discipline, EmptyWhileGetsWait, FullWhilePutsWait, WithinCapacity

\* An operation taken out of a deque leaves nothing that was not there.
LEMMA RemoveAtEmpty ==
  ASSUME NEW S, NEW s \in Seq(S), NEW i \in DOMAIN s, RemoveAt(s, i) # <<>>
  PROVE  s # <<>>
OBVIOUS

\* QGet.process keeps the discipline: an item taken makes room for one put.
LEMMA ProcessGetDiscipline ==
  ASSUME Inv, ProcessGet
  PROVE  Discipline'
<1>. DEFINE op == WithDefault(cur.op)
<1>. USE SizeAssumption DEF Inv, TypeOK, QueueTypeOK, Discipline
<1>. HIDE DEF op
<1>1. CASE GetNothing(op)
  <2>1. queue = <<>> /\ waiting_puts = <<>>
    BY <1>1 DEF GetNothing, Empty, FullWhilePutsWait
  <2>. QED  BY <1>1, <2>1 DEF GetNothing, EmptyWhileGetsWait, FullWhilePutsWait, WithinCapacity
<1>2. CASE GetItem(op)
  <2>1. waiting_gets = <<>> /\ waiting_puts = <<>>
    BY <1>2 DEF GetItem, Empty, EmptyWhileGetsWait
  <2>2. Len(queue') = Len(queue) - 1
    BY <1>2 DEF GetItem, Empty
  <2>. QED  BY <1>2, <2>1, <2>2 DEF GetItem, EmptyWhileGetsWait, FullWhilePutsWait, WithinCapacity
<1>3. CASE GetAndRefill(op)
  <2>1. waiting_gets = <<>> /\ MaxSize > 0 /\ Len(queue) = MaxSize
    BY <1>3 DEF GetAndRefill, EmptyWhileGetsWait, FullWhilePutsWait
  <2>2. Len(queue') = Len(queue)
    BY <1>3, Head(waiting_puts).arg \in Item DEF GetAndRefill, Empty, PutType, OpType
  <2>. QED
    BY <1>3, <2>1, <2>2 DEF GetAndRefill, EmptyWhileGetsWait, FullWhilePutsWait, WithinCapacity
<1>. QED  BY <1>1, <1>2, <1>3 DEF ProcessGet, op

\* QPut.process keeps the discipline: it stores an item only where there is room.
LEMMA ProcessPutDiscipline ==
  ASSUME Inv, ProcessPut
  PROVE  Discipline'
<1>. DEFINE op == WithDefault(cur.op)
<1>. USE SizeAssumption DEF Inv, TypeOK, QueueTypeOK, Discipline
<1>. HIDE DEF op
<1>1. CASE PutNoRoom(op)
  <2>1. waiting_gets = <<>> /\ MaxSize > 0 /\ Len(queue) = MaxSize
    BY <1>1 DEF PutNoRoom, Full, EmptyWhileGetsWait
  <2>. QED  BY <1>1, <2>1 DEF PutNoRoom, EmptyWhileGetsWait, FullWhilePutsWait, WithinCapacity
<1>2. CASE PutItem(op)
  <2>1. waiting_puts = <<>>
    BY <1>2 DEF PutItem, Full, FullWhilePutsWait
  <2>2. Len(queue') = Len(queue) + 1
    BY <1>2 DEF PutItem
  <2>. QED
    BY <1>2, <2>1, <2>2 DEF PutItem, Full, EmptyWhileGetsWait, FullWhilePutsWait, WithinCapacity
<1>3. CASE PutToGetter(op)
  <2>1. queue = <<>> /\ waiting_puts = <<>>
    BY <1>3 DEF PutToGetter, EmptyWhileGetsWait
  <2>. QED
    BY <1>3, <2>1 DEF PutToGetter, EmptyWhileGetsWait, FullWhilePutsWait, WithinCapacity
<1>. QED  BY <1>1, <1>2, <1>3 DEF ProcessPut, op

\* A cleanup takes an operation out of its deque and leaves the queue alone.
LEMMA HandleTimeoutDiscipline ==
  ASSUME Inv, HandleTimeout
  PROVE  Discipline'
<1>. USE DEF Inv, TypeOK, QueueTypeOK, Discipline
<1>1. CASE TimeoutGet
  <2>1. UNCHANGED <<queue, waiting_puts>> /\ (waiting_gets' # <<>> => waiting_gets # <<>>)
    BY <1>1 DEF TimeoutGet, Expire, Removable
  <2>. QED  BY <2>1 DEF EmptyWhileGetsWait, FullWhilePutsWait, WithinCapacity
<1>2. CASE TimeoutPut
  <2>1. UNCHANGED <<queue, waiting_gets>> /\ waiting_puts # <<>>
    BY <1>2 DEF TimeoutPut, Expire, Removable
  <2>. QED  BY <2>1 DEF EmptyWhileGetsWait, FullWhilePutsWait, WithinCapacity
<1>3. CASE TimeoutTooLate \/ CleanupRaises
  BY <1>3 DEF TimeoutTooLate, CleanupRaises, queueVars,
              EmptyWhileGetsWait, FullWhilePutsWait, WithinCapacity
<1>. QED  BY <1>1, <1>2, <1>3 DEF HandleTimeout

\* No step of the program breaks the discipline.
LEMMA NextDiscipline == Inv /\ [Next]_vars => Discipline'
<1>. SUFFICES ASSUME Inv, [Next]_vars PROVE Discipline'
  OBVIOUS
<1>1. CASE UNCHANGED <<queue, waiting_gets, waiting_puts>>
  BY <1>1 DEF Inv, Discipline, EmptyWhileGetsWait, FullWhilePutsWait, WithinCapacity
<1>2. CASE Resume
  BY <1>1, <1>2 DEF Resume, Rest, Fail, YieldGet, YieldPut, YieldTaskDone, YieldQJoin, queueVars
<1>3. CASE Process
  BY <1>1, <1>3, ProcessGetDiscipline, ProcessPutDiscipline
  DEF Process, ProcessEnd, ProcessDone, ProcessQJoin, queueVars
<1>. QED
  BY <1>1, <1>2, <1>3, HandleTimeoutDiscipline DEF Next, Loop, vars, queueVars

\* The inductive invariant holds in every state of every program.
THEOREM InvCorrect == Spec => []Inv
<1>1. Init => Inv
  BY InitType, InitDiscipline DEF Inv
<1>2. Inv /\ [Next]_vars => Inv'
  BY NextType, NextDiscipline DEF Inv
<1>. QED  BY <1>1, <1>2, PTL DEF Spec

\* No item lies in the queue beside a get that waits, and no put waits to add
\* to an empty queue: QGet and QPut never leave both sides waiting.
THEOREM GetsWaitOnlyWhileEmpty == Spec => []EmptyWhileGetsWait
<1>1. Inv => EmptyWhileGetsWait
  BY DEF Inv, Discipline
<1>. QED  BY <1>1, InvCorrect, PTL

\* A put waits only at a full queue, so the loop of QGet.process that moves
\* waiting puts into the queue makes one turn and does not run dry.
THEOREM PutsWaitOnlyWhileFull == Spec => []FullWhilePutsWait
<1>1. Inv => FullWhilePutsWait
  BY DEF Inv, Discipline
<1>. QED  BY <1>1, InvCorrect, PTL

\* maxsize is never exceeded, not even as a waiting put is let in.
THEOREM CapacityKept == Spec => []WithinCapacity
<1>1. Inv => WithinCapacity
  BY DEF Inv, Discipline
<1>. QED  BY <1>1, InvCorrect, PTL

(***************************************************************************)
(* CoroQueue implements BoundedFifo: the items of a queue are got in the   *)
(* order in which they were put.                                           *)
(***************************************************************************)
Args(W) == [i \in DOMAIN W |-> W[i].arg]
Pending == queue \o Args(waiting_puts)

\* What is left of a deque once its i-th element is taken out.
LEMMA RemoveAtElements ==
  ASSUME NEW S, NEW s \in Seq(S), NEW i \in DOMAIN s
  PROVE  \A j \in 1 .. Len(s) - 1 : RemoveAt(s, i)[j] = IF j < i THEN s[j] ELSE s[j + 1]
<1>. DEFINE before == SubSeq(s, 1, i - 1)
            after  == SubSeq(s, i + 1, Len(s))
<1>1. i \in 1 .. Len(s) /\ Len(s) \in Nat
  OBVIOUS
<1>2. /\ before \in Seq(S) /\ Len(before) = i - 1
      /\ \A j \in 1 .. i - 1 : before[j] = s[j]
  BY <1>1
<1>3. /\ after \in Seq(S) /\ Len(after) = Len(s) - i
      /\ \A j \in 1 .. Len(s) - i : after[j] = s[j + i]
  BY <1>1
<1>. HIDE DEF before, after
<1>4. \A j \in 1 .. Len(before) + Len(after) :
        (before \o after)[j] = IF j <= Len(before) THEN before[j] ELSE after[j - Len(before)]
  BY <1>2, <1>3, ConcatProperties
<1>5. \A j \in 1 .. Len(s) - 1 : (before \o after)[j] = IF j < i THEN s[j] ELSE s[j + 1]
  BY <1>1, <1>2, <1>3, <1>4
<1>. QED  BY <1>5 DEF RemoveAt, before, after

\* The items of the waiting puts, as the deque grows and shrinks.
LEMMA ArgsFacts ==
  ASSUME NEW W \in Seq(PutType)
  PROVE  /\ Args(W) \in Seq(Item) /\ Len(Args(W)) = Len(W)
         /\ \A op \in PutType : Args(Append(W, op)) = Append(Args(W), op.arg)
         /\ W # <<>> => /\ Head(Args(W)) = Head(W).arg
                        /\ Args(Tail(W)) = Tail(Args(W))
         /\ \A i \in DOMAIN W : Args(RemoveAt(W, i)) = RemoveAt(Args(W), i)
<1>1. \A op \in PutType : op.arg \in Item
  BY DEF PutType, OpType
<1>2. Args(W) \in Seq(Item) /\ Len(Args(W)) = Len(W)
  BY <1>1 DEF Args
<1>3. ASSUME NEW op \in PutType
      PROVE  Args(Append(W, op)) = Append(Args(W), op.arg)
  <2>1. Append(W, op) \in Seq(PutType)
    OBVIOUS
  <2>. QED  BY <1>1, <1>2, <2>1 DEF Args
<1>4. ASSUME W # <<>>
      PROVE  Head(Args(W)) = Head(W).arg /\ Args(Tail(W)) = Tail(Args(W))
  BY <1>2, <1>4 DEF Args
<1>5. ASSUME NEW i \in DOMAIN W
      PROVE  Args(RemoveAt(W, i)) = RemoveAt(Args(W), i)
  <2>1. RemoveAt(W, i) \in Seq(PutType) /\ Len(RemoveAt(W, i)) = Len(W) - 1
    BY RemoveAtType
  <2>2. Args(RemoveAt(W, i)) \in Seq(Item) /\ Len(Args(RemoveAt(W, i))) = Len(W) - 1
    BY <1>1, <2>1 DEF Args
  <2>3. i \in DOMAIN Args(W)
    BY DEF Args
  <2>4. RemoveAt(Args(W), i) \in Seq(Item) /\ Len(RemoveAt(Args(W), i)) = Len(W) - 1
    BY <1>2, <2>3, RemoveAtType
  <2>5. ASSUME NEW j \in 1 .. Len(W) - 1
        PROVE  Args(RemoveAt(W, i))[j] = RemoveAt(Args(W), i)[j]
    <3>1. Args(RemoveAt(W, i))[j] = RemoveAt(W, i)[j].arg
      BY <2>1 DEF Args
    <3>2. RemoveAt(W, i)[j] = IF j < i THEN W[j] ELSE W[j + 1]
      BY RemoveAtElements
    <3>3. RemoveAt(Args(W), i)[j] = IF j < i THEN Args(W)[j] ELSE Args(W)[j + 1]
      BY <1>2, <2>3, RemoveAtElements
    <3>. QED  BY <3>1, <3>2, <3>3 DEF Args
  <2>. QED  BY <2>2, <2>4, <2>5, SeqEqual
<1>. QED  BY <1>2, <1>3, <1>4, <1>5

\* Two sequences one after the other, as either of them changes.
LEMMA ConcatFacts ==
  ASSUME NEW S, NEW s \in Seq(S), NEW t \in Seq(S)
  PROVE  /\ s \o <<>> = s
         /\ \A x \in S : s \o Append(t, x) = Append(s \o t, x)
         /\ s # <<>> => Head(s \o t) = Head(s) /\ Tail(s \o t) = Tail(s) \o t
         /\ s # <<>> /\ t # <<>> => Append(Tail(s), Head(t)) \o Tail(t) = Tail(s \o t)
         /\ \A i \in DOMAIN t : /\ RemoveAt(s \o t, Len(s) + i) = s \o RemoveAt(t, i)
                                /\ Len(s) + i \in DOMAIN (s \o t)
<1>1. s \o <<>> = s
  OBVIOUS
<1>2. ASSUME NEW x \in S
      PROVE  s \o Append(t, x) = Append(s \o t, x)
  OBVIOUS
<1>3. ASSUME s # <<>>
      PROVE  Head(s \o t) = Head(s) /\ Tail(s \o t) = Tail(s) \o t
  BY <1>3
<1>4. ASSUME s # <<>>, t # <<>>
      PROVE  Append(Tail(s), Head(t)) \o Tail(t) = Tail(s \o t)
  BY <1>4
<1>5. ASSUME NEW i \in DOMAIN t
      PROVE  /\ RemoveAt(s \o t, Len(s) + i) = s \o RemoveAt(t, i)
             /\ Len(s) + i \in DOMAIN (s \o t)
  <2>. DEFINE u == s \o t
              k == Len(s) + i
  <2>1. u \in Seq(S) /\ Len(u) = Len(s) + Len(t) /\ k \in DOMAIN u
    OBVIOUS
  <2>2. \A j \in 1 .. Len(s) + Len(t) : u[j] = IF j <= Len(s) THEN s[j] ELSE t[j - Len(s)]
    BY ConcatProperties
  <2>. HIDE DEF u, k
  <2>3. RemoveAt(u, k) \in Seq(S) /\ Len(RemoveAt(u, k)) = Len(u) - 1
    BY <2>1, RemoveAtType
  <2>4. RemoveAt(t, i) \in Seq(S) /\ Len(RemoveAt(t, i)) = Len(t) - 1
    BY RemoveAtType
  <2>5. /\ s \o RemoveAt(t, i) \in Seq(S)
        /\ Len(s \o RemoveAt(t, i)) = Len(s) + Len(t) - 1
    BY <2>4, ConcatProperties
  <2>6. ASSUME NEW j \in 1 .. Len(s) + Len(t) - 1
        PROVE  RemoveAt(u, k)[j] = (s \o RemoveAt(t, i))[j]
    <3>1. RemoveAt(u, k)[j] = IF j < k THEN u[j] ELSE u[j + 1]
      <4>1. \A m \in 1 .. Len(u) - 1 : RemoveAt(u, k)[m] = IF m < k THEN u[m] ELSE u[m + 1]
        BY <2>1, RemoveAtElements
      <4>. QED  BY <4>1, <2>1
    <3>2. (s \o RemoveAt(t, i))[j]
            = IF j <= Len(s) THEN s[j] ELSE RemoveAt(t, i)[j - Len(s)]
      BY <2>4, ConcatProperties
    <3>3. j > Len(s) => RemoveAt(t, i)[j - Len(s)]
            = IF j - Len(s) < i THEN t[j - Len(s)] ELSE t[j - Len(s) + 1]
      BY RemoveAtElements
    <3>. QED  BY <2>1, <2>2, <3>1, <3>2, <3>3 DEF k
  <2>7. RemoveAt(u, k) = s \o RemoveAt(t, i)
    <3>. DEFINE v == s \o RemoveAt(t, i)
    <3>1. Len(RemoveAt(u, k)) = Len(v) /\ Len(v) = Len(s) + Len(t) - 1 /\ v \in Seq(S)
      BY <2>1, <2>3, <2>5
    <3>2. \A j \in 1 .. Len(s) + Len(t) - 1 : RemoveAt(u, k)[j] = v[j]
      BY <2>6
    <3>. HIDE DEF v
    <3>3. \A j \in 1 .. Len(RemoveAt(u, k)) : RemoveAt(u, k)[j] = v[j]
      BY <3>1, <3>2
    <3>4. RemoveAt(u, k) = v
      BY <2>3, <3>1, <3>3, SeqEqual
    <3>. QED  BY <3>4 DEF v
  <2>. QED  BY <2>1, <2>7 DEF u, k
<1>. QED  BY <1>1, <1>2, <1>3, <1>4, <1>5

-----------------------------------------------------------------------------
(***************************************************************************)
(* The refinement: Pending is queue followed by the items of waiting_puts. *)
(***************************************************************************)
LEMMA FifoInit == Init => Fifo!Init
<1>. SUFFICES ASSUME Init PROVE Pending = <<>> /\ got = <<>>
  BY DEF Fifo!Init, Pending, Args
<1>. QED  BY EmptySeq DEF Init, Pending, Args

\* An action that changes neither the items nor what was got.
LEMMA Stutter ==
  ASSUME UNCHANGED <<queue, waiting_puts, got>>
  PROVE  UNCHANGED Fifo!vars
BY DEF Fifo!vars

\* QGet.process gets the oldest item, or nothing happens to the items.
LEMMA GetStep ==
  ASSUME Inv, ProcessGet
  PROVE  Fifo!Get \/ UNCHANGED Fifo!vars
<1>. DEFINE op == WithDefault(cur.op)
<1>. USE DEF Inv, TypeOK, QueueTypeOK
<1>. HIDE DEF op
<1>1. CASE GetNothing(op)
  BY <1>1, Stutter DEF GetNothing
<1>2. Args(waiting_puts) \in Seq(Item)
  BY ArgsFacts
<1>3. SUFFICES ASSUME GetItem(op) \/ GetAndRefill(op)
               PROVE  Pending # <<>> /\ Pending' = Tail(Pending) /\ got' = Append(got, Head(Pending))
  BY <1>1 DEF ProcessGet, op, Fifo!Get, Pending, Args
<1>4. queue # <<>> /\ got' = Append(got, Head(queue))
  BY <1>3 DEF GetItem, GetAndRefill, Empty
<1>5. Pending # <<>> /\ Head(Pending) = Head(queue)
  BY <1>2, <1>4, ConcatFacts, ConcatEqualIffEmpty DEF Pending
<1>6. CASE GetItem(op)
  <2>1. queue' = Tail(queue) /\ UNCHANGED waiting_puts
    BY <1>6 DEF GetItem
  <2>2. Tail(Pending) = Tail(queue) \o Args(waiting_puts)
    BY <1>2, <1>4, ConcatFacts DEF Pending
  <2>. QED  BY <1>4, <1>5, <2>1, <2>2 DEF Pending, Args
<1>7. CASE GetAndRefill(op)
  <2>1. /\ waiting_puts # <<>> /\ waiting_puts' = Tail(waiting_puts)
        /\ queue' = Append(Tail(queue), Head(waiting_puts).arg)
    BY <1>7 DEF GetAndRefill
  <2>2. /\ Args(waiting_puts) # <<>> /\ Head(waiting_puts).arg = Head(Args(waiting_puts))
        /\ Args(Tail(waiting_puts)) = Tail(Args(waiting_puts))
    BY <2>1, ArgsFacts, EmptySeq
  <2>3. Args(waiting_puts)' = Args(Tail(waiting_puts))
    BY <2>1 DEF Args
  <2>4. Tail(Pending) = Append(Tail(queue), Head(Args(waiting_puts))) \o Tail(Args(waiting_puts))
    BY <1>2, <1>4, <2>2, ConcatFacts DEF Pending
  <2>. QED  BY <1>4, <1>5, <2>1, <2>2, <2>3, <2>4 DEF Pending
<1>. QED  BY <1>3, <1>6, <1>7

\* QPut.process puts its item behind the others, or passes it to a get.
LEMMA PutStep ==
  ASSUME Inv, ProcessPut
  PROVE  (\E x \in Item : Fifo!Put(x) \/ Fifo!Pass(x)) \/ UNCHANGED Fifo!vars
<1>. DEFINE op == WithDefault(cur.op)
<1>. USE DEF Inv, TypeOK, QueueTypeOK
<1>1. op \in PutType /\ op.arg \in Item
  <2>1. cur.op \in OpType /\ IsPut(cur.op) /\ clock \in Nat
    BY DEF ProcessPut, Processing, LoopTypeOK, TaskType
  <2>. QED  BY <2>1, WithDefaultType DEF PutType, OpType
<1>. HIDE DEF op
<1>2. Args(waiting_puts) \in Seq(Item)
  BY ArgsFacts
<1>3. SUFFICES (Pending' = Append(Pending, op.arg) /\ UNCHANGED got)
               \/ (Pending = <<>> /\ UNCHANGED Pending /\ got' = Append(got, op.arg))
               \/ UNCHANGED <<queue, waiting_puts, got>>
  BY <1>1, Stutter DEF Fifo!Put, Fifo!Pass, Pending, Args
<1>4. CASE PutNoRoom(op)
  <2>1. CASE Blocking(op)
    <3>1. waiting_puts' = Append(waiting_puts, op) /\ UNCHANGED <<queue, got>>
      BY <1>4, <2>1 DEF PutNoRoom
    <3>2. Args(waiting_puts)' = Append(Args(waiting_puts), op.arg)
      <4>1. Args(Append(waiting_puts, op)) = Append(Args(waiting_puts), op.arg)
        BY <1>1, ArgsFacts
      <4>. QED  BY <3>1, <4>1 DEF Args
    <3>. QED  BY <1>1, <1>2, <3>1, <3>2, ConcatFacts DEF Pending
  <2>2. CASE ~Blocking(op)
    BY <1>4, <2>2 DEF PutNoRoom
  <2>. QED  BY <2>1, <2>2
<1>5. CASE PutItem(op)
  <2>1. waiting_puts = <<>> /\ UNCHANGED <<waiting_puts, got>> /\ queue' = Append(queue, op.arg)
    BY <1>5 DEF PutItem, Full, Discipline, FullWhilePutsWait
  <2>2. Args(waiting_puts) = <<>> /\ Args(waiting_puts)' = <<>>
    BY <2>1 DEF Args
  <2>. QED  BY <1>1, <2>1, <2>2, ConcatFacts DEF Pending
<1>6. CASE PutToGetter(op)
  <2>1. queue = <<>> /\ waiting_puts = <<>> /\ UNCHANGED <<queue, waiting_puts>>
        /\ got' = Append(got, op.arg)
    BY <1>6 DEF PutToGetter, Discipline, EmptyWhileGetsWait
  <2>2. Args(waiting_puts) = <<>>
    BY <2>1 DEF Args
  <2>. QED  BY <2>1, <2>2 DEF Pending, Args
<1>. QED  BY <1>4, <1>5, <1>6 DEF ProcessPut, op

\* QPut.cleanup withdraws an item for which there was no room.
LEMMA TimeoutStep ==
  ASSUME Inv, HandleTimeout
  PROVE  (\E i \in DOMAIN Pending : Fifo!Withdraw(i)) \/ UNCHANGED Fifo!vars
<1>. USE DEF Inv, TypeOK, QueueTypeOK
<1>1. CASE TimeoutPut
  <2>1. PICK i \in DOMAIN waiting_puts : /\ waiting_puts' = RemoveAt(waiting_puts, i)
                                         /\ UNCHANGED <<queue, got>>
    BY <1>1 DEF TimeoutPut, Expire, Removable
  <2>2. MaxSize > 0 /\ Len(queue) = MaxSize
    BY <2>1 DEF Discipline, FullWhilePutsWait
  <2>3. /\ Args(waiting_puts) \in Seq(Item) /\ i \in DOMAIN Args(waiting_puts)
        /\ Args(RemoveAt(waiting_puts, i)) = RemoveAt(Args(waiting_puts), i)
    BY ArgsFacts DEF Args
  <2>4. /\ RemoveAt(Pending, MaxSize + i) = queue \o RemoveAt(Args(waiting_puts), i)
        /\ MaxSize + i \in DOMAIN Pending
    <3>. DEFINE W == Args(waiting_puts)
    <3>. HIDE DEF W
    <3>1. \A j \in DOMAIN W : /\ RemoveAt(queue \o W, Len(queue) + j) = queue \o RemoveAt(W, j)
                             /\ Len(queue) + j \in DOMAIN (queue \o W)
      BY <2>3, ConcatFacts DEF W
    <3>. QED  BY <2>2, <2>3, <3>1 DEF Pending, W
  <2>5. Pending' = RemoveAt(Pending, MaxSize + i)
    BY <2>1, <2>3, <2>4 DEF Pending, Args
  <2>6. MaxSize + i \in MaxSize + 1 .. Len(Pending)
    BY <2>3, <2>4, SizeAssumption DEF Pending
  <2>. QED  BY <2>1, <2>2, <2>4, <2>5, <2>6 DEF Fifo!Withdraw, Fifo!RemoveAt, RemoveAt, Pending, Args
<1>2. CASE TimeoutGet \/ TimeoutTooLate \/ CleanupRaises
  BY <1>2, Stutter DEF TimeoutGet, Expire, TimeoutTooLate, CleanupRaises, queueVars
<1>. QED  BY <1>1, <1>2 DEF HandleTimeout

\* Every step of the program is a step of the FIFO, or none.
LEMMA FifoNext == Inv /\ [Next]_vars => [Fifo!Next]_Fifo!vars
<1>. SUFFICES ASSUME Inv, [Next]_vars PROVE Fifo!Next \/ UNCHANGED Fifo!vars
  OBVIOUS
<1>1. CASE UNCHANGED <<queue, waiting_puts, got>>
  BY <1>1, Stutter
<1>2. CASE Resume
  BY <1>1, <1>2 DEF Resume, Rest, Fail, YieldGet, YieldPut, YieldTaskDone, YieldQJoin, queueVars
<1>3. CASE ProcessGet
  BY <1>3, GetStep DEF Fifo!Next
<1>4. CASE ProcessPut
  BY <1>4, PutStep DEF Fifo!Next
<1>5. CASE ProcessEnd \/ ProcessDone \/ ProcessQJoin
  BY <1>1, <1>5 DEF ProcessEnd, ProcessDone, ProcessQJoin, queueVars
<1>6. CASE HandleTimeout
  BY <1>6, TimeoutStep DEF Fifo!Next, Pending, Args
<1>. QED
  BY <1>1, <1>2, <1>3, <1>4, <1>5, <1>6 DEF Next, Loop, Process, vars, queueVars

\* queue.py implements a bounded FIFO: with any number of coroutines that get
\* and put, with and without a timeout or a priority, items come out in the
\* order in which their puts were processed, each of them once, and none that
\* has found room in the queue is withdrawn.
THEOREM QueueIsFifo == Spec => ImplementsFifo
BY InvCorrect, FifoInit, FifoNext, PTL DEF Spec, ImplementsFifo, Fifo!Spec
-----------------------------------------------------------------------------
(***************************************************************************)
(* Who waits in CoroQueue and who resumes whom.  Some theorems have a      *)
(* hypothesis about the program, which they state: a QDone queues the      *)
(* coroutines that have joined again and again, and two operations with    *)
(* one deadline are taken for each other.                                  *)
(***************************************************************************)

(***************************************************************************)
(* The inner loop has a pair while it runs one, and processes what the     *)
(* coroutine of the pair has just yielded; it has ended if that is itself. *)
(***************************************************************************)
Flow ==
  /\ phase \in {"pick", "timers", "done"} => cur = NoPair
  /\ phase = "process" =>
       /\ SameOp(cur.op, pend[cur.coro])
       /\ cur.op # NoOp => cur.op.c = cur.coro
       /\ Alive(cur.coro) <=> cur.op.k # "coro"
  /\ \A c \in Coro : state[c] = "need_init" => pend[c] = NoOp

\* The queue and the coroutines start in order.
LEMMA InitFlow == Init => Flow
BY DEF Init, LoopInit, Flow

\* A coroutine comes back with an operation of its own, or with none.
LEMMA ComebackFlow ==
  ASSUME LoopTypeOK, Flow, NEW op, NEW st \in {"running", "completed", "failed"},
         Comeback(op, st), op # NoOp => op.c = cur.coro, st = "running" <=> op.k # "coro"
  PROVE  /\ Flow' /\ cur' = Pair(op, cur.coro) /\ cur.coro \in Coro /\ Living' \subseteq Living
         /\ cur'.coro = cur.coro
<1>1. cur.coro \in Coro /\ cur' = Pair(op, cur.coro)
  BY DEF Comeback, LoopTypeOK, TaskType
<1>2. /\ cur'.op = op /\ cur'.coro = cur.coro /\ phase' = "process"
      /\ pend' = [pend EXCEPT ![cur.coro] = op] /\ pend'[cur.coro] = op
      /\ state'[cur.coro] = st
      /\ \A c \in Coro : state'[c] \in {"need_init", "running"} => state[c] = state'[c] \/ c = cur.coro
    BY <1>1 DEF Comeback, Pair, LoopTypeOK, StateAfterFinalize
<1>3. \A c \in Coro : state'[c] = "need_init" => pend'[c] = NoOp
  BY <1>1, <1>2 DEF Flow, LoopTypeOK
<1>4. Living' \subseteq Living
  BY <1>1, <1>2 DEF Living, Alive, Comeback
<1>5. Flow'
  BY <1>1, <1>2, <1>3 DEF Flow, SameOp, Alive
<1>. QED  BY <1>1, <1>2, <1>4, <1>5

\* process_op leaves a pair to run, or none.
LEMMA ContinueFlow ==
  ASSUME LoopTypeOK, Flow, NEW a, NEW p \in TaskType \cup {NoPair},
         Continue(a, p), UNCHANGED <<state, pend>>
  PROVE  Flow'
BY DEF Flow, Continue

\* What every operation is that a coroutine creates.
LEMMA OwnOps ==
  /\ \A k, arg, at, pr, recipients :
       /\ Op(k, cur.coro, arg, at, pr, recipients).k = k
       /\ Op(k, cur.coro, arg, at, pr, recipients).c = cur.coro
       /\ Op(k, cur.coro, arg, at, pr, recipients).n = opn[cur.coro] + 1
       /\ Op(k, cur.coro, arg, at, pr, recipients).at = at
       /\ Op(k, cur.coro, arg, at, pr, recipients).arg = arg
  /\ CoroOp(cur.coro).k = "coro" /\ CoroOp(cur.coro).c = cur.coro /\ CoroOp(cur.coro).at = 0
  /\ NoOp.k = "none" /\ NoOp.at = 0
BY DEF Op, CoroOp, NoOp

\* The running coroutine comes back with op, which it has just created, or ends.
ComesBack(op, st) ==
  /\ Comeback(op, st)
  /\ op # NoOp => op.c = cur.coro
  /\ st = "running" <=> op.k # "coro"
  /\ op.at # 0 => op.at \in Deadlines /\ (IsGet(op) \/ IsPut(op))
  /\ op.k = "join" => "join" \in Kinds /\ op.n > opn[cur.coro]
  /\ op.k = "done" \/ unfinished' = unfinished \/ unfinished' > 0

\* A coroutine that is resumed comes back, and leaves the queue but for its counts.
LEMMA ResumeCases ==
  ASSUME TypeOK, Resume
  PROVE  /\ phase = "run" /\ cur.coro \in Coro
         /\ \E op \in OpType, st \in {"running", "completed", "failed"} : ComesBack(op, st)
         /\ \A c \in Coro : opn'[c] >= opn[c]
         /\ unfinished' + done' = unfinished + done
         /\ UNCHANGED <<active, clock, queue, waiting_gets, waiting_puts, joinees, got>>
<1>. USE DEF TypeOK
<1>1. /\ phase = "run" /\ cur \in TaskType /\ cur.coro \in Coro
      /\ opn \in [Coro -> Nat] /\ clock \in Nat /\ unfinished \in Nat /\ done \in Nat
  BY DEF Resume, Rest, Fail, YieldGet, YieldPut, YieldTaskDone, YieldQJoin, Does,
         LoopTypeOK, TaskType, QueueTypeOK
<1>2. ASSUME NEW op, NEW st, Comeback(op, st)
      PROVE  UNCHANGED <<active, clock>>
  BY <1>2 DEF Comeback
<1>3. ASSUME opn' \in {opn, [opn EXCEPT ![cur.coro] = @ + 1]}
      PROVE  \A c \in Coro : opn'[c] >= opn[c]
  BY <1>1, <1>3
<1>4. ASSUME NEW op \in OpType, YieldOp(op), op.c = cur.coro, op.k # "coro",
             op.at # 0 => op.at \in Deadlines /\ (IsGet(op) \/ IsPut(op)),
             op.k = "join" => "join" \in Kinds /\ op.n = opn[cur.coro] + 1,
             op.k = "done" \/ unfinished' = unfinished \/ unfinished' > 0
      PROVE  /\ ComesBack(op, "running")
             /\ \A c \in Coro : opn'[c] >= opn[c]
             /\ UNCHANGED <<active, clock>>
  <2>1. Comeback(op, "running") /\ opn' \in {opn, [opn EXCEPT ![cur.coro] = @ + 1]}
    BY <1>4 DEF YieldOp
  <2>2. op.k = "join" => op.n > opn[cur.coro]
    BY <1>1, <1>4
  <2>3. ComesBack(op, "running")
    BY <1>4, <2>1, <2>2 DEF ComesBack
  <2>. QED  BY <1>2, <1>3, <2>1, <2>3
<1>5. ASSUME YieldNone, unfinished' = unfinished \/ unfinished' > 0
      PROVE  ComesBack(NoOp, "running") /\ (\A c \in Coro : opn'[c] >= opn[c]) /\ UNCHANGED <<active, clock>>
  <2>1. Comeback(NoOp, "running") /\ opn' = opn
    BY <1>5 DEF YieldNone
  <2>2. ComesBack(NoOp, "running")
    BY <2>1, <1>5, OwnOps DEF ComesBack
  <2>. QED  BY <1>2, <1>3, <2>1, <2>2
<1>. DEFINE Back == /\ \E op \in OpType, st \in {"running", "completed", "failed"} : ComesBack(op, st)
                    /\ \A c \in Coro : opn'[c] >= opn[c]
                    /\ UNCHANGED <<active, clock>>
<1>6. CASE phase = "run" /\ (Return \/ Raise) /\ UNCHANGED queueVars
  <2>1. PICK st \in {"completed", "failed"} : Comeback(CoroOp(cur.coro), st)
    BY <1>6 DEF Return, Raise
  <2>2. opn' = opn /\ unfinished' = unfinished
    BY <1>6 DEF Return, Raise, queueVars
  <2>3. ComesBack(CoroOp(cur.coro), st)
    BY <2>1, <2>2, OwnOps DEF ComesBack
  <2>4. Back
    BY <1>1, <1>2, <1>3, <2>1, <2>2, <2>3, PlainOps
  <2>. QED  BY <2>4, <1>1, <1>6 DEF queueVars
<1>7. CASE Rest
  BY <1>1, <1>5, <1>7, PlainOps DEF Rest, queueVars
<1>8. CASE YieldGet
  <2>1. PICK k \in {"get", "get_nowait"}, at \in Deadlines, pr \in Prios :
          YieldOp(Op(k, cur.coro, None, at, pr, 0)) /\ UNCHANGED queueVars
    BY <1>8 DEF YieldGet
  <2>. DEFINE op == Op(k, cur.coro, None, at, pr, 0)
  <2>2. op \in OpType
    BY <1>1, OpTyping, DeadlinesType, PrioAssumption
  <2>3. op.c = cur.coro /\ op.k = k /\ op.at \in Deadlines /\ IsGet(op)
    BY OwnOps DEF IsGet
  <2>. HIDE DEF op
  <2>4. Back
    BY <1>4, <2>1, <2>2, <2>3 DEF queueVars, op
  <2>. QED  BY <2>1, <2>4, <1>1 DEF queueVars
<1>9. CASE YieldPut
  <2>1. PICK k \in {"put", "put_nowait"}, at \in Deadlines, pr \in Prios :
          /\ YieldOp(Op(k, cur.coro, <<cur.coro, opn[cur.coro] + 1>>, at, pr, 0))
          /\ UNCHANGED queueVars
    BY <1>9 DEF YieldPut
  <2>. DEFINE op == Op(k, cur.coro, <<cur.coro, opn[cur.coro] + 1>>, at, pr, 0)
  <2>2. <<cur.coro, opn[cur.coro] + 1>> \in Item
    BY <1>1, <2>1, BoundAssumption DEF Item, YieldOp
  <2>3. op \in OpType
    BY <1>1, <2>2, OpTyping, DeadlinesType, PrioAssumption
  <2>4. op.c = cur.coro /\ op.k = k /\ op.at \in Deadlines /\ IsPut(op)
    BY OwnOps DEF IsPut
  <2>. HIDE DEF op
  <2>5. Back
    BY <1>4, <2>1, <2>3, <2>4 DEF queueVars, op
  <2>. QED  BY <2>1, <2>5, <1>1 DEF queueVars
<1>10. CASE YieldTaskDone
  <2>1. PICK pr \in Prios :
          /\ unfinished > 0
          /\ IF unfinished = 1 THEN YieldOp(Op("done", cur.coro, None, 0, pr, 0))
                               ELSE YieldNone
          /\ unfinished' = unfinished - 1
          /\ done' = done + 1
          /\ UNCHANGED <<queue, waiting_gets, waiting_puts, joinees, got>>
    BY <1>10 DEF YieldTaskDone
  <2>2. unfinished' + done' = unfinished + done
    BY <1>1, <2>1
  <2>. DEFINE op == Op("done", cur.coro, None, 0, pr, 0)
  <2>3. op \in OpType /\ op.c = cur.coro /\ op.k = "done" /\ op.at = 0
    BY <1>1, OpTyping, PrioAssumption, OwnOps
  <2>. HIDE DEF op
  <2>4. CASE unfinished = 1
    <3>1. Back
      BY <1>4, <2>1, <2>3, <2>4 DEF op
    <3>. QED  BY <2>1, <2>2, <3>1, <1>1
  <2>5. CASE unfinished # 1
    <3>1. unfinished' > 0
      BY <1>1, <2>1, <2>5
    <3>2. Back
      BY <1>5, <2>1, <2>5, <3>1, PlainOps
    <3>. QED  BY <2>1, <2>2, <3>2, <1>1
  <2>. QED  BY <2>4, <2>5
<1>11. CASE YieldQJoin
  <2>1. "join" \in Kinds /\ YieldOp(Op("join", cur.coro, None, 0, 0, 0)) /\ UNCHANGED queueVars
    BY <1>11 DEF YieldQJoin, Does
  <2>. DEFINE op == Op("join", cur.coro, None, 0, 0, 0)
  <2>2. op \in OpType /\ op.c = cur.coro /\ op.k = "join" /\ op.at = 0 /\ op.n = opn[cur.coro] + 1
    BY <1>1, OpTyping, OwnOps
  <2>. HIDE DEF op
  <2>3. Back
    BY <1>4, <2>1, <2>2 DEF queueVars, op
  <2>. QED  BY <2>1, <2>3, <1>1 DEF queueVars
<1>. QED  BY <1>6, <1>7, <1>8, <1>9, <1>10, <1>11 DEF Resume, Fail, Does

\* What process_op does with the pair of the inner loop: it hands on p, and a.
ProcessesTo(a, p) ==
  /\ phase = "process" /\ Continue(a, p)
  /\ UNCHANGED <<running, clock, state, opn, pend, done>>

\* The process method of an operation hands on a pair, or none.
LEMMA ProcessCases ==
  ASSUME TypeOK, Process
  PROVE  \E a \in Seq(TaskType), p \in TaskType \cup {NoPair} : ProcessesTo(a, p)
<1>. SUFFICES ASSUME TRUE PROVE \E a, p : ProcessesTo(a, p) /\ a = active' /\ p = cur'
  BY ProcessType DEF TypeOK, LoopTypeOK
<1>1. ProcessesTo(active', cur')
  BY DEF Process, ProcessEnd, ProcessGet, ProcessPut, ProcessDone, ProcessQJoin, Processing,
         GetNothing, GetItem, GetAndRefill, PutNoRoom, PutItem, PutToGetter, Throw,
         Continue, queueVars, ProcessesTo
<1>. QED  BY <1>1

\* The inner loop is what Flow says in every state.
LEMMA NextFlow == TypeOK /\ Flow /\ [Next]_vars => Flow'
<1>. SUFFICES ASSUME TypeOK, Flow, [Next]_vars PROVE Flow'
  OBVIOUS
<1>. USE DEF TypeOK
<1>1. CASE Resume
  <2>1. PICK op \in OpType, st \in {"running", "completed", "failed"} : ComesBack(op, st)
    BY <1>1, ResumeCases
  <2>. QED  BY <2>1, ComebackFlow DEF ComesBack
<1>2. CASE Process
  BY <1>2, ProcessCases DEF ProcessesTo, Continue, Flow
<1>3. CASE HandleTimeout
  BY <1>3 DEF HandleTimeout, TimeoutGet, TimeoutPut, TimeoutTooLate, CleanupRaises, Expire, Due,
              Flow, Alive
<1>4. CASE LoopStep
  <2>1. CASE Pick \/ IdleTurn \/ Leave \/ RunDeadCoro \/ DropStale \/ EndTimers
    BY <2>1 DEF Pick, IdleTurn, Leave, RunDeadCoro, DropStale, EndTimers, Flow
  <2>2. CASE Start
    <3>1. cur.coro \in Coro /\ cur' = cur
      BY <2>2 DEF Start, LoopTypeOK, TaskType
    <3>. QED  BY <2>2, <3>1, OwnOps DEF Start, Flow, LoopTypeOK, SameOp, Alive
  <2>3. CASE FinalizeRaises
    <3>1. cur.coro \in Coro /\ cur'.coro = cur.coro /\ cur'.op = CoroOp(cur.coro)
      BY <2>3 DEF FinalizeRaises, LoopTypeOK, TaskType, Pair
    <3>. QED  BY <2>3, <3>1, OwnOps DEF FinalizeRaises, Flow, LoopTypeOK, SameOp, Alive
  <2>4. CASE ProcessNone
    BY <2>4 DEF ProcessNone, Continue, Flow
  <2>. QED  BY <1>4, <2>1, <2>2, <2>3, <2>4 DEF LoopStep
<1>5. CASE Tick \/ Over \/ UNCHANGED vars
  BY <1>5 DEF Tick, Over, vars, loopVars, Flow, Alive
<1>. QED  BY <1>1, <1>2, <1>3, <1>4, <1>5 DEF Next, Loop
-----------------------------------------------------------------------------
(***************************************************************************)
(* Who joined.  The coroutine of a join waits until QDone queues it, which *)
(* it does as the count reaches zero; a stale pair may have resumed it     *)
(* before, and then the operation it yielded last is another one.          *)
(***************************************************************************)
JoinsKnown == \A i \in DOMAIN joinees : joinees[i].op.k = "join"

Joins == JoinsKnown /\ JoinReleased

\* A step that schedules who was scheduled, and changes no count but upwards.
LEMMA JoinsStay ==
  ASSUME TypeOK, Joins, UNCHANGED joinees,
         \A c \in Coro : Alive(c)' => Alive(c) /\ (c # cur.coro => pend'[c] = pend[c]),
         \A c \in Coro : Scheduled(c) => Scheduled(c)' \/ ~Alive(c)' \/ pend'[c].k # "join",
         cur.coro \in Coro => Scheduled(cur.coro)' \/ pend'[cur.coro] = pend[cur.coro],
         \/ unfinished > 0 => unfinished' > 0
         \/ phase' = "process" /\ cur'.op.k = "done",
         \/ ~(phase = "process" /\ cur.op.k = "done")
         \/ \A i \in DOMAIN joinees : Scheduled(joinees[i].coro)'
  PROVE  Joins'
<1>1. JoinsKnown'
  BY DEF Joins, JoinsKnown
<1>2. ASSUME NEW i \in DOMAIN joinees, NEW c, c = joinees[i].coro,
             Alive(c)', SameOp(pend[c], joinees[i].op)', ~Scheduled(c)'
      PROVE  unfinished' > 0 \/ (phase' = "process" /\ cur'.op.k = "done")
  <2>1. joinees[i] \in TaskType
    BY DEF TypeOK, QueueTypeOK
  <2>2. c \in Coro
    BY <1>2, <2>1 DEF TaskType
  <2>3. pend'[c].k = "join"
    BY <1>2 DEF Joins, JoinsKnown, SameOp
  <2>4. ~Scheduled(c) /\ c # cur.coro
    BY <1>2, <2>2, <2>3 DEF Scheduled
  <2>5. Alive(c) /\ pend'[c] = pend[c]
    BY <1>2, <2>2, <2>4
  <2>6. SameOp(pend[c], joinees[i].op)
    BY <1>2, <2>5 DEF SameOp
  <2>7. unfinished > 0 \/ (phase = "process" /\ cur.op.k = "done")
    BY <1>2, <2>4, <2>5, <2>6 DEF Joins, JoinReleased
  <2>. QED  BY <1>2, <2>7
<1>3. JoinReleased'
  BY <1>2 DEF JoinReleased
<1>. QED  BY <1>1, <1>3 DEF Joins

\* The operation that is processed waits from now on, or its coroutine goes on.
LEMMA ProcessSchedules ==
  ASSUME TypeOK, Flow, Process
  PROVE  /\ \A c \in Coro : Scheduled(c) => Scheduled(c)' \/ (c = cur.coro /\ (Alive(c) => cur.op.k \in {"get", "put", "join"}))
         /\ unfinished' >= unfinished
         /\ cur.op.k # "join" => UNCHANGED joinees
         /\ cur.op.k = "done" => \A i \in DOMAIN joinees : Scheduled(joinees[i].coro)'
<1>. USE DEF TypeOK
<1>. DEFINE op == WithDefault(cur.op)
            Keeps(a) == Coros(active) \subseteq Coros(a)
            Goes == \A c \in Coro : Scheduled(c) => Scheduled(c)' \/ (c = cur.coro /\ (Alive(c) => cur.op.k \in {"get", "put", "join"}))
<1>1. /\ phase = "process" /\ cur \in TaskType /\ active \in Seq(TaskType)
      /\ joinees \in Seq(TaskType) /\ unfinished \in Nat
  BY ProcessCases DEF ProcessesTo, LoopTypeOK, QueueTypeOK
<1>2. /\ op.k = cur.op.k /\ op.c = cur.op.c /\ op \in OpType
      /\ cur.op # NoOp => cur.op.c = cur.coro
      /\ Alive(cur.coro) <=> cur.op.k # "coro"
  BY <1>1, WithDefaultType DEF WithDefault, Flow, LoopTypeOK, TaskType, OpType, RawOpType
<1>3. ASSUME NEW a, NEW p, Continue(a, p), Keeps(a),
             cur.coro \in Coros(a) \cup {p.coro} \/ cur.op.k \in {"coro", "get", "put", "join"}
      PROVE  Goes
  BY <1>2, <1>3 DEF Continue, Scheduled, Coros
<1>4. \A p \in TaskType : /\ Coros(ToBack(p)) = Coros(active) \cup {p.coro}
                          /\ Coros(ToFront(p)) = Coros(active) \cup {p.coro}
  <2>1. ASSUME NEW p \in TaskType
        PROVE  /\ Coros(Append(active, p)) = Coros(active) \cup {p.coro}
               /\ Coros(<<p>> \o active) = Coros(active) \cup {p.coro}
    BY <1>1, AppendCoros, ConsCoros
  <2>. QED  BY <2>1 DEF ToBack, ToFront
<1>. HIDE DEF op
<1>5. CASE ProcessEnd
  BY <1>1, <1>2, <1>3, <1>5 DEF ProcessEnd, Processing, CoroOp, queueVars
<1>6. CASE ProcessGet
  <2>1. cur.op.k \in {"get", "get_nowait"} /\ op.c = cur.coro /\ cur.op # NoOp
    BY <1>2, <1>6 DEF ProcessGet, IsGet, NoOp
  <2>2. CASE GetNothing(op)
    <3>1. CASE Blocking(op)
      <4>1. cur.op.k = "get" /\ Continue(active, NoPair)
        BY <1>2, <2>1, <2>2, <3>1 DEF Blocking, GetNothing
      <4>2. Goes
        BY <1>3, <4>1
      <4>. QED  BY <1>1, <2>1, <2>2, <4>2 DEF GetNothing
    <3>2. CASE ~Blocking(op)
      <4>1. Continue(active, Pair(ErrorExc, cur.coro))
        BY <2>2, <3>2 DEF GetNothing, Throw
      <4>2. Goes
        BY <1>3, <4>1 DEF Pair
      <4>. QED  BY <1>1, <2>1, <2>2, <4>2 DEF GetNothing
    <3>. QED  BY <3>1, <3>2
  <2>3. CASE GetItem(op)
    <3>1. Continue(active, With(op, Head(queue))) /\ With(op, Head(queue)).coro = cur.coro
      BY <2>1, <2>3 DEF GetItem, With, Pair
    <3>2. Goes
      BY <1>3, <3>1
    <3>. QED  BY <1>1, <2>1, <2>3, <3>2 DEF GetItem
  <2>4. CASE GetAndRefill(op)
    <3>. DEFINE me == With(op, Head(queue))
                put == Waiter(Head(waiting_puts))
    <3>1. me \in TaskType /\ put \in TaskType /\ me.coro = cur.coro
      <4>1. Head(queue) \in Item /\ Head(waiting_puts) \in PutType
        BY <2>4 DEF GetAndRefill, Empty, QueueTypeOK
      <4>2. op \in GetType
        BY <1>2, <2>1 DEF GetType, IsGet
      <4>. QED  BY <2>1, <4>1, <4>2, PairTypes DEF With, Pair
    <3>2. \/ Continue(ToFront(me), put) \/ Continue(ToBack(me), put)
          \/ Continue(ToFront(put), me) \/ Continue(ToBack(put), me)
      BY <2>4 DEF GetAndRefill
    <3>. HIDE DEF me, put
    <3>3. Goes
      BY <1>3, <1>4, <3>1, <3>2
    <3>. QED  BY <1>1, <2>1, <2>4, <3>3 DEF GetAndRefill
  <2>. QED  BY <1>6, <2>2, <2>3, <2>4 DEF ProcessGet, op
<1>7. CASE ProcessPut
  <2>1. cur.op.k \in {"put", "put_nowait"} /\ op.c = cur.coro /\ cur.op # NoOp
    BY <1>2, <1>7 DEF ProcessPut, IsPut, NoOp
  <2>2. CASE PutNoRoom(op)
    <3>1. CASE Blocking(op)
      <4>1. cur.op.k = "put" /\ Continue(active, NoPair) /\ unfinished' = unfinished + 1
        BY <1>2, <2>1, <2>2, <3>1 DEF Blocking, PutNoRoom
      <4>2. Goes
        BY <1>3, <4>1
      <4>. QED  BY <1>1, <2>1, <2>2, <4>1, <4>2 DEF PutNoRoom
    <3>2. CASE ~Blocking(op)
      <4>1. Continue(active, Pair(ErrorExc, cur.coro)) /\ unfinished' = unfinished
        BY <2>2, <3>2 DEF PutNoRoom, Throw
      <4>2. Goes
        BY <1>3, <4>1 DEF Pair
      <4>. QED  BY <1>1, <2>1, <2>2, <4>1, <4>2 DEF PutNoRoom
    <3>. QED  BY <3>1, <3>2
  <2>3. CASE PutItem(op)
    <3>1. Continue(active, Waiter(op)) /\ Waiter(op).coro = cur.coro
      BY <2>1, <2>3 DEF PutItem, Waiter, Pair
    <3>2. Goes
      BY <1>3, <3>1
    <3>. QED  BY <1>1, <2>1, <2>3, <3>2 DEF PutItem
  <2>4. CASE PutToGetter(op)
    <3>. DEFINE me == Waiter(op)
                getter == With(Head(waiting_gets), op.arg)
    <3>1. me \in TaskType /\ getter \in TaskType /\ me.coro = cur.coro
      <4>1. Head(waiting_gets) \in GetType
        BY <2>4 DEF PutToGetter, QueueTypeOK
      <4>2. op \in PutType /\ op.arg \in Item
        BY <1>2, <2>1 DEF PutType, OpType, IsPut
      <4>. QED  BY <2>1, <4>1, <4>2, PairTypes DEF Waiter, Pair
    <3>2. \/ Continue(ToFront(me), getter) \/ Continue(ToBack(me), getter)
          \/ Continue(ToFront(getter), me) \/ Continue(ToBack(getter), me)
      BY <2>4 DEF PutToGetter
    <3>. HIDE DEF me, getter
    <3>3. Goes
      BY <1>3, <1>4, <3>1, <3>2
    <3>. QED  BY <1>1, <2>1, <2>4, <3>3 DEF PutToGetter
  <2>. QED  BY <1>7, <2>2, <2>3, <2>4 DEF ProcessPut, op
<1>8. CASE ProcessDone
  <2>. DEFINE a == active'
  <2>1. Continue(a, cur) /\ cur.op.k = "done" /\ UNCHANGED <<unfinished, joinees>>
    BY <1>8 DEF ProcessDone, Continue, queueVars
  <2>2. Coros(a) = Coros(active) \cup Coros(joinees)
    <3>1. a = Reverse(joinees) \o active \/ a = active \o joinees
      BY <1>8 DEF ProcessDone, Continue
    <3>2. Reverse(joinees) \in Seq(TaskType) /\ Coros(Reverse(joinees)) = Coros(joinees)
      BY <1>1, ReverseCoros
    <3>3. /\ Coros(Reverse(joinees) \o active) = Coros(Reverse(joinees)) \cup Coros(active)
          /\ Coros(active \o joinees) = Coros(active) \cup Coros(joinees)
      BY <1>1, <3>2, ConcatCoros
    <3>. HIDE DEF a
    <3>. QED  BY <3>1, <3>2, <3>3
  <2>3. Goes
    BY <1>3, <2>1, <2>2
  <2>4. \A i \in DOMAIN joinees : joinees[i].coro \in Coros(a)
    BY <2>2 DEF Coros
  <2>5. \A i \in DOMAIN joinees : Scheduled(joinees[i].coro)'
    BY <2>1, <2>4 DEF Scheduled, Coros
  <2>. QED  BY <1>1, <2>1, <2>3, <2>5
<1>9. CASE ProcessQJoin
  <2>1. cur.op.k = "join" /\ UNCHANGED unfinished /\ \E p : Continue(active, p)
    BY <1>9 DEF ProcessQJoin
  <2>2. Goes
    BY <1>3, <2>1
  <2>. QED  BY <1>1, <2>1, <2>2
<1>. QED  BY <1>5, <1>6, <1>7, <1>8, <1>9 DEF Process

\* A coroutine that joined waits for a task, or for the QDone that is processed.
LEMMA NextJoins == TypeOK /\ Flow /\ Joins /\ [Next]_vars => Joins'
<1>. SUFFICES ASSUME TypeOK, Flow, Joins, [Next]_vars PROVE Joins'
  OBVIOUS
<1>. USE DEF TypeOK
<1>1. unfinished \in Nat /\ joinees \in Seq(TaskType)
  BY DEF QueueTypeOK
<1>2. CASE Resume
  <2>1. PICK op \in OpType, st \in {"running", "completed", "failed"} : ComesBack(op, st)
    BY <1>2, ResumeCases
  <2>2. /\ phase = "run" /\ cur.coro \in Coro /\ UNCHANGED <<active, joinees>>
        /\ Living' \subseteq Living /\ cur'.coro = cur.coro
    BY <1>2, <2>1, ResumeCases, ComebackFlow DEF ComesBack
  <2>3. \A c \in Coro : Alive(c)' => Alive(c) /\ (c # cur.coro => pend'[c] = pend[c])
    BY <2>1, <2>2 DEF Living, ComesBack, Comeback, LoopTypeOK
  <2>4. \A c \in Coro : Scheduled(c) => Scheduled(c)'
    BY <2>2 DEF Scheduled
  <2>5. \/ unfinished > 0 => unfinished' > 0
        \/ phase' = "process" /\ cur'.op.k = "done"
    BY <2>1 DEF ComesBack, Comeback, Pair
  <2>6. Scheduled(cur.coro)'
    BY <2>2 DEF Scheduled
  <2>. QED  BY <2>2, <2>3, <2>4, <2>5, <2>6, JoinsStay
<1>3. CASE Process
  <2>1. phase = "process" /\ UNCHANGED <<state, pend>> /\ cur \in TaskType /\ cur.coro \in Coro
    BY <1>3, ProcessCases DEF ProcessesTo, LoopTypeOK, TaskType
  <2>2. unfinished' >= unfinished
    BY <1>3, ProcessSchedules
  <2>3. \A c \in Coro : Alive(c)' <=> Alive(c)
    BY <2>1 DEF Alive
  <2>4. \A c \in Coro : pend'[c] = pend[c]
    BY <2>1
  <2>5. SameOp(cur.op, pend[cur.coro])
    BY <2>1 DEF Flow
  <2>6. CASE cur.op.k # "join"
    <3>1. UNCHANGED joinees
      BY <1>3, <2>6, ProcessSchedules
    <3>2. \A c \in Coro : Scheduled(c) => Scheduled(c)' \/ ~Alive(c)' \/ pend'[c].k # "join"
      BY <1>3, <2>1, <2>3, <2>5, <2>6, ProcessSchedules DEF SameOp
    <3>3. cur.op.k = "done" => \A i \in DOMAIN joinees : Scheduled(joinees[i].coro)'
      BY <1>3, ProcessSchedules
    <3>4. unfinished > 0 => unfinished' > 0
      <4>1. unfinished' \in Nat
        BY <1>3, ProcessType DEF QueueTypeOK
      <4>. QED  BY <1>1, <2>2, <4>1
    <3>. QED  BY <2>3, <2>4, <3>1, <3>2, <3>3, <3>4, JoinsStay
  <2>7. CASE cur.op.k = "join"
    <3>1. ProcessQJoin
      BY <1>3, <2>7 DEF Process, ProcessEnd, ProcessGet, ProcessPut, ProcessDone, Processing,
                        IsGet, IsPut, CoroOp
    <3>2. CASE unfinished = 0
      <4>1. Continue(active, cur) /\ UNCHANGED <<joinees, unfinished>>
        BY <3>1, <3>2 DEF ProcessQJoin
      <4>2. \A c \in Coro : Scheduled(c) => Scheduled(c)'
        BY <4>1 DEF Continue, Scheduled
      <4>. QED  BY <2>3, <2>4, <2>7, <3>2, <4>1, <4>2, JoinsStay
    <3>3. CASE unfinished # 0
      <4>1. joinees' = Append(joinees, cur) /\ unfinished' = unfinished /\ unfinished > 0
        BY <1>1, <3>1, <3>3 DEF ProcessQJoin
      <4>2. \A i \in DOMAIN joinees' : joinees'[i].op.k = "join"
        BY <1>1, <2>1, <2>7, <4>1 DEF Joins, JoinsKnown
      <4>. QED  BY <4>1, <4>2 DEF Joins, JoinsKnown, JoinReleased
    <3>. QED  BY <3>2, <3>3
  <2>. QED  BY <2>6, <2>7
<1>4. CASE HandleTimeout
  <2>1. /\ phase = "timers" /\ UNCHANGED <<cur, state, pend, unfinished, joinees>>
        /\ \A c \in Coro : Scheduled(c) => Scheduled(c)'
    <3>1. /\ phase = "timers" /\ UNCHANGED <<cur, state, pend, unfinished, joinees>>
          /\ UNCHANGED active \/ \E p \in TaskType : active' = ToBack(p)
      <4>1. ASSUME NEW e \in timeouts
            PROVE  Pair(TimeoutExc, e.op.c) \in TaskType
        BY PlainOps, PairTypes DEF LoopTypeOK, TimerType
      <4>. QED  BY <1>4, <4>1 DEF HandleTimeout, TimeoutGet, TimeoutPut, TimeoutTooLate,
                    CleanupRaises, Expire, Due, queueVars
    <3>2. CASE UNCHANGED active
      BY <3>1, <3>2 DEF Scheduled
    <3>3. ASSUME NEW p \in TaskType, active' = ToBack(p)
          PROVE  \A c \in Coro : Scheduled(c) => Scheduled(c)'
      <4>1. Coros(active') = Coros(active) \cup {p.coro}
        BY <3>3, AppendCoros DEF ToBack, LoopTypeOK
      <4>. QED  BY <3>1, <4>1 DEF Scheduled, Coros
    <3>. QED  BY <3>1, <3>2, <3>3
  <2>2. \A c \in Coro : Alive(c)' => Alive(c) /\ pend'[c] = pend[c]
    BY <2>1 DEF Alive
  <2>. QED  BY <2>1, <2>2, JoinsStay
<1>5. CASE LoopStep /\ UNCHANGED queueVars
  <2>1. UNCHANGED <<joinees, unfinished>>
    BY <1>5 DEF queueVars
  <2>2. ~(phase = "process" /\ cur.op.k = "done")
    BY <1>5 DEF LoopStep, Pick, IdleTurn, Leave, RunDeadCoro, Start, FinalizeRaises,
                ProcessNone, DropStale, EndTimers, NoOp
  <2>3. \A c \in Coro : Alive(c)' => Alive(c) /\ (c # cur.coro => pend'[c] = pend[c])
    BY <1>5 DEF LoopStep, Pick, IdleTurn, Leave, RunDeadCoro, Start, FinalizeRaises,
                ProcessNone, DropStale, EndTimers, LoopTypeOK, Alive
  <2>4. \A c \in Coro : Scheduled(c) => Scheduled(c)'
    <3>1. CASE Pick
      <4>1. active \in Seq(TaskType) /\ active # <<>> /\ cur' = Head(active) /\ active' = Tail(active)
        BY <3>1 DEF Pick, LoopTypeOK
      <4>2. Coros(active) = Coros(active') \cup {cur'.coro}
        BY <4>1, TailCoros
      <4>3. cur.coro = None
        BY <3>1 DEF Pick, Flow, NoPair, Pair
      <4>. QED  BY <4>2, <4>3, CoroAssumption DEF Scheduled, Coros
    <3>2. CASE ProcessNone
      <4>1. active \in Seq(TaskType) /\ cur \in TaskType
        BY <3>2 DEF ProcessNone, LoopTypeOK
      <4>2. Coros(Append(active, cur)) = Coros(active) \cup {cur.coro}
        BY <4>1, AppendCoros
      <4>3. \/ active' = Append(active, cur)
            \/ active' = active /\ cur' = cur
        BY <3>2 DEF ProcessNone, Continue
      <4>. QED  BY <4>2, <4>3 DEF Scheduled, Coros
    <3>3. CASE ~Pick /\ ~ProcessNone
      <4>1. UNCHANGED active /\ cur'.coro = cur.coro
        BY <1>5, <3>3 DEF LoopStep, IdleTurn, Leave, RunDeadCoro, Start, FinalizeRaises,
                          DropStale, EndTimers, Pair
      <4>. QED  BY <4>1 DEF Scheduled
    <3>. QED  BY <3>1, <3>2, <3>3
  <2>5. cur.coro \in Coro => Scheduled(cur.coro)' \/ pend'[cur.coro] = pend[cur.coro]
    BY <2>4 DEF Scheduled
  <2>. QED  BY <2>1, <2>2, <2>3, <2>4, <2>5, JoinsStay
<1>6. CASE (Tick \/ Over \/ UNCHANGED vars) /\ UNCHANGED queueVars
  BY <1>6 DEF Tick, Over, vars, loopVars, queueVars, Joins, JoinsKnown, JoinReleased, Scheduled, Alive
<1>. QED  BY <1>2, <1>3, <1>4, <1>5, <1>6 DEF Next, Loop, vars

\* A coroutine that joined waits only as long as there are unfinished tasks:
\* as their number reaches zero the QDone that releases it is on its way.
THEOREM JoinsAreReleased == Spec => []JoinReleased
<1>1. Init => TypeOK /\ Flow /\ Joins
  BY InitType, InitFlow DEF Init, Joins, JoinsKnown, JoinReleased
<1>2. TypeOK /\ Flow /\ Joins /\ [Next]_vars => (TypeOK /\ Flow /\ Joins)'
  BY NextType, NextFlow, NextJoins
<1>3. Joins => JoinReleased
  BY DEF Joins
<1>. QED  BY <1>1, <1>2, <1>3, PTL DEF Spec
-----------------------------------------------------------------------------
(***************************************************************************)
(* The count of unfinished tasks.  A put counts as it begins to wait, and  *)
(* still does when its timeout takes it out: then there is one too many.   *)
(***************************************************************************)
Excess == unfinished + done - (Len(got) + Len(queue) + Len(waiting_puts))

\* QGet.process and QPut.process count right.
LEMMA ProcessExcess ==
  ASSUME TypeOK, Process
  PROVE  Excess' = Excess
<1>. USE DEF TypeOK, QueueTypeOK
<1>1. cur \in TaskType /\ clock \in Nat
  BY ProcessCases DEF ProcessesTo, LoopTypeOK
<1>2. CASE ProcessGet
  <2>. DEFINE op == WithDefault(cur.op)
  <2>1. GetNothing(op) \/ GetItem(op) \/ GetAndRefill(op)
    BY <1>2 DEF ProcessGet
  <2>. HIDE DEF op
  <2>2. CASE GetNothing(op)
    BY <2>2 DEF GetNothing, Excess
  <2>3. CASE GetItem(op)
    <3>1. /\ queue' = Tail(queue) /\ queue # <<>> /\ got' = Append(got, Head(queue))
          /\ UNCHANGED <<waiting_puts, unfinished, done>>
      BY <2>3 DEF GetItem, Empty
    <3>2. Len(queue') = Len(queue) - 1 /\ Len(got') = Len(got) + 1
      BY <3>1
    <3>. QED  BY <3>1, <3>2 DEF Excess
  <2>4. CASE GetAndRefill(op)
    <3>1. /\ queue' = Append(Tail(queue), Head(waiting_puts).arg) /\ queue # <<>>
          /\ waiting_puts' = Tail(waiting_puts) /\ waiting_puts # <<>>
          /\ got' = Append(got, Head(queue))
          /\ UNCHANGED <<unfinished, done>>
      BY <2>4 DEF GetAndRefill, Empty
    <3>2. /\ Len(queue') = Len(queue) /\ Len(got') = Len(got) + 1
          /\ Len(waiting_puts') = Len(waiting_puts) - 1
      BY <3>1
    <3>. QED  BY <3>1, <3>2 DEF Excess
  <2>. QED  BY <2>1, <2>2, <2>3, <2>4
<1>3. CASE ProcessPut
  <2>. DEFINE op == WithDefault(cur.op)
  <2>1. /\ PutNoRoom(op) \/ PutItem(op) \/ PutToGetter(op)
        /\ op \in PutType
    BY <1>1, <1>3, WithDefaultType DEF ProcessPut, TaskType
  <2>. HIDE DEF op
  <2>2. CASE PutNoRoom(op)
    <3>1. CASE Blocking(op)
      <4>1. waiting_puts' = Append(waiting_puts, op) /\ unfinished' = unfinished + 1
            /\ UNCHANGED <<queue, got, done>>
        BY <2>2, <3>1 DEF PutNoRoom
      <4>2. Len(waiting_puts') = Len(waiting_puts) + 1
        BY <4>1
      <4>. QED  BY <4>1, <4>2 DEF Excess
    <3>2. CASE ~Blocking(op)
      BY <2>2, <3>2 DEF PutNoRoom, Excess
    <3>. QED  BY <3>1, <3>2
  <2>3. CASE PutItem(op)
    <3>1. /\ queue' = Append(queue, op.arg) /\ unfinished' = unfinished + 1
          /\ UNCHANGED <<waiting_puts, got, done>>
      BY <2>3 DEF PutItem
    <3>2. Len(queue') = Len(queue) + 1
      BY <3>1
    <3>. QED  BY <3>1, <3>2 DEF Excess
  <2>4. CASE PutToGetter(op)
    <3>1. /\ got' = Append(got, op.arg) /\ unfinished' = unfinished + 1
          /\ UNCHANGED <<queue, waiting_puts, done>>
      BY <2>4 DEF PutToGetter
    <3>2. Len(got') = Len(got) + 1
      BY <3>1
    <3>. QED  BY <3>1, <3>2 DEF Excess
  <2>. QED  BY <2>1, <2>2, <2>3, <2>4
<1>4. CASE ProcessEnd \/ ProcessDone \/ ProcessQJoin
  BY <1>4 DEF ProcessEnd, ProcessDone, ProcessQJoin, queueVars, Excess
<1>. QED  BY <1>2, <1>3, <1>4 DEF Process

\* The timeout of a put adds one to the excess, and nothing else changes it.
LEMMA NextExcess ==
  ASSUME TypeOK, [Next]_vars
  PROVE  /\ ~TimeoutPut => Excess' = Excess
         /\ Excess' >= Excess
<1>. USE DEF TypeOK, QueueTypeOK
<1>1. Excess \in Int
  BY DEF Excess
<1>2. CASE Resume
  BY <1>1, <1>2, ResumeCases, ResumeType DEF Excess
<1>3. CASE Process
  BY <1>1, <1>3, ProcessExcess
<1>4. CASE TimeoutPut
  <2>1. PICK e \in timeouts : \E i \in Removable(waiting_puts, e.op) :
          waiting_puts' = RemoveAt(waiting_puts, i) /\ Expire(e)
    BY <1>4 DEF TimeoutPut
  <2>2. Len(waiting_puts') = Len(waiting_puts) - 1
    BY <2>1, RemoveAtType DEF Removable
  <2>3. UNCHANGED <<unfinished, done, got, queue>>
    BY <2>1 DEF Expire
  <2>. QED  BY <1>4, <2>2, <2>3 DEF Excess
<1>5. CASE HandleTimeout /\ ~TimeoutPut
  BY <1>1, <1>5 DEF HandleTimeout, TimeoutGet, TimeoutTooLate, CleanupRaises, Expire, queueVars, Excess
<1>6. CASE UNCHANGED queueVars
  BY <1>1, <1>6 DEF queueVars, Excess
<1>. QED  BY <1>2, <1>3, <1>4, <1>5, <1>6 DEF Next, Loop, vars

\* join() never returns too early: every item that was put, handed over, queued
\* or waiting, and that is not declared done, is counted, in every program.
THEOREM NoTaskForgotten ==
  Spec => [](unfinished + done >= Len(got) + Len(queue) + Len(waiting_puts))
<1>1. Init => TypeOK /\ Excess >= 0
  BY InitType DEF Init, Excess
<1>2. TypeOK /\ Excess >= 0 /\ [Next]_vars => (TypeOK /\ Excess >= 0)'
  <2>. SUFFICES ASSUME TypeOK, Excess >= 0, [Next]_vars PROVE TypeOK' /\ Excess' >= 0
    OBVIOUS
  <2>1. TypeOK' /\ Excess' >= Excess
    BY NextType, NextExcess
  <2>2. Excess \in Int /\ Excess' \in Int
    BY <2>1 DEF TypeOK, QueueTypeOK, Excess
  <2>. QED  BY <2>1, <2>2
<1>3. TypeOK /\ Excess >= 0 => unfinished + done >= Len(got) + Len(queue) + Len(waiting_puts)
  BY DEF TypeOK, QueueTypeOK, Excess
<1>. QED  BY <1>1, <1>2, <1>3, PTL DEF Spec

\* In a program without timeouts nothing is ever put on the heap.
Untimed == timeouts = {} /\ (phase = "process" => cur.op.at = 0)

LEMMA NextUntimed ==
  ASSUME Delays \subseteq {0}, DefaultTimeout = 0, TypeOK, Untimed, [Next]_vars
  PROVE  Untimed'
<1>. USE DEF Untimed
<1>1. CASE Resume
  <2>1. PICK op \in OpType, st \in {"running", "completed", "failed"} : ComesBack(op, st)
    BY <1>1, ResumeCases
  <2>2. op.at = 0
    BY <2>1 DEF ComesBack, Deadlines, Deadline
  <2>3. timeouts' = {}
    BY <2>1 DEF ComesBack, Comeback, Finalized, Retired
  <2>. QED  BY <2>1, <2>2, <2>3 DEF ComesBack, Comeback, Pair
<1>2. CASE Process
  <2>1. phase' \in {"run", "timers"}
    BY <1>2, ProcessCases DEF ProcessesTo, Continue
  <2>2. WithDefault(cur.op) = cur.op /\ cur.op.at = 0
    BY <1>2, ProcessCases DEF ProcessesTo, WithDefault
  <2>3. \A op : Retired(timeouts, op) = {}
    BY DEF Retired
  <2>4. timeouts' = {}
    BY <1>2, <2>2, <2>3
    DEF Process, ProcessEnd, ProcessGet, ProcessPut, ProcessDone, ProcessQJoin, GetNothing, GetItem,
        GetAndRefill, PutNoRoom, PutItem, PutToGetter, Throw, Pushed
  <2>. QED  BY <2>1, <2>4
<1>3. CASE HandleTimeout
  BY <1>3 DEF HandleTimeout, TimeoutGet, TimeoutPut, TimeoutTooLate, CleanupRaises
<1>4. CASE LoopStep
  BY <1>4, OwnOps DEF LoopStep, Pick, IdleTurn, Leave, RunDeadCoro, Start, FinalizeRaises,
                ProcessNone, DropStale, EndTimers, Continue, NoOp, Pair, CoroOp
<1>5. CASE Tick \/ Over \/ UNCHANGED vars
  BY <1>5 DEF Tick, Over, vars, loopVars
<1>. QED  BY <1>1, <1>2, <1>3, <1>4, <1>5 DEF Next, Loop

\* Without timeouts the count is exact: what was put is done, or unfinished.
THEOREM CountsAreExact ==
  ASSUME Delays \subseteq {0}, DefaultTimeout = 0
  PROVE  Spec => []UnfinishedCounts
<1>1. Init => TypeOK /\ Untimed /\ Excess = 0
  <2>1. Init => Untimed
    BY DEF Init, LoopInit, Untimed
  <2>2. ASSUME Init
        PROVE  Excess = 0
    <3>1. Len(got) = 0 /\ Len(queue) = 0 /\ Len(waiting_puts) = 0
      BY <2>2 DEF Init
    <3>2. unfinished = 0 /\ done = 0
      BY <2>2 DEF Init
    <3>. QED  BY <3>1, <3>2 DEF Excess
  <2>. QED  BY <2>1, <2>2, InitType
<1>2. TypeOK /\ Untimed /\ Excess = 0 /\ [Next]_vars => (TypeOK /\ Untimed /\ Excess = 0)'
  <2>. SUFFICES ASSUME TypeOK, Untimed, Excess = 0, [Next]_vars
                PROVE  TypeOK' /\ Untimed' /\ Excess' = 0
    OBVIOUS
  <2>1. ~TimeoutPut
    BY DEF Untimed, TimeoutPut
  <2>. QED  BY <2>1, NextType, NextUntimed, NextExcess
<1>3. TypeOK /\ Excess = 0 => UnfinishedCounts
  BY DEF TypeOK, QueueTypeOK, Excess, UnfinishedCounts
<1>. QED  BY <1>1, <1>2, <1>3, PTL DEF Spec
-----------------------------------------------------------------------------
(***************************************************************************)
(* Who is where.  In a program in which nobody joins, no two operations    *)
(* have one deadline and there is no default timeout:                      *)
(*  - everyone is in one place (Placed);                                   *)
(*  - who waits lives, and waits for what it yielded last (Waits);         *)
(*  - who is queued gets the answer to that, or an exception (Answered);   *)
(*  - the heap has one entry for a deadline, that of the operation that    *)
(*    waits or was answered, and none of the operation processed (Timers). *)
(***************************************************************************)
Plain == Ties = FALSE /\ DefaultTimeout = 0 /\ "join" \notin Kinds

NoJoin == joinees = <<>> /\ (phase = "process" => cur.op.k # "join")

WaitingOps == ToSet(waiting_gets) \cup ToSet(waiting_puts)
Waiters == Owners(waiting_gets) \cup Owners(waiting_puts)
Handed == ToSet(active) \cup {p \in {cur} : phase = "run"}

Placed ==
  /\ OnePlace(active, cur.coro, Waiters, Living)
  /\ Single(waiting_gets) /\ Single(waiting_puts)
  /\ Owners(waiting_gets) \cap Owners(waiting_puts) = {}

Waits == \A op \in WaitingOps : Alive(op.c) /\ SameOp(op, pend[op.c])

Answered == \A p \in Handed :
  /\ p.op.k # "coro"
  /\ IsExc(p.op) \/ (SameOp(p.op, pend[p.coro]) /\ (IsGet(p.op) => p.op.arg \in Item))

OneEach(heap) ==
  /\ \A e, f \in heap : e.op.at = f.op.at => e = f
  /\ \A e \in heap : e.op.at # 0

\* The timer of the operation of p is that of its coroutine, if it is there.
OwnTimer(p, heap, now) == p.op.at # 0 =>
  /\ p.op.c = p.coro
  /\ p.op.at > now => \E e \in heap : e.op.at = p.op.at
  /\ \A e \in heap : e.op.at = p.op.at => e.op.c = p.coro

Timers ==
  /\ OneEach(timeouts)
  /\ phase # "dead" => \A op \in WaitingOps : op.at # 0 => [op |-> op, live |-> TRUE] \in timeouts
  /\ \A p \in Handed : OwnTimer(p, timeouts, clock)
  /\ phase = "process" /\ cur.op.at # 0 =>
       /\ IsGet(cur.op) \/ IsPut(cur.op)
       /\ cur.op.at > clock /\ \A e \in timeouts : e.op.at # cur.op.at

Held == Placed /\ Waits /\ Answered /\ Timers /\ NoJoin

\* At the beginning everyone is queued.
LEMMA InitHeld == Init => Held
<1>. SUFFICES ASSUME Init PROVE Held
  OBVIOUS
<1>1. /\ Started \in Seq(Coro) /\ DOMAIN active = DOMAIN Started
      /\ \A i \in DOMAIN Started : active[i] = Pair(NoOp, Started[i])
      /\ \A i, j \in DOMAIN Started : Started[i] = Started[j] => i = j
  BY StartedAssumption DEF Init, LoopInit, IsInjective
<1>2. \A i \in DOMAIN Started : Started[i] \in Coro
  BY <1>1
<1>3. /\ cur = NoPair /\ cur.coro = None /\ phase = "pick" /\ timeouts = {}
      /\ WaitingOps = {} /\ Waiters = {} /\ joinees = <<>>
      /\ pend = [c \in Coro |-> NoOp]
      /\ \A c \in Coro : state[c] = IF c \in ToSet(Started) THEN "need_init" ELSE "absent"
  BY DEF Init, LoopInit, NoPair, Pair, WaitingOps, Waiters, Owners, ToSet
<1>4. \A p \in Handed : \E i \in DOMAIN Started : p = Pair(NoOp, Started[i])
  BY <1>1, <1>3 DEF Handed, ToSet
<1>5. OnePlace(active, cur.coro, Waiters, Living)
  BY <1>1, <1>2, <1>3, CoroAssumption
  DEF OnePlace, Distinct, Coros, Living, Alive, ToSet, Pair
<1>6. Placed
  BY <1>5, <1>3 DEF Placed, Waiters, Init, Single
<1>7. Answered
  BY <1>2, <1>3, <1>4 DEF Answered, NoOp, SameOp, Pair, IsGet
<1>8. Timers
  BY <1>3, <1>4 DEF Timers, OneEach, OwnTimer, NoOp, Pair
<1>. QED  BY <1>3, <1>6, <1>7, <1>8 DEF Held, Waits, NoJoin

(***************************************************************************)
(* The heap, as a coroutine comes back or an operation is processed: only  *)
(* the timers of the coroutine of the inner loop come and go.              *)
(***************************************************************************)
OwnMoves(heap) ==
  /\ OneEach(heap)
  /\ \A x \in heap : \/ \E e \in timeouts : e.op = x.op
                     \/ phase = "process" /\ x.op = cur.op
  /\ \A e \in timeouts : e.op.c # cur.coro => e \in heap

\* Retiring an operation leaves the entries of the others.
LEMMA RetiredFacts ==
  ASSUME NEW h, h \subseteq TimerType, NEW op
  PROVE  /\ \A x \in Retired(h, op) : \E e \in h : e.op = x.op
         /\ \A e \in h : e.op.c # op.c => e \in Retired(h, op)
         /\ OneEach(h) => OneEach(Retired(h, op))
<1>. DEFINE r(e) == IF SameOp(e.op, op) THEN [e EXCEPT !.live = FALSE] ELSE e
<1>1. \A e \in h : r(e).op = e.op
  BY DEF TimerType
<1>2. \A e \in h : e.op.c # op.c => r(e) = e
  BY DEF SameOp
<1>3. Retired(h, op) = {r(e) : e \in h}
  BY DEF Retired
<1>. HIDE DEF r
<1>. QED  BY <1>1, <1>2, <1>3 DEF OneEach

\* finalize takes the timer of the operation whose result is delivered.
LEMMA FinalizedMoves ==
  ASSUME TypeOK, Held, phase = "run", NEW heap \in Finalized(cur.op)
  PROVE  OwnMoves(heap)
<1>. USE DEF TypeOK
<1>1. timeouts \subseteq TimerType /\ OneEach(timeouts) /\ OwnTimer(cur, timeouts, clock)
  BY DEF Held, Timers, Handed, LoopTypeOK
<1>2. CASE cur.op.at = 0 \/ cur.op.k = "sleep"
  BY <1>1, <1>2 DEF Finalized, OwnMoves
<1>3. CASE ~(cur.op.at = 0 \/ cur.op.k = "sleep")
  <2>1. PICK e \in timeouts : e.op.at = cur.op.at /\ heap = Retired(timeouts \ {e}, cur.op)
    BY <1>3 DEF Finalized
  <2>2. e.op.c = cur.coro /\ cur.op.c = cur.coro
    BY <1>1, <1>3, <2>1 DEF OwnTimer
  <2>. DEFINE h == timeouts \ {e}
  <2>3. h \subseteq TimerType /\ OneEach(h)
    BY <1>1 DEF OneEach
  <2>. HIDE DEF h
  <2>4. /\ \A x \in heap : \E f \in h : f.op = x.op
        /\ \A f \in h : f.op.c # cur.op.c => f \in heap
        /\ OneEach(heap)
    BY <2>1, <2>3, RetiredFacts DEF h
  <2>. QED  BY <2>2, <2>4 DEF OwnMoves, h
<1>. QED  BY <1>2, <1>3

\* The heaps that process_op may leave.
LEMMA PushedMoves ==
  ASSUME TypeOK, Held, Plain, phase = "process", cur.op \in GetType \cup PutType, cur.op.c = cur.coro
  PROVE  /\ OwnMoves(Pushed(cur.op))
         /\ OwnMoves(Retired(Pushed(cur.op), cur.op))
         /\ OwnMoves(timeouts)
         /\ cur.op.at # 0 => [op |-> cur.op, live |-> TRUE] \in Pushed(cur.op)
<1>. USE DEF TypeOK
<1>1. /\ timeouts \subseteq TimerType /\ OneEach(timeouts)
      /\ cur.op.at # 0 => \A e \in timeouts : e.op.at # cur.op.at
  BY DEF Held, Timers, LoopTypeOK
<1>2. OwnMoves(timeouts)
  BY <1>1 DEF OwnMoves
<1>3. /\ Pushed(cur.op) \subseteq TimerType /\ OneEach(Pushed(cur.op))
      /\ \A x \in Pushed(cur.op) : x \in timeouts \/ x.op = cur.op
      /\ timeouts \subseteq Pushed(cur.op)
      /\ cur.op.at # 0 => [op |-> cur.op, live |-> TRUE] \in Pushed(cur.op)
  <2>1. Pushed(cur.op) \subseteq TimerType
    BY <1>1, HeapType
  <2>2. CASE cur.op.at = 0
    BY <1>1, <2>1, <2>2 DEF Pushed
  <2>3. CASE cur.op.at # 0
    <3>. DEFINE new == [op |-> cur.op, live |-> TRUE]
    <3>1. Pushed(cur.op) = timeouts \cup {new} /\ new.op = cur.op
      BY <2>3 DEF Pushed
    <3>. HIDE DEF new
    <3>2. OneEach(timeouts \cup {new})
      BY <1>1, <2>3, <3>1 DEF OneEach
    <3>. QED  BY <2>1, <2>3, <3>1, <3>2 DEF new
  <2>. QED  BY <2>2, <2>3
<1>4. OwnMoves(Pushed(cur.op))
  BY <1>3 DEF OwnMoves
<1>. DEFINE h == Retired(Pushed(cur.op), cur.op)
<1>5. /\ OneEach(h)
      /\ \A x \in h : \E e \in Pushed(cur.op) : e.op = x.op
      /\ \A e \in Pushed(cur.op) : e.op.c # cur.op.c => e \in h
  BY <1>3, RetiredFacts
<1>. HIDE DEF h
<1>6. OwnMoves(h)
  BY <1>3, <1>5 DEF OwnMoves
<1>. QED  BY <1>2, <1>3, <1>4, <1>6 DEF h

\* What such a move leaves in order: the timers of who waits and who is queued.
LEMMA OwnMovesKeep ==
  ASSUME TypeOK, Held, phase \in {"run", "process"}, NEW heap, OwnMoves(heap)
  PROVE  /\ \A op \in WaitingOps :
              op.c # cur.coro /\ (op.at # 0 => [op |-> op, live |-> TRUE] \in heap)
         /\ \A p \in ToSet(active) : p.coro # cur.coro /\ OwnTimer(p, heap, clock)
<1>. USE DEF TypeOK
<1>1. /\ OnePlace(active, cur.coro, Waiters, Living)
      /\ \A op \in WaitingOps : op.at # 0 => [op |-> op, live |-> TRUE] \in timeouts
      /\ \A p \in ToSet(active) : OwnTimer(p, timeouts, clock)
      /\ phase = "process" /\ cur.op.at # 0 =>
           cur.op.at > clock /\ \A e \in timeouts : e.op.at # cur.op.at
  BY DEF Held, Placed, Timers, Handed
<1>2. ASSUME NEW op \in WaitingOps
      PROVE  op.c # cur.coro /\ (op.at # 0 => [op |-> op, live |-> TRUE] \in heap)
  <2>1. op.c \in Waiters
    BY DEF WaitingOps, Waiters, Owners, ToSet
  <2>2. op.c # cur.coro
    BY <1>1, <2>1 DEF OnePlace
  <2>. QED  BY <1>1, <2>2 DEF OwnMoves
<1>3. ASSUME NEW p \in ToSet(active)
      PROVE  p.coro # cur.coro /\ OwnTimer(p, heap, clock)
  <2>1. p.coro \in Coros(active)
    BY DEF Coros, ToSet
  <2>2. p.coro # cur.coro /\ OwnTimer(p, timeouts, clock)
    BY <1>1, <2>1 DEF OnePlace
  <2>3. clock \in Nat /\ cur.op.at \in Nat
    BY DEF LoopTypeOK, TaskType, OpType, RawOpType
  <2>4. ASSUME p.op.at # 0, p.op.at > clock
        PROVE  \E e \in heap : e.op.at = p.op.at
    <3>1. PICK e \in timeouts : e.op.at = p.op.at
      BY <2>2, <2>4 DEF OwnTimer
    <3>2. e.op.c # cur.coro
      BY <2>2, <2>4, <3>1 DEF OwnTimer
    <3>. QED  BY <3>1, <3>2 DEF OwnMoves
  <2>5. ASSUME p.op.at # 0, NEW x \in heap, x.op.at = p.op.at
        PROVE  x.op.c = p.coro
    <3>1. CASE \E e \in timeouts : e.op = x.op
      BY <2>2, <2>5, <3>1 DEF OwnTimer
    <3>2. CASE phase = "process" /\ x.op = cur.op
      <4>1. p.op.at > clock /\ \A e \in timeouts : e.op.at # p.op.at
        BY <1>1, <2>5, <3>2
      <4>. QED  BY <2>2, <2>5, <4>1 DEF OwnTimer
    <3>. QED  BY <3>1, <3>2 DEF OwnMoves
  <2>. QED  BY <2>2, <2>4, <2>5 DEF OwnTimer
<1>. QED  BY <1>2, <1>3
-----------------------------------------------------------------------------
(***************************************************************************)
(* The steps of the loop, and the coroutine that comes back.               *)
(***************************************************************************)
\* Nobody is None.
LEMMA NobodyPlaced ==
  ASSUME TypeOK
  PROVE  /\ None \notin Coros(active) /\ None \notin Waiters /\ None \notin Living
         /\ NoPair.coro = None /\ \A p \in TaskType : p.coro # None
<1>. USE DEF TypeOK
<1>1. /\ \A i \in DOMAIN active : active[i] \in TaskType
      /\ \A i \in DOMAIN waiting_gets : waiting_gets[i] \in GetType
      /\ \A i \in DOMAIN waiting_puts : waiting_puts[i] \in PutType
  BY DEF LoopTypeOK, QueueTypeOK
<1>2. \A op \in GetType \cup PutType : op.c \in Coro
  BY DEF GetType, PutType, OpType
<1>. QED
  BY <1>1, <1>2, CoroAssumption DEF Coros, Waiters, Owners, TaskType, Living, NoPair, Pair

\* The coroutine of the inner loop comes back: it may have ended.
LEMMA ComesBackHeld ==
  ASSUME TypeOK, Held, phase = "run", phase' = "process", cur'.coro = cur.coro, cur.coro \in Coro,
         OwnMoves(timeouts'),
         UNCHANGED <<active, clock, waiting_gets, waiting_puts, joinees>>,
         \A c \in Coro : c # cur.coro => pend'[c] = pend[c] /\ state'[c] = state[c],
         Living' \subseteq Living,
         cur'.op.k # "join",
         cur'.op.at # 0 => /\ IsGet(cur'.op) \/ IsPut(cur'.op)
                           /\ cur'.op.at > clock /\ \A e \in timeouts : e.op.at # cur'.op.at
  PROVE  Held'
<1>. USE DEF TypeOK
<1>1. /\ WaitingOps' = WaitingOps /\ Waiters' = Waiters /\ Handed' = ToSet(active)
      /\ ToSet(active) \subseteq Handed
  BY DEF WaitingOps, Waiters, Handed
<1>2. /\ \A op \in WaitingOps : op.c # cur.coro /\ op.c \in Coro
      /\ \A p \in ToSet(active) : p.coro # cur.coro /\ p.coro \in Coro
  <2>1. \A p \in ToSet(active) : p.coro \in Coro
    <3>1. \A i \in DOMAIN active : active[i] \in TaskType
      BY DEF LoopTypeOK
    <3>. QED  BY <3>1 DEF ToSet, TaskType
  <2>2. \A op \in WaitingOps : op.c \in Coro
    <3>1. /\ \A i \in DOMAIN waiting_gets : waiting_gets[i] \in GetType
          /\ \A i \in DOMAIN waiting_puts : waiting_puts[i] \in PutType
      BY DEF QueueTypeOK
    <3>. QED  BY <3>1 DEF WaitingOps, ToSet, GetType, PutType, OpType
  <2>. QED  BY <2>1, <2>2, OwnMovesKeep
<1>3. Placed'
  BY <1>1, Ends DEF Held, Placed, OnePlace
<1>4. Waits'
  BY <1>1, <1>2 DEF Held, Waits, Alive
<1>5. Answered'
  BY <1>1, <1>2 DEF Held, Answered
<1>6. Timers'
  <2>1. OneEach(timeouts')
    BY DEF OwnMoves
  <2>2. \A op \in WaitingOps' : op.at # 0 => [op |-> op, live |-> TRUE] \in timeouts'
    BY <1>1, OwnMovesKeep
  <2>3. \A p \in Handed' : OwnTimer(p, timeouts', clock')
    BY <1>1, OwnMovesKeep
  <2>4. cur'.op.at # 0 => /\ IsGet(cur'.op) \/ IsPut(cur'.op)
                          /\ cur'.op.at > clock' /\ \A e \in timeouts' : e.op.at # cur'.op.at
    BY DEF OwnMoves
  <2>. QED  BY <2>1, <2>2, <2>3, <2>4 DEF Timers, OneEach, OwnTimer, IsGet, IsPut
<1>7. NoJoin'
  BY DEF Held, NoJoin
<1>. QED  BY <1>3, <1>4, <1>5, <1>6, <1>7 DEF Held

\* A new deadline is in the future, and no timer has it.
LEMMA DeadlinesFresh ==
  ASSUME Plain, clock \in Nat, NEW at \in Deadlines, at # 0
  PROVE  at > clock /\ \A e \in timeouts : e.op.at # at
<1>1. PICK d \in Delays : at = Deadline(d)
  BY DEF Deadlines
<1>2. d # 0 /\ d \in Nat /\ at = clock + d
  BY <1>1, DelayAssumption DEF Deadline
<1>. QED  BY <1>2 DEF Deadlines, Plain

\* What a coroutine does when it is resumed.
LEMMA ResumeHeld ==
  ASSUME TypeOK, Flow, Held, Plain, Resume
  PROVE  Held'
<1>. USE DEF TypeOK
<1>1. /\ phase = "run" /\ cur.coro \in Coro
      /\ UNCHANGED <<active, clock, waiting_gets, waiting_puts, joinees>>
  BY ResumeCases
<1>2. PICK op \in OpType, st \in {"running", "completed", "failed"} : ComesBack(op, st)
  BY ResumeCases
<1>3. /\ phase' = "process" /\ timeouts' \in Finalized(cur.op)
      /\ cur' = Pair(op, cur.coro) /\ cur'.coro = cur.coro /\ cur'.op = op
      /\ Living' \subseteq Living
  BY <1>2, ComebackFlow DEF ComesBack, Comeback, Pair
<1>4. OwnMoves(timeouts')
  BY <1>1, <1>3, FinalizedMoves
<1>5. cur.op.k # "coro"
  BY <1>1 DEF Held, Answered, Handed
<1>6. \A c \in Coro : c # cur.coro => pend'[c] = pend[c] /\ state'[c] = state[c]
  BY <1>1, <1>2, <1>5 DEF ComesBack, Comeback, StateAfterFinalize, LoopTypeOK
<1>7. op.at # 0 => /\ IsGet(op) \/ IsPut(op)
                   /\ op.at > clock /\ \A e \in timeouts : e.op.at # op.at
  BY <1>2, DeadlinesFresh DEF ComesBack, LoopTypeOK
<1>8. op.k # "join"
  BY <1>2 DEF ComesBack, Plain
<1>. QED  BY <1>1, <1>3, <1>4, <1>6, <1>7, <1>8, ComesBackHeld

\* Steps after which the same coroutines are queued, and the same wait.
LEMMA HeldStays ==
  ASSUME TypeOK, TypeOK', Held, OnePlace(active, cur.coro, Waiters, Living)',
         UNCHANGED <<waiting_gets, waiting_puts, joinees, pend>>,
         Living' = Living, Handed' \subseteq Handed, phase # "process",
         \/ timeouts' = timeouts /\ clock' >= clock
         \/ \E e \in timeouts :
              /\ timeouts' = timeouts \ {e} /\ e.op.at <= clock /\ clock' = clock
              /\ phase' = "dead" \/ \A op \in WaitingOps : e # [op |-> op, live |-> TRUE],
         phase = "dead" => phase' = "dead",
         phase' = "process" => cur'.op.at = 0 /\ cur'.op.k # "join"
  PROVE  Held'
<1>. USE DEF TypeOK
<1>1. WaitingOps' = WaitingOps /\ Waiters' = Waiters
  BY DEF WaitingOps, Waiters
<1>2. Placed'
  BY <1>1 DEF Held, Placed
<1>3. Waits'
  <2>1. \A op \in WaitingOps : op.c \in Coro
    <3>1. /\ \A i \in DOMAIN waiting_gets : waiting_gets[i] \in GetType
          /\ \A i \in DOMAIN waiting_puts : waiting_puts[i] \in PutType
      BY DEF QueueTypeOK
    <3>. QED  BY <3>1 DEF WaitingOps, ToSet, GetType, PutType, OpType
  <2>2. \A c \in Coro : Alive(c) => Alive(c)'
    BY DEF Living
  <2>. QED  BY <1>1, <2>1, <2>2 DEF Held, Waits
<1>4. Answered'
  BY DEF Held, Answered
<1>5. Timers'
  <2>1. OneEach(timeouts')
    BY DEF Held, Timers, OneEach
  <2>2. phase' # "dead" => \A op \in WaitingOps' : op.at # 0 => [op |-> op, live |-> TRUE] \in timeouts'
    BY <1>1 DEF Held, Timers
  <2>3. ASSUME NEW p \in Handed'
        PROVE  OwnTimer(p, timeouts', clock')
    <3>1. OwnTimer(p, timeouts, clock) /\ p \in Handed
      BY <2>3 DEF Held, Timers
    <3>2. clock \in Nat /\ clock' \in Nat /\ p.op.at \in Nat
      <4>1. \A i \in DOMAIN active : active[i] \in TaskType
        BY DEF LoopTypeOK
      <4>2. p \in TaskType
        BY <3>1, <4>1 DEF Handed, LoopTypeOK, ToSet
      <4>. QED  BY <4>2 DEF LoopTypeOK, TaskType, OpType, RawOpType
    <3>3. CASE timeouts' = timeouts /\ clock' >= clock
      BY <3>1, <3>2, <3>3 DEF OwnTimer
    <3>4. ASSUME NEW e \in timeouts, timeouts' = timeouts \ {e}, e.op.at <= clock, clock' = clock
          PROVE  OwnTimer(p, timeouts', clock')
      BY <3>1, <3>2, <3>4 DEF OwnTimer
    <3>. QED  BY <3>3, <3>4
  <2>. QED  BY <2>1, <2>2, <2>3 DEF Timers, OneEach, OwnTimer
<1>6. NoJoin'
  BY DEF Held, NoJoin
<1>. QED  BY <1>2, <1>3, <1>4, <1>5, <1>6 DEF Held

\* What p gives to coroutine c is the operation op, completed.
AnswersOp(p, op, c) ==
  /\ p.coro = c /\ SameOp(p.op, op) /\ p.op.at = op.at
  /\ IsGet(op) => p.op.arg \in Item

\* Its timer is on the heap.
HasTimer(op, heap) == op.at # 0 => [op |-> op, live |-> TRUE] \in heap

(***************************************************************************)
(* An operation is processed: it waits from now on, or its coroutine or    *)
(* one that has waited gets what it waits for, or an exception.            *)
(***************************************************************************)
LEMMA HandsOver ==
  ASSUME TypeOK, Flow, Held, phase = "process", phase' \in {"run", "timers"},
         Placed', OwnMoves(timeouts'), UNCHANGED <<clock, state, pend>>, joinees' = <<>>,
         \A op \in WaitingOps' :
            op \in WaitingOps \/ (op = cur.op /\ cur.op.k \notin {"coro", "none"} /\ HasTimer(cur.op, timeouts')),
         \A p \in Handed' :
            \/ p \in ToSet(active)
            \/ IsExc(p.op) /\ p.op.at = 0
            \/ AnswersOp(p, cur.op, cur.coro) /\ cur.op.k # "coro" /\ HasTimer(cur.op, timeouts')
            \/ \E op \in WaitingOps : AnswersOp(p, op, op.c)
  PROVE  Held'
<1>1. /\ SameOp(cur.op, pend[cur.coro])
      /\ cur.op # NoOp => cur.op.c = cur.coro
      /\ Alive(cur.coro) <=> cur.op.k # "coro"
  BY DEF Flow
<1>2. /\ \A op \in WaitingOps : Alive(op.c) /\ SameOp(op, pend[op.c]) /\ op.k # "coro"
      /\ \A op \in WaitingOps : op.c # cur.coro /\ HasTimer(op, timeouts')
      /\ \A p \in ToSet(active) : OwnTimer(p, timeouts', clock)
  <2>1. \A op \in WaitingOps : op.k # "coro"
    <3>1. /\ \A i \in DOMAIN waiting_gets : waiting_gets[i] \in GetType
          /\ \A i \in DOMAIN waiting_puts : waiting_puts[i] \in PutType
      BY DEF TypeOK, QueueTypeOK
    <3>. QED  BY <3>1 DEF WaitingOps, ToSet, GetType, PutType, IsGet, IsPut
  <2>. QED  BY <2>1, OwnMovesKeep DEF Held, Waits, HasTimer
<1>3. \A c : Alive(c)' <=> Alive(c)
  BY DEF Alive
<1>4. Waits'
  <2>1. ASSUME NEW op \in WaitingOps'
        PROVE  Alive(op.c) /\ SameOp(op, pend[op.c])
    <3>1. CASE op \in WaitingOps
      BY <1>2, <3>1
    <3>2. CASE op = cur.op /\ cur.op.k \notin {"coro", "none"}
      <4>1. op.c = cur.coro
        BY <1>1, <3>2, OwnOps
      <4>. QED  BY <1>1, <3>2, <4>1
    <3>. QED  BY <3>1, <3>2
  <2>. QED  BY <2>1, <1>3 DEF Waits
<1>5. Answered'
  <2>1. ASSUME NEW p \in Handed'
        PROVE  /\ p.op.k # "coro"
               /\ IsExc(p.op) \/ (SameOp(p.op, pend[p.coro]) /\ (IsGet(p.op) => p.op.arg \in Item))
    <3>1. CASE p \in ToSet(active)
      BY <3>1 DEF Held, Answered, Handed
    <3>2. CASE IsExc(p.op)
      BY <3>2 DEF IsExc
    <3>3. CASE AnswersOp(p, cur.op, cur.coro) /\ cur.op.k # "coro"
      BY <1>1, <3>3 DEF AnswersOp, SameOp, IsGet
    <3>4. ASSUME NEW op \in WaitingOps, AnswersOp(p, op, op.c)
          PROVE  p.op.k # "coro" /\ SameOp(p.op, pend[p.coro]) /\ (IsGet(p.op) => p.op.arg \in Item)
      BY <1>2, <3>4 DEF AnswersOp, SameOp, IsGet
    <3>. QED  BY <2>1, <3>1, <3>2, <3>3, <3>4
  <2>. QED  BY <2>1 DEF Answered
<1>6. Timers'
  <2>1. OneEach(timeouts')
    BY DEF OwnMoves
  <2>2. \A op \in WaitingOps' : HasTimer(op, timeouts')
    BY <1>2
  <2>3. ASSUME NEW p \in Handed'
        PROVE  OwnTimer(p, timeouts', clock')
    <3>1. CASE p \in ToSet(active)
      BY <1>2, <3>1
    <3>2. CASE p.op.at = 0
      BY <3>2 DEF OwnTimer
    <3>3. ASSUME NEW op, NEW c, AnswersOp(p, op, c), HasTimer(op, timeouts'), op.at # 0 => op.c = c
          PROVE  OwnTimer(p, timeouts', clock')
      <4>1. CASE op.at # 0
        <5>. DEFINE t == [op |-> op, live |-> TRUE]
        <5>1. t \in timeouts' /\ t.op.at = p.op.at /\ t.op.c = c /\ p.coro = c /\ p.op.c = c
          BY <3>3, <4>1 DEF HasTimer, AnswersOp, SameOp
        <5>. HIDE DEF t
        <5>. QED  BY <2>1, <5>1 DEF OneEach, OwnTimer
      <4>2. CASE op.at = 0
        BY <3>3, <4>2 DEF AnswersOp, OwnTimer
      <4>. QED  BY <4>1, <4>2
    <3>4. cur.op.at # 0 => cur.op.c = cur.coro
      BY <1>1, OwnOps
    <3>. QED  BY <1>2, <2>3, <3>1, <3>2, <3>3, <3>4
  <2>. QED  BY <2>1, <2>2, <2>3 DEF Timers, OneEach, OwnTimer, HasTimer
<1>7. NoJoin'
  BY DEF NoJoin
<1>. QED  BY <1>4, <1>5, <1>6, <1>7 DEF Held

\* The steps of the main loop that no operation takes part in.
LEMMA LoopStepHeld ==
  ASSUME TypeOK, TypeOK', Flow, Held, LoopStep, UNCHANGED queueVars
  PROVE  Held'
<1>. USE DEF TypeOK
<1>1. UNCHANGED <<waiting_gets, waiting_puts, joinees>> /\ clock' = clock /\ clock \in Nat
  BY DEF queueVars, LoopStep, Pick, IdleTurn, Leave, RunDeadCoro, Start, FinalizeRaises,
         ProcessNone, DropStale, EndTimers, LoopTypeOK
<1>2. Waiters' = Waiters /\ WaitingOps' = WaitingOps
  BY <1>1 DEF Waiters, WaitingOps
<1>3. OnePlace(active, cur.coro, Waiters, Living)
  BY DEF Held, Placed
<1>4. CASE Pick
  <2>1. /\ active \in Seq(TaskType) /\ active # <<>> /\ cur' = Head(active) /\ active' = Tail(active)
        /\ phase = "pick" /\ phase' = "run" /\ UNCHANGED <<timeouts, state, pend>>
    BY <1>4 DEF Pick, LoopTypeOK
  <2>2. cur.coro = None /\ None \notin Living
    BY <2>1, NobodyPlaced DEF Flow, NoPair, Pair
  <2>3. Living' = Living
    BY <2>1 DEF Living, Alive
  <2>4. OnePlace(active, cur.coro, Waiters, Living)'
    <3>1. OnePlace(Tail(active), Head(active).coro, Waiters, Living)
      BY <1>3, <2>1, <2>2, TakeFirst
    <3>. QED  BY <3>1, <2>1, <2>3, <1>2 DEF OnePlace, Distinct, Coros
  <2>5. Handed' \subseteq Handed
    <3>1. \A p \in ToSet(Tail(active)) \cup {Head(active)} : p \in ToSet(active)
      BY <2>1 DEF ToSet
    <3>. QED  BY <2>1, <3>1 DEF Handed
  <2>. QED  BY <1>1, <2>1, <2>3, <2>4, <2>5, HeldStays
<1>5. CASE IdleTurn \/ Leave \/ RunDeadCoro \/ EndTimers
  <2>1. /\ UNCHANGED <<active, cur, timeouts, state, pend>> /\ phase' \notin {"process", "run"}
        /\ phase \notin {"process", "dead"}
    BY <1>5 DEF IdleTurn, Leave, RunDeadCoro, EndTimers
  <2>2. Living' = Living /\ Handed' \subseteq Handed
    BY <2>1 DEF Living, Alive, Handed
  <2>3. OnePlace(active, cur.coro, Waiters, Living)'
    BY <2>1, <2>2, <1>2, <1>3 DEF OnePlace, Distinct, Coros
  <2>. QED  BY <1>1, <2>1, <2>2, <2>3, HeldStays
<1>6. CASE Start
  <2>1. /\ UNCHANGED <<active, cur, timeouts, pend>> /\ phase' = "process" /\ phase = "run"
        /\ cur.op = NoOp /\ cur.coro \in Coro /\ state[cur.coro] = "need_init"
        /\ state' = [state EXCEPT ![cur.coro] = "running"]
    BY <1>6 DEF Start, LoopTypeOK, TaskType
  <2>2. Living' = Living /\ Handed' \subseteq Handed
    BY <2>1 DEF Living, Alive, Handed, LoopTypeOK
  <2>3. OnePlace(active, cur.coro, Waiters, Living)'
    BY <2>1, <2>2, <1>2, <1>3 DEF OnePlace, Distinct, Coros
  <2>. QED  BY <1>1, <2>1, <2>2, <2>3, OwnOps, HeldStays
<1>7. CASE FinalizeRaises
  <2>1. /\ UNCHANGED <<active, timeouts>> /\ phase' = "process" /\ phase = "run" /\ cur.coro \in Coro
        /\ cur' = Pair(CoroOp(cur.coro), cur.coro) /\ cur'.coro = cur.coro
        /\ cur'.op = CoroOp(cur.coro)
        /\ state' = [state EXCEPT ![cur.coro] = "failed"]
        /\ pend' = [pend EXCEPT ![cur.coro] = CoroOp(cur.coro)]
    BY <1>7 DEF FinalizeRaises, LoopTypeOK, TaskType, Pair
  <2>2. Living' \subseteq Living
    BY <2>1 DEF Living, Alive, LoopTypeOK
  <2>3. OwnMoves(timeouts)
    BY DEF OwnMoves, Held, Timers
  <2>4. \A c \in Coro : c # cur.coro => pend'[c] = pend[c] /\ state'[c] = state[c]
    BY <2>1 DEF LoopTypeOK
  <2>. QED  BY <1>1, <2>1, <2>2, <2>3, <2>4, OwnOps, ComesBackHeld
<1>8. CASE DropStale
  <2>1. PICK e \in timeouts : /\ e \in Expired /\ ~(e.live /\ Alive(e.op.c))
                              /\ timeouts' = timeouts \ {e}
    BY <1>8 DEF DropStale, Earliest
  <2>2. /\ UNCHANGED <<active, cur, phase, state, pend>> /\ phase = "timers"
    BY <1>8 DEF DropStale
  <2>3. Living' = Living /\ Handed' \subseteq Handed
    BY <2>2 DEF Living, Alive, Handed
  <2>4. \A op \in WaitingOps : e # [op |-> op, live |-> TRUE]
    BY <2>1 DEF Held, Waits
  <2>5. OnePlace(active, cur.coro, Waiters, Living)'
    BY <2>2, <2>3, <1>2, <1>3 DEF OnePlace, Distinct, Coros
  <2>. QED  BY <1>1, <2>1, <2>2, <2>3, <2>4, <2>5, HeldStays DEF Expired
<1>9. CASE ProcessNone
  <2>1. /\ phase = "process" /\ cur.op = NoOp /\ UNCHANGED <<timeouts, state, pend>>
        /\ active \in Seq(TaskType) /\ cur \in TaskType
        /\ \/ active' = Append(active, cur) /\ cur' = NoPair /\ phase' = "timers"
           \/ active' = active /\ cur' = cur /\ phase' = "run"
    BY <1>9, NobodyPlaced DEF ProcessNone, Continue, LoopTypeOK, NoPair, Pair
  <2>2. Living' = Living
    BY <2>1 DEF Living, Alive
  <2>3. OnePlace(active, cur.coro, Waiters, Living)'
    <3>1. OnePlace(Append(active, cur), None, Waiters, Living)
      BY <1>3, <2>1, NobodyPlaced, PutBack
    <3>. QED  BY <1>2, <1>3, <2>1, <2>2, <3>1, NobodyPlaced DEF OnePlace, Distinct, Coros
  <2>4. \A p \in Handed' : p \in ToSet(active) \/ p = cur
    <3>1. \A p \in ToSet(Append(active, cur)) : p \in ToSet(active) \/ p = cur
      BY <2>1 DEF ToSet
    <3>. QED  BY <2>1, <3>1 DEF Handed, ToSet
  <2>5. OwnMoves(timeouts')
    BY <2>1 DEF OwnMoves, Held, Timers
  <2>6. Placed'
    BY <1>1, <2>3 DEF Held, Placed
  <2>7. AnswersOp(cur, cur.op, cur.coro)
    BY <2>1, OwnOps DEF AnswersOp, SameOp, IsGet
  <2>8. HasTimer(cur.op, timeouts') /\ cur.op.k # "coro"
    BY <2>1, OwnOps DEF HasTimer
  <2>9. joinees' = <<>> /\ phase' \in {"run", "timers"}
    BY <1>1, <2>1 DEF Held, NoJoin
  <2>10. \A p \in Handed' :
            \/ p \in ToSet(active)
            \/ AnswersOp(p, cur.op, cur.coro) /\ cur.op.k # "coro" /\ HasTimer(cur.op, timeouts')
    BY <2>4, <2>7, <2>8
  <2>. QED  BY <1>1, <1>2, <2>1, <2>5, <2>6, <2>9, <2>10, HandsOver
<1>. QED  BY <1>4, <1>5, <1>6, <1>7, <1>8, <1>9 DEF LoopStep
-----------------------------------------------------------------------------
(***************************************************************************)
(* The process methods.                                                    *)
(***************************************************************************)
\* Who is handed something once the inner loop goes on with p, or ends.
LEMMA HandedAfter ==
  ASSUME NEW a, NEW p, Continue(a, p)
  PROVE  /\ Handed' = ToSet(a) \cup ({p} \ {NoPair})
         /\ active' = a /\ cur' = p /\ phase' \in {"run", "timers"}
BY DEF Continue, Handed

\* One that waits takes the place of the coroutine of the inner loop, which is queued.
LEMMA ChangesPlaces ==
  ASSUME NEW S, NEW a \in Seq(S), NEW p \in S, NEW c, NEW W, NEW living,
         OnePlace(a, p.coro, W, living), c \in W
  PROVE  /\ OnePlace(Append(a, p), c, W \ {c}, living)
         /\ OnePlace(<<p>> \o a, c, W \ {c}, living)
BY AppendCoros, ConsCoros DEF OnePlace

\* QDone has nobody to queue; None, or a coroutine that ended, waits for nothing.
LEMMA ProcessRestHeld ==
  ASSUME TypeOK, Flow, Held, Plain, ProcessEnd \/ ProcessDone \/ ProcessQJoin
  PROVE  Held'
<1>. USE DEF TypeOK
<1>1. /\ phase = "process" /\ active \in Seq(TaskType) /\ cur \in TaskType
      /\ joinees = <<>> /\ cur.op.k # "join"
      /\ UNCHANGED <<clock, state, pend, timeouts, waiting_gets, waiting_puts>>
  BY DEF ProcessEnd, ProcessDone, ProcessQJoin, Processing, queueVars, Held, NoJoin, LoopTypeOK
<1>2. Living' = Living /\ Waiters' = Waiters /\ WaitingOps' = WaitingOps
  BY <1>1 DEF Living, Alive, Waiters, WaitingOps
<1>3. OwnMoves(timeouts')
  BY <1>1 DEF OwnMoves, Held, Timers
<1>4. OnePlace(active, cur.coro, Waiters, Living)
  BY DEF Held, Placed
<1>5. CASE ProcessEnd
  <2>1. Continue(active, NoPair) /\ cur.op.k = "coro" /\ joinees' = <<>>
    BY <1>1, <1>5 DEF ProcessEnd, Processing, CoroOp, queueVars
  <2>2. Handed' = ToSet(active) /\ active' = active /\ cur' = NoPair /\ phase' \in {"run", "timers"}
    BY <2>1, HandedAfter
  <2>3. cur.coro \notin Living
    BY <1>1, <2>1 DEF Flow, Living
  <2>4. OnePlace(active, NoPair.coro, Waiters, Living)
    BY <1>4, <2>3, NobodyPlaced, Ends
  <2>5. Placed'
    BY <1>1, <1>2, <2>2, <2>4 DEF Held, Placed, OnePlace, Distinct, Coros
  <2>. QED  BY <1>1, <1>2, <1>3, <2>1, <2>2, <2>5, HandsOver
<1>6. CASE ProcessDone
  <2>1. Reverse(<<>>) \o active = active /\ active \o <<>> = active
    BY <1>1 DEF Reverse
  <2>2. Continue(active, cur) /\ cur.op.k = "done" /\ joinees' = <<>>
    BY <1>1, <1>6, <2>1 DEF ProcessDone, queueVars
  <2>3. Handed' = ToSet(active) \cup {cur} /\ active' = active /\ cur' = cur /\ phase' \in {"run", "timers"}
    BY <1>1, <2>2, HandedAfter, NobodyPlaced
  <2>4. Placed'
    BY <1>1, <1>2, <1>4, <2>3 DEF Held, Placed, OnePlace, Distinct, Coros
  <2>5. AnswersOp(cur, cur.op, cur.coro)
    BY <2>2 DEF AnswersOp, SameOp, IsGet
  <2>6. cur.op.at = 0
    BY <1>1, <2>2 DEF Held, Timers, IsGet, IsPut
  <2>7. HasTimer(cur.op, timeouts')
    BY <2>6 DEF HasTimer
  <2>. QED  BY <1>1, <1>2, <1>3, <2>2, <2>3, <2>4, <2>5, <2>7, HandsOver
<1>7. ~ProcessQJoin
  BY <1>1 DEF ProcessQJoin
<1>. QED  BY <1>5, <1>6, <1>7

\* What a get or a put is as it is processed.
LEMMA QueueOp ==
  ASSUME TypeOK, Flow, Held, Plain, ProcessGet \/ ProcessPut
  PROVE  /\ phase = "process" /\ active \in Seq(TaskType) /\ cur \in TaskType /\ cur.coro \in Coro
         /\ WithDefault(cur.op) = cur.op /\ cur.op.c = cur.coro /\ cur.op.k \notin {"coro", "none"}
         /\ ProcessGet => cur.op \in GetType
         /\ ProcessPut => cur.op \in PutType
         /\ cur.op \in GetType \cup PutType
         /\ Living' = Living /\ joinees' = <<>> /\ UNCHANGED <<clock, state, pend>>
         /\ OnePlace(active, cur.coro, Waiters, Living) /\ cur.coro \notin Waiters
<1>. USE DEF TypeOK
<1>1. /\ phase = "process" /\ active \in Seq(TaskType) /\ cur \in TaskType /\ cur.coro \in Coro
      /\ UNCHANGED <<clock, state, pend, joinees>>
  BY DEF ProcessGet, ProcessPut, Processing, LoopTypeOK, TaskType, GetNothing, GetItem,
         GetAndRefill, PutNoRoom, PutItem, PutToGetter
<1>2. WithDefault(cur.op) = cur.op
  BY DEF WithDefault, Plain
<1>3. /\ ProcessGet => cur.op \in GetType
      /\ ProcessPut => cur.op \in PutType
  BY <1>1 DEF ProcessGet, ProcessPut, TaskType, GetType, PutType
<1>4. cur.op.k \notin {"coro", "none"}
  BY DEF ProcessGet, ProcessPut, IsGet, IsPut
<1>5. cur.op.c = cur.coro
  BY <1>1, <1>4, OwnOps DEF Flow
<1>6. joinees' = <<>>
  BY <1>1 DEF Held, NoJoin
<1>7. Living' = Living
  BY <1>1 DEF Living, Alive
<1>8. OnePlace(active, cur.coro, Waiters, Living) /\ cur.coro \notin Waiters
  BY DEF Held, Placed, OnePlace
<1>. QED  BY <1>1, <1>2, <1>3, <1>4, <1>5, <1>6, <1>7, <1>8

\* The coroutine that got or put goes on, and nobody else takes part.
LEMMA GoesOnHeld ==
  ASSUME TypeOK, Flow, Held, Plain, ProcessGet \/ ProcessPut,
         UNCHANGED <<waiting_gets, waiting_puts>>, OwnMoves(timeouts'),
         NEW p \in TaskType, Continue(active, p), p.coro = cur.coro,
         \/ IsExc(p.op) /\ p.op.at = 0
         \/ AnswersOp(p, cur.op, cur.coro) /\ HasTimer(cur.op, timeouts')
  PROVE  Held'
<1>1. /\ Handed' = ToSet(active) \cup ({p} \ {NoPair}) /\ phase' \in {"run", "timers"}
      /\ active' = active /\ cur' = p
  BY HandedAfter
<1>2. Waiters' = Waiters /\ WaitingOps' = WaitingOps
  BY DEF Waiters, WaitingOps
<1>3. /\ phase = "process" /\ joinees' = <<>> /\ UNCHANGED <<clock, state, pend>>
      /\ Living' = Living /\ OnePlace(active, cur.coro, Waiters, Living) /\ cur.op.k # "coro"
  BY QueueOp
<1>4. Placed'
  BY <1>1, <1>2, <1>3 DEF Held, Placed, OnePlace, Distinct, Coros
<1>5. \A q \in Handed' : q \in ToSet(active) \/ q = p
  BY <1>1
<1>. QED  BY <1>1, <1>2, <1>3, <1>4, <1>5, HandsOver

\* The coroutine that got or put waits, in W, and the inner loop ends.
LEMMA BeginsHeld ==
  ASSUME TypeOK, Flow, Held, Plain, ProcessGet \/ ProcessPut, timeouts' = Pushed(cur.op),
         Continue(active, NoPair),
         \/ waiting_gets' = Append(waiting_gets, cur.op) /\ waiting_puts' = waiting_puts
            /\ cur.op \in GetType
         \/ waiting_puts' = Append(waiting_puts, cur.op) /\ waiting_gets' = waiting_gets
            /\ cur.op \in PutType
  PROVE  Held'
<1>1. /\ Handed' = ToSet(active) /\ phase' \in {"run", "timers"}
      /\ active' = active /\ cur' = NoPair
  BY HandedAfter
<1>2. /\ phase = "process" /\ joinees' = <<>> /\ UNCHANGED <<clock, state, pend>>
      /\ Living' = Living /\ OnePlace(active, cur.coro, Waiters, Living)
      /\ cur.coro \notin Waiters /\ cur.coro \in Coro
      /\ cur.op.k \notin {"coro", "none"} /\ cur.op.c = cur.coro /\ cur.op \in GetType \cup PutType
  BY QueueOp
<1>3. OwnMoves(timeouts') /\ HasTimer(cur.op, timeouts')
  BY <1>2, PushedMoves DEF HasTimer
<1>4. /\ Single(waiting_gets) /\ Single(waiting_puts)
      /\ Owners(waiting_gets) \cap Owners(waiting_puts) = {}
      /\ waiting_gets \in Seq(GetType) /\ waiting_puts \in Seq(PutType)
  BY DEF Held, Placed, TypeOK, QueueTypeOK
<1>5. /\ Waiters' = Waiters \cup {cur.coro}
      /\ WaitingOps' = WaitingOps \cup {cur.op}
      /\ Single(waiting_gets') /\ Single(waiting_puts')
      /\ Owners(waiting_gets') \cap Owners(waiting_puts') = {}
  <2>1. CASE waiting_gets' = Append(waiting_gets, cur.op) /\ waiting_puts' = waiting_puts
             /\ cur.op \in GetType
    <3>1. /\ Owners(waiting_gets') = Owners(waiting_gets) \cup {cur.coro}
          /\ Single(waiting_gets')
      BY <1>2, <1>4, <2>1, AppendOwners DEF Waiters
    <3>2. ToSet(waiting_gets') = ToSet(waiting_gets) \cup {cur.op}
      BY <1>4, <2>1, Members
    <3>. QED  BY <1>2, <1>4, <2>1, <3>1, <3>2 DEF Waiters, WaitingOps
  <2>2. CASE waiting_puts' = Append(waiting_puts, cur.op) /\ waiting_gets' = waiting_gets
             /\ cur.op \in PutType
    <3>1. /\ Owners(waiting_puts') = Owners(waiting_puts) \cup {cur.coro}
          /\ Single(waiting_puts')
      BY <1>2, <1>4, <2>2, AppendOwners DEF Waiters
    <3>2. ToSet(waiting_puts') = ToSet(waiting_puts) \cup {cur.op}
      BY <1>4, <2>2, Members
    <3>. QED  BY <1>2, <1>4, <2>2, <3>1, <3>2 DEF Waiters, WaitingOps
  <2>. QED  BY <2>1, <2>2
<1>6. OnePlace(active, None, Waiters \cup {cur.coro}, Living)
  BY <1>2, NobodyPlaced, CoroAssumption, BeginsToWait
<1>7. cur'.coro = None
  BY <1>1, NobodyPlaced
<1>8. OnePlace(active, cur.coro, Waiters, Living)'
  BY <1>1, <1>2, <1>5, <1>6, <1>7 DEF OnePlace, Distinct, Coros
<1>9. Placed'
  BY <1>5, <1>8 DEF Placed
<1>. QED  BY <1>1, <1>2, <1>3, <1>5, <1>9, HandsOver

\* The operation of the coroutine that has waited longest is completed too: one
\* of the two goes on, with p, the other is queued.
LEMMA HandoverHeld ==
  ASSUME TypeOK, Flow, Held, Plain, ProcessGet \/ ProcessPut, timeouts' = Pushed(cur.op),
         NEW me \in TaskType, AnswersOp(me, cur.op, cur.coro),
         NEW head \in WaitingOps, NEW other \in TaskType, AnswersOp(other, head, head.c),
         \/ waiting_gets # <<>> /\ head = Head(waiting_gets)
            /\ waiting_gets' = Tail(waiting_gets) /\ waiting_puts' = waiting_puts
         \/ waiting_puts # <<>> /\ head = Head(waiting_puts)
            /\ waiting_puts' = Tail(waiting_puts) /\ waiting_gets' = waiting_gets,
         NEW a, NEW p, Continue(a, p),
         \/ a \in {ToFront(me), ToBack(me)} /\ p = other
         \/ a \in {ToFront(other), ToBack(other)} /\ p = me
  PROVE  Held'
<1>1. /\ Handed' = ToSet(a) \cup ({p} \ {NoPair}) /\ phase' \in {"run", "timers"}
      /\ active' = a /\ cur' = p
  BY HandedAfter
<1>2. /\ phase = "process" /\ joinees' = <<>> /\ UNCHANGED <<clock, state, pend>>
      /\ Living' = Living /\ OnePlace(active, cur.coro, Waiters, Living)
      /\ cur.op.k \notin {"coro", "none"} /\ cur.op \in GetType \cup PutType
      /\ cur.op.c = cur.coro /\ active \in Seq(TaskType)
  BY QueueOp
<1>3. OwnMoves(timeouts') /\ HasTimer(cur.op, timeouts')
  BY <1>2, PushedMoves DEF HasTimer
<1>4. /\ Single(waiting_gets) /\ Single(waiting_puts)
      /\ Owners(waiting_gets) \cap Owners(waiting_puts) = {}
      /\ waiting_gets \in Seq(GetType) /\ waiting_puts \in Seq(PutType)
  BY DEF Held, Placed, TypeOK, QueueTypeOK
<1>5. /\ Waiters' = Waiters \ {head.c} /\ head.c \in Waiters
      /\ WaitingOps' \subseteq WaitingOps
      /\ Single(waiting_gets') /\ Single(waiting_puts')
      /\ Owners(waiting_gets') \cap Owners(waiting_puts') = {}
  <2>1. CASE waiting_gets # <<>> /\ head = Head(waiting_gets)
             /\ waiting_gets' = Tail(waiting_gets) /\ waiting_puts' = waiting_puts
    <3>1. /\ Owners(waiting_gets) = Owners(waiting_gets') \cup {head.c}
          /\ Single(waiting_gets') /\ head.c \notin Owners(waiting_gets')
      BY <1>4, <2>1, TailOwners
    <3>2. ToSet(waiting_gets') \subseteq ToSet(waiting_gets)
      BY <1>4, <2>1, Members
    <3>. QED  BY <1>4, <2>1, <3>1, <3>2 DEF Waiters, WaitingOps
  <2>2. CASE waiting_puts # <<>> /\ head = Head(waiting_puts)
             /\ waiting_puts' = Tail(waiting_puts) /\ waiting_gets' = waiting_gets
    <3>1. /\ Owners(waiting_puts) = Owners(waiting_puts') \cup {head.c}
          /\ Single(waiting_puts') /\ head.c \notin Owners(waiting_puts')
      BY <1>4, <2>2, TailOwners
    <3>2. ToSet(waiting_puts') \subseteq ToSet(waiting_puts)
      BY <1>4, <2>2, Members
    <3>. QED  BY <1>4, <2>2, <3>1, <3>2 DEF Waiters, WaitingOps
  <2>. QED  BY <2>1, <2>2
<1>6. me.coro = cur.coro /\ other.coro = head.c
  BY DEF AnswersOp
<1>7. OnePlace(a, p.coro, Waiters \ {head.c}, Living)
  <2>1. OnePlace(active, me.coro, Waiters, Living) /\ other.coro \in Waiters
    BY <1>2, <1>5, <1>6
  <2>2. CASE a \in {ToFront(me), ToBack(me)} /\ p = other
    <3>1. /\ OnePlace(Append(active, me), other.coro, Waiters \ {other.coro}, Living)
          /\ OnePlace(<<me>> \o active, other.coro, Waiters \ {other.coro}, Living)
      BY <1>2, <2>1, ChangesPlaces
    <3>. QED  BY <1>6, <2>2, <3>1 DEF ToFront, ToBack
  <2>3. CASE a \in {ToFront(other), ToBack(other)} /\ p = me
    <3>1. /\ OnePlace(Append(active, other), me.coro, Waiters \ {other.coro}, Living)
          /\ OnePlace(<<other>> \o active, me.coro, Waiters \ {other.coro}, Living)
      BY <1>2, <2>1, WakesOne
    <3>. QED  BY <1>6, <2>3, <3>1 DEF ToFront, ToBack
  <2>. QED  BY <2>2, <2>3
<1>8. Placed'
  BY <1>1, <1>2, <1>5, <1>7 DEF Placed, OnePlace, Distinct, Coros
<1>9. \A q \in Handed' : q \in ToSet(active) \/ q = me \/ q = other
  <2>1. \A x \in TaskType : /\ ToSet(ToFront(x)) = ToSet(active) \cup {x}
                            /\ ToSet(ToBack(x)) = ToSet(active) \cup {x}
    BY <1>2, Members DEF ToFront, ToBack
  <2>2. ToSet(a) \subseteq ToSet(active) \cup {me, other}
    BY <2>1
  <2>. QED  BY <1>1, <2>2
<1>10. /\ \A op \in WaitingOps' : op \in WaitingOps
       /\ \A q \in Handed' :
            \/ q \in ToSet(active)
            \/ AnswersOp(q, cur.op, cur.coro) /\ cur.op.k # "coro" /\ HasTimer(cur.op, timeouts')
            \/ \E op \in WaitingOps : AnswersOp(q, op, op.c)
  BY <1>2, <1>3, <1>5, <1>9
<1>. QED  BY <1>1, <1>2, <1>3, <1>8, <1>10, HandsOver

\* Who gets an item is given it, and who put one gets its operation back.
LEMMA Answers ==
  /\ \A op \in GetType, item \in Item : AnswersOp(With(op, item), op, op.c)
  /\ \A op \in PutType : AnswersOp(Waiter(op), op, op.c)
<1>1. ASSUME NEW op \in GetType, NEW item \in Item
      PROVE  AnswersOp(With(op, item), op, op.c)
  BY DEF With, Pair, AnswersOp, SameOp, GetType, OpType, RawOpType
<1>2. ASSUME NEW op \in PutType
      PROVE  AnswersOp(Waiter(op), op, op.c)
  BY DEF Waiter, Pair, AnswersOp, SameOp, PutType, IsGet, IsPut
<1>. QED  BY <1>1, <1>2

\* An exception answers anything, and has no deadline.
LEMMA ExceptionPairs ==
  \A c \in Coro, e \in {ErrorExc, TimeoutExc} :
    LET p == Pair(e, c) IN p \in TaskType /\ p.coro = c /\ IsExc(p.op) /\ p.op.at = 0
<1>. SUFFICES ASSUME NEW c \in Coro, NEW e \in {ErrorExc, TimeoutExc}
              PROVE  /\ Pair(e, c) \in TaskType /\ Pair(e, c).coro = c
                     /\ IsExc(Pair(e, c).op) /\ Pair(e, c).op.at = 0
  OBVIOUS
<1>1. e \in OpType /\ IsExc(e) /\ e.at = 0
  BY PlainOps DEF ErrorExc, TimeoutExc, NoOp, IsExc
<1>. QED  BY <1>1, PairTypes DEF Pair

\* QGet.process.
LEMMA ProcessGetHeld ==
  ASSUME TypeOK, Flow, Held, Plain, ProcessGet
  PROVE  Held'
<1>. DEFINE op == cur.op
<1>1. /\ op \in GetType /\ op.c = cur.coro /\ cur.coro \in Coro /\ phase = "process"
      /\ WithDefault(op) = op
  BY QueueOp
<1>2. GetNothing(op) \/ GetItem(op) \/ GetAndRefill(op)
  BY <1>1 DEF ProcessGet
<1>3. /\ OwnMoves(Pushed(op)) /\ OwnMoves(Retired(Pushed(op), op)) /\ HasTimer(op, Pushed(op))
  BY <1>1, PushedMoves DEF HasTimer
<1>4. CASE GetNothing(op) /\ Blocking(op)
  BY <1>1, <1>4, BeginsHeld DEF GetNothing
<1>5. CASE GetNothing(op) /\ ~Blocking(op)
  <2>1. /\ UNCHANGED <<waiting_gets, waiting_puts>> /\ Continue(active, Pair(ErrorExc, cur.coro))
        /\ timeouts' = Retired(Pushed(op), op)
    BY <1>5 DEF GetNothing, Throw
  <2>. QED  BY <1>1, <1>3, <2>1, ExceptionPairs, GoesOnHeld
<1>6. CASE GetItem(op)
  <2>1. /\ UNCHANGED <<waiting_gets, waiting_puts>> /\ queue # <<>>
        /\ Continue(active, With(op, Head(queue))) /\ timeouts' = Pushed(op)
    BY <1>6 DEF GetItem, Empty
  <2>2. Head(queue) \in Item
    BY <2>1 DEF TypeOK, QueueTypeOK
  <2>3. /\ With(op, Head(queue)) \in TaskType /\ AnswersOp(With(op, Head(queue)), op, cur.coro)
        /\ With(op, Head(queue)).coro = cur.coro
    BY <1>1, <2>2, PairTypes, Answers DEF AnswersOp
  <2>. QED  BY <1>3, <2>1, <2>3, GoesOnHeld
<1>7. CASE GetAndRefill(op)
  <2>. DEFINE me == With(op, Head(queue))
              put == Head(waiting_puts)
  <2>1. /\ queue # <<>> /\ waiting_puts # <<>> /\ waiting_puts' = Tail(waiting_puts)
        /\ timeouts' = Pushed(op) /\ waiting_gets' = waiting_gets
        /\ \E a, p : /\ Continue(a, p)
                     /\ \/ a \in {ToFront(me), ToBack(me)} /\ p = Waiter(put)
                        \/ a \in {ToFront(Waiter(put)), ToBack(Waiter(put))} /\ p = me
    BY <1>7 DEF GetAndRefill, Empty
  <2>2. Head(queue) \in Item /\ put \in PutType /\ put \in WaitingOps
    <3>1. queue \in Seq(Item) /\ waiting_puts \in Seq(PutType)
      BY DEF TypeOK, QueueTypeOK
    <3>2. put \in ToSet(waiting_puts)
      BY <2>1, <3>1, Members
    <3>. QED  BY <2>1, <3>1, <3>2 DEF WaitingOps
  <2>. HIDE DEF put
  <2>3. /\ me \in TaskType /\ AnswersOp(me, op, cur.coro)
        /\ Waiter(put) \in TaskType /\ AnswersOp(Waiter(put), put, put.c)
    BY <1>1, <2>2, PairTypes, Answers
  <2>. HIDE DEF me
  <2>. QED  BY <2>1, <2>2, <2>3, HandoverHeld DEF put
<1>. QED  BY <1>2, <1>4, <1>5, <1>6, <1>7

\* QPut.process.
LEMMA ProcessPutHeld ==
  ASSUME TypeOK, Flow, Held, Plain, ProcessPut
  PROVE  Held'
<1>. DEFINE op == cur.op
<1>1. /\ op \in PutType /\ op.c = cur.coro /\ cur.coro \in Coro /\ phase = "process"
      /\ WithDefault(op) = op
  BY QueueOp
<1>2. PutNoRoom(op) \/ PutItem(op) \/ PutToGetter(op)
  BY <1>1 DEF ProcessPut
<1>3. /\ OwnMoves(Pushed(op)) /\ OwnMoves(Retired(Pushed(op), op)) /\ HasTimer(op, Pushed(op))
  BY <1>1, PushedMoves DEF HasTimer
<1>4. /\ Waiter(op) \in TaskType /\ AnswersOp(Waiter(op), op, cur.coro)
      /\ Waiter(op).coro = cur.coro
  BY <1>1, PairTypes, Answers DEF AnswersOp
<1>5. CASE PutNoRoom(op) /\ Blocking(op)
  BY <1>1, <1>5, BeginsHeld DEF PutNoRoom
<1>6. CASE PutNoRoom(op) /\ ~Blocking(op)
  <2>1. /\ UNCHANGED <<waiting_gets, waiting_puts>> /\ Continue(active, Pair(ErrorExc, cur.coro))
        /\ timeouts' = Retired(Pushed(op), op)
    BY <1>6 DEF PutNoRoom, Throw
  <2>. QED  BY <1>1, <1>3, <2>1, ExceptionPairs, GoesOnHeld
<1>7. CASE PutItem(op)
  <2>1. /\ UNCHANGED <<waiting_gets, waiting_puts>>
        /\ Continue(active, Waiter(op)) /\ timeouts' = Pushed(op)
    BY <1>7 DEF PutItem
  <2>. QED  BY <1>3, <1>4, <2>1, GoesOnHeld
<1>8. CASE PutToGetter(op)
  <2>. DEFINE get == Head(waiting_gets)
              getter == With(get, op.arg)
              me == Waiter(op)
  <2>1. /\ waiting_gets # <<>> /\ waiting_gets' = Tail(waiting_gets)
        /\ timeouts' = Pushed(op) /\ waiting_puts' = waiting_puts
        /\ \E a, p : /\ Continue(a, p)
                     /\ \/ a \in {ToFront(me), ToBack(me)} /\ p = getter
                        \/ a \in {ToFront(getter), ToBack(getter)} /\ p = me
    BY <1>8 DEF PutToGetter
  <2>2. op.arg \in Item /\ get \in GetType /\ get \in WaitingOps
    <3>1. waiting_gets \in Seq(GetType)
      BY DEF TypeOK, QueueTypeOK
    <3>2. get \in ToSet(waiting_gets)
      BY <2>1, <3>1, Members
    <3>3. op.arg \in Item
      BY <1>1 DEF PutType, OpType
    <3>. QED  BY <2>1, <3>1, <3>2, <3>3 DEF WaitingOps
  <2>. HIDE DEF get
  <2>3. getter \in TaskType /\ AnswersOp(getter, get, get.c)
    BY <2>2, PairTypes, Answers
  <2>. HIDE DEF getter, me
  <2>. QED  BY <1>4, <2>1, <2>2, <2>3, HandoverHeld DEF get, me
<1>. QED  BY <1>2, <1>5, <1>6, <1>7, <1>8
-----------------------------------------------------------------------------
(***************************************************************************)
(* The timeouts.                                                           *)
(***************************************************************************)
\* What one operation less in a deque of waiting operations means.
LEMMA Withdrawn ==
  ASSUME TypeOK, Held, NEW op,
         \/ \E i \in DOMAIN waiting_gets : /\ op = waiting_gets[i]
                                           /\ waiting_gets' = RemoveAt(waiting_gets, i)
                                           /\ waiting_puts' = waiting_puts
         \/ \E i \in DOMAIN waiting_puts : /\ op = waiting_puts[i]
                                           /\ waiting_puts' = RemoveAt(waiting_puts, i)
                                           /\ waiting_gets' = waiting_gets
  PROVE  /\ op \in WaitingOps /\ op.c \in Waiters /\ Waiters' = Waiters \ {op.c}
         /\ \A w \in WaitingOps' : w \in WaitingOps /\ w.c # op.c
         /\ Single(waiting_gets') /\ Single(waiting_puts')
         /\ Owners(waiting_gets') \cap Owners(waiting_puts') = {}
<1>1. /\ Single(waiting_gets) /\ Single(waiting_puts)
      /\ Owners(waiting_gets) \cap Owners(waiting_puts) = {}
      /\ waiting_gets \in Seq(GetType) /\ waiting_puts \in Seq(PutType)
  BY DEF Held, Placed, TypeOK, QueueTypeOK
<1>2. ASSUME NEW s
      PROVE  \A w \in ToSet(s) : w.c \in Owners(s)
  BY DEF ToSet, Owners
<1>4. ASSUME NEW i \in DOMAIN waiting_gets, op = waiting_gets[i],
             waiting_gets' = RemoveAt(waiting_gets, i), waiting_puts' = waiting_puts
      PROVE  /\ op \in WaitingOps /\ op.c \in Waiters /\ Waiters' = Waiters \ {op.c}
             /\ \A w \in WaitingOps' : w \in WaitingOps /\ w.c # op.c
             /\ Single(waiting_gets') /\ Single(waiting_puts')
             /\ Owners(waiting_gets') \cap Owners(waiting_puts') = {}
  <2>1. /\ Owners(waiting_gets) = Owners(waiting_gets') \cup {op.c}
        /\ Single(waiting_gets') /\ op.c \notin Owners(waiting_gets')
    BY <1>1, <1>4, RemoveAtOwners
  <2>2. ToSet(waiting_gets') \subseteq ToSet(waiting_gets) /\ op \in ToSet(waiting_gets)
    <3>1. op \in ToSet(waiting_gets)
      BY <1>4 DEF ToSet
    <3>. QED  BY <1>1, <1>4, <3>1, RemoveAtMembers
  <2>. QED  BY <1>1, <1>2, <1>4, <2>1, <2>2 DEF Waiters, WaitingOps
<1>5. ASSUME NEW i \in DOMAIN waiting_puts, op = waiting_puts[i],
             waiting_puts' = RemoveAt(waiting_puts, i), waiting_gets' = waiting_gets
      PROVE  /\ op \in WaitingOps /\ op.c \in Waiters /\ Waiters' = Waiters \ {op.c}
             /\ \A w \in WaitingOps' : w \in WaitingOps /\ w.c # op.c
             /\ Single(waiting_gets') /\ Single(waiting_puts')
             /\ Owners(waiting_gets') \cap Owners(waiting_puts') = {}
  <2>1. /\ Owners(waiting_puts) = Owners(waiting_puts') \cup {op.c}
        /\ Single(waiting_puts') /\ op.c \notin Owners(waiting_puts')
    BY <1>1, <1>5, RemoveAtOwners
  <2>2. ToSet(waiting_puts') \subseteq ToSet(waiting_puts) /\ op \in ToSet(waiting_puts)
    <3>1. op \in ToSet(waiting_puts)
      BY <1>5 DEF ToSet
    <3>. QED  BY <1>1, <1>5, <3>1, RemoveAtMembers
  <2>. QED  BY <1>1, <1>2, <1>5, <2>1, <2>2 DEF Waiters, WaitingOps
<1>. QED  BY <1>4, <1>5

\* QGet.cleanup and QPut.cleanup: the operation whose timer expired leaves its
\* deque, and its coroutine is queued.
LEMMA ExpireHeld ==
  ASSUME TypeOK, Flow, Held, TimeoutGet \/ TimeoutPut
  PROVE  Held'
<1>1. PICK e \in timeouts, op \in WaitingOps :
        /\ Expire(e) /\ op.at = e.op.at
        /\ \/ \E i \in DOMAIN waiting_gets : /\ op = waiting_gets[i]
                                             /\ waiting_gets' = RemoveAt(waiting_gets, i)
                                             /\ waiting_puts' = waiting_puts
           \/ \E i \in DOMAIN waiting_puts : /\ op = waiting_puts[i]
                                             /\ waiting_puts' = RemoveAt(waiting_puts, i)
                                             /\ waiting_gets' = waiting_gets
  <2>1. CASE TimeoutGet
    <3>1. PICK e \in timeouts : \E i \in Removable(waiting_gets, e.op) :
            Expire(e) /\ waiting_gets' = RemoveAt(waiting_gets, i) /\ waiting_puts' = waiting_puts
      BY <2>1 DEF TimeoutGet
    <3>2. PICK i \in DOMAIN waiting_gets :
            /\ waiting_gets[i].at = e.op.at /\ Expire(e)
            /\ waiting_gets' = RemoveAt(waiting_gets, i) /\ waiting_puts' = waiting_puts
      BY <3>1 DEF Removable
    <3>3. waiting_gets[i] \in WaitingOps
      BY DEF WaitingOps, ToSet
    <3>. QED  BY <3>2, <3>3
  <2>2. CASE TimeoutPut
    <3>1. PICK e \in timeouts : \E i \in Removable(waiting_puts, e.op) :
            Expire(e) /\ waiting_puts' = RemoveAt(waiting_puts, i) /\ waiting_gets' = waiting_gets
      BY <2>2 DEF TimeoutPut
    <3>2. PICK i \in DOMAIN waiting_puts :
            /\ waiting_puts[i].at = e.op.at /\ Expire(e)
            /\ waiting_puts' = RemoveAt(waiting_puts, i) /\ waiting_gets' = waiting_gets
      BY <3>1 DEF Removable
    <3>3. waiting_puts[i] \in WaitingOps
      BY DEF WaitingOps, ToSet
    <3>. QED  BY <3>2, <3>3
  <2>. QED  BY <2>1, <2>2
<1>2. /\ op \in WaitingOps /\ op.c \in Waiters /\ Waiters' = Waiters \ {op.c}
      /\ \A w \in WaitingOps' : w \in WaitingOps /\ w.c # op.c
      /\ Single(waiting_gets') /\ Single(waiting_puts')
      /\ Owners(waiting_gets') \cap Owners(waiting_puts') = {}
  BY <1>1, Withdrawn
<1>. DEFINE p == Pair(TimeoutExc, e.op.c)
<1>3. /\ phase = "timers" /\ phase' = "timers" /\ e.op.at <= clock
      /\ timeouts' = timeouts \ {e} /\ active' = Append(active, p)
      /\ UNCHANGED <<cur, clock, state, pend, joinees>>
  BY <1>1 DEF Expire, Due, Earliest, Expired, ToBack
<1>4. e.op = op
  <2>1. OneEach(timeouts) /\ e.op.at # 0 /\ [op |-> op, live |-> TRUE] \in timeouts
    BY <1>1, <1>3 DEF Held, Timers, OneEach
  <2>2. [op |-> op, live |-> TRUE] = e
    BY <1>1, <2>1 DEF OneEach
  <2>. QED  BY <2>2
<1>5. /\ active \in Seq(TaskType) /\ p \in TaskType /\ p.coro = op.c
      /\ IsExc(p.op) /\ p.op.at = 0
  <2>1. e.op.c \in Coro
    BY PairTypes DEF TypeOK, LoopTypeOK, TimerType
  <2>. QED  BY <1>4, <2>1, ExceptionPairs DEF TypeOK, LoopTypeOK
<1>. HIDE DEF p
<1>6. Placed'
  <2>1. OnePlace(Append(active, p), cur.coro, Waiters \ {op.c}, Living)
    BY <1>2, <1>5, WakesOne DEF Held, Placed
  <2>2. Living' = Living
    BY <1>3 DEF Living, Alive
  <2>. QED  BY <1>2, <1>3, <2>1, <2>2 DEF Placed, OnePlace, Distinct, Coros
<1>7. Waits'
  BY <1>2, <1>3 DEF Held, Waits, Alive
<1>8. \A q \in Handed' : q \in Handed \/ q = p
  BY <1>3, <1>5, Members DEF Handed
<1>9. Answered'
  <2>1. p.op.k # "coro"
    BY <1>5 DEF IsExc
  <2>. QED  BY <1>3, <1>5, <1>8, <2>1 DEF Held, Answered
<1>10. Timers'
  <2>1. OneEach(timeouts')
    BY <1>3 DEF Held, Timers, OneEach
  <2>2. \A w \in WaitingOps' : w.at # 0 => [op |-> w, live |-> TRUE] \in timeouts'
    <3>1. ASSUME NEW w \in WaitingOps', w.at # 0
          PROVE  [op |-> w, live |-> TRUE] \in timeouts'
      <4>1. w # e.op /\ [op |-> w, live |-> TRUE] \in timeouts
        BY <1>2, <1>3, <1>4, <3>1 DEF Held, Timers
      <4>2. [op |-> w, live |-> TRUE] # e
        BY <4>1
      <4>. QED  BY <1>3, <4>1, <4>2
    <3>. QED  BY <3>1
  <2>3. ASSUME NEW q \in Handed'
        PROVE  OwnTimer(q, timeouts', clock')
    <3>1. CASE q = p
      BY <1>5, <3>1 DEF OwnTimer
    <3>2. CASE q \in Handed
      <4>1. OwnTimer(q, timeouts, clock)
        BY <3>2 DEF Held, Timers
      <4>2. \A f \in timeouts : f.op.at > clock => f # e
        BY <1>3 DEF TypeOK, LoopTypeOK, TimerType, GetType, PutType, OpType, RawOpType
      <4>. QED  BY <1>3, <4>1, <4>2 DEF OwnTimer
    <3>. QED  BY <1>8, <2>3, <3>1, <3>2
  <2>. QED  BY <1>3, <2>1, <2>2, <2>3 DEF Timers, OneEach, OwnTimer
<1>11. NoJoin'
  BY <1>3 DEF Held, NoJoin
<1>. QED  BY <1>6, <1>7, <1>9, <1>10, <1>11 DEF Held

\* The timer of an operation that waits is that of what its coroutine yielded
\* last, and nothing has scheduled it.
LEMMA WaitersWait ==
  ASSUME TypeOK, Held, NEW op \in WaitingOps
  PROVE  Alive(op.c) /\ Waiting(op)
<1>1. op.c \in Waiters
  BY DEF WaitingOps, Waiters, Owners, ToSet
<1>2. op.c \notin Coros(active) /\ cur.coro # op.c
  BY <1>1 DEF Held, Placed, OnePlace
<1>3. Alive(op.c) /\ SameOp(pend[op.c], op)
  BY DEF Held, Waits, SameOp
<1>. QED  BY <1>2, <1>3 DEF Waiting, Scheduled, Coros

\* A timer that is heeded too late, or in vain.
LEMMA HandleTimeoutHeld ==
  ASSUME TypeOK, TypeOK', Flow, Held, HandleTimeout
  PROVE  Held'
<1>1. CASE TimeoutGet \/ TimeoutPut
  BY <1>1, ExpireHeld
<1>2. CASE TimeoutTooLate \/ CleanupRaises
  <2>1. PICK e \in timeouts :
          /\ Due(e) /\ timeouts' = timeouts \ {e}
          /\ \/ ~Waiting(e.op) /\ phase' = phase
             \/ phase' = "dead"
    BY <1>2 DEF TimeoutTooLate, CleanupRaises
  <2>2. /\ phase = "timers" /\ phase' \in {"timers", "dead"} /\ e.op.at <= clock
        /\ UNCHANGED <<active, cur, clock, state, pend, waiting_gets, waiting_puts, joinees>>
    BY <1>2, <2>1 DEF TimeoutTooLate, CleanupRaises, Due, Earliest, Expired, queueVars
  <2>3. phase' = "dead" \/ \A op \in WaitingOps : e # [op |-> op, live |-> TRUE]
    <3>1. ASSUME NEW op \in WaitingOps, e = [op |-> op, live |-> TRUE], ~Waiting(e.op)
          PROVE  FALSE
      <4>1. e.op = op
        BY <3>1
      <4>. QED  BY <3>1, <4>1, WaitersWait
    <3>. QED  BY <2>1, <3>1
  <2>4. Living' = Living /\ Handed' \subseteq Handed /\ Waiters' = Waiters
    BY <2>2 DEF Living, Alive, Handed, Waiters
  <2>5. OnePlace(active, cur.coro, Waiters, Living)'
    BY <2>2, <2>4 DEF Held, Placed, OnePlace, Distinct, Coros
  <2>. QED  BY <2>1, <2>2, <2>3, <2>4, <2>5, HeldStays
<1>. QED  BY <1>1, <1>2 DEF HandleTimeout

\* Every step keeps everyone in one place.
LEMMA NextHeld ==
  ASSUME TypeOK, TypeOK', Flow, Held, Plain, [Next]_vars
  PROVE  Held'
<1>1. CASE LoopStep /\ UNCHANGED queueVars
  BY <1>1, LoopStepHeld
<1>2. CASE Resume
  BY <1>2, ResumeHeld
<1>3. CASE Process
  BY <1>3, ProcessGetHeld, ProcessPutHeld, ProcessRestHeld DEF Process
<1>4. CASE HandleTimeout
  BY <1>4, HandleTimeoutHeld
<1>5. CASE Tick /\ UNCHANGED queueVars
  <2>1. /\ phase \in {"pick", "run"} /\ phase' = phase /\ clock' = clock + 1 /\ clock \in Nat
        /\ UNCHANGED <<active, timeouts, cur, state, pend, waiting_gets, waiting_puts, joinees>>
    BY <1>5 DEF Tick, queueVars, TypeOK, LoopTypeOK
  <2>2. Living' = Living /\ Handed' \subseteq Handed /\ Waiters' = Waiters
    BY <2>1 DEF Living, Alive, Handed, Waiters
  <2>3. OnePlace(active, cur.coro, Waiters, Living)'
    BY <2>1, <2>2 DEF Held, Placed, OnePlace, Distinct, Coros
  <2>. QED  BY <2>1, <2>2, <2>3, HeldStays
<1>6. CASE (Over \/ UNCHANGED vars) /\ UNCHANGED queueVars
  <2>1. UNCHANGED <<active, timeouts, cur, phase, clock, state, pend, waiting_gets, waiting_puts, joinees>>
    BY <1>6 DEF Over, vars, loopVars, queueVars
  <2>2. Living' = Living /\ Handed' = Handed /\ Waiters' = Waiters /\ WaitingOps' = WaitingOps
    BY <2>1 DEF Living, Alive, Handed, Waiters, WaitingOps
  <2>3. Placed'
    BY <2>1, <2>2 DEF Held, Placed, OnePlace, Distinct, Coros
  <2>4. Waits' /\ Answered' /\ NoJoin'
    BY <2>1, <2>2 DEF Held, Waits, Answered, NoJoin, Alive
  <2>5. Timers'
    BY <2>1, <2>2 DEF Held, Timers, OneEach, OwnTimer
  <2>. QED  BY <2>3, <2>4, <2>5 DEF Held
<1>. QED  BY <1>1, <1>2, <1>3, <1>4, <1>5, <1>6 DEF Next, Loop, vars

\* A coroutine is in one place.
LEMMA PlacedOnce ==
  ASSUME TypeOK, Placed, NEW c \in Coro, Alive(c)
  PROVE  Cardinality(Places(c)) = 1
<1>. DEFINE A == {<<"active", i>> : i \in At(active, c)}
            C == {<<"cur">> : x \in {cur.coro} \cap {c}}
            G == {<<"get", i>> : i \in By(waiting_gets, c)}
            P == {<<"put", i>> : i \in By(waiting_puts, c)}
<1>1. Places(c) = A \cup C \cup G \cup P
  BY DEF Places
<1>2. /\ A # {} => c \in Coros(active)
      /\ C # {} => c = cur.coro
      /\ G # {} => c \in Owners(waiting_gets)
      /\ P # {} => c \in Owners(waiting_puts)
  BY DEF Coros, Owners, At, By
<1>3. /\ c \in Coros(active) => A # {}
      /\ c = cur.coro => C # {}
      /\ c \in Owners(waiting_gets) => G # {}
      /\ c \in Owners(waiting_puts) => P # {}
  BY DEF Coros, Owners, At, By
<1>4. /\ \A x, y \in A : x = y
      /\ \A x, y \in C : x = y
      /\ \A x, y \in G : x = y
      /\ \A x, y \in P : x = y
  BY DEF Placed, OnePlace, Distinct, Single, At, By
<1>. HIDE DEF A, C, G, P
<1>5. c \in Coros(active) \cup Owners(waiting_gets) \cup Owners(waiting_puts) \cup {cur.coro}
  BY DEF Placed, OnePlace, Living, Waiters
<1>6. Places(c) # {}
  BY <1>1, <1>3, <1>5
<1>7. ASSUME NEW x \in Places(c), NEW y \in Places(c)
      PROVE  x = y
  BY <1>1, <1>2, <1>4, <1>7 DEF Placed, OnePlace, Waiters
<1>8. PICK x \in Places(c) : TRUE
  BY <1>6
<1>9. Places(c) = {x}
  BY <1>7, <1>8
<1>. QED  BY <1>9, FS_Singleton

LEMMA AlwaysHeld == ASSUME Plain PROVE Spec => [](TypeOK /\ Flow /\ Held)
<1>1. Init => TypeOK /\ Flow /\ Held
  BY InitType, InitFlow, InitHeld
<1>2. TypeOK /\ Flow /\ Held /\ [Next]_vars => (TypeOK /\ Flow /\ Held)'
  <2>. SUFFICES ASSUME TypeOK, Flow, Held, [Next]_vars PROVE TypeOK' /\ Flow' /\ Held'
    OBVIOUS
  <2>1. TypeOK' /\ Flow'
    BY NextType, NextFlow
  <2>. QED  BY <2>1, NextHeld
<1>. QED  BY <1>1, <1>2, PTL DEF Spec

\* A coroutine that lives is queued once, runs, or waits once, and is never
\* lost, whatever the order of puts, gets and timeouts.
THEOREM QueuedOnce ==
  ASSUME Ties = FALSE, DefaultTimeout = 0, "join" \notin Kinds
  PROVE  Spec => []ExactlyOnePlace
<1>1. Spec => [](TypeOK /\ Flow /\ Held)
  BY AlwaysHeld DEF Plain
<1>2. TypeOK /\ Flow /\ Held => ExactlyOnePlace
  BY PlacedOnce DEF Held, ExactlyOnePlace
<1>. QED  BY <1>1, <1>2, PTL

\* What get() returns is an item, and the answer to this very get().
THEOREM GetsGetItems ==
  ASSUME Ties = FALSE, DefaultTimeout = 0, "join" \notin Kinds
  PROVE  Spec => []GetReturnsItem
<1>1. Spec => [](TypeOK /\ Flow /\ Held)
  BY AlwaysHeld DEF Plain
<1>2. TypeOK /\ Flow /\ Held => GetReturnsItem
  BY DEF Held, Answered, Handed, GetReturnsItem, SameOp, IsGet
<1>. QED  BY <1>1, <1>2, PTL

\* Whoever waits with a deadline is woken at it, unless the loop dies first.
THEOREM TimersAreSet ==
  ASSUME Ties = FALSE, DefaultTimeout = 0, "join" \notin Kinds
  PROVE  Spec => []WaitingHasTimer
<1>1. Spec => [](TypeOK /\ Flow /\ Held)
  BY AlwaysHeld DEF Plain
<1>2. ASSUME TypeOK, Held
      PROVE  WaitingHasTimer
  <2>1. \A op \in ToSet(waiting_gets \o waiting_puts) : op \in WaitingOps
    <3>1. waiting_gets \in Seq(GetType) /\ waiting_puts \in Seq(PutType)
      BY <1>2 DEF TypeOK, QueueTypeOK
    <3>2. /\ DOMAIN (waiting_gets \o waiting_puts) = 1 .. Len(waiting_gets) + Len(waiting_puts)
          /\ \A i \in 1 .. Len(waiting_gets) + Len(waiting_puts) :
               (waiting_gets \o waiting_puts)[i] =
                 IF i <= Len(waiting_gets) THEN waiting_gets[i] ELSE waiting_puts[i - Len(waiting_gets)]
      BY <3>1
    <3>3. ASSUME NEW i \in 1 .. Len(waiting_gets) + Len(waiting_puts)
          PROVE  (waiting_gets \o waiting_puts)[i] \in WaitingOps
      <4>1. CASE i <= Len(waiting_gets)
        <5>1. i \in DOMAIN waiting_gets /\ (waiting_gets \o waiting_puts)[i] = waiting_gets[i]
          BY <3>1, <3>2, <4>1
        <5>. QED  BY <5>1 DEF WaitingOps, ToSet
      <4>2. CASE i > Len(waiting_gets)
        <5>1. /\ i - Len(waiting_gets) \in DOMAIN waiting_puts
              /\ (waiting_gets \o waiting_puts)[i] = waiting_puts[i - Len(waiting_gets)]
          BY <3>1, <3>2, <4>2
        <5>. QED  BY <5>1 DEF WaitingOps, ToSet
      <4>. QED  BY <3>1, <4>1, <4>2
    <3>. QED  BY <3>2, <3>3 DEF ToSet
  <2>2. \A op \in WaitingOps : LET e == [op |-> op, live |-> TRUE] IN SameOp(e.op, op) /\ e.live
    BY DEF SameOp
  <2>. QED  BY <1>2, <2>1, <2>2 DEF Held, Timers, WaitingHasTimer
<1>3. TypeOK /\ Flow /\ Held => WaitingHasTimer
  BY <1>2
<1>. QED  BY <1>1, <1>3, PTL
=============================================================================
