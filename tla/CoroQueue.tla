----------------------------- MODULE CoroQueue -----------------------------
(***************************************************************************)
(* cogen/core/queue.py: Queue and its operations QGet, QPut, QDone and     *)
(* QJoin, run by the main loop of SchedCore.  The program is a fixed set   *)
(* of coroutines that share one queue.  An item is the identity of the put *)
(* that brought it, so no two items are the same.                          *)
(***************************************************************************)
EXTENDS SchedCore

CONSTANTS
  MaxSize,         \* Queue.maxsize; 0 stands for no limit
  Prios,           \* priorities of operations, DEFAULT already replaced
  Kinds            \* what the coroutines of the program do

AllKinds == {"none", "raise", "get", "put", "get_nowait", "put_nowait", "task_done", "join"}

ASSUME SizeAssumption == MaxSize \in Nat
ASSUME PrioAssumption == Prios \subseteq 0..3
ASSUME KindsAssumption == Kinds \subseteq AllKinds

VARIABLES
  queue,           \* Queue.queue: the items there are, oldest first
  waiting_gets,    \* Queue.waiting_gets: the QGet operations that wait
  waiting_puts,    \* Queue.waiting_puts: the QPut operations that wait
  unfinished,      \* Queue.unfinished_tasks
  joinees,         \* Queue.joinees: the (op, coro) pairs that joined
  got,             \* history: the items handed out, in order
  done             \* history: number of calls of task_done

queueVars == <<queue, waiting_gets, waiting_puts, unfinished, joinees, got, done>>
vars == <<loopVars, queueVars>>

Init ==
  /\ LoopInit
  /\ queue = <<>>
  /\ waiting_gets = <<>>
  /\ waiting_puts = <<>>
  /\ unfinished = 0
  /\ joinees = <<>>
  /\ got = <<>>
  /\ done = 0
-----------------------------------------------------------------------------
(***************************************************************************)
(* What the running coroutine may do.                                      *)
(***************************************************************************)
Does(k) == k \in Kinds /\ phase = "run"

Blocking(op) == op.k \in {"get", "put"}
IsGet(op) == op.k \in {"get", "get_nowait"}
IsPut(op) == op.k \in {"put", "put_nowait"}

YieldGet == \E k \in {"get", "get_nowait"}, at \in Deadlines, pr \in Prios :
  /\ Does(k) /\ YieldOp(Op(k, cur.coro, None, at, pr, 0))
  /\ UNCHANGED queueVars

YieldPut == \E k \in {"put", "put_nowait"}, at \in Deadlines, pr \in Prios :
  /\ Does(k)
  /\ YieldOp(Op(k, cur.coro, <<cur.coro, opn[cur.coro] + 1>>, at, pr, 0))
  /\ UNCHANGED queueVars

\* yield q.task_done(): an operation only when the count reaches zero, and a
\* ValueError (see Fail) when there is nothing left to be done.
YieldTaskDone == \E pr \in Prios :
  /\ Does("task_done") /\ unfinished > 0
  /\ IF unfinished = 1 THEN YieldOp(Op("done", cur.coro, None, 0, pr, 0))
                       ELSE YieldNone
  /\ unfinished' = unfinished - 1
  /\ done' = done + 1
  /\ UNCHANGED <<queue, waiting_gets, waiting_puts, joinees, got>>

\* yield q.join(): an operation only when the count is not zero, and None (see
\* Rest) when it is.
YieldQJoin ==
  /\ Does("join") /\ unfinished # 0
  /\ YieldOp(Op("join", cur.coro, None, 0, 0, 0))
  /\ UNCHANGED queueVars

\* A bare yield, or that of a join() with nothing to wait for.
Rest ==
  /\ Does("none") \/ (Does("join") /\ unfinished = 0)
  /\ YieldNone /\ UNCHANGED queueVars

\* The coroutine fails, by itself or as it calls task_done() once too often.
Fail ==
  /\ Does("raise") \/ (Does("task_done") /\ unfinished = 0)
  /\ Raise /\ UNCHANGED queueVars

Resume ==
  \/ phase = "run" /\ Return /\ UNCHANGED queueVars
  \/ Rest \/ Fail
  \/ YieldGet \/ YieldPut \/ YieldTaskDone \/ YieldQJoin
-----------------------------------------------------------------------------
(***************************************************************************)
(* Scheduler.process_op: the process method of each operation.             *)
(***************************************************************************)
Processing(op) == phase = "process" /\ cur.op = op /\ UNCHANGED <<running, clock, state, opn, pend>>

\* A coroutine of this program has no caller and no waiters.
ProcessEnd ==
  /\ Processing(CoroOp(cur.coro))
  /\ Continue(active, NoPair)
  /\ UNCHANGED <<timeouts, queueVars>>

\* Mutant: off by one.
AlmostEmpty == Len(queue) <= 1

Empty == queue = <<>>

\* Mutant: off by one.
Overfull == MaxSize > 0 /\ Len(queue) = MaxSize + 1

Full == MaxSize > 0 /\ Len(queue) = MaxSize

\* Mutant: the result is not set.
WithNothing(op, item) == Pair(op, op.c)

\* Mutant: the attribute `caller' was not set.
Nobody(op) == Pair(op, None)

\* The getter with its item, and the operation of a waiting coroutine.
With(op, item) == Pair([op EXCEPT !.arg = item], op.c)
Waiter(op) == Pair(op, op.c)

ToFront(p) == <<p>> \o active
ToBack(p) == Append(active, p)

\* QGet.process on an empty queue: wait, or raise Empty.
GetNothing(op) ==
  /\ Empty
  /\ IF Blocking(op)
     THEN /\ waiting_gets' = Append(waiting_gets, op)
          /\ timeouts' = Pushed(op)
          /\ Continue(active, NoPair)
     ELSE Throw(ErrorExc, Pushed(op)) /\ UNCHANGED waiting_gets
  /\ UNCHANGED <<queue, waiting_puts, unfinished, joinees, got, done>>

\* QGet.process, nobody waits to put: the getter goes on with the item.
GetItem(op) ==
  /\ ~Empty /\ waiting_puts = <<>>
  /\ queue' = Tail(queue)
  /\ got' = Append(got, Head(queue))
  /\ timeouts' = Pushed(op)
  /\ Continue(active, With(op, Head(queue)))
  /\ UNCHANGED <<waiting_gets, waiting_puts, unfinished, joinees, done>>

\* Mutant: the room that was made is left empty.
GetWithoutRefill(op) ==
  /\ ~Empty /\ waiting_puts # <<>>
  /\ queue' = Tail(queue)
  /\ got' = Append(got, Head(queue))
  /\ timeouts' = Pushed(op)
  /\ Continue(active, With(op, Head(queue)))
  /\ UNCHANGED <<waiting_gets, waiting_puts, unfinished, joinees, done>>

\* Mutant: the room goes to the youngest of the waiting puts.
GetAndRefillYoungest(op) ==
  /\ ~Empty /\ waiting_puts # <<>>
  /\ queue' = Append(Tail(queue), Last(waiting_puts).arg)
  /\ waiting_puts' = Front(waiting_puts)
  /\ got' = Append(got, Head(queue))
  /\ timeouts' = Pushed(op)
  /\ Continue(ToBack(With(op, Head(queue))), Waiter(Last(waiting_puts)))
  /\ UNCHANGED <<waiting_gets, unfinished, joinees, done>>

(***************************************************************************)
(* QGet.process, with puts that wait: the room goes to the oldest of them. *)
(* Puts wait only at a full queue (FullWhilePutsWait), so the item taken   *)
(* makes room for exactly one, and the loop ends after one turn.           *)
(***************************************************************************)
GetAndRefill(op) ==
  LET me == With(op, Head(queue))
      put == Head(waiting_puts)
  IN
  /\ ~Empty /\ waiting_puts # <<>>
  /\ queue' = Append(Tail(queue), put.arg)
  /\ waiting_puts' = Tail(waiting_puts)
  /\ got' = Append(got, Head(queue))
  /\ timeouts' = Pushed(op)
  /\ IF FavorsCoro(put.pr)
     THEN Continue(IF FavorsOp(put.pr) THEN ToFront(me) ELSE ToBack(me), Waiter(put))
     ELSE Continue(IF FavorsOp(put.pr) THEN ToFront(Waiter(put)) ELSE ToBack(Waiter(put)), me)
  /\ UNCHANGED <<waiting_gets, unfinished, joinees, done>>

ProcessGet ==
  LET op == WithDefault(cur.op) IN
  /\ Processing(cur.op) /\ IsGet(cur.op)
  /\ GetNothing(op) \/ GetItem(op) \/ GetAndRefill(op)

\* QPut.process on a full queue: wait, or raise Full.
PutNoRoom(op) ==
  /\ Full
  /\ IF Blocking(op)
     THEN /\ waiting_puts' = Append(waiting_puts, op)
          /\ unfinished' = unfinished + 1
          /\ timeouts' = Pushed(op)
          /\ Continue(active, NoPair)
     ELSE Throw(ErrorExc, Pushed(op)) /\ UNCHANGED <<waiting_puts, unfinished>>
  /\ UNCHANGED <<queue, waiting_gets, joinees, got, done>>

\* QPut.process, nobody waits to get.
PutItem(op) ==
  /\ ~Full /\ waiting_gets = <<>>
  /\ queue' = Append(queue, op.arg)
  /\ unfinished' = unfinished + 1
  /\ timeouts' = Pushed(op)
  /\ Continue(active, Waiter(op))
  /\ UNCHANGED <<waiting_gets, waiting_puts, joinees, got, done>>

\* The handover to the oldest waiting get, as the mutants of PutToGetter make it.
BareHandover(op, rest, count, a, p) ==
  /\ ~Full /\ waiting_gets # <<>>
  /\ waiting_gets' = rest
  /\ unfinished' = count
  /\ got' = Append(got, op.arg)
  /\ timeouts' = Pushed(op)
  /\ Continue(a, p)
  /\ UNCHANGED <<queue, waiting_puts, joinees, done>>

\* Mutant: the coroutine that puts is not queued.
PutToGetterOnly(op) == BareHandover(op, Tail(waiting_gets), unfinished + 1,
  active, With(Head(waiting_gets), op.arg))

\* Mutant: an item that is handed over at once does not count as a task.
PutUncounted(op) == BareHandover(op, Tail(waiting_gets), unfinished,
  ToBack(Waiter(op)), With(Head(waiting_gets), op.arg))

\* QPut.process, with gets that wait: the item goes to the oldest of them.
PutToGetter(op) ==
  LET get == Head(waiting_gets)
      getter == With(get, op.arg)
      me == Waiter(op)
  IN
  /\ ~Full /\ waiting_gets # <<>>
  /\ waiting_gets' = Tail(waiting_gets)
  /\ unfinished' = unfinished + 1
  /\ got' = Append(got, op.arg)
  /\ timeouts' = Pushed(op)
  /\ IF op.pr # 0
     THEN Continue(IF FavorsCoro(op.pr) THEN ToFront(me) ELSE ToBack(me), getter)
     ELSE Continue(IF get.pr # 0 THEN ToFront(getter) ELSE ToBack(getter), me)
  /\ UNCHANGED <<queue, waiting_puts, joinees, done>>

ProcessPut ==
  LET op == WithDefault(cur.op) IN
  /\ Processing(cur.op) /\ IsPut(cur.op)
  /\ PutNoRoom(op) \/ PutItem(op) \/ PutToGetter(op)

\* Mutant: the joinees are not queued.
ProcessDoneAlone ==
  /\ Processing(cur.op) /\ cur.op.k = "done"
  /\ Continue(active, cur)
  /\ UNCHANGED <<timeouts, queueVars>>

\* QDone.process queues the joinees, and keeps them in the list.
ProcessDone ==
  /\ Processing(cur.op) /\ cur.op.k = "done"
  /\ Continue(IF FavorsOp(cur.op.pr) THEN Reverse(joinees) \o active ELSE active \o joinees, cur)
  /\ UNCHANGED <<timeouts, queueVars>>

ProcessQJoin ==
  /\ Processing(cur.op) /\ cur.op.k = "join"
  /\ IF unfinished = 0
     THEN Continue(active, cur) /\ UNCHANGED joinees
     ELSE Continue(active, NoPair) /\ joinees' = Append(joinees, cur)
  /\ UNCHANGED <<timeouts, queue, waiting_gets, waiting_puts, unfinished, got, done>>

Process == ProcessEnd \/ ProcessGet \/ ProcessPut \/ ProcessDone \/ ProcessQJoin
-----------------------------------------------------------------------------
(***************************************************************************)
(* Scheduler.handle_timeouts: QGet.cleanup and QPut.cleanup.  The flag     *)
(* `waiting' is set when the operation begins to wait and cleared as it is *)
(* handed over, which schedules its coroutine.                             *)
(***************************************************************************)
Waiting(op) == SameOp(pend[op.c], op) /\ ~Scheduled(op.c)

(***************************************************************************)
(* deque.remove(op) compares operations by their deadline, from the head:  *)
(* it takes out the first that ties with op, and raises TypeError when it  *)
(* meets one that has none before that.                                    *)
(***************************************************************************)
Removable(W, op) == {i \in DOMAIN W :
  W[i].at = op.at /\ \A j \in 1 .. i - 1 : W[j].at \notin {0, op.at}}

\* The operation is out of time: e leaves the heap, the coroutine is told.
Expire(e) ==
  /\ Due(e) /\ Waiting(e.op)
  /\ timeouts' = timeouts \ {e}
  /\ active' = ToBack(Pair(TimeoutExc, e.op.c))
  /\ UNCHANGED <<running, cur, phase, clock, state, opn, pend,
                 queue, unfinished, joinees, got, done>>

\* Mutant: the operation stays in the deque.
TimeoutGetKept == \E e \in timeouts :
  /\ IsGet(e.op) /\ Expire(e)
  /\ UNCHANGED <<waiting_gets, waiting_puts>>

TimeoutGet == \E e \in timeouts :
  /\ IsGet(e.op)
  /\ \E i \in Removable(waiting_gets, e.op) : waiting_gets' = RemoveAt(waiting_gets, i)
  /\ Expire(e)
  /\ UNCHANGED waiting_puts

TimeoutPut == \E e \in timeouts :
  /\ IsPut(e.op)
  /\ \E i \in Removable(waiting_puts, e.op) : waiting_puts' = RemoveAt(waiting_puts, i)
  /\ Expire(e)
  /\ UNCHANGED waiting_gets

\* The exception leaves handle_timeouts, and the main loop.
CleanupRaises == \E e \in timeouts :
  /\ Due(e) /\ Waiting(e.op)
  /\ Removable(IF IsGet(e.op) THEN waiting_gets ELSE waiting_puts, e.op) = {}
  /\ timeouts' = timeouts \ {e}
  /\ phase' = "dead"
  /\ UNCHANGED <<active, running, cur, clock, state, opn, pend, queueVars>>

\* The operation has completed, but its coroutine has not run yet: cleanup
\* returns nothing, and the entry is gone.
TimeoutTooLate == \E e \in timeouts :
  /\ Due(e) /\ ~Waiting(e.op)
  /\ timeouts' = timeouts \ {e}
  /\ UNCHANGED <<active, running, cur, phase, clock, state, opn, pend, queueVars>>

HandleTimeout == TimeoutGet \/ TimeoutPut \/ TimeoutTooLate \/ CleanupRaises
-----------------------------------------------------------------------------
Loop == (LoopStep /\ UNCHANGED queueVars) \/ Resume \/ Process \/ HandleTimeout

Next ==
  \/ Loop
  \/ Tick /\ UNCHANGED queueVars
  \/ Over /\ UNCHANGED queueVars

Spec == Init /\ [][Next]_vars

\* See Scheduler: the loop does not pause, and time passes.
Fairness == WF_vars(Loop) /\ SF_vars(Tick /\ UNCHANGED queueVars)

FairSpec == Spec /\ Fairness
-----------------------------------------------------------------------------
(***************************************************************************)
(* Properties.                                                             *)
(***************************************************************************)
Item == Coro \X (1 .. MaxOps)
RawOpType == [k : AllKinds \cup {"coro", "done", "timeout", "error"},
              c : Coro \cup {None}, n : Nat, at : Nat,
              arg : Item \cup {None}, pr : 0..3, recipients : Nat]
OpType == {op \in RawOpType :
             /\ IsGet(op) \/ IsPut(op) => op.c \in Coro
             /\ IsPut(op) => op.arg \in Item}
GetType == {op \in OpType : IsGet(op)}
PutType == {op \in OpType : IsPut(op)}
TaskType == [op : OpType, coro : Coro]
TimerType == [op : GetType \cup PutType, live : BOOLEAN]

LoopTypeOK ==
  /\ active \in Seq(TaskType)
  /\ timeouts \subseteq TimerType
  /\ running \in BOOLEAN
  /\ cur \in TaskType \cup {NoPair}
  /\ phase \in {"pick", "run", "process", "timers", "done", "dead"}
  /\ phase \in {"run", "process"} => cur \in TaskType
  /\ clock \in Nat
  /\ state \in [Coro -> {"absent", "need_init", "running", "completed",
                         "failed", "finalized"}]
  /\ opn \in [Coro -> Nat]
  /\ pend \in [Coro -> OpType]

QueueTypeOK ==
  /\ queue \in Seq(Item)
  /\ waiting_gets \in Seq(GetType)
  /\ waiting_puts \in Seq(PutType)
  /\ unfinished \in Nat
  /\ joinees \in Seq(TaskType)
  /\ got \in Seq(Item)
  /\ done \in Nat

\* The state of the loop and of the queue is well formed: what is queued or
\* waits is an operation of a coroutine, and the waiting puts carry items.
TypeOK == LoopTypeOK /\ QueueTypeOK

\* A coroutine waits to get only while there is nothing to get: an item never
\* lies in the queue, nor waits to get in, beside a waiting get.
EmptyWhileGetsWait == waiting_gets # <<>> => queue = <<>> /\ waiting_puts = <<>>

\* A coroutine waits to put only while the queue is full, so the loop of
\* QGet.process never runs out of puts.
FullWhilePutsWait ==
  waiting_puts # <<>> => MaxSize > 0 /\ Len(queue) = MaxSize

\* The queue never holds more than maxsize items, handovers included.
WithinCapacity == MaxSize > 0 => Len(queue) <= MaxSize

\* Everything that may resume coroutine c one day.
At(seq, c) == {i \in DOMAIN seq : seq[i].coro = c}
By(ops, c) == {i \in DOMAIN ops : ops[i].c = c}
Places(c) ==
  {<<"active", i>> : i \in At(active, c)}
  \cup {<<"cur">> : x \in {cur.coro} \cap {c}}
  \cup {<<"get", i>> : i \in By(waiting_gets, c)}
  \cup {<<"put", i>> : i \in By(waiting_puts, c)}

Joined(c) == At(joinees, c) # {}

\* A coroutine waits in one place only: it is queued once, waits to get once or
\* waits to put once, so that no handover resumes a coroutine that has gone on;
\* and it is never lost: handed over to, timed out or refused, it is queued.
\* Who has joined is in the list of joinees ever after, and resumed again by
\* each QDone: nothing is said of it.
ExactlyOnePlace == \A c \in Coro :
  Alive(c) /\ ~Joined(c) => Cardinality(Places(c)) = 1

\* What resumes a coroutine is the operation it has yielded, or an exception:
\* get() returns an item and nothing else, unless an old join() gets in between.
GetReturnsItem ==
  /\ phase = "run" /\ Alive(cur.coro) /\ ~Joined(cur.coro)
  /\ IsGet(pend[cur.coro]) /\ ~IsExc(cur.op)
  => SameOp(cur.op, pend[cur.coro]) /\ cur.op.arg \in Item

\* While the loop runs, an operation that waits with a deadline has a timer of
\* its own that will be heeded.
WaitingHasTimer == phase # "dead" => \A op \in ToSet(waiting_gets \o waiting_puts) :
  op.at # 0 => \E e \in timeouts : SameOp(e.op, op) /\ e.live

\* An operation that has completed gets to its coroutine: a result that is
\* queued is delivered, and not lost because a timer was too early.
ResultsDelivered == \A i \in DOMAIN active :
  Alive(active[i].coro) /\ ~IsExc(active[i].op) => Finalized(active[i].op) # {}

\* The count of unfinished tasks is the number of items that were put, handed
\* over, queued or waiting, without those that were declared done.
UnfinishedCounts == unfinished + done = Len(got) + Len(queue) + Len(waiting_puts)

\* A coroutine that joined waits only while there is something to wait for,
\* or QDone is about to release it.
JoinReleased == \A i \in DOMAIN joinees :
  LET c == joinees[i].coro IN
  Alive(c) /\ SameOp(pend[c], joinees[i].op) /\ ~Scheduled(c)
    => unfinished > 0 \/ (phase = "process" /\ cur.op.k = "done")

\* A get or a put with a deadline does not wait for ever: it completes or
\* times out, and its coroutine is scheduled.
TimedOpsResume == \A c \in Coro :
  (Alive(c) /\ Blocking(pend[c]) /\ pend[c].at # 0) ~> (Scheduled(c) \/ phase = "dead")

\* The queue is a bounded FIFO: items come out in the order in which their
\* puts were processed, those that had to wait and those handed over included.
Fifo == INSTANCE BoundedFifo WITH
  Items <- Item, Capacity <- MaxSize,
  pending <- queue \o [i \in DOMAIN waiting_puts |-> waiting_puts[i].arg]
ImplementsFifo == Fifo!Spec
=============================================================================
