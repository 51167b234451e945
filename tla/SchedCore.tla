----------------------------- MODULE SchedCore -----------------------------
(***************************************************************************)
(* The main loop of cogen (cogen/core/schedulers.py) and the part of the   *)
(* coroutine wrapper (cogen/core/coroutines.py) and of the timed           *)
(* operations (cogen/core/events.py) that every operation relies on.       *)
(*                                                                         *)
(* The loop is single threaded: a coroutine runs until it yields an        *)
(* operation, the operation is processed, and the pair (op, coro) that     *)
(* results is run at once, put in the deque `active' or kept by whatever   *)
(* the coroutine waits for.  This module holds the loop, the delivery of   *)
(* an operation to its coroutine and the timer heap; the modules that      *)
(* extend it (Scheduler, CoroQueue) add the operations.                    *)
(***************************************************************************)
EXTENDS Integers, Sequences, FiniteSets, SequencesExt

CONSTANTS
  Coro,            \* coroutine instances
  None,            \* Python's None, where a coroutine or an argument may be
  Started,         \* the coroutines added before run() is called, in order
  MaxOps,          \* bound: operations a coroutine issues before it ends
  MaxTime,         \* bound: last instant of the clock
  Delays,          \* timeouts a program asks for; 0 is a falsy timeout
  Ties,            \* whether two operations may have the same deadline
  DefaultTimeout   \* Scheduler.default_timeout; 0 stands for None

ASSUME CoroAssumption == None \notin Coro
ASSUME StartedAssumption == Started \in Seq(Coro) /\ IsInjective(Started)
ASSUME BoundAssumption == MaxOps \in Nat /\ MaxTime \in Nat
ASSUME DelayAssumption == Delays \subseteq Nat /\ DefaultTimeout \in Nat
ASSUME TiesAssumption == Ties \in BOOLEAN

VARIABLES
  active,    \* Scheduler.active: the deque of (op, coro) pairs to run
  timeouts,  \* Scheduler.timeouts, the heap, as the set of its entries
  running,   \* Scheduler.running
  cur,       \* the pair (op, coro) of the inner loop
  phase,     \* where the main loop is
  clock,     \* what getnow() reads
  state,     \* CoroutineInstance.state
  opn,       \* number of operations a coroutine has created
  pend       \* history: the operation a coroutine yielded last

loopVars == <<active, timeouts, running, cur, phase, clock, state, opn, pend>>

(***************************************************************************)
(* An operation object: its class k, the coroutine that created it and its *)
(* serial number there (the identity of the object), the deadline `at'     *)
(* (0 when there is none), its argument or result, its priority and, for a *)
(* Signal, the number of recipients.                                       *)
(***************************************************************************)
NoOp == [k |-> "none", c |-> None, n |-> 0, at |-> 0, arg |-> None,
         pr |-> 0, recipients |-> 0]

Op(k, c, arg, at, pr, recipients) ==
  [k |-> k, c |-> c, n |-> opn[c] + 1, at |-> at, arg |-> arg,
   pr |-> pr, recipients |-> recipients]

\* A CoroutineInstance is an operation too: its own completion, or a call.
CoroOp(d) == [k |-> "coro", c |-> d, n |-> 0, at |-> 0, arg |-> None,
              pr |-> 0, recipients |-> 0]

\* CoroutineException: an OperationTimeout, or any other exception.
TimeoutExc == [NoOp EXCEPT !.k = "timeout"]
ErrorExc   == [NoOp EXCEPT !.k = "error"]
IsExc(op)  == op.k \in {"timeout", "error"}

SameOp(a, b) == a.k = b.k /\ a.c = b.c /\ a.n = b.n

Pair(op, c) == [op |-> op, coro |-> c]
NoPair == Pair(NoOp, None)

\* priority.OP and priority.CORO as bits of a priority in 0..3.
FavorsOp(pr)   == pr \in {2, 3}
FavorsCoro(pr) == pr \in {1, 3}

\* CoroutineInstance.running.
Alive(c) == state[c] \in {"need_init", "running"}

(***************************************************************************)
(* Deadlines: TimedOperation.set_timeout is called when the operation is   *)
(* created, and a falsy timeout stays falsy.                               *)
(***************************************************************************)
Deadline(d) == IF d = 0 THEN 0 ELSE clock + d

\* The deadlines an operation created now may get, within the bounds.
Deadlines == {at \in {Deadline(d) : d \in Delays} :
                /\ at <= MaxTime
                /\ at = 0 => clock + DefaultTimeout <= MaxTime
                /\ Ties \/ at = 0 \/ (\A e \in timeouts : e.op.at # at)}

\* TimedOperation.process: the default timeout, then the push on the heap.
WithDefault(op) ==
  IF op.at = 0 /\ DefaultTimeout # 0
  THEN [op EXCEPT !.at = clock + DefaultTimeout] ELSE op

\* Mutant: the operation is not put on the heap.
Unpushed(op) == timeouts

Pushed(op) ==
  IF op.at = 0 THEN timeouts ELSE timeouts \cup {[op |-> op, live |-> TRUE]}

\* An operation that is FINALIZED or ERRORED stays on the heap, no longer RUNNING.
Retired(h, op) ==
  {IF SameOp(e.op, op) THEN [e EXCEPT !.live = FALSE] ELSE e : e \in h}

\* Mutant: the last entry of the heap, popped to fill the gap, is not put back.
LossyFinalized(op) ==
  IF op.at = 0 \/ op.k = "sleep" THEN {timeouts}
  ELSE {timeouts \ {e, f} : e \in {x \in timeouts : x.op.at = op.at}, f \in timeouts}

(***************************************************************************)
(* Operation.finalize, called as the operation is sent to its coroutine.   *)
(* heapremove compares operations by their deadline: it removes one of the *)
(* entries that tie with op, whichever the layout of the heap has first or *)
(* last, and raises ValueError when there is none.  Sleep.finalize does    *)
(* not touch the heap.  The result is the set of heaps that may be left.   *)
(***************************************************************************)
Finalized(op) ==
  IF op.at = 0 \/ op.k = "sleep" THEN {timeouts}
  ELSE {Retired(timeouts \ {e}, op) : e \in {x \in timeouts : x.op.at = op.at}}

\* CoroutineInstance.finalize marks a coroutine whose result was taken.
StateAfterFinalize ==
  IF cur.op.k = "coro" THEN [state EXCEPT ![cur.op.c] = "finalized"] ELSE state
-----------------------------------------------------------------------------
LoopInit ==
  /\ active = [i \in DOMAIN Started |-> Pair(NoOp, Started[i])]
  /\ timeouts = {}
  /\ running = TRUE
  /\ cur = NoPair
  /\ phase = "pick"
  /\ clock = 0
  /\ state = [c \in Coro |-> IF c \in ToSet(Started) THEN "need_init" ELSE "absent"]
  /\ opn = [c \in Coro |-> 0]
  /\ pend = [c \in Coro |-> NoOp]

\* Head of the main loop: take the first pair of the deque.
Pick ==
  /\ phase = "pick" /\ running /\ active # <<>>
  /\ cur' = Head(active)
  /\ active' = Tail(active)
  /\ phase' = "run"
  /\ UNCHANGED <<timeouts, running, clock, state, opn, pend>>

\* Nothing to run, but timers are pending: only they are looked at.
IdleTurn ==
  /\ phase = "pick" /\ running /\ active = <<>> /\ timeouts # {}
  /\ phase' = "timers"
  /\ UNCHANGED <<active, timeouts, running, cur, clock, state, opn, pend>>

\* The main loop ends.
Leave ==
  /\ phase = "pick"
  /\ running => active = <<>> /\ timeouts = {}
  /\ phase' = "done"
  /\ UNCHANGED <<active, timeouts, running, cur, clock, state, opn, pend>>

(***************************************************************************)
(* CoroutineInstance.run_op.  The coroutine is resumed with cur.op, runs,  *)
(* and what comes back is processed next.                                  *)
(***************************************************************************)
\* run_op's assertion fails outside its try block: the main loop dies.
RunDeadCoro ==
  /\ phase = "run" /\ ~Alive(cur.coro)
  /\ phase' = "dead"
  /\ UNCHANGED <<active, timeouts, running, cur, clock, state, opn, pend>>

\* First run of a generator function: it is called, and None is processed.
Start ==
  /\ phase = "run" /\ state[cur.coro] = "need_init" /\ cur.op = NoOp
  /\ state' = [state EXCEPT ![cur.coro] = "running"]
  /\ phase' = "process"
  /\ UNCHANGED <<active, timeouts, running, cur, clock, opn, pend>>

\* The coroutine gets cur.op and comes back with op, in coroutine state st.
Comeback(op, st) ==
  /\ phase = "run" /\ Alive(cur.coro)
  /\ timeouts' \in Finalized(cur.op)
  /\ state' = [StateAfterFinalize EXCEPT ![cur.coro] = st]
  /\ cur' = Pair(op, cur.coro)
  /\ phase' = "process"
  /\ pend' = [pend EXCEPT ![cur.coro] = op]
  /\ UNCHANGED <<active, running, clock>>

\* The coroutine yields None.
YieldNone ==
  /\ state[cur.coro] = "running"
  /\ Comeback(NoOp, "running") /\ UNCHANGED opn

\* The coroutine yields an operation it has just created.
YieldOp(op) ==
  /\ state[cur.coro] = "running" /\ opn[cur.coro] < MaxOps
  /\ Comeback(op, "running")
  /\ opn' = [opn EXCEPT ![cur.coro] = @ + 1]

\* The coroutine ends by itself: StopIteration, or a function's plain return.
Return ==
  /\ Comeback(CoroOp(cur.coro), "completed") /\ UNCHANGED opn

\* An exception ends the coroutine, its own or one thrown in.
Raise == Comeback(CoroOp(cur.coro), "failed") /\ UNCHANGED opn

\* finalize raises before the generator is resumed: the coroutine fails.
FinalizeRaises ==
  /\ phase = "run" /\ Alive(cur.coro)
  /\ Finalized(cur.op) = {}
  /\ state' = [state EXCEPT ![cur.coro] = "failed"]
  /\ cur' = Pair(CoroOp(cur.coro), cur.coro)
  /\ phase' = "process"
  /\ pend' = [pend EXCEPT ![cur.coro] = CoroOp(cur.coro)]
  /\ UNCHANGED <<active, timeouts, running, clock, opn>>

\* A coroutine calls Scheduler.shutdown while it runs.
Shutdown ==
  /\ phase = "run" /\ state[cur.coro] = "running" /\ running
  /\ running' = FALSE
  /\ UNCHANGED <<active, timeouts, cur, phase, clock, state, opn, pend>>

(***************************************************************************)
(* Scheduler.process_op: the operation leaves the deque a and the pair p.  *)
(* The inner loop goes on with p, or ends when p is (None, None).          *)
(***************************************************************************)
Continue(a, p) ==
  /\ active' = a
  /\ cur' = p
  /\ phase' = IF p = NoPair THEN "timers" ELSE "run"

\* op.process raised e: the operation is ERRORED, e is thrown in its coroutine.
Throw(e, h) ==
  /\ Continue(active, Pair(e, cur.coro))
  /\ timeouts' = Retired(h, cur.op)

\* Mutant: the pair is put in front of the deque.
FrontProcessNone ==
  /\ phase = "process" /\ cur.op = NoOp
  /\ IF active # <<>> THEN Continue(<<cur>> \o active, NoPair)
                      ELSE Continue(active, cur)
  /\ UNCHANGED <<timeouts, running, clock, state, opn, pend>>

\* Mutant: the pair is not returned when the deque is empty.
LossyProcessNone ==
  /\ phase = "process" /\ cur.op = NoOp
  /\ Continue(IF active # <<>> THEN Append(active, cur) ELSE active, NoPair)
  /\ UNCHANGED <<timeouts, running, clock, state, opn, pend>>

\* A bare yield: the coroutine goes behind the others, or on if it is alone.
ProcessNone ==
  /\ phase = "process" /\ cur.op = NoOp
  /\ IF active # <<>> THEN Continue(Append(active, cur), NoPair)
                      ELSE Continue(active, cur)
  /\ UNCHANGED <<timeouts, running, clock, state, opn, pend>>

(***************************************************************************)
(* Scheduler.handle_timeouts: the expired entries are popped one by one,   *)
(* earliest first; now is read once, so the clock does not move meanwhile. *)
(***************************************************************************)
\* Mutant: off by one.
EarlyExpired == {e \in timeouts : e.op.at <= clock + 1}

Expired == {e \in timeouts : e.op.at <= clock}

Earliest(e) == e \in Expired /\ \A f \in Expired : e.op.at <= f.op.at

\* The popped operation still runs, so its cleanup is called.
Due(e) == phase = "timers" /\ Earliest(e) /\ e.live /\ Alive(e.op.c)

\* It does not, or its coroutine has ended: the entry is dropped.
DropStale ==
  /\ phase = "timers"
  /\ \E e \in timeouts :
       /\ Earliest(e) /\ ~(e.live /\ Alive(e.op.c))
       /\ timeouts' = timeouts \ {e}
  /\ UNCHANGED <<active, running, cur, phase, clock, state, opn, pend>>

EndTimers ==
  /\ phase = "timers" /\ Expired = {}
  /\ phase' = "pick"
  /\ UNCHANGED <<active, timeouts, running, cur, clock, state, opn, pend>>

\* Time passes, but not while handle_timeouts uses the instant it has read.
\* Deadlines are relative to the clock, which may rest while no timer is set.
Tick ==
  /\ phase \in {"pick", "run"} /\ clock < MaxTime /\ timeouts # {}
  /\ clock' = clock + 1
  /\ UNCHANGED <<active, timeouts, running, cur, phase, state, opn, pend>>

\* The steps every program has, whatever operations it uses.
LoopStep ==
  \/ Pick \/ IdleTurn \/ Leave
  \/ RunDeadCoro \/ Start \/ FinalizeRaises
  \/ ProcessNone \/ DropStale \/ EndTimers

\* The loop is over, or an exception has left it.
Over == phase \in {"done", "dead"} /\ UNCHANGED loopVars
-----------------------------------------------------------------------------
\* What is in the deque or in the inner loop waits for nothing any more.
Scheduled(c) ==
  \/ \E i \in DOMAIN active : active[i].coro = c
  \/ cur.coro = c
=============================================================================
