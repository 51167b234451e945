----------------------------- MODULE Scheduler -----------------------------
(***************************************************************************)
(* The scheduler with the operations that concern coroutines only: calls,  *)
(* additions and joins (CoroutineInstance, AddCoro, Join), sleeping        *)
(* (Sleep) and signals (WaitForSignal, Signal).                            *)
(*                                                                         *)
(* A program is any set of coroutines, each of which, whenever it is       *)
(* resumed, may yield any operation of `Kinds', return or raise.           *)
(***************************************************************************)
EXTENDS SchedCore

CONSTANTS
  Names,           \* objects coroutines wait on and signal
  Prios,           \* priorities of operations, DEFAULT already replaced
  Recipients,      \* values of Signal's recipients argument
  DefaultPriority, \* Scheduler.default_priority
  Kinds            \* what the coroutines of the program do

AllKinds == {"none", "return", "raise", "shutdown", "object", "call", "add",
             "spawn", "join", "latejoin", "sleep", "nap", "wait", "signal"}

ASSUME KindsAssumption == Kinds \subseteq AllKinds
ASSUME PrioAssumption == Prios \subseteq 0..3 /\ DefaultPriority \in 0..3
ASSUME RecipientsAssumption == Recipients \subseteq Nat

VARIABLES
  caller,    \* CoroutineInstance.caller
  waiters,   \* CoroutineInstance.waiters: the coroutines, oldest first
  sigwait,   \* Scheduler.sigwait: per name, the (op, coro) pairs waiting
  signals    \* Scheduler.signals: per name, the signal kept back, or NoPair

coVars == <<caller, waiters, sigwait, signals>>
vars == <<loopVars, coVars>>

Init ==
  /\ LoopInit
  /\ caller = [c \in Coro |-> None]
  /\ waiters = [c \in Coro |-> <<>>]
  /\ sigwait = [s \in Names |-> <<>>]
  /\ signals = [s \in Names |-> NoPair]
-----------------------------------------------------------------------------
(***************************************************************************)
(* What the running coroutine may do.                                      *)
(***************************************************************************)
Absent == {d \in Coro : state[d] = "absent"}
Ended == {d \in Coro : state[d] \in {"completed", "failed", "finalized"}}

\* finalize comes first: if it raises, the coroutine is not resumed.
Does(k) ==
  /\ k \in Kinds /\ phase = "run" /\ Alive(cur.coro) /\ Finalized(cur.op) # {}
  /\ UNCHANGED coVars

\* Scheduler.add called by the running coroutine: the new instance is queued.
Spawn == \E d \in Absent :
  /\ Does("spawn") /\ state[cur.coro] = "running"
  /\ state' = [state EXCEPT ![d] = "need_init"]
  /\ active' = Append(active, Pair(NoOp, d))
  /\ UNCHANGED <<timeouts, running, cur, phase, clock, opn, pend>>

\* yield foo(...): the operation is the new instance itself.
YieldCall == \E d \in Absent : Does("call") /\ YieldOp(CoroOp(d))

YieldAdd == \E d \in Absent, pr \in Prios :
  Does("add") /\ YieldOp(Op("add", cur.coro, d, 0, pr, 0))

YieldJoin == \E d \in Coro \ {cur.coro}, at \in Deadlines :
  Does("join") /\ Alive(d) /\ YieldOp(Op("join", cur.coro, d, at, 0, 0))

\* Join on a coroutine that has ended before the joiner got to it.
YieldLateJoin == \E d \in Ended, at \in Deadlines :
  Does("latejoin") /\ YieldOp(Op("join", cur.coro, d, at, 0, 0))

\* "nap" stands for sleeping for no time at all, Sleep(0).
YieldSleep == \E at \in Deadlines :
  /\ Does(IF at = 0 THEN "nap" ELSE "sleep")
  /\ YieldOp(Op("sleep", cur.coro, None, at, 0, 0))

YieldWait == \E s \in Names, at \in Deadlines :
  Does("wait") /\ YieldOp(Op("wait", cur.coro, s, at, 0, 0))

\* Nothing refers to a signal by its number, so none are counted: a coroutine
\* may signal for ever.
YieldSignal == \E s \in Names, pr \in Prios, r \in Recipients :
  /\ Does("signal") /\ state[cur.coro] = "running"
  /\ Comeback(Op("signal", cur.coro, s, 0, pr, r), "running")
  /\ UNCHANGED opn

\* yield "bla": an object that is no operation.
YieldObject == Does("object") /\ YieldOp(Op("object", cur.coro, None, 0, 0, 0))

Resume ==
  \/ Does("none") /\ YieldNone
  \/ Does("return") /\ Return
  \/ Does("raise") /\ Raise
  \/ Does("shutdown") /\ Shutdown
  \/ Spawn \/ YieldCall \/ YieldAdd \/ YieldJoin \/ YieldLateJoin
  \/ YieldSleep \/ YieldWait \/ YieldSignal \/ YieldObject
-----------------------------------------------------------------------------
(***************************************************************************)
(* Scheduler.process_op: the process method of each operation.             *)
(***************************************************************************)
Processing(k) == phase = "process" /\ cur.op.k = k /\ UNCHANGED <<running, clock, opn, pend>>

\* CoroutineInstance.process, a call: the callee runs at once.
ProcessCall ==
  /\ Processing("coro") /\ cur.op.c # cur.coro
  /\ caller' = [caller EXCEPT ![cur.op.c] = cur.coro]
  /\ state' = [state EXCEPT ![cur.op.c] = "need_init"]
  /\ Continue(active, Pair(NoOp, cur.op.c))
  /\ UNCHANGED <<timeouts, waiters, sigwait, signals>>

\* Mutant: a waiter is kept as (coro, op).
SwappedPairs(c, s) == [i \in DOMAIN s |-> Pair(s[i], CoroOp(c))]

\* The pairs in which the waiters of a coroutine get its result.
WaiterPairs(c, s) == [i \in DOMAIN s |-> Pair(CoroOp(c), s[i])]

\* sched.active.extend, or extendleft when the scheduler has a priority.
Queued(s) == IF DefaultPriority # 0 THEN Reverse(s) \o active ELSE active \o s

\* Mutant: the list is left as it was.
KeptAttribute(f, c, value) == f

\* The attribute f of coroutine c is set.
SetAttribute(f, c, value) == [f EXCEPT ![c] = value]

\* CoroutineInstance.process, the end of a coroutine: its caller runs at once,
\* or else the waiter that came last; the (other) waiters are queued.
ProcessEnd ==
  LET c == cur.coro
      W == WaiterPairs(c, waiters[c])
      outcome == IF state[c] = "failed" THEN ErrorExc ELSE CoroOp(c)
  IN
  /\ Processing("coro") /\ cur.op.c = c
  /\ IF caller[c] # None
     THEN Continue(Queued(W), Pair(outcome, caller[c]))
     ELSE IF W = <<>> THEN Continue(active, NoPair)
                      ELSE Continue(Queued(Front(W)), Last(W))
  /\ caller' = SetAttribute(caller, c, None)
  /\ waiters' = SetAttribute(waiters, c, <<>>)
  /\ UNCHANGED <<timeouts, state, sigwait, signals>>

\* Mutant: the adder goes on and is queued as well.
DoubleProcessAdd ==
  /\ Processing("add")
  /\ state' = [state EXCEPT ![cur.op.arg] = "need_init"]
  /\ Continue(active \o <<Pair(NoOp, cur.op.arg), Pair(NoOp, cur.coro)>>, cur)
  /\ UNCHANGED <<timeouts, coVars>>

\* AddCoro.process: Scheduler.add(first = prio & OP), then the adder goes on
\* with the operation, or is queued behind.
ProcessAdd ==
  LET new == Pair(NoOp, cur.op.arg)
      a == IF FavorsOp(cur.op.pr) THEN Append(active, new) ELSE <<new>> \o active
  IN
  /\ Processing("add")
  /\ state' = [state EXCEPT ![cur.op.arg] = "need_init"]
  /\ IF FavorsCoro(cur.op.pr) THEN Continue(a, cur)
                              ELSE Continue(Append(a, Pair(NoOp, cur.coro)), NoPair)
  /\ UNCHANGED <<timeouts, coVars>>

\* Join.process: add_waiter.  TimedOperation.process keeps the coroutine to
\* interrupt in the attribute in which Join keeps the coroutine to wait for.
ProcessJoin ==
  LET op == WithDefault(cur.op)
      target == IF op.at # 0 THEN cur.coro ELSE op.arg
  IN
  /\ Processing("join")
  /\ IF Alive(target)
     THEN /\ timeouts' = Pushed(op)
          /\ waiters' = [waiters EXCEPT ![target] = Append(@, cur.coro)]
          /\ Continue(active, NoPair)
     ELSE Throw(ErrorExc, Pushed(op)) /\ UNCHANGED waiters
  /\ UNCHANGED <<state, caller, sigwait, signals>>

ProcessSleep ==
  /\ Processing("sleep")
  /\ timeouts' = Pushed(WithDefault(cur.op))
  /\ Continue(active, NoPair)
  /\ UNCHANGED <<state, coVars>>

\* Signal.process with enough coroutines waiting: all of W is queued, then the
\* signalling coroutine, with no operation.
Delivered(sig, W) ==
  LET woken == IF FavorsOp(sig.op.pr) THEN Reverse(W) \o active ELSE active \o W
      signaller == Pair(NoOp, sig.coro)
  IN IF FavorsCoro(sig.op.pr) THEN <<signaller>> \o woken ELSE Append(woken, signaller)

\* del sched.sigwait[name]
Emptied(s) == [sigwait EXCEPT ![s] = <<>>]

ProcessSignal ==
  LET s == cur.op.arg IN
  /\ Processing("signal")
  /\ IF Len(sigwait[s]) < cur.op.recipients
     THEN /\ signals' = [signals EXCEPT ![s] = cur]
          /\ Continue(active, NoPair)
          /\ UNCHANGED sigwait
     ELSE /\ Continue(Delivered(cur, sigwait[s]), NoPair)
          /\ sigwait' = Emptied(s)
          /\ UNCHANGED signals
  /\ UNCHANGED <<timeouts, state, caller, waiters>>

\* Mutant: one recipient too many is waited for.
MoreThanEnough(sig, W) == sig # NoPair /\ sig.op.recipients < Len(W)

\* The signal kept back, if any, has its recipients.
Enough(sig, W) == sig # NoPair /\ sig.op.recipients <= Len(W)

\* WaitForSignal.process, which may complete the signal that was kept back.
ProcessWait ==
  LET op == WithDefault(cur.op)
      s == op.arg
      W == Append(sigwait[s], Pair(op, cur.coro))
      sig == signals[s]
  IN
  /\ Processing("wait")
  /\ timeouts' = Pushed(op)
  /\ IF Enough(sig, W)
     THEN /\ Continue(Delivered(sig, W), NoPair)
          /\ sigwait' = Emptied(s)
          /\ signals' = [signals EXCEPT ![s] = NoPair]
     ELSE /\ sigwait' = [sigwait EXCEPT ![s] = W]
          /\ Continue(active, NoPair)
          /\ UNCHANGED signals
  /\ UNCHANGED <<state, caller, waiters>>

\* No process method, and no state attribute to set: process_op itself raises.
ProcessObject ==
  /\ Processing("object")
  /\ phase' = "dead"
  /\ UNCHANGED <<active, timeouts, cur, state, coVars>>

Process ==
  \/ ProcessCall \/ ProcessEnd \/ ProcessAdd \/ ProcessJoin \/ ProcessSleep
  \/ ProcessSignal \/ ProcessWait \/ ProcessObject
-----------------------------------------------------------------------------
(***************************************************************************)
(* Scheduler.handle_timeouts: the cleanup method of each operation.        *)
(***************************************************************************)
\* e leaves the heap and the pair p is queued.
Expire(e, p) ==
  /\ timeouts' = timeouts \ {e}
  /\ active' = Append(active, p)
  /\ UNCHANGED <<running, cur, phase, clock, state, opn, pend>>

\* Sleep.cleanup queues the coroutine with the operation, and no exception.
WakeSleeper == \E e \in timeouts :
  /\ Due(e) /\ e.op.k = "sleep"
  /\ Expire(e, Pair(e.op, e.op.c))
  /\ UNCHANGED coVars

\* Join.cleanup: remove_waiter on the joining coroutine itself (see ProcessJoin).
TimeoutJoin == \E e \in timeouts :
  /\ Due(e) /\ e.op.k = "join"
  /\ Expire(e, Pair(TimeoutExc, e.op.c))
  /\ waiters' = [waiters EXCEPT ![e.op.c] = RemoveFirst(@, e.op.c)]
  /\ UNCHANGED <<caller, sigwait, signals>>

(***************************************************************************)
(* WaitForSignal.cleanup removes (self, coro) from the deque.  The deque   *)
(* compares from its head: an operation without a deadline met before the  *)
(* pair is found makes the comparison raise TypeError, which nothing in    *)
(* the loop catches.  The result is true even when the pair was not there. *)
(***************************************************************************)
Incomparable(W, op) ==
  \E i \in DOMAIN W : W[i].op.at = 0 /\ \A j \in 1..i : ~SameOp(W[j].op, op)

\* Mutant: the pair stays in the deque.
KeptWait(W, p) == W

\* deque.remove(p), whose ValueError is caught.
WithoutWait(W, p) == RemoveFirst(W, p)

TimeoutWait == \E e \in timeouts :
  LET s == e.op.arg IN
  /\ Due(e) /\ e.op.k = "wait" /\ ~Incomparable(sigwait[s], e.op)
  /\ Expire(e, Pair(TimeoutExc, e.op.c))
  /\ sigwait' = [sigwait EXCEPT ![s] = WithoutWait(@, Pair(e.op, e.op.c))]
  /\ UNCHANGED <<caller, waiters, signals>>

CleanupRaises == \E e \in timeouts :
  /\ Due(e) /\ e.op.k = "wait" /\ Incomparable(sigwait[e.op.arg], e.op)
  /\ timeouts' = timeouts \ {e}
  /\ phase' = "dead"
  /\ UNCHANGED <<active, running, cur, clock, state, opn, pend, coVars>>

HandleTimeout == WakeSleeper \/ TimeoutJoin \/ TimeoutWait \/ CleanupRaises
-----------------------------------------------------------------------------
Loop == (LoopStep /\ UNCHANGED coVars) \/ Resume \/ Process \/ HandleTimeout

Next ==
  \/ Loop
  \/ Tick /\ UNCHANGED coVars
  \/ Over /\ UNCHANGED coVars

Spec == Init /\ [][Next]_vars

(***************************************************************************)
(* The loop never pauses by itself, and time passes while it turns: strong *)
(* fairness, because the clock is held during handle_timeouts.  What a     *)
(* coroutine does when it is resumed is its own choice.                    *)
(***************************************************************************)
Fairness == WF_vars(Loop) /\ SF_vars(Tick /\ UNCHANGED coVars)

FairSpec == Spec /\ Fairness
-----------------------------------------------------------------------------
(***************************************************************************)
(* Properties.                                                             *)
(***************************************************************************)
RawOpType == [k : AllKinds \cup {"none", "coro", "timeout", "error"},
              c : Coro \cup {None}, n : Nat, at : Nat,
              arg : Coro \cup Names \cup {None}, pr : 0..3, recipients : Nat]
OpType == {op \in RawOpType :
             /\ op.k \notin {"none", "timeout", "error"} => op.c \in Coro
             /\ op.k \in {"wait", "signal"} => op.arg \in Names
             /\ op.k \in {"add", "join"} => op.arg \in Coro}
TimedType == {op \in OpType : op.k \in {"join", "sleep", "wait"}}
TaskType == [op : OpType, coro : Coro]

TimerType == [op : TimedType, live : BOOLEAN]

LoopTypeOK ==
  /\ active \in Seq(TaskType)
  /\ timeouts \subseteq TimerType
  /\ running \in BOOLEAN
  /\ cur \in TaskType \cup {NoPair}
  /\ phase \in {"pick", "run", "process", "timers", "done", "dead"}
  /\ phase \in {"run", "process"} => cur \in TaskType
  /\ clock \in Nat
  /\ state \in [Coro -> {"absent", "need_init", "running", "completed",
                         "failed", "finalized"}]
  /\ opn \in [Coro -> Nat]
  /\ pend \in [Coro -> OpType]

CoTypeOK ==
  /\ caller \in [Coro -> Coro \cup {None}]
  /\ waiters \in [Coro -> Seq(Coro)]
  /\ sigwait \in [Names -> Seq(TaskType)]
  /\ signals \in [Names -> TaskType \cup {NoPair}]

\* The state of the scheduler and of the coroutines is well formed: what is
\* queued, kept back or timed is an operation of a coroutine, on what it is for.
TypeOK == LoopTypeOK /\ CoTypeOK

\* Everything that may resume coroutine c one day.
At(seq, c) == {i \in DOMAIN seq : seq[i].coro = c}
Places(c) ==
  {<<"active", i>> : i \in At(active, c)}
  \cup {<<"cur">> : x \in {cur.coro} \cap {c}}
  \cup (UNION {{<<"sigwait", s, i>> : i \in At(sigwait[s], c)} : s \in Names})
  \cup {<<"signals", s>> : s \in {s \in Names : signals[s].coro = c}}
  \cup (UNION {{<<"waiters", d, i>> : i \in {i \in DOMAIN waiters[d] : waiters[d][i] = c}}
                : d \in Coro})
  \cup {<<"caller", d>> : d \in {d \in Coro : caller[d] = c}}
  \cup {<<"sleep", e.op.n>> : e \in {e \in timeouts : e.op.k = "sleep" /\ e.op.c = c}}

\* Exactly one place will resume a live coroutine: it is never lost, nor scheduled
\* twice, so that run_op never meets one that has moved on or ended.
ExactlyOnePlace == \A c \in Coro : Alive(c) => Cardinality(Places(c)) = 1

\* No coroutine is lost: a live coroutine always is in some place that will
\* resume it, the deque, a caller, a waiter list, a signal or a timer.
NeverLost == \A c \in Coro : Alive(c) => Places(c) # {}

\* No exception leaves the main loop: whatever the coroutines do, the errors
\* they make are theirs (process_op and run_op catch them).
LoopSurvives == phase # "dead"

\* A coroutine that ends releases everything that waits for it: no caller and
\* no joiner is left behind on a coroutine that has ended.
NoStaleWait == \A c, d \in Coro :
  (caller[d] = c \/ c \in ToSet(waiters[d]))
    => Alive(d) \/ (phase = "process" /\ cur = Pair(CoroOp(d), d))

\* Nothing wakes early: except by a timeout, a joiner or a caller is scheduled
\* only once the other coroutine has ended, a sleeper only once its time has come.
Awaited(op) ==
  CASE op.k = "join"  -> ~Alive(op.arg)
    [] op.k = "coro"  -> ~Alive(op.c)
    [] op.k = "sleep" -> op.at <= clock
    [] OTHER          -> TRUE
NoEarlyWake == \A c \in Coro :
  \A p \in ToSet(active) \cup (IF phase = "run" THEN {cur} ELSE {}) :
    p.coro = c /\ Alive(c) /\ p.op # TimeoutExc => Awaited(pend[c])

\* A signal is kept back only while fewer coroutines wait for it than it wants.
KeptBackSignal == \A s \in Names :
  signals[s] # NoPair => Len(sigwait[s]) < signals[s].op.recipients

\* A coroutine that has gone on, by a timeout for instance, is not waiting any
\* more: what is in a deque of sigwait is what its coroutine yielded last.
NoGhostWait == \A s \in Names : \A i \in DOMAIN sigwait[s] :
  LET p == sigwait[s][i] IN Alive(p.coro) /\ SameOp(pend[p.coro], p.op)

\* A sleeping coroutine is scheduled again once time has passed, while there is
\* a loop to do it.
SleepersWake == \A c \in Coro :
  (Alive(c) /\ pend[c].k = "sleep") ~> (Scheduled(c) \/ phase = "dead")

InDeque(c) == \E i \in DOMAIN active : active[i].coro = c

\* An operation lets a coroutine run before those that are queued: it is put in
\* front of them (a signal FIRST, an end with a default priority, an addition
\* without OP), or the inner loop goes on with it (a call, the end of one, a
\* join that is refused).
PassesQueue ==
  /\ phase = "process" /\ cur.op # NoOp /\ active # <<>>
  /\ phase' = "run" \/ ~IsPrefix(active, active')

\* The deque is fair by itself: beside coroutines that yield or signal LAST for
\* ever, who is queued runs in the end.  It is starved only where operations let
\* others pass again and again, as a coroutine that signals FIRST for ever does.
QueuedRuns ==
  \/ []<><<PassesQueue>>_vars
  \/ \A c \in Coro : InDeque(c) ~> (cur.coro = c \/ ~running \/ phase = "dead")
=============================================================================
