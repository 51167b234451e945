------------------------------ MODULE Proactor ------------------------------
(***************************************************************************)
(* Socket operations: the proactors that poll (cogen/core/proactors, the   *)
(* base class with PollProactor or StdlibEpollProactor), with the part of  *)
(* the main loop that runs them and the timeouts of their operations.      *)
(*                                                                         *)
(* A socket operation is tried at once, or kept as a token until its file  *)
(* descriptor is ready.  The descriptors that are ready are handled in a   *)
(* batch; a coroutine may be run in the middle of it, and the operation    *)
(* that completes last is returned to the loop, which runs it first.       *)
(***************************************************************************)
EXTENDS Naturals, Sequences, FiniteSets, SequencesExt

CONSTANTS
  Coro, Fd,     \* coroutines, file descriptors of their sockets
  None,
  Configs,      \* which proactor, and which options of the scheduler
  Prios,        \* priorities of operations
  MaxOps,       \* bound: operations of a coroutine
  MaxData,      \* bound: what the peers send
  Kinds         \* what programs do that the proactors do not survive

AllKinds == {"lone_none", "reuse", "share", "request_again"}

Config == [impl : {"epoll", "poll"}, multiplex_first : BOOLEAN, ops_greedy : BOOLEAN,
           proactor_greedy : BOOLEAN]

ASSUME ProactorAssumption ==
  /\ None \notin Coro /\ IsFiniteSet(Coro) /\ IsFiniteSet(Fd) /\ Configs \subseteq Config
  /\ Prios \subseteq 0..3 /\ {MaxOps, MaxData} \subseteq Nat /\ Kinds \subseteq AllKinds

VARIABLES
  config,   \* the proactor, and the options of the scheduler that concern it
  active,   \* Scheduler.active
  urgent,   \* the pair the proactor returned to iter_run, or NoPair
  cur,      \* the pair (op, coro) that is run
  phase,    \* where the main loop is
  alive,    \* CoroutineInstance.running
  opn       \* number of operations a coroutine has created

VARIABLES
  tokens,   \* ProactorBase.tokens
  shadow,   \* per descriptor, the operation in the table shadow, or NoOp
  armed,    \* descriptors the poller watches
  stale,    \* descriptors it does not know although _proactor_added is set
  batch,    \* the rest of the list that poll() returned
  timers    \* Scheduler.timeouts: the operations whose timer still has an effect

VARIABLES
  inbox,    \* per descriptor, how much there is to read
  peer,     \* per descriptor: "open", "eof" once closed, "hup" once hung up
  sent      \* history: what the peers have sent

loopVars == <<config, active, urgent, cur, phase, alive, opn>>
tableVars == <<tokens, shadow, armed, stale, batch, timers>>
peerVars == <<inbox, peer, sent>>
vars == <<loopVars, tableVars, peerVars>>

\* A socket operation; n is its serial number in the coroutine.
NoOp == [kind |-> "none", c |-> None, n |-> 0, f |-> None, timed |-> FALSE, pr |-> 0]

\* A CoroutineException has priority.DEFAULT, -1, in which every bit is set.
Exc == [NoOp EXCEPT !.kind = "exception", !.pr = 3]

FavorsCoro(pr) == pr \in {1, 3}
FavorsOp(pr) == pr \in {2, 3}

Pair(op, c) == [op |-> op, coro |-> c]
NoPair == Pair(NoOp, None)

Init ==
  /\ config \in Configs
  /\ active = SetToSeq({Pair(NoOp, c) : c \in Coro})
  /\ urgent = NoPair /\ cur = NoPair /\ phase = "pick"
  /\ alive = Coro /\ opn = [c \in Coro |-> 0]
  /\ tokens = {} /\ shadow = [f \in Fd |-> NoOp] /\ armed = {} /\ stale = {}
  /\ batch = <<>> /\ timers = {}
  /\ inbox = [f \in Fd |-> 0] /\ peer = [f \in Fd |-> "open"] /\ sent = 0
-----------------------------------------------------------------------------
(***************************************************************************)
(* The peers and the system calls.                                         *)
(***************************************************************************)
Arrive == \E f \in Fd :
  /\ peer[f] = "open" /\ sent < MaxData
  /\ inbox' = [inbox EXCEPT ![f] = @ + 1] /\ sent' = sent + 1
  /\ UNCHANGED <<loopVars, tableVars, peer>>

Close == \E f \in Fd, how \in {"eof", "hup"} :
  /\ peer[f] = "open"
  /\ peer' = [peer EXCEPT ![f] = how]
  /\ UNCHANGED <<loopVars, tableVars, inbox, sent>>

\* try_run_act: what perform_recv, or perform_sendall, may come to.
Outcomes(op) ==
  IF op.kind = "recv"
  THEN IF inbox[op.f] > 0 THEN {"done"}
       ELSE IF peer[op.f] = "open" THEN {"again"} ELSE {"error"}
  ELSE IF peer[op.f] = "hup" THEN {"error"} ELSE {"done", "again"}

Received(op, outcome) ==
  IF op.kind = "recv" /\ outcome = "done" THEN [inbox EXCEPT ![op.f] = @ - 1] ELSE inbox

Completed(op, outcome) == Pair(IF outcome = "done" THEN op ELSE Exc, op.c)

\* The timer of an operation that failed stays on the heap, to no effect.
TimersAfter(op, outcome) == IF outcome = "done" THEN timers ELSE timers \ {op}

Ready(f) ==
  /\ f \in armed
  /\ peer[f] = "hup" \/ shadow[f].kind # "recv" \/ inbox[f] > 0 \/ peer[f] = "eof"
-----------------------------------------------------------------------------
(***************************************************************************)
(* Scheduler.iter_run up to the proactor.                                  *)
(***************************************************************************)
Pick ==
  /\ phase = "pick"
  /\ IF urgent # NoPair
     THEN cur' = urgent /\ urgent' = NoPair /\ phase' = "run" /\ UNCHANGED active
     ELSE IF active # <<>>
          THEN cur' = Head(active) /\ active' = Tail(active) /\ phase' = "run" /\ UNCHANGED urgent
          ELSE /\ phase' = IF tokens # {} \/ timers # {} THEN "poll" ELSE "done"
               /\ UNCHANGED <<active, urgent, cur>>
  /\ UNCHANGED <<config, alive, opn, tableVars, peerVars>>

Queued(a, p) == IF FavorsCoro(p.op.pr) THEN <<p>> \o a ELSE Append(a, p)

(***************************************************************************)
(* What becomes of the pair p that process_op returned: the inner loop of  *)
(* iter_run goes on with it, and so does handle_event's with ops_greedy.   *)
(* Else handle_event queues it, unless it has no operation.                *)
(***************************************************************************)
Continue(a, p) ==
  IF phase = "nested" /\ ~config.ops_greedy
  THEN /\ active' = IF p.op = NoOp THEN a ELSE Queued(a, p)
       /\ cur' = NoPair /\ phase' = "handled"
  ELSE /\ active' = a /\ cur' = p
       /\ phase' = IF p # NoPair THEN phase ELSE IF phase = "run" THEN "poll" ELSE "handled"

Running == phase \in {"run", "nested"}

\* finalize takes the timer of the operation from the heap; it raises, and that
\* ends the coroutine, when handle_timeouts has popped it before.
Finalizes == cur.op.timed => cur.op \in timers

End ==
  /\ Running /\ cur.coro \in alive
  /\ alive' = alive \ {cur.coro} /\ timers' = {op \in timers : op.c # cur.coro}
  /\ Continue(active, NoPair)
  /\ UNCHANGED <<config, urgent, opn, tokens, shadow, armed, stale, batch, peerVars>>

Resumes == Running /\ cur.coro \in alive /\ Finalizes

YieldNone ==
  /\ Resumes
  /\ phase = "nested" /\ ~config.ops_greedy /\ active = <<>> => "lone_none" \in Kinds
  /\ timers' = timers \ {cur.op}
  /\ LET p == Pair(NoOp, cur.coro) IN
     IF active # <<>> THEN Continue(Append(active, p), NoPair) ELSE Continue(active, p)
  /\ UNCHANGED <<config, urgent, alive, opn, tokens, shadow, armed, stale, batch, peerVars>>
-----------------------------------------------------------------------------
(***************************************************************************)
(* A coroutine yields a socket operation: request_generic.                 *)
(***************************************************************************)

\* What the program does, or does not do.
Asks(op) ==
  /\ op.f \in stale => "reuse" \in Kinds
  /\ (\E t \in tokens : t.f = op.f) => "share" \in Kinds
  /\ phase = "nested" /\ config.impl = "poll" /\ op.f = Head(batch) => "request_again" \in Kinds

\* add_token.  epoll.modify raises for a descriptor that epoll does not know;
\* the token stays.
AddToken(op, heap) ==
  /\ tokens' = tokens \cup {op} /\ shadow' = [shadow EXCEPT ![op.f] = op]
  /\ IF op.f \in stale
     THEN timers' = heap /\ Continue(active, Pair(Exc, op.c)) /\ UNCHANGED armed
     ELSE /\ timers' = IF op.timed THEN heap \cup {op} ELSE heap
          /\ armed' = armed \cup {op.f}
          /\ Continue(active, NoPair)
  /\ UNCHANGED inbox

\* The operation was tried, and completed or failed: the coroutine goes on.
GoOn(op, outcome, heap) ==
  /\ timers' = IF op.timed /\ outcome = "done" THEN heap \cup {op} ELSE heap
  /\ inbox' = Received(op, outcome)
  /\ Continue(active, Completed(op, outcome))
  /\ UNCHANGED <<tokens, shadow, armed>>

YieldSocketOp ==
  /\ Resumes /\ opn[cur.coro] < MaxOps
  /\ \E kind \in {"recv", "send"}, f \in Fd, timed \in BOOLEAN, pr \in Prios :
       LET op == [kind |-> kind, c |-> cur.coro, n |-> opn[cur.coro] + 1, f |-> f,
                  timed |-> timed, pr |-> pr]
           heap == timers \ {cur.op}
       IN /\ Asks(op)
          /\ \/ ~config.multiplex_first /\ AddToken(op, heap)
             \/ config.multiplex_first /\ "again" \in Outcomes(op) /\ AddToken(op, heap)
             \/ /\ config.multiplex_first
                /\ \E outcome \in Outcomes(op) \ {"again"} : GoOn(op, outcome, heap)
  /\ opn' = [opn EXCEPT ![cur.coro] = @ + 1]
  /\ UNCHANGED <<config, urgent, alive, stale, batch, peer, sent>>
-----------------------------------------------------------------------------
(***************************************************************************)
(* run: poll(), and what is done about each event.                         *)
(***************************************************************************)
\* With EPOLLONESHOT a descriptor is watched until it is reported.
Poll ==
  /\ phase = "poll"
  /\ IF tokens # {} /\ (config.proactor_greedy \/ active = <<>>)
     THEN /\ batch' \in SetToSeqs({f \in Fd : Ready(f)})
          /\ armed' = IF config.impl = "epoll" THEN armed \ ToSet(batch') ELSE armed
          /\ phase' = "events"
     ELSE phase' = "timers" /\ UNCHANGED <<batch, armed>>
  /\ UNCHANGED <<config, active, urgent, cur, alive, opn, tokens, shadow, stale, timers, peerVars>>

\* shadow[f] is a token then (see WakeupsKept).
Event(f) == phase = "events" /\ batch # <<>> /\ f = Head(batch)
Popped(f) == [shadow EXCEPT ![f] = NoOp]
Next1 == batch' = Tail(batch) /\ phase' = IF Len(batch) = 1 THEN "timers" ELSE "events"
Unwatched(f) == IF config.impl = "poll" THEN armed \ {f} ELSE armed

\* handle_error_event.  The descriptor is unregistered, its socket not told.
HangUp == \E f \in Fd :
  /\ Event(f) /\ peer[f] = "hup"
  /\ tokens' = tokens \ {shadow[f]} /\ shadow' = Popped(f)
  /\ armed' = armed \ {f}
  /\ stale' = IF config.impl = "epoll" THEN stale \cup {f} ELSE stale
  /\ timers' = timers \ {shadow[f]}
  /\ active' = Append(active, Pair(Exc, shadow[f].c))
  /\ Next1
  /\ UNCHANGED <<config, urgent, cur, alive, opn, peerVars>>

\* Mutant: the descriptor is not watched again.
NotWatchedAgain(f) == armed

\* epoll.modify(fd, ev | EPOLLONESHOT)
WatchedAgain(f) == armed \cup {f}

\* It would block after all, or not everything is sent yet.
TryAgain == \E f \in Fd :
  /\ Event(f) /\ peer[f] # "hup" /\ "again" \in Outcomes(shadow[f])
  /\ armed' = WatchedAgain(f)
  /\ Next1
  /\ UNCHANGED <<config, active, urgent, cur, alive, opn, tokens, shadow, stale, timers, peerVars>>

\* yield_event: the last event is left to the loop.
YieldEvent == \E f \in Fd :
  /\ Event(f) /\ Len(batch) = 1 /\ peer[f] # "hup"
  /\ \E outcome \in Outcomes(shadow[f]) \ {"again"} :
       /\ urgent' = Completed(shadow[f], outcome)
       /\ inbox' = Received(shadow[f], outcome)
       /\ timers' = TimersAfter(shadow[f], outcome)
  /\ tokens' = tokens \ {shadow[f]} /\ shadow' = Popped(f) /\ armed' = Unwatched(f)
  /\ Next1
  /\ UNCHANGED <<config, active, cur, alive, opn, stale, peer, sent>>

\* handle_event: the others are run at once, or queued.
HandleEvent == \E f \in Fd :
  /\ Event(f) /\ Len(batch) > 1 /\ peer[f] # "hup"
  /\ tokens' = tokens \ {shadow[f]} /\ shadow' = Popped(f)
  /\ \E outcome \in Outcomes(shadow[f]) \ {"again"} :
       LET p == Completed(shadow[f], outcome) IN
       /\ inbox' = Received(shadow[f], outcome)
       /\ timers' = TimersAfter(shadow[f], outcome)
       /\ IF config.ops_greedy \/ FavorsOp(p.op.pr)
          THEN cur' = p /\ phase' = "nested" /\ UNCHANGED active
          ELSE active' = Queued(active, p) /\ phase' = "handled" /\ UNCHANGED cur
  /\ UNCHANGED <<config, urgent, alive, opn, armed, stale, batch, peer, sent>>

\* handle_event has returned True.
Handled ==
  /\ phase = "handled"
  /\ armed' = Unwatched(Head(batch))
  /\ Next1
  /\ UNCHANGED <<config, active, urgent, cur, alive, opn, tokens, shadow, stale, timers, peerVars>>

NoEvent ==
  /\ phase = "events" /\ batch = <<>>
  /\ phase' = "timers"
  /\ UNCHANGED <<config, active, urgent, cur, alive, opn, tableVars, peerVars>>
-----------------------------------------------------------------------------
(***************************************************************************)
(* handle_timeouts: SocketOperation.cleanup is remove_token.               *)
(***************************************************************************)
Expire == \E op \in timers :
  /\ phase = "timers"
  /\ timers' = timers \ {op}
  /\ IF op \in tokens
     THEN /\ tokens' = tokens \ {op} /\ shadow' = Popped(op.f)
          /\ armed' = armed \ {op.f} /\ stale' = stale \ {op.f}
          /\ active' = Append(active, Pair(Exc, op.c))
     ELSE UNCHANGED <<tokens, shadow, armed, stale, active>>
  /\ UNCHANGED <<config, urgent, cur, phase, alive, opn, batch, peerVars>>

EndTimers ==
  /\ phase = "timers"
  /\ phase' = "pick"
  /\ UNCHANGED <<config, active, urgent, cur, alive, opn, tableVars, peerVars>>
-----------------------------------------------------------------------------
Next ==
  \/ Arrive \/ Close
  \/ Pick \/ End \/ YieldNone \/ YieldSocketOp
  \/ Poll \/ HangUp \/ TryAgain \/ YieldEvent \/ HandleEvent \/ Handled \/ NoEvent
  \/ Expire \/ EndTimers

Spec == Init /\ [][Next]_vars
-----------------------------------------------------------------------------
(***************************************************************************)
(* Properties.                                                             *)
(***************************************************************************)
Places(c) ==
  {<<"active", i>> : i \in {i \in DOMAIN active : active[i].coro = c}}
  \cup {<<"urgent">> : x \in {urgent.coro} \cap {c}}
  \cup {<<"cur">> : x \in {x \in {c} : Running /\ cur.coro = c}}
  \cup {<<"token", op>> : op \in {op \in tokens : op.c = c}}

\* A token's descriptor is watched for it, or in the rest of the batch.
Heard(op) ==
  /\ shadow[op.f] = op
  /\ op.f \in armed \/ op.f \in ToSet(batch)

\* No coroutine that uses a socket is lost or run twice, through timeouts, hang-ups
\* and coroutines that run in the middle of a batch: it is queued, running, returned
\* to the loop, or waits for a descriptor that the poller reports to its operation.
\* So run_op's assertion holds, and no event meets an operation that is no token.
WakeupsKept ==
  /\ Running => cur.coro \in alive
  /\ phase = "events" => \A f \in ToSet(batch) : shadow[f] \in tokens
  /\ \A c \in alive : Cardinality(Places(c)) = 1
  /\ \A op \in tokens : Heard(op)
=============================================================================
