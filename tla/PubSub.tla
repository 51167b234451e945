------------------------------- MODULE PubSub -------------------------------
(***************************************************************************)
(* cogen/core/pubsub.py: PublishSubscribeQueue and its operations PSPut,   *)
(* PSGet, PSSubscribe and PSUnsubscribe, run by the main loop of           *)
(* SchedCore.  The program is a fixed set of coroutines that share one     *)
(* queue.  None of them gives a key, so each subscribes as itself; a       *)
(* message is the identity of the publish that brought it.                 *)
(***************************************************************************)
EXTENDS SchedCore, Functions

CONSTANTS
  Prios,           \* priorities of operations, DEFAULT already replaced
  Kinds            \* what the coroutines of the program do

\* "compact_unread" is compact() while nobody is subscribed; "keep" is to go on
\* with the list that a fetch returned after the next yield.
AllKinds == {"publish", "subscribe", "unsubscribe", "fetch", "compact", "compact_unread", "keep"}

ASSUME PrioAssumption == Prios \subseteq 0..3
ASSUME KindsAssumption == Kinds \subseteq AllKinds

VARIABLES
  messages,            \* PublishSubscribeQueue.messages
  subscribers,         \* its levels: per subscriber, how far it has read
  active_subscribers,  \* the fetch operations that wait, by coroutine
  holders,             \* the coroutines that have the list `messages' itself
  log,                 \* history: all messages that were published
  dropped,             \* history: how many of them compact() removed
  start,               \* history: the value of dropped at a subscription
  got                  \* history: the messages handed out since, as copies

queueVars == <<messages, subscribers, active_subscribers>>
historyVars == <<log, dropped, start, got>>
pubsubVars == <<queueVars, holders, historyVars>>
vars == <<loopVars, pubsubVars>>

Nothing == [c \in {} |-> 0]

\* Dictionary d with d[c] = v.
Assigned(d, c, v) == [x \in DOMAIN d \cup {c} |-> IF x = c THEN v ELSE d[x]]

Init ==
  /\ LoopInit
  /\ messages = <<>>
  /\ subscribers = Nothing
  /\ active_subscribers = Nothing
  /\ holders = {}
  /\ log = <<>>
  /\ dropped = 0
  /\ start = [c \in Coro |-> 0]
  /\ got = [c \in Coro |-> <<>>]
-----------------------------------------------------------------------------
(***************************************************************************)
(* What the running coroutine may do.                                      *)
(***************************************************************************)
Does(k) == k \in Kinds /\ phase = "run"

YieldPublish == \E pr \in Prios :
  /\ Does("publish")
  /\ YieldOp(Op("publish", cur.coro, <<cur.coro, opn[cur.coro] + 1>>, 0, pr, 0))

YieldSubscription == \E k \in {"subscribe", "unsubscribe"} :
  Does(k) /\ YieldOp(Op(k, cur.coro, None, 0, 0, 0))

YieldFetch == \E at \in Deadlines, pr \in Prios :
  Does("fetch") /\ YieldOp(Op("fetch", cur.coro, None, at, pr, 0))

\* What all subscribers have read.
ReadByAll ==
  IF DOMAIN subscribers = {} THEN Len(messages) ELSE Min(Range(subscribers))

\* q.compact(), a plain call: the levels of the subscribers stay as they are.
Compact ==
  /\ \/ Does("compact")
     \/ Does("compact_unread") /\ DOMAIN subscribers = {}
  /\ state[cur.coro] = "running"
  /\ ReadByAll > 0
  /\ messages' = SubSeq(messages, ReadByAll + 1, Len(messages))
  /\ dropped' = dropped + Len(messages) - Len(messages')
  /\ UNCHANGED <<loopVars, subscribers, active_subscribers, holders, log, start, got>>

\* The messages coroutine c has been handed.  Its first fetch returned the list
\* of the queue, so what a publish adds to it or compact() takes from it is
\* added to or taken from what c has, as long as c holds the list.
Handed(c) == IF c \in holders THEN messages \o got[c] ELSE got[c]

\* The running coroutine, which yields or ends, has done with the list if it has
\* it: what it has got stays.
LetGo ==
  /\ holders' = holders \ {cur.coro}
  /\ got' = [got EXCEPT ![cur.coro] = Handed(cur.coro)]
  /\ UNCHANGED <<queueVars, log, dropped, start>>

Resume ==
  \/ Compact
  \/ phase = "run" /\ Return /\ LetGo
  \/ /\ YieldPublish \/ YieldSubscription \/ YieldFetch
     /\ LetGo \/ ("keep" \in Kinds /\ UNCHANGED pubsubVars)
-----------------------------------------------------------------------------
(***************************************************************************)
(* Scheduler.process_op: the process method of each operation.             *)
(***************************************************************************)
Processing(k) == phase = "process" /\ cur.op.k = k /\ UNCHANGED <<running, clock, state, opn, pend>>

\* A coroutine of this program has no caller and no waiters.
ProcessEnd ==
  /\ Processing("coro")
  /\ Continue(active, NoPair)
  /\ UNCHANGED <<timeouts, pubsubVars>>

\* A fetch with its result.
With(op, result) == Pair([op EXCEPT !.arg = result], op.c)

\* The fetches of the coroutines in s, with message m.
Answers(s, m) == [i \in DOMAIN s |-> With(active_subscribers[s[i]], <<m>>)]

\* The orders in which a dictionary may have the fetches that wait: those with
\* a priority, which go in front of the deque, and those without, which go behind.
InFront == SetToSeqs({c \in DOMAIN active_subscribers : active_subscribers[c].pr # 0})
Behind  == SetToSeqs({c \in DOMAIN active_subscribers : active_subscribers[c].pr = 0})

\* Mutant: every subscriber's level goes up.
LevelOfAll(c) == subscribers[c] + 1

\* Mutant: the level of a coroutine that is handed the message stays.
LevelOfNone(c) == subscribers[c]

\* The level of a subscriber once a message is published.
LevelAfter(c) == subscribers[c] + (IF c \in DOMAIN active_subscribers THEN 1 ELSE 0)

\* Mutant: the clear is forgotten.
Uncleared == active_subscribers

\* active_subscribers.clear()
Cleared == Nothing

(***************************************************************************)
(* PSPut.process: all fetches that wait get the message, in the order of a *)
(* dictionary.  Their keys are subscribed (WaitersSubscribed), so none of  *)
(* the levels is missing.                                                  *)
(***************************************************************************)
ProcessPublish ==
  LET m == cur.op.arg
      waiting == DOMAIN active_subscribers
  IN
  /\ Processing("publish")
  /\ messages' = Append(messages, m)
  /\ subscribers' = [c \in DOMAIN subscribers |-> LevelAfter(c)]
  /\ active_subscribers' = Cleared
  /\ log' = Append(log, m)
  /\ got' = [c \in Coro |-> IF c \in waiting THEN Append(got[c], m) ELSE got[c]]
  /\ \E front \in InFront, behind \in Behind :
       LET a == Answers(front, m) \o active \o Answers(behind, m)
       IN IF FavorsCoro(cur.op.pr) THEN Continue(a, cur)
          ELSE Continue(IF FavorsOp(cur.op.pr) THEN <<cur>> \o a ELSE Append(a, cur), NoPair)
  /\ UNCHANGED <<timeouts, holders, dropped, start>>

\* PSGet.process of a coroutine that is not subscribed: AssertionError.
FetchUnsubscribed(op) ==
  /\ op.c \notin DOMAIN subscribers
  /\ Throw(ErrorExc, Pushed(op))
  /\ UNCHANGED pubsubVars

\* PSGet.process: the messages from the level on are copied; from level 0 on they
\* are the list of the queue itself.
FetchNew(op) ==
  LET level == subscribers[op.c]
      new == SubSeq(messages, level + 1, Len(messages))
  IN
  /\ op.c \in DOMAIN subscribers /\ level < Len(messages)
  /\ subscribers' = [subscribers EXCEPT ![op.c] = Len(messages)]
  /\ IF level = 0 THEN holders' = holders \cup {op.c} /\ UNCHANGED got
                  ELSE got' = [got EXCEPT ![op.c] = @ \o new] /\ UNCHANGED holders
  /\ timeouts' = Pushed(op)
  /\ Continue(active, With(op, new))
  /\ UNCHANGED <<messages, active_subscribers, log, dropped, start>>

\* PSGet.process: the level is not below the end of the queue.
FetchWaits(op) ==
  /\ op.c \in DOMAIN subscribers /\ subscribers[op.c] >= Len(messages)
  /\ active_subscribers' = Assigned(active_subscribers, op.c, op)
  /\ timeouts' = Pushed(op)
  /\ Continue(active, NoPair)
  /\ UNCHANGED <<messages, subscribers, holders, historyVars>>

ProcessFetch ==
  LET op == WithDefault(cur.op) IN
  /\ Processing("fetch")
  /\ FetchUnsubscribed(op) \/ FetchNew(op) \/ FetchWaits(op)

\* PSSubscribe.process: the level is zero, for a second subscription too.  What
\* was handed out before does not belong to it.
ProcessSubscribe ==
  /\ Processing("subscribe")
  /\ subscribers' = Assigned(subscribers, cur.coro, 0)
  /\ start' = [start EXCEPT ![cur.coro] = dropped]
  /\ got' = [got EXCEPT ![cur.coro] = <<>>]
  /\ holders' = holders \ {cur.coro}
  /\ Continue(active, cur)
  /\ UNCHANGED <<timeouts, messages, active_subscribers, log, dropped>>

\* PSUnsubscribe.process: KeyError for who is not subscribed.
ProcessUnsubscribe ==
  /\ Processing("unsubscribe")
  /\ IF cur.coro \in DOMAIN subscribers
     THEN /\ subscribers' = Restrict(subscribers, DOMAIN subscribers \ {cur.coro})
          /\ Continue(active, cur)
          /\ UNCHANGED timeouts
     ELSE Throw(ErrorExc, timeouts) /\ UNCHANGED subscribers
  /\ UNCHANGED <<messages, active_subscribers, holders, historyVars>>

Process ==
  \/ ProcessEnd \/ ProcessPublish \/ ProcessFetch \/ ProcessSubscribe \/ ProcessUnsubscribe
-----------------------------------------------------------------------------
(***************************************************************************)
(* Scheduler.handle_timeouts: PSGet.cleanup looks for the coroutine in     *)
(* active_subscribers; who is not there has its result already.            *)
(***************************************************************************)
\* Mutant: the fetch stays.
WithFetch(c) == active_subscribers

\* del active_subscribers[key]
WithoutFetch(c) == Restrict(active_subscribers, DOMAIN active_subscribers \ {c})

TimeoutFetch == \E e \in timeouts :
  /\ Due(e) /\ e.op.c \in DOMAIN active_subscribers
  /\ timeouts' = timeouts \ {e}
  /\ active' = Append(active, Pair(TimeoutExc, e.op.c))
  /\ active_subscribers' = WithoutFetch(e.op.c)
  /\ UNCHANGED <<running, cur, phase, clock, state, opn, pend,
                 messages, subscribers, holders, historyVars>>

TimeoutTooLate == \E e \in timeouts :
  /\ Due(e) /\ e.op.c \notin DOMAIN active_subscribers
  /\ timeouts' = timeouts \ {e}
  /\ UNCHANGED <<active, running, cur, phase, clock, state, opn, pend, pubsubVars>>

Loop ==
  \/ LoopStep /\ phase = "run" /\ LetGo
  \/ LoopStep /\ phase # "run" /\ UNCHANGED pubsubVars
  \/ Resume \/ Process \/ TimeoutFetch \/ TimeoutTooLate

Next ==
  \/ Loop
  \/ Tick /\ UNCHANGED pubsubVars
  \/ Over /\ UNCHANGED pubsubVars

Spec == Init /\ [][Next]_vars
-----------------------------------------------------------------------------
(***************************************************************************)
(* Properties.                                                             *)
(***************************************************************************)
Message == Coro \X (1 .. MaxOps)

\* Everything that may resume coroutine c one day.
At(seq, c) == {i \in DOMAIN seq : seq[i].coro = c}
Places(c) ==
  {<<"active", i>> : i \in At(active, c)}
  \cup {<<"cur">> : x \in {cur.coro} \cap {c}}
  \cup {<<"fetch">> : x \in DOMAIN active_subscribers \cap {c}}

\* A coroutine is queued once or waits once, and is never lost: neither publish nor
\* a timeout resumes a coroutine that the other has resumed, and one of them does.
ExactlyOnePlace == \A c \in Coro : Alive(c) => Cardinality(Places(c)) = 1

\* publish() finds a level for each fetch that waits: who waits is subscribed,
\* so PSPut.process never stops half-way with a KeyError.
WaitersSubscribed == DOMAIN active_subscribers \subseteq DOMAIN subscribers

\* A fetch waits only while there is nothing new: its coroutine has got all
\* that was published since it subscribed, and all that was there then.
WaitsUpToDate == \A c \in DOMAIN active_subscribers :
  Len(Handed(c)) = Len(log) - start[c]

\* Subscribers read a log, as long as they read what a fetch returned before they
\* yield again: each gets every message from where it began, once and in order.
Log == INSTANCE MessageLog WITH
  Readers <- Coro, Messages <- Message, got <- [c \in Coro |-> Handed(c)]
ImplementsLog == Log!Spec

\* A fetch returns the messages that are new since the last one: nobody is handed
\* a message twice, whenever it reads what it was handed.
NoMessageTwice == \A c \in Coro : IsInjective(Handed(c))
=============================================================================
