------------------------------ MODULE IrcClient -----------------------------
(***************************************************************************)
(* The IRC example: irc-app.js in the browser, on XHR of                   *)
(* mootools-release-1.11.js, and the controller of controllers/irc.py that *)
(* answers it.  One Connection, one channel, one other user on it.         *)
(*                                                                         *)
(* The page keeps one request open, pull, that the controller answers with *)
(* the events of the server's connection, and sends what is typed with     *)
(* another, push.  A request may break: the page is told of a failure,     *)
(* while the controller goes on with it.                                   *)
(***************************************************************************)
EXTENDS Naturals, Sequences, FiniteSets, SequencesExt

CONSTANTS
  Commands,     \* what the IRC server may send after CONNECTED
  MaxEvents,    \* bound: events of the connection, CONNECTING and CONNECTED too
  MaxTyped,     \* bound: lines the user types
  MaxBreaks,    \* bound: requests that break
  QueueSize     \* queue.Queue(100): the events the controller keeps

AllCommands == {"PING", "JOIN_self", "JOIN", "NAMREPLY", "ENDOFNAMES", "PART", "QUIT",
                "PRIVMSG", "NOTICE"}

ASSUME ClientAssumption ==
  /\ Commands \subseteq AllCommands
  /\ {MaxEvents, MaxTyped, MaxBreaks} \subseteq Nat
  /\ QueueSize \in Nat \ {0, 1}

VARIABLES
  keeps,        \* the browser calls the handler that send() set, even if it was
                \* replaced before the answer came
  pull,         \* XHR: running, and whether an answer calls onStateChange
  push,         \* XHR: running, and the number of the call of send()
  connected,    \* Connection.connected
  id,           \* Connection.id is known
  tabs,         \* per tab of the channel: how often it lists the other user
  names         \* Channel.users: how often the other user is in it

VARIABLES
  relay,        \* the coroutine Connection.pull of the controller
  held,         \* the event it waits to put into the queue
  events,       \* Connection.events
  serving,      \* the controller's handler of the pull the page waits for: what
                \* it does, and the events it has taken
  orphans,      \* the handlers of pulls that broke
  pushing       \* the pushes it handles

VARIABLES
  arrived,      \* history: the number of events of the connection so far
  processed,    \* history: the events the page processed, by number
  gone,         \* history: those that were lost on the way
  asked,        \* history: the number of calls of push.send
  delivered,    \* history: the pushes that reached the IRC server
  refused,      \* history: those that never will
  broken,       \* history: how many requests broke
  pushBroke     \* history: one of them was a push

pageVars == <<keeps, pull, push, connected, id, tabs, names>>
serverVars == <<relay, held, events, serving, orphans, pushing>>
historyVars == <<arrived, processed, gone, asked, delivered, refused, broken, pushBroke>>
vars == <<pageVars, serverVars, historyVars>>

Nothing == [does |-> "nothing", list |-> <<>>]
Serve(what) == [does |-> what, list |-> <<>>]

Init ==
  /\ keeps \in BOOLEAN
  /\ pull = [running |-> TRUE, hears |-> TRUE]
  /\ push = [running |-> FALSE, n |-> 0]
  /\ connected = FALSE /\ id = FALSE
  /\ tabs = <<>> /\ names = 0
  /\ relay = "none" /\ held = <<>> /\ events = <<>>
  /\ serving = Serve("connect") /\ orphans = <<>> /\ pushing = {}
  /\ arrived = 0 /\ processed = <<>> /\ gone = {}
  /\ asked = 0 /\ delivered = <<>> /\ refused = {} /\ broken = 0 /\ pushBroke = FALSE

-----------------------------------------------------------------------------
(***************************************************************************)
(* What a handler of Connection does with an event.  s is what it may      *)
(* change; a handler that throws ends the loop over the answer.            *)
(***************************************************************************)

Refused(s) == [s EXCEPT !.asked = @ + 1, !.refused = @ \cup {s.asked + 1}]

Sent(s) == [s EXCEPT !.asked = @ + 1,
                     !.push = [running |-> TRUE, n |-> s.asked + 1],
                     !.pushing = IF id THEN @ \cup {s.asked + 1} ELSE @,
                     !.refused = IF id THEN @ ELSE @ \cup {s.asked + 1}]

\* Mutant: a request that runs does not keep the next one back.
SendAnyway(s) == Sent(s)

\* push.send: without autoCancel a request that runs makes it return silently.
\* Before the id is known the controller has no connection for a push.
Send(s) == IF s.push.running THEN Refused(s) ELSE Sent(s)

\* A tab is known by how many users it lists.
NewContext == 0

JoinedSelf(s) == [s EXCEPT !.tabs = Append(@, NewContext)]
Listed(s, n) == [s EXCEPT !.tabs = [i \in DOMAIN @ |-> @[i] + n]]
Named(s) == [s EXCEPT !.names = @ + 1]

\* With a reason every entry of the user goes.
Parted(s) == [s EXCEPT !.tabs = [i \in DOMAIN @ |-> 0]]

\* sprintf with more formats than arguments.
TooFewArguments(s) == [s EXCEPT !.threw = TRUE]

\* QUIT has no second parameter, nor has a PART without a reason: the message
\* cannot be written as soon as one entry was removed.
Quit(s) ==
  IF \A i \in DOMAIN s.tabs : s.tabs[i] = 0 THEN s
  ELSE LET t == CHOOSE i \in DOMAIN s.tabs :
                  s.tabs[i] > 0 /\ \A j \in 1..(i - 1) : s.tabs[j] = 0
       IN TooFewArguments([s EXCEPT !.tabs[t] = @ - 1])

ProcessMessage(s, e) ==
  LET done == [s EXCEPT !.processed = Append(@, e.n)]
  IN CASE e.command \in {"CONNECTED", "PING"} -> Send(done)
       [] e.command = "JOIN_self" -> JoinedSelf(done)
       [] e.command = "JOIN" -> Listed(done, 1)
       [] e.command = "NAMREPLY" -> Named(done)
       [] e.command = "ENDOFNAMES" -> Listed(done, done.names)
       [] e.command = "PART" -> Parted(done)
       [] e.command = "QUIT" -> Quit(done)
       [] OTHER -> done

\* Json.evaluate(text).each(processMessage)
Process(s, list) ==
  LET after[i \in 0..Len(list)] ==
        IF i = 0 THEN s
        ELSE LET r == after[i - 1]
             IN IF r.threw THEN [r EXCEPT !.gone = @ \cup {list[i].n}]
                ELSE ProcessMessage(r, list[i])
  IN after[Len(list)]

Handlers == [push |-> push, pushing |-> pushing, tabs |-> tabs, names |-> names,
             processed |-> processed, gone |-> gone, asked |-> asked, refused |-> refused,
             threw |-> FALSE]

Becomes(s) ==
  /\ push' = s.push /\ pushing' = s.pushing /\ tabs' = s.tabs /\ names' = s.names
  /\ processed' = s.processed /\ gone' = s.gone /\ asked' = s.asked /\ refused' = s.refused
-----------------------------------------------------------------------------
(***************************************************************************)
(* XHR.onStateChange and the handlers of pull.                             *)
(***************************************************************************)

\* Mutant: the answer is processed, but nothing is asked for again.
NotResent(threw) == [running |-> FALSE, hears |-> FALSE]

\* pull.send from within the handler, on the same transport; onStateChange then
\* replaces the handler that send() has set, unless something threw.
Resent(threw) == [running |-> TRUE, hears |-> keeps \/ threw]

PullSuccess ==
  /\ serving.does = "answer" /\ pull.hears
  /\ LET s == IF connected THEN Process(Handlers, serving.list) ELSE Handlers IN
     /\ Becomes(s)
     /\ pull' = Resent(s.threw)
     /\ serving' = IF pull'.running THEN Serve("drain") ELSE Nothing
  /\ connected' = TRUE /\ id' = TRUE
  /\ UNCHANGED <<keeps, relay, held, events, orphans, arrived, delivered, broken, pushBroke>>

Numbers(list) == {e.n : e \in ToSet(list)}

\* The answer of a pull nobody listens to.
PullUnheard ==
  /\ serving.does = "answer" /\ ~pull.hears
  /\ gone' = gone \cup Numbers(serving.list)
  /\ serving' = Nothing
  /\ UNCHANGED <<pageVars, relay, held, events, orphans, pushing, arrived, processed, asked,
                 delivered, refused, broken, pushBroke>>

\* A pull breaks, before or after the controller has answered.  The page asks
\* again; without an id the controller fails that, and the next, for ever.
PullFailure ==
  /\ broken < MaxBreaks
  /\ serving.does # "nothing" /\ pull.hears
  /\ broken' = broken + 1
  /\ IF serving.does = "answer"
     THEN gone' = gone \cup Numbers(serving.list) /\ UNCHANGED orphans
     ELSE orphans' = Append(orphans, serving) /\ UNCHANGED gone
  /\ pull' = Resent(FALSE)
  /\ serving' = IF id THEN Serve("drain") ELSE Nothing
  /\ UNCHANGED <<keeps, push, connected, id, tabs, names, relay, held, events, pushing, arrived,
                 processed, asked, delivered, refused, pushBroke>>
-----------------------------------------------------------------------------
(***************************************************************************)
(* Context.processInput, and the answers of push.                          *)
(***************************************************************************)
ProcessInput ==
  /\ asked < MaxTyped
  /\ Becomes(Send(Handlers))
  /\ UNCHANGED <<keeps, pull, connected, id, relay, held, events, serving, orphans, arrived,
                 delivered, broken, pushBroke>>

\* push_success and push_failure do nothing.
PushSuccess ==
  /\ push.running /\ push.n \notin pushing
  /\ push' = [push EXCEPT !.running = FALSE]
  /\ UNCHANGED <<keeps, pull, connected, id, tabs, names, serverVars, historyVars>>

\* A push breaks; the controller may have got it, or not.
PushFailure ==
  /\ push.running /\ broken < MaxBreaks
  /\ push' = [push EXCEPT !.running = FALSE]
  /\ broken' = broken + 1 /\ pushBroke' = TRUE
  /\ \/ UNCHANGED <<pushing, refused>>
     \/ /\ push.n \in pushing
        /\ pushing' = pushing \ {push.n}
        /\ refused' = refused \cup {push.n}
  /\ UNCHANGED <<keeps, pull, connected, id, tabs, names, relay, held, events, serving, orphans,
                 arrived, processed, gone, asked, delivered>>
-----------------------------------------------------------------------------
(***************************************************************************)
(* The controller's connect, pull and push.                                *)
(***************************************************************************)

\* Mutant: the newest event is put in front.
Newest(list, e) == <<e>> \o list

\* ev_list.append(event)
Collected(list, e) == Append(list, e)

Works(h) == h.does \in {"connect", "drain", "wait"}
Takes(h) == h.does \in {"drain", "wait"} /\ events # <<>>

\* connect answers the id.  pull takes what there is, waiting a moment for more,
\* and only if that was nothing waits 30 seconds for one event.
Handled(h) ==
  IF Takes(h)
  THEN [does |-> IF h.does = "drain" THEN "drain" ELSE "answer",
        list |-> Collected(h.list, Head(events))]
  ELSE [h EXCEPT !.does = IF h.does = "drain" /\ h.list = <<>> THEN "wait" ELSE "answer"]

HandlerStep(h) ==
  /\ Works(h)
  /\ relay' = IF h.does = "connect" THEN "connecting" ELSE relay
  /\ events' = IF Takes(h) THEN Tail(events) ELSE events
  /\ UNCHANGED <<pageVars, held, pushing, arrived, processed, asked, delivered, refused,
                 broken, pushBroke>>

ServingStep ==
  /\ HandlerStep(serving)
  /\ serving' = Handled(serving)
  /\ UNCHANGED <<orphans, gone>>

\* The handler of a broken pull goes on; what it has taken is lost with its answer.
OrphanStep ==
  \E i \in DOMAIN orphans :
    LET r == Handled(orphans[i]) IN
    /\ HandlerStep(orphans[i])
    /\ orphans' = IF r.does = "answer" THEN RemoveAt(orphans, i)
                  ELSE [orphans EXCEPT ![i] = r]
    /\ gone' = IF r.does = "answer" THEN gone \cup Numbers(r.list) ELSE gone
    /\ UNCHANGED serving

\* push writes to the IRC server, which fails unless the socket is connected.
PushHandled ==
  \E n \in pushing :
    /\ pushing' = pushing \ {n}
    /\ \/ /\ relay \in {"reading", "ended"}
          /\ delivered' = Append(delivered, n) /\ UNCHANGED refused
       \/ /\ relay # "reading"
          /\ refused' = refused \cup {n} /\ UNCHANGED delivered
    /\ UNCHANGED <<pageVars, relay, held, events, serving, orphans, arrived, processed, gone,
                   asked, broken, pushBroke>>
-----------------------------------------------------------------------------
(***************************************************************************)
(* The coroutine Connection.pull: it puts what the IRC server sends into   *)
(* the queue, and waits 45 seconds for room there.                         *)
(***************************************************************************)
RelayStep == UNCHANGED <<pageVars, serving, orphans, pushing, processed, asked, delivered,
                         refused, broken, pushBroke>>

Put(command) ==
  /\ arrived < MaxEvents
  /\ arrived' = arrived + 1
  /\ LET e == [n |-> arrived + 1, command |-> command]
     IN IF Len(events) < QueueSize
        THEN events' = Append(events, e) /\ held' = <<>>
        ELSE held' = <<e>> /\ UNCHANGED events

Connecting ==
  /\ relay = "connecting" /\ held = <<>>
  /\ Put("CONNECTING")
  /\ relay' = "dialing"
  /\ RelayStep /\ UNCHANGED gone

\* put_nowait raises when the queue is full, and that ends the coroutine.
Connected ==
  /\ relay = "dialing" /\ held = <<>>
  /\ IF Len(events) < QueueSize THEN Put("CONNECTED") /\ relay' = "reading"
     ELSE relay' = "ended" /\ UNCHANGED <<arrived, events, held>>
  /\ RelayStep /\ UNCHANGED gone

ConnectTimeout ==
  /\ relay = "dialing" /\ held = <<>>
  /\ Put("CONNECT_TIMEOUT")
  /\ relay' = "connecting"
  /\ RelayStep /\ UNCHANGED gone

\* Any other error of connect ends the coroutine.
ConnectError ==
  /\ relay = "dialing" /\ held = <<>>
  /\ relay' = "ended"
  /\ RelayStep /\ UNCHANGED <<arrived, events, held, gone>>

ReadLine ==
  /\ relay = "reading" /\ held = <<>>
  /\ \E c \in Commands : Put(c)
  /\ RelayStep /\ UNCHANGED <<relay, gone>>

\* The server, or monitor, closes the socket.
ReadError ==
  /\ relay = "reading" /\ held = <<>>
  /\ Put("ERROR")
  /\ relay' = "ended"
  /\ RelayStep /\ UNCHANGED gone

Admitted ==
  /\ held # <<>> /\ Len(events) < QueueSize
  /\ events' = events \o held /\ held' = <<>>
  /\ RelayStep /\ UNCHANGED <<relay, arrived, gone>>

\* The put times out.  While connecting and while reading the coroutine reports
\* that, with another put; otherwise it ends.
PutTimeout ==
  /\ held # <<>> /\ Len(events) = QueueSize
  /\ gone' = gone \cup Numbers(held)
  /\ \/ relay = "dialing" /\ Put("CONNECT_TIMEOUT") /\ relay' = "connecting"
     \/ relay = "reading" /\ Put("ERROR") /\ relay' = "ended"
     \/ /\ relay \in {"connecting", "ended"}
        /\ held' = <<>> /\ relay' = "ended" /\ UNCHANGED <<arrived, events>>
  /\ RelayStep
-----------------------------------------------------------------------------
Next ==
  \/ PullSuccess \/ PullUnheard \/ PullFailure
  \/ ProcessInput \/ PushSuccess \/ PushFailure
  \/ ServingStep \/ OrphanStep \/ PushHandled
  \/ Connecting \/ Connected \/ ConnectTimeout \/ ConnectError
  \/ ReadLine \/ ReadError \/ Admitted \/ PutTimeout

Spec == Init /\ [][Next]_vars

\* The loop of the server goes on, and the browser delivers the answers.
Fairness == /\ WF_vars(PullSuccess) /\ WF_vars(ServingStep) /\ WF_vars(OrphanStep)
            /\ WF_vars(Admitted)

FairSpec == Spec /\ Fairness
-----------------------------------------------------------------------------
(***************************************************************************)
(* Properties.                                                             *)
(***************************************************************************)
Increasing(s) == \A i, j \in DOMAIN s : i < j => s[i] < s[j]

Lists == <<serving.list>> \o [i \in DOMAIN orphans |-> orphans[i].list]

\* No event of the connection is handled twice, none overtakes another on its
\* way through the queue and the pulls, and each that has not been processed is
\* still on its way or was lost in one of the known ways: an answer that broke,
\* one that threw, one that nobody hears (where keeps is false), a put that timed
\* out.
EventsAccounted ==
  /\ Increasing(processed)
  /\ Increasing([i \in DOMAIN (events \o held) |-> (events \o held)[i].n])
  /\ LET places == <<ToSet(processed), gone, Numbers(events), Numbers(held)>>
                     \o [i \in DOMAIN Lists |-> Numbers(Lists[i])]
     IN /\ UNION ToSet(places) = 1..arrived
        /\ \A i, j \in DOMAIN places : i # j => places[i] \cap places[j] = {}

\* What the user and the handlers send reaches the IRC server in the order it
\* was sent, each at most once, unless a push broke: one push is under way at a
\* time, and what is asked for meanwhile is never sent.
PushesInOrder ==
  /\ ~pushBroke => Increasing(delivered)
  /\ IsInjective(delivered)
  /\ ToSet(delivered) \cup pushing \cup refused = 1..asked
  /\ ToSet(delivered) \cap (pushing \cup refused) = {} /\ pushing \cap refused = {}

\* In a browser that keeps the handler, once the page knows its connection,
\* every event reaches it, or is lost in a known way, when the IRC server falls
\* silent (after MaxEvents at the latest), however many pulls break: the page never
\* stops asking.
EventsArrive == (keeps /\ id) ~> (1..arrived = ToSet(processed) \cup gone)
=============================================================================
