# A verification development for cogen

cogen is a coroutine library for Python 2.  Coroutines are generators that
`yield` operations; a single-threaded scheduler processes the operations,
resumes coroutines as the operations complete, and polls sockets and timers in
between.  Its largest example is an IRC client: a page (`irc-app.js`, on
MooTools 1.11), a controller, and a relay coroutine to the IRC server.

The modules here model the scheduler, the operations on coroutines, the timer
heap, the coroutine queue, the publish/subscribe queue and the proactors that
poll; the IRC client from the page to the relay; and the parts of MooTools that
keep state from one callback to the next.  TLC checks them on small instances,
and TLAPS proves every safety property and refinement that the passing runs check for
every instance; section 4 says under which hypotheses.

Paths are relative to `src/cogen/`; `irc/` stands for
`src/examples/cogen-irc/CogenIrcApp/cogenircapp/`.

## 1. The system

### Parts, their state and their operations

| Part | State it keeps | Operations |
|---|---|---|
| Main loop, `core/schedulers.py` | `active` (deque of (op, coro) pairs), `timeouts` (heap), `sigwait`, `signals`, `running`, the pair of the inner loop, `urgent` | `add`, `iter_run`, `process_op`, `handle_timeouts`, `next_timer_delta`, `shutdown`, `cleanup` |
| Coroutines, `core/coroutines.py` | per instance: `state`, `caller`, `waiters`, `exception`, `result` | `run_op`, `process` (a call, or the end of the coroutine), `finalize`, `add_waiter`, `remove_waiter` |
| Base operations, `core/events.py` | per operation: `prio`, `state`, `timeout`, result | `process`, `finalize`, `cleanup` of `WaitForSignal`, `Signal`, `AddCoro`, `Join`, `Sleep` |
| Timer heap, `core/events.py` | the list `Scheduler.timeouts` | `heappush`, `heappop`, `heapremove` |
| Queue, `core/queue.py` | `queue`, `waiting_gets`, `waiting_puts`, `unfinished_tasks`, `joinees` | `put`, `get`, `put_nowait`, `get_nowait`, `task_done`, `join` |
| Publish/subscribe, `core/pubsub.py` | `messages`, `subscribers` (levels), `active_subscribers` | `publish`, `subscribe`, `unsubscribe`, `fetch`, `compact` |
| Proactors, `core/proactors/*` | `tokens`, and per kind a `shadow` table and the kernel's registrations | `request_*`, `run`, `handle_event`, `yield_event`, `handle_error_event`, `remove_token` |
| Sockets, `core/sockets.py` | per operation: buffer and progress; per file object: `_rbuf`, `_wbuf` | `recv`, `send`, `sendall`, `sendfile`, `accept`, `connect`; `read`, `readline`, `write`, `flush` |
| Pipes, `core/pipe.py` | per token: `data`, `started`, `ended`, `abort` | `Iterate`, the token, `chunk`, `stop` |
| Corolets, `magic/*` | as coroutines, over greenlets | `run_op`, `yield_` |
| IRC client, `irc/public/irc-app.js`, `irc/controllers/irc.py` | page: `pull` and `push` (one request each), `id`, tabs and their users; server: the queue of events, the relay | `pull_success`, `pull_failure`, `processMessage`, `processInput`; `connect`, `push`, `pull`, `Connection.pull` |
| MooTools, `irc/public/mootools-release-1.11.js` | per widget: timers, chain, listeners, what it shows; per request: `running`, the transport | see section 2 |
| WSGI, `web/wsgi.py`, `web/async.py` | per connection: the request, `chunked_write`, `close_connection`, the proxy's `operation` and `result` | `run`, `start_response`, `serve` |

### How they interact

The scheduler pops a pair (op, coro) from `active` and calls
`coro.run_op(op)`, which sends `op.finalize()` into the generator, or throws
when op is a `CoroutineException`.  What the generator yields goes to
`process_op`, which calls `op.process(sched, coro)`.  That method returns a pair
to run at once, or keeps the coroutine somewhere: in `sigwait` or `signals`, in
the `waiters` or `caller` of another coroutine, in a queue's deques, in the
proactor's tokens, in the timer heap.  A timed operation is also pushed on the
heap.  `handle_timeouts` pops expired operations, calls their `cleanup`, and
queues an `OperationTimeout` for the coroutine if the cleanup returns true.
When a generator ends, `run_op` returns the coroutine itself, and its own
`process` releases the caller and the waiters.

A socket operation is tried at once, or becomes a token whose descriptor the
proactor watches.  `Proactor.run` takes a batch of events and handles one after
the other; a coroutine may be resumed in the middle of a batch, and the pair of
the last operation that completed is returned to the loop as `urgent`, to be run
first.

The page of the IRC client keeps one request open, `pull`.  The controller answers
it with the events that have gathered in a `cogen` queue, which the relay fills
from the IRC server; whatever the user or a handler sends goes out with a second
request, `push`.  Both are XHR instances of MooTools.  The browser runs one
callback at a time.

There are no threads, but every `yield` is an interleaving point, and the two
ways a waiting coroutine can be resumed -- by what it waits for, and by its
timer -- are undone by different code.

### What is hard

* A coroutine must stand in exactly one place that will resume it.  Nothing
  enforces this; each `process`, `finalize` and `cleanup` maintains it by hand.
* An operation that completes is queued first and finalized later; its timer is
  on the heap all the while (the source has a TODO for it,
  `core/schedulers.py:124`).
* Operations compare by deadline (`TimedOperation.__cmp__`), so everything that
  searches (`heap.index`, `deque.remove`) may find another operation.
* Handovers in the queue move an item and up to two coroutines, by two
  priorities of two operations.
* The events of a batch outlive the tokens they are for, and a one-shot
  registration is spent by its event whether or not the operation completes.
* A request of the page can break while its handler on the server goes on and takes
  events with it; a handler of an answer that sends again meets the rest of
  `onStateChange` afterwards.
* MooTools puts completion off with timeouts of 10 and 20 ms, and page code may
  start, stop, chain and cancel in between.
* Exceptions inside `process` are thrown in the coroutine; exceptions inside
  `cleanup`, or in the handler itself, take the loop down.

`PROJECT.json` lists the hazards one by one, each with its line.

## 2. The modules

| Module | Models | How |
|---|---|---|
| `SchedCore` | the main loop, `run_op`, `TimedOperation`, `handle_timeouts` | one action per turn of the loop; extended by `Scheduler`, `CoroQueue` and `PubSub` |
| `Scheduler` | programs of calls, `AddCoro`, `Join`, `Sleep`, `WaitForSignal`, `Signal` | one action per `process` and `cleanup` |
| `TimerHeap` | `heappush`, `heappop`, `heapremove` on a list | each loop as a function of its turns, one action per use of the heap |
| `TimerSet` | abstract: the set of timers `SchedCore` works with | implemented by `TimerHeap` |
| `CoroQueue` | programs of `Queue` operations | one action per `process` and `cleanup` |
| `BoundedFifo` | abstract: a FIFO with room for a number of items | implemented by `CoroQueue` |
| `PubSub` | programs of `PublishSubscribeQueue` operations | one action per `process` and `cleanup` |
| `MessageLog` | abstract: a log that readers read once and in order | implemented by `PubSub` |
| `Proactor` | the proactors that poll, with the loop that runs them | one action per turn of the loop, per event of a batch, per timer |
| `IrcClient` | page, controller and relay | one action per callback of the page and per turn of a coroutine |
| `Widget` | which widget the page holds | |
| `Effects` | `Fx.*`, `Chain`, `SmoothScroll`, `Accordion` | one action per tick, timeout or call |
| `Mouse` | `Drag`, `Slider`, `Sortables`, `Tips`, `Scroller` | one action per mouse event, tick or call |
| `Elements` | listeners, `domready`, `Group`, `Asset`, `Garbage.trash` | one action per call or event |
| `HashCookie` | `Hash.Cookie` in several pages | one action per call |
| `Requests` | `XHR`, `Ajax`, `Json.Remote` | one action per call, answer or timeout |
| `Page` | a page with any one of these widgets | composes the five |
| `LoopProofs` | | lemmas on deques of pairs, on timers and on the steps of `SchedCore` that the proofs below share |
| `SchedulerProofs` | | types of `Scheduler`, kept-back signals, what an end releases; where a coroutine is: never lost, never twice, never early, proved |
| `TimerHeapProofs` | | `TimerHeap` stays in order and implements `TimerSet`, proved |
| `CoroQueueProofs` | | the handover discipline of `CoroQueue`, that it implements `BoundedFifo`, and where a coroutine is, what it gets, its timer, the counts, proved |
| `PubSubProofs` | | places and levels of `PubSub`, and that it implements `MessageLog`, proved |
| `ProactorProofs` | | wakeups of `Proactor`, proved |
| `IrcClientProofs` | | the order of events and pushes of `IrcClient`, proved |
| `PageProofs` | | every invariant of `Page`, widget by widget, proved |
| `MCScheduler`, `MCTimerHeap`, `MCCoroQueue`, `MCPubSub`, `MCProactor`, `MCIrcClient`, `MCPage` | | instances for TLC |

### SchedCore

`phase` is where the loop is.  `"pick"`: the head of `iter_run`'s `while`.
`"run"`: `coro.run_op(op)` is about to be called with the pair `cur`.
`"process"`: `process_op(cur.op, cur.coro)` is about to be called.  `"timers"`:
`handle_timeouts`, one expired entry per step.  `"done"`: the loop is over.
`"dead"`: an exception has left `iter_run`.

One step in `"run"` is `finalize`, the generator's code up to its next `yield`,
and the update of the coroutine's state; one step in `"process"` is a complete
`process` method.  An operation is a record whose identity is its class, its
coroutine and a serial number; it carries its deadline `at` (0: none), its
argument, which becomes its result, and its priority.  `DEFAULT` is replaced
before: `pr` is one of the other four priorities.

`timeouts` is the heap as a set of entries, each with a flag `live` for
`op.state is RUNNING`.  `Finalized` is what `heapremove` leaves: it takes *an*
entry with the deadline of the operation, and has no result when there is none
(`ValueError`).  `TimerHeap` shows that the list refines this.

The history variable `pend` is the operation a coroutine yielded last; `got` and
`done` of `CoroQueue` record what was handed out and declared done.  No guard
reads `got` or `done`.  `CoroQueue` reads `pend` in one place, to represent the
flag `waiting` of `QGet` and `QPut`: the operation waits if its coroutine
yielded it last and has not been scheduled since.

A program is nondeterministic: a coroutine that is resumed does anything in
`Kinds`.  So one run covers every program of its size.

### Scheduler

`ProcessEnd` is `CoroutineInstance.process` for a coroutine that has ended and
`ProcessCall` for one that is called.  `ProcessJoin` reproduces that
`TimedOperation.process` has overwritten `self.coro` when the join has a
timeout.  `TimeoutWait` is `WaitForSignal.cleanup`, with `CleanupRaises` for the
`TypeError` of comparing a deadline with None.  `Spawn` is the plain call
`sched.add(...)` inside a coroutine.

### CoroQueue

`GetNothing`, `GetItem` and `GetAndRefill` are the three outcomes of
`QGet.process`, `PutNoRoom`, `PutItem` and `PutToGetter` those of
`QPut.process`.  The `while` of `QGet.process` is one turn in `GetAndRefill`,
because puts wait at a full queue only; that is `FullWhilePutsWait`, checked and
proved.  An item is the identity of its put, so that losing, repeating and
reordering items can be told apart.  `YieldTaskDone`, `YieldQJoin` and `Rest` are what the
plain methods `task_done` and `join` make a coroutine yield: an operation, or None when
there is nothing to release or to wait for.  `Fail` is a coroutine that raises, by itself
or by the `ValueError` of a `task_done` too many.

### PubSub

The coroutines share one queue and give no keys, so each is known to the queue
as itself.  `FetchNew` and `FetchWaits` are the outcomes of `PSGet.process` (the
assertion for who is not subscribed is `FetchUnsubscribed`); `ProcessPublish` is
`PSPut.process`, whose loop over a dictionary runs in any order;
`ProcessSubscribe` and `ProcessUnsubscribe` are the other two, and `TimeoutFetch`
with `TimeoutTooLate` is `PSGet.cleanup`.  `Compact` is the plain call
`q.compact()`; the kind `"compact_unread"` restricts it to times when nobody is
subscribed.  A message is the identity of its publish.

A fetch at level 0 returns the list `messages` itself, and not a copy
(`core/pubsub.py:51`).  `holders` are the coroutines that have it: what they were handed
(`Handed`) goes on changing with the queue until they let go of it.  `LetGo` is that a
coroutine has read the list before it yields or ends; with the kind `"keep"` it may go on
with it over a yield.

`log`, `dropped`, `start` and `got` are history variables that no guard reads:
everything published, how much of it `compact` has removed, where in the log a
coroutine subscribed, and what its fetches have taken since.  `got` counts a
message when the operation takes it.  A fetch that takes messages and whose
deadline passes before its coroutine runs fails in `finalize`, and the coroutine
does not see them: the same race as `QueueRace` (section 5).

### Proactor

`phase` is as in `SchedCore`, with `"events"` while a batch is handled.  `tokens`,
`shadow`, `armed`, `stale` and `batch` are the dictionary `tokens`, the table
`shadow`, the descriptors the kernel watches, those whose flag `_proactor_added`
is set although it does not, and the rest of the list that `poll()` returned.
`Config` has the implementation (poll, or one-shot epoll) and the options
`multiplex_first`, `ops_greedy` and `proactor_greedy`.  An attempt of an operation
succeeds if there is something to read, fails if the peer has closed, and is
otherwise to be repeated; one kind of operation, a receive, stands for all.
There is no clock: a timer may expire in any turn of `handle_timeouts`.

The constant `Kinds` admits programs the proactors do not survive; the run has none
of them, and section 5 names each.

### IrcClient

`pull` and `push` are two XHR instances reduced to what matters here: `running`,
whether an answer is heard, and which call of `send` is under way.  `serving` is
the controller's handler of the pull the page waits for, `orphans` those of pulls
that broke.  `Connecting` to `ReadError` are the turns of the relay, `Admitted` and
`PutTimeout` the two ends of its wait at a full queue.  `keeps` is chosen at the
start: whether the browser calls the handler that `send` has set although
`onStateChange` has replaced it since (section 5).  An event is its command and its
number; `arrived`, `processed`, `gone`, `asked`, `delivered`, `refused` and
`pushBroke` are history.

### Page

The widgets share no state, so `kind` selects one at the start and the actions of
the others stay disabled.  What the page shows is reduced to where each part is: at
one end, at the other or between.  Time is the order of timeouts: of two with the
same delay the first set fires first, and one set before an interval was fires
before the interval's first tick.  `outcome`, `hasty`, `lost`, `meddled`, `disturbed`,
`leaked`, `late`, `twice`, `fate`, `evaluated` and `completed` are history.

`ThrowAway` is `Element.empty()` of whatever contains some of the elements with a tip:
`Garbage.trash` fires `trash` on each, and the tip goes, whichever element it is of.
`DocumentEvent` is `DOMContentLoaded` and then `load`, each once; `PollReady` the interval
by which WebKit asks for `readyState`.  The branch for Internet Explorer, which writes a
script element, is not modelled.

MooTools is third-party code.  It is modelled because the IRC page runs on it and
ships it, and because everything in it that waits for a callback is as exposed to
unexpected orders as the scheduler is.

## 3. What is checked

`None`, the coroutines and the names of signals are model values.  Each
coroutine issues at most `MaxOps` operations, bare yields and signals not counted, and
the clock stops at `MaxTime`.

| Run | Question | Bounds |
|---|---|---|
| `SchedTasks` | Is a coroutine ever lost, scheduled twice, or left behind by one that ended?  Does one take the loop down? | three coroutines, two operations each, all priorities, no deadlines |
| `SchedTimers` | Does a timer race lose a coroutine, wake one early or leave one waiting after it has gone on?  Does every sleeper wake? | clock to 2, timeouts 0 (none), 1, 2 |
| `SchedSignals` | Kept-back signals, and fairness of the deque beside coroutines that yield and signal for ever | zero to two recipients, lowest and highest priority |
| `TimerHeap` | Does `heapremove` keep the heap order, and remove the right entry? | heaps of up to six of eight operations, two for each deadline |
| `QueueHandoff` | Do handovers lose, repeat or reorder items or coroutines?  Is the count of unfinished tasks right, and does it release those who join? | room for one, all priorities, three coroutines, no deadlines |
| `QueueTimed` | Gets and puts that time out before, at and after the handover | clock to 2, timeouts 0, 1, 2 |
| `PubSub` | Does a subscriber miss a message, get it twice or out of order, or wait while there is one for it?  Do publishing and timers resume a fetch twice? | three coroutines, three operations each, clock to 1, timeouts 0 and 1, one priority |
| `Proactor` | Is whoever waits for a socket always watched, or about to be handled? | two coroutines, two operations each, two descriptors, poll and epoll with every combination of the options but one |
| `Irc` | Are events lost, doubled or reordered between the IRC server and the page, and commands on the way back?  Does the page go on asking? | five events, one typed line, one request that breaks, a queue of two |
| `Page` | Does each widget come to rest in the state last asked for, with its listeners gone, and is what was registered called? | four calls of an effect, two sections, six places, three functions, four requests with two links |

Why these bounds are enough for what they show: a handover involves two
coroutines and a third that waits behind or is queued between; a signal that is
kept back needs two waiters and a signaller; each waits once and does one thing
before or after, hence two operations.  Two deadlines that differ, and an
operation without one, give every order of a timer against a completion and of
two timers.  A removal from the middle of a heap first needs both directions
with six entries.  `maxsize` 1 makes a queue full and empty within one step of
each other.  A subscriber needs three operations to subscribe, read what is
there and wait for the next message; two others then publish, or subscribe and
wait beside it.  For the proactors two
descriptors make a batch with something behind the event that is handled, and two
operations make a coroutine that comes back in the middle of it.  Five events fill
the queue of two with one held back while a handler has others; one break leaves an
orphan beside the pull that replaced it.  An effect needs a start, something chained
or set during the run, and one call in the 10 ms after it.  Four requests are one
that is answered, one sent from its listener, one chained and one that cancels.
The proofs cover other values for what they state.

`Ties` is FALSE in the passing runs: no two timers have the same instant.  With
equal deadlines `heapremove` confuses them (section 5).
Real deadlines have microseconds, so ties are rare but not excluded (absolute
`datetime` timeouts, a coarse clock).

### Properties

* `ExactlyOnePlace`: a live coroutine stands in exactly one place that will resume
  it.  `Places` enumerates every such place.  In `SchedTimers` it is `NeverLost`,
  at least one place (see `WaitForSignal` below).
* `LoopSurvives`: no exception leaves the main loop.  It holds without deadlines
  and without yielded objects that are no operations; section 5 says what breaks
  it otherwise.
* `NoStaleWait`, `NoGhostWait`, `NoEarlyWake`: who waits waits for something
  that can still happen and is what its coroutine yielded last; who is resumed
  was due.
* `KeptBackSignal`, `SleepersWake`: signals, and that who sleeps wakes.
* `QueuedRuns`: who is in the deque runs in the end, however often others yield, or
  signal with priority `LAST`.  The loop promises no more: an operation that puts a
  coroutine in front of the deque passes those in it, and a coroutine that never ceases
  to signal with priority `FIRST` starves them (`appendleft`, `core/events.py:291`).  The
  property says so: either the deque is passed (`PassesQueue`) infinitely often, or
  whoever is in it runs.
* `EmptyWhileGetsWait`, `FullWhilePutsWait`, `WithinCapacity`: the discipline of
  the queue's handovers.
* `GetReturnsItem`, `ImplementsFifo`: what is got, and in which order.  Of a coroutine
  that has joined neither `GetReturnsItem` nor `ExactlyOnePlace` says anything, since the
  list `joinees` is never cleared and each later `QDone` queues it again (section 5).
  `BoundedFifo` lets a put that stands beyond the capacity be withdrawn, and
  nothing else.
* `WaitingHasTimer`, `TimedOpsResume`: a waiting operation with a deadline ends.
* `UnfinishedCounts`, `JoinReleased`: the promise of `Queue.join`, without timeouts.
* `WaitersSubscribed`, `WaitsUpToDate`: a waiting fetch has a level, so that
  `publish` never stops half-way, and waits only when its coroutine has had
  everything.
* `ImplementsLog`: from where it subscribed, a subscriber gets every message once
  and in order, and always up to the newest, provided that it reads what a fetch returned
  before it yields again.
* `NoMessageTwice`: the same without that proviso, as far as repetition goes; it is
  violated (section 5).
* `WakeupsKept`: the same for coroutines that use sockets, where a token counts only
  while its descriptor is watched, or in the batch, for that very operation.
* `EventsAccounted`, `PushesInOrder`: every line of the IRC server is in one place,
  shown once and in order, or was taken by a named failure; what is sent arrives in
  order, at most once.
* `EventsArrive`: once the page has its connection and no more comes, everything
  that was not lost is shown, however many pulls break.  Only where `keeps` holds.
* `AtRest`, `WheelStops`, `MouseAtRest`: when no timer is left, or the mouse has let
  go, a widget shows what the last accepted call asked for, its flags and events
  agree with what is shown, and its listeners are gone.  A tip is shown exactly while the
  mouse rests on its element, unless another one was thrown away meanwhile (`disturbed`).
* `CalledWhenDue`: listeners, `domready`, groups and assets call a function exactly
  when it is due, with the exceptions section 5 names (`EventsWhenDue`); of a request, each answer is shown, has its
  scripts run and completes once and in order (`AnswersWhenDue`).
* `CookieIsHash`: with `autoSave` the cookie is the hash of the page that saved last,
  unless it is too long, and `length` is the number of keys.
* `Settles`: every effect ends, every tip is hidden, every timeout of a request
  fires.
* `HeapOrdered`, `RemovesItself`, `ImplementsTimerSet`: the heap.

### Fairness

`WF(Loop)`: the loop does not pause while it has something to do -- nothing
blocks it, since no program of these models waits for a socket.  `SF(Tick)`:
time passes while the loop turns; strong, because `handle_timeouts` reads the
clock once and the model holds it during that phase, so `Tick` is enabled again
and again but not always.  The coroutines' choices are not fair: one may yield
for ever and never end.  Two liveness properties are excused when an exception
has left the loop (`phase = "dead"`), and `QueuedRuns` when the loop was told to
stop.

In `IrcClient` the fairness, which `FairSpec` adds to `Spec`, is that of a server and a network that go on: a handler
that can take a turn takes it (`ServingStep`, `OrphanStep`), a put that has room is
admitted (`Admitted`), and an answer is delivered (`PullSuccess`).  Nothing is
assumed of the relay or of the IRC server, and a request may break instead.  In
`Page` the browser's timers fire (`StepEnd`, `FireTimeout`, `TipTimeout`,
`RequestTimeout`); what the user and the page's code do is not fair.  `Proactor` has no
liveness property and no fairness.

Deadlock is checked in the runs of the scheduler, the heap and the queues: a state
without a successor would be a loop that neither ends nor goes on.  When the loop
has ended, `Over` stutters.  It is not checked in `Proactor`, `Irc` and `Page`, where
the bounds on operations, events and calls make a quiet system stop: no peer sends,
nobody types, no timer is set.

## 4. What is proved

The theorems hold for any set of coroutines and of names, any `MaxSize`, and any bounds,
delays, priorities, numbers of recipients and kinds, with the assumptions named in
`SchedCore`, `Scheduler`, `TimerHeap`, `CoroQueue`, `PubSub`, `Proactor`, `IrcClient` and the
widgets (they give the constants their types; None is no coroutine; the coroutines that are started are distinct;
those that use sockets, and the descriptors, are finitely many, and so are the functions and
images of `Elements` and the keys of `HashCookie`; the relay's queue has room for two; the
track of a slider is a multiple of its steps), and with the hypothesis on the program that a theorem states.  Each hypothesis is one that a run
satisfies, and leaves out a behaviour that does break the property: section 5 lists
them.

`LoopProofs` has the lemmas on what deques contain after an append, a prepend, a
removal or a reversal, and on what the steps that all three modules have in common do.

### The scheduler

* `TypeCorrect`, `SignalsKeptBack`, `EndsRelease` hold of every program.  `EndsRelease`
  needs `Flow`: an operation that is processed was yielded by the coroutine it is paired
  with, an instance that is yielded was not started before or is its own end, and a
  coroutine that is handed over as a result has ended.
* `NoGhosts` and `NotBeforeTime` need `Untied`: no two operations have the same deadline.
  With a default timeout, which an operation gets only when it is processed, it may
  coincide with another's.
* `NothingLost` needs `Lossless` besides: no signal asks for a number of recipients, since
  a second one that is kept back overwrites the first, and no coroutine does `Sleep(0)`,
  which sets no timer.  Timed waits are allowed: a coroutine that a signal and its timer
  both resume is queued twice (section 5), and not lost.
* `LoopGoesOn` needs `Plain`, that is `Untied` and no timed wait for a signal, as that
  second resumption stops the loop; and no yielded object that is no operation.  Calls,
  ends, additions, sleeps and joins with a timeout are all there.
* `PlacedOnce` needs `Plain` and `Lossless`: exactly one place then.

`SchedTasks` satisfies the hypotheses of the last five theorems, and `SchedTimers` those
of the first three of them.  The argument is in `Good`,
which has four parts, none of them inductive alone:

* `Lined`: nobody is twice in the line of what is run next, nor in it while he waits.
  A step that wakes somebody keeps this because he *was* waiting, in one place only:
* `Waiting`: what waits in `sigwait`, in `signals`, for a caller, for a joiner or on the
  heap is what its coroutine yielded last, in the place that operation belongs to.  A
  coroutine has one last operation, so it waits in one place.  A step that runs a
  coroutine changes its last operation; that nothing of it waits then is `Lined`.
* `Timed`: the deadlines on the heap, in `sigwait`, in the line and of the operation
  processed are told apart, so that `heapremove` and `deque.remove` find the operation
  they look for.
* `Answered`: who is in line after a sleep, a join or a call had a reason.

A timed wait can be in line twice, once with its operation and once with the timeout.
So `Lined` allows a pair in front of the timeout if it is moot: it is of a coroutine that
has ended, or `finalize` will raise because its timer has gone, which ends the coroutine
before the exception comes.  `Found` is the other half, that who lives is somewhere, and
`Simple`, without timed waits, that nothing in line is moot.

### The timer heap

`HeapStaysOrdered`, `HeapIsTimerSet` and `RemoveTakesItself` hold for lists of any length
and any deadlines.  The invariant is that the list is in heap order and no operation is on
it twice.  Each use breaks the order and mends it; the proof says what is left of it in
between:

* `Rising(h, p)`: only the item at `p` may be before its parent, and its children are not
  before that parent either.  A turn of `_siftdown` keeps this with the new position, and
  when it stops, at `start` or below an item that is not after, `Rising(h, start)` holds.
* `Sinking(h, p)`: the item at `p` may be out of order with its children as well.  A turn of
  `_siftup` keeps this, because it is the smaller child that moves up; at a leaf it is
  `Rising`.
* `Below`: the position stays in the subtree of `start`, so that the test `pos > startpos`
  of `_siftdown` stops it there and not beside it.

So `heapremove`, which fills the gap with the last item, needs both: after `_siftup` at the
gap the item there may still be before its parent, and the second `_siftdown`, from the gap
to the root, ends in `Rising(h, 1)`, which is heap order.  Each loop is a recursive function
of the number of turns; `CourseExists` shows that there is one, `CourseKeeps` that what each
turn keeps holds at the end.  With the tie that `TimerSet` allows, the proofs about the
scheduler, which rest on the abstract heap, hold for the list.

### The queue

* `TypeCorrect`: `TypeOK` is inductive by itself.  The sets of operations carry
  what the steps need: a get or put has a coroutine, a put has an item.
* `GetsWaitOnlyWhileEmpty`, `PutsWaitOnlyWhileFull` and `CapacityKept` follow from `Inv`,
  that is `TypeOK` with `EmptyWhileGetsWait`, `FullWhilePutsWait` and `WithinCapacity`.
  None of the three is inductive by itself.  A get at an empty queue begins to wait
  without looking at `waiting_puts`; that no put waits there is `FullWhilePutsWait`.  A
  put at a queue that is not full stores its item; that it does not overtake one that
  waits is `FullWhilePutsWait` again, and that `full` is tested with `==` does no harm is
  `WithinCapacity`.  A put at a full queue begins to wait; that no get waits there is
  `EmptyWhileGetsWait`.
* `QueueIsFifo`: the queue implements `BoundedFifo` under the mapping
  `pending` = `queue` followed by the items of `waiting_puts`.  A get maps to
  `Get`, whether or not it lets a waiting put in, since that only moves an item
  across the border of the two; a put maps to `Put` or, meeting a get, to
  `Pass`, which needs that `pending` is empty then (`EmptyWhileGetsWait`); a put
  that times out maps to `Withdraw` at a position beyond the capacity, which
  needs `FullWhilePutsWait`.  Every other step stutters.
* `JoinsAreReleased` and `NoTaskForgotten` (the count of unfinished tasks is never less
  than what was put and not declared done) hold of every program.  `CountsAreExact` holds
  without timeouts only: a put that timed out stays counted.
* `QueuedOnce`, `GetsGetItems` and `TimersAreSet` hold of programs with any timeouts, where
  no two deadlines are equal, none is given by default, and nobody joins: a second `QDone`
  queues joiners that have gone on.  The invariant `Held` relates each deque, the line and
  the heap to the operation a coroutine yielded last, as `Good` does above.

### Publish/subscribe

* `NobodyLost` and `NoLevelMissing` hold of every program of the model.  That a fetch which waits has a
  level rests on its coroutine not running, so that it cannot unsubscribe itself, and on
  the keys being the coroutines.
* `WaitersHaveRead` and `PubSubIsLog` assume that nobody calls `compact` while somebody is
  subscribed, as it shortens `messages` and leaves the levels as they are, and that
  nobody keeps what a fetch returned over a yield (no `"compact"` and no `"keep"` in
  `Kinds`).  The invariant says that `messages` is what `log` has behind `dropped`, that a
  level counts the messages of it that the subscriber has got, and that only the coroutine
  that runs, just resumed by the fetch, holds the list (`HoldersRun`): so no publish comes
  between the fetch and the reading.  A fetch maps to `Read`, and a publish
  to `Publish` with everyone who waits reading at once, in one step; that those who wait
  have read everything else is what makes the two agree.

### Proactors

* `NobodyWaitsUnheard` is `WakeupsKept`, for every program that does none of what `Kinds`
  stands for; section 5 says how each of the four breaks it.  The invariant has three
  parts.  `Placed`: a coroutine is queued, run or to be run first, or has a token, one of
  them and once.  `Turn`: `urgent` is empty from the moment it is taken until the last
  event of the next batch, so nothing in it is overwritten, and a batch names no descriptor
  twice.  `Watched`: `shadow` and `tokens` name the same operations; what is watched, or is
  still to be handled in the batch, has one; a one-shot descriptor is never both.  The last
  is why a coroutine that asks again in the middle of a batch cannot meet an old event.
  While `handle_event` runs a coroutine, poll still watches a descriptor without a token;
  `Watched` allows that one, and it is the one that `"request_again"` spoils.

### The IRC client

`EveryEventAccounted` and `PushesStayInOrder` hold for any number of events, typed lines
and breaks, any size of the queue and any commands.  The invariant says in which order the
places of an event lie: what was processed is older than what the answer under way has,
that than the queue, that than the put that waits; so neither a handler that drains the
queue nor an answer that is processed lets one event overtake another.  What is lost, and
what a handler holds whose pull broke, is apart from all of them.  Three more parts are
needed:

* `Connects`: until the page has its id its request is served by `connect`, which takes no
  event, so the answer that only brings the id, which the page does not process, has none.
* `Sendings`: unless a push broke, at most one is under way, it is the last one, and the
  request runs meanwhile.
* `held` has at most one event, the put for which the relay waits.

An answer may have any number of events, and a handler of one may push, open a tab or throw.
`Process` is a recursive function of the position, as a loop is.  `CourseExists` shows that
such a function exists (there is no least length for which it does not); `ProcessKeeps`,
that after each event `Sendings` and the order still hold (there is no least position at
which they fail).  The fairness of `FairSpec` plays no part.

### The page

A step of one widget leaves the others alone, so each widget has an invariant of its own,
kept by its own steps and by the stutter of the rest.

* `EffectsComeToRest` and `WheelListens`, from `FxOK`.  `TimersOK` is the heart of it: there
  is one interval at most, and it ticks only after every timeout that was set before it.
  So an effect that ends finds no timeout pending, and of those pending only the first can
  be an `onComplete`.  `PromiseOK` says where each part is going (or is), with an effect in
  progress and a `set()` in its middle; `AnchorOK`, `OpenOK` and `SectionsOK` say it of the
  location, of the flag of a slide and of an accordion's events, which are set at different
  times: on the click, 10 ms after the end, before the start.  `WheelOK`: unless the effect
  was started hastily, no `onComplete` is pending that would take its listener away.
* `NothingDragged`, from `MouseOK`: which listeners each kind of widget may have, where a
  knob is that is not `meddled` with, that the timer of the tips and of the scroller
  names the only timeout there is, and whether that one will show or hide the tip.
* `CallsAreDue`, from `ElementsOK` and `RequestsOK`.  Keys are in a list once, so that the
  splice takes all of a function out (`SplicedKeys`); once the document is complete no function that came before it is left
  uncalled; the images that have loaded are counted, each once unless it is in `twice`; of the requests none runs but the last, and a timeout is for an answer that
  came, `onComplete`'s behind everything that was completed.
* `CookieAgrees`, from `HashOK`: the length of the text of an object is a sum over its keys,
  a number because they are finitely many.  `SumExists` shows it by the least size at which
  there is no sum.  That the order of the keys does not matter is not needed.

`Widget` defines `:>` and `@@` as TLC's module does, in a form the provers can expand.

### Only model-checked

The liveness properties `SleepersWake`, `QueuedRuns`, `TimedOpsResume`, `EventsArrive` and
`Settles`, since liveness under fairness and ENABLED are out of the prover's reach.

## 5. Where code and documentation disagree

Two runs have `expect` violation: each checks one property, and TLC shows how the code
breaks it.

* `QueueRace`: an operation that was handed its item and is still queued when its
  deadline passes is popped from the heap; `finalize` then raises `ValueError`
  in `heapremove`, the coroutine fails and the item is gone.
* `PubSubKept`: the first fetch after a subscription returns the list of the queue itself
  (`core/pubsub.py:51`).  A subscriber that still has it after its next yield finds the
  messages in it that were published since, and its next fetch returns them once more,
  where the docstring promises "all the new messages since the last fetch"
  (`core/pubsub.py:125`).  `compact` takes messages out of that list, too.

Met while modelling, present in the models, without a run of their own:

* A `Join` with a timeout makes the joiner a waiter of itself: `TimedOperation.process`
  has overwritten `self.coro` (`core/events.py:375`).  Its timer alone releases it.
* With equal deadlines `heapremove` takes another operation's timer
  (`core/events.py:94`); a sleeping coroutine then sleeps for ever.  `Ties` TRUE
  violates `NeverLost`.
* `compact` removes messages and leaves the levels of the subscribers as they are
  (`core/pubsub.py:136`): a subscriber then waits although there are messages it has
  not had, and skips as many later on.  The kind `"compact"` violates `WaitsUpToDate`.
* A coroutine that yields None while `active` is empty is returned to the inner
  loop of `iter_run` (`core/schedulers.py:168`), which ends only when the
  coroutine does something else: until then no timer and no socket is looked at.
* `AddCoro` with priority `LAST` puts the new coroutine at the front of the
  deque, and with `OP` at its end: its test on `first` has the opposite sense
  (`core/events.py:326`), where `core/util.py:60` says that `LAST` always schedules "at the
  end of the queue".  `ProcessAdd` does as the code does.
* A coroutine that signals with priority `FIRST` for ever starves the deque: each signal
  puts it in front again (`core/events.py:291`).  `QueuedRuns` excuses it.
* `WaitForSignal.cleanup` returns True even if the signal has come already
  (`core/events.py:228`): the coroutine is queued twice, fails on the first
  (`heapremove`, as above), and the second stops the main loop with the
  assertion of `run_op`.
* An object that is no operation and has no `state` attribute, such as the
  `yield "bla"` in the docstring of `Join`, raises inside the handler of
  `process_op` (`core/schedulers.py:173`) and ends the main loop.
* `deque.remove` compares a timed operation with an untimed one: `TypeError` in
  `cleanup`, which ends the main loop (`core/events.py:225`,
  `core/queue.py:32`).
* A second signal that is kept back on a name overwrites the first, whose
  coroutine is lost (`core/events.py:279`).
* A `Join` on a coroutine that has ended raises `AssertionError` in the joiner
  (`core/coroutines.py:97`).
* `Signal` always, and `AddCoro` without `CORO`, resume their coroutine with
  `(None, coro)`: the documented result (number of coroutines woken, the
  instance) does not arrive (`core/events.py:293`, `core/events.py:330`).
* `Sleep(0)` sets no timer and never ends (`core/events.py:150`).
* `shutdown` is read by the outer loop only, so a coroutine that spins as
  in the first item cannot be stopped either.
* `get` and `put` with a timeout raise `OperationTimeout`, not `Empty` and
  `Full` (`core/queue.py:267`), and a put that timed out stays counted in
  `unfinished_tasks` (`core/queue.py:86`), so a `join` waits for ever; `joinees`
  is never cleared (`core/queue.py:145`).

* In the proactors, each a member of `Kinds` that violates `WakeupsKept`:
  `"lone_none"`, when the operation that completes is run at once and its coroutine,
  alone, yields None, `handle_event` drops the pair (`core/proactors/base.py:273`);
  `"request_again"`, poll unregisters a descriptor after `handle_event`, in which the
  coroutine may have registered it again (`core/proactors/poll_impl.py:74`);
  `"share"`, two operations on one descriptor share one slot of `shadow`
  (`core/proactors/poll_impl.py:33`); `"reuse"`, a descriptor that is closed and opened
  again keeps the flag of the old one (`core/proactors/stdlib_epoll_impl.py:43`).
* The priority of a `CoroutineException`, -1, has every bit set, so an error is always
  run inside `handle_event`.
* `onStateChange` ends by replacing the transport's handler
  (`irc/public/mootools-release-1.11.js:5154`).  A listener of the answer that sends again
  has just set a new one: by the standard, nobody hears the next answer.  The page's
  `pull_success` does exactly that, so its loop of pulls depends on the browser
  (`keeps`); in `Requests` the request is `deaf`, and unless `autoCancel` is set, the
  instance refuses every other one.
* If the first request of the page fails, `pull_failure` asks for `/pull/undefined`,
  which fails for ever (`irc/public/irc-app.js:56`).
* A push that is asked for while another is running is dropped without a word, a
  `PONG` too (`irc/public/mootools-release-1.11.js:5203`).
* A `QUIT`, or a `PART` without a reason, makes `sprintf` throw
  (`irc/public/irc-app.js:398`): one entry of the user list is removed, and the rest of the
  answer's events is lost.  A second `NAMES` doubles the list, a second `JOIN` of oneself
  opens a second tab.
* Events that a handler has taken for a pull that broke are lost.  `put_nowait` of
  `CONNECTED` at a full queue ends the relay (`irc/controllers/irc.py:75`).
* A linked request (10 ms) is sent before `onComplete` (20 ms) of the answer that
  released it.
* `removeEvents(type)` walks through the list that it shortens and leaves every second
  listener; functions on one custom event share one native listener, which the removal of
  one takes away.  On WebKit each function added to `domready` starts an interval, and one
  of them is cleared.  A `Group` with two functions fires early.  A cached image counts
  twice in `Asset.images` if the browser's load comes before the delayed one, which takes
  the listener away.  Functions for `domready` of which the first comes after the load are
  never called where nothing polls.  `Tips` hides its tip when another element with a tip
  is thrown away, though the mouse rests on the first.
* A scroll that is started within 10 ms after the end of another loses its wheel listener;
  a drag that is released outside the window leaves its ghost, or a droppable entered; a
  slider that is set while its knob is dragged goes back on release; `Hash.Cookie.save`
  measures the text before it is encoded.

Because of `unfinished_tasks`, `QueueHandoff` has no deadlines; because of `joinees`,
`ExactlyOnePlace` of `CoroQueue` leaves out who has joined: a second `QDone` queues
coroutines that have gone on.

## 6. What is not modelled

* The programs of `Scheduler`, `CoroQueue` and `PubSub` do no I/O, so there
  `self.proactor` is empty and `urgent` is None throughout; `Proactor` has the loop with
  I/O, and in turn no calls, joins and signals.  The two meet in `Pick`, `Resumes` and the
  deque only.
* The select, kqueue and old epoll loops, and completion ports.  `connect`, whose
  `ENOTCONN` counts as connected (`core/proactors/base.py:40`); partial sends; shutdown
  while operations are pending.  That `urgent` may starve the deque while a socket is
  always ready: no liveness holds there to be stated.
* Of the IRC client: several browsers and connections, the layout of messages, colours and
  formatting, the text of what is typed.
* Of MooTools: `Class` and inheritance, elements, selectors, arrays, strings, colours, the
  formatting of cookies and JSON.  Synchronous requests, a send within `onCancel`, a slide that uses two
  modes, `domready` in Internet Explorer, a `Scroller` started twice, a start of an effect within `onCancel`: the last two
  leave an interval that nothing stops.
* The `weak_timeout` branch of `handle_timeouts`: it needs the attribute
  `last_update`, which nothing in the repository sets.
* Yielding a coroutine instance a second time, `coroutines.local`, the debug
  decorators, corolets, pipes, WSGI.
* The content of results, exceptions and messages, unless an item's identity or
  "an exception" matters.
* Publish/subscribe with explicit keys.  Two coroutines may then use one key: the
  second fetch replaces the first, which is never resumed; one may unsubscribe
  the key for which the other waits, and `publish` stops half-way with a
  `KeyError`.
* Subclasses of `Queue` that override `_init`, `_put` and `_get`.

## 7. Plan

Every invariant and every refinement the runs check is proved.  What could be modelled
next, in order:

1. `Sockets`: partial sends and receives, `SendAll`, `SendFile`, the read loops
   of `_fileobject` against the stream they read from.
2. `Pipe`: the token between producer and consumer, `stop`.
3. `WSGIConnection`: keep-alive, chunked output, timeouts, as a program over
   sockets.
4. `PubSub` with explicit keys.
