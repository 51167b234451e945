------------------------------ MODULE Effects -------------------------------
(***************************************************************************)
(* Fx.Base of mootools-release-1.11.js with its timers, chain and events,  *)
(* and the effects made from it: Fx.Style, Fx.Styles, Fx.Elements,         *)
(* Fx.Slide, Fx.Scroll with SmoothScroll, and Accordion.  A part is what   *)
(* the effect moves: a style, the wrapper, an axis, a section.  It is      *)
(* at one End or the other (0 closed, 2 open), or between them (1).        *)
(*                                                                         *)
(* The delay of onComplete and of a link of the chain is 10 ms, an         *)
(* interval's 20 ms.  Timeouts of equal delay fire in the order they were  *)
(* set, and those set before an interval was fire before its first tick.   *)
(***************************************************************************)
EXTENDS Widget, Naturals, Sequences, FiniteSets

CONSTANTS
  MaxRequests,   \* bound: calls that the page's code makes
  Sections       \* sections of an accordion; one more may be added

ASSUME EffectsAssumption == MaxRequests \in Nat /\ Sections \in Nat \ {0}

VARIABLES
  wait,          \* options.wait
  alwaysHide,    \* options.alwaysHide of an accordion
  timer,         \* this.timer: the handle of the interval, 0 for none
  intervals,     \* the browser's intervals: how many timeouts fire before
                 \* the next tick of each may come
  from, to,      \* what start() was given: a value for each part it moves
  css,           \* the parts this.css has a parser for
  shown,         \* where each part is on the page
  soon,          \* the timeouts of 10 ms, in order
  chains,        \* this.chains: each link starts the effect towards a target
  open,          \* Fx.Slide: this.open
  wheel,         \* Fx.Scroll: document listens to the mouse wheel
  anchor,        \* SmoothScroll: where the link clicked last leads
  hash,          \* SmoothScroll: window.location.hash
  previous,      \* Accordion: this.previous
  active         \* Accordion: the last event of a section was onActive

VARIABLES
  outcome,       \* history: what the last call promised for each part
  hasty,         \* history: the effect was started before onComplete had fired
  requests       \* history: the number of calls so far

fxVars == <<wait, alwaysHide, timer, intervals, from, to, css, shown, soon, chains,
            open, wheel, anchor, hash, previous, active, outcome, hasty, requests>>

EffectKinds == {"style", "styles", "slide", "scroll", "smooth", "accordion"}
Scrolls == kind \in {"scroll", "smooth"}
Ends == {0, 2}
Either == 1      \* an outcome nobody promised: the effect was cancelled
NoParts == [p \in {} |-> 0]

Initially == CASE kind = "style" \/ Scrolls -> {<<0>>}
               [] kind = "styles" -> {<<0, 0>>}
               [] kind = "slide" -> {<<2>>}
               [] kind = "accordion" -> {[i \in 1..Sections |-> 0],
                                         [i \in 1..Sections |-> IF i = 1 THEN 2 ELSE 0]}
               [] OTHER -> {NoParts}

\* An accordion without option show displays its first section at once.
FxInit ==
  /\ wait \in (IF kind \in EffectKinds THEN BOOLEAN ELSE {FALSE})
  /\ alwaysHide \in (IF kind = "accordion" /\ wait THEN BOOLEAN ELSE {FALSE})
  /\ shown \in Initially
  /\ from = shown
  /\ LET displays == kind = "accordion" /\ shown[1] = 0 IN
     /\ timer = IF displays THEN 1 ELSE 0
     /\ to = IF displays THEN [shown EXCEPT ![1] = 2] ELSE shown
     /\ intervals = IF displays THEN 1 :> 0 ELSE NoParts
  /\ css = DOMAIN shown
  /\ soon = <<>>
  /\ chains = <<>>
  /\ open = TRUE
  /\ wheel = FALSE
  /\ anchor = 0
  /\ hash = 0
  /\ previous = 1
  /\ active = [p \in DOMAIN shown |-> to[p] = 2]
  /\ outcome = to
  /\ hasty = FALSE
  /\ requests = 0
-----------------------------------------------------------------------------
(***************************************************************************)
(* Fx.Base.                                                                *)
(***************************************************************************)
Without(f, x) == [y \in DOMAIN f \ {x} |-> f[y]]

\* Mutant: $clear is forgotten.
NotCleared == intervals

\* stop(): onCancel has no listener inside the library.
Cleared == Without(intervals, timer)

Set(v) ==
  /\ shown' = v @@ shown
  /\ css' = IF kind \in {"styles", "accordion"} THEN DOMAIN v ELSE css

Promise(v) == [p \in DOMAIN outcome |->
                 IF p \in DOMAIN v THEN v[p]
                 ELSE IF timer # 0 /\ p \in DOMAIN to THEN Either ELSE outcome[p]]

\* A call while an effect runs returns at once when the effect waits.
Accepts == ~(wait /\ timer # 0)

\* start(), with `first' timeouts pending.  A scroll's onStart listens to the wheel.
Start(target, first) ==
  LET live == IF wait THEN intervals ELSE Cleared
      h == CHOOSE x \in 1..(Cardinality(DOMAIN live) + 1) : x \notin DOMAIN live
  IN /\ from' = [p \in DOMAIN target |-> shown[p]]
     /\ to' = target
     /\ timer' = h
     /\ intervals' = live @@ (h :> first)
     /\ css' = DOMAIN target
     /\ wheel' = (wheel \/ Scrolls)
     /\ outcome' = Promise(target)
     /\ UNCHANGED <<shown, open, hash>>

\* step() before the duration is over.  A part may be anywhere on its way; the
\* values are not written when this.css lacks one of the parts.
Partway(way) == [p \in DOMAIN from |->
                   IF from[p] = to[p] THEN to[p]
                   ELSE CASE way = "begin" -> from[p] [] way = "mid" -> 1 [] OTHER -> to[p]]

StepOn == \E h \in DOMAIN intervals, way \in {"begin", "mid", "end"} :
  /\ intervals[h] = 0
  /\ DOMAIN from \subseteq css
  /\ shown' = Partway(way) @@ shown
  /\ UNCHANGED <<wait, alwaysHide, timer, intervals, from, to, css, soon, chains, open,
                 wheel, anchor, hash, previous, active, outcome, hasty, requests>>

\* What step() schedules at the end: onComplete, then callChain().
Complete == <<[does |-> "complete"]>>
NextLink == IF chains = <<>> THEN <<>> ELSE <<Head(chains)>>

\* Mutant: the chain is called first.
ChainFirst == NextLink \o Complete

Scheduled == Complete \o NextLink

\* step() when the duration is over: stop(true), set(to), onComplete, callChain().
StepEnd == \E h \in DOMAIN intervals :
  /\ intervals[h] = 0
  /\ intervals' = Cleared
  /\ timer' = 0
  /\ Set(to)
  /\ soon' = soon \o Scheduled
  /\ chains' = IF chains = <<>> THEN <<>> ELSE Tail(chains)
  /\ UNCHANGED <<wait, alwaysHide, from, to, open, wheel, anchor, hash, previous, active,
                 outcome, hasty, requests>>
-----------------------------------------------------------------------------
(***************************************************************************)
(* The timeouts.                                                           *)
(***************************************************************************)
OneLess(f) == [h \in DOMAIN f |-> IF f[h] > 0 THEN f[h] - 1 ELSE 0]

\* Mutant: the flag is that of the moment the effect was asked for.
OpenKept == open

\* Fx.Slide notes whether it is open, Fx.Scroll leaves the wheel alone, and
\* SmoothScroll sets the location, with which the browser jumps to the anchor.
OpenAfter == IF kind = "slide" THEN shown[1] = 2 ELSE open

Completed ==
  /\ open' = OpenAfter
  /\ wheel' = (wheel /\ ~Scrolls)
  /\ intervals' = OneLess(intervals)
  /\ IF kind = "smooth" THEN hash' = anchor /\ shown' = <<anchor>> ELSE UNCHANGED <<hash, shown>>
  /\ UNCHANGED <<timer, from, to, css, outcome, hasty>>

Linked(target) ==
  IF Accepts THEN Start(target, Len(soon) - 1) /\ hasty' = FALSE
  ELSE /\ intervals' = OneLess(intervals)
       /\ UNCHANGED <<timer, from, to, css, shown, open, wheel, hash, outcome, hasty>>

FireTimeout ==
  /\ soon # <<>>
  /\ IF Head(soon).does = "complete" THEN Completed ELSE Linked(Head(soon).target)
  /\ soon' = Tail(soon)
  /\ UNCHANGED <<wait, alwaysHide, chains, anchor, previous, active, requests>>
-----------------------------------------------------------------------------
(***************************************************************************)
(* What the page's code may ask for.                                       *)
(***************************************************************************)
Asks == requests < MaxRequests /\ requests' = requests + 1

AskStart(target) ==
  /\ Asks
  /\ Accepts
  /\ Start(target, Len(soon))
  /\ hasty' = (\E i \in DOMAIN soon : soon[i].does = "complete")
  /\ UNCHANGED <<wait, alwaysHide, soon, chains>>

StyleStart == kind = "style" /\ \E v \in Ends : AskStart(<<v>>) /\ UNCHANGED <<anchor, previous, active>>

\* Fx.Styles moves the styles it is given, not all of them.
Targets(parts) == UNION {[P -> Ends] : P \in SUBSET parts \ {{}}}

StylesStart == kind = "styles" /\ \E v \in Targets(1..2) :
  AskStart(v) /\ UNCHANGED <<anchor, previous, active>>

SlideIn == kind = "slide" /\ AskStart(<<2>>) /\ UNCHANGED <<anchor, previous, active>>
SlideOut == kind = "slide" /\ AskStart(<<0>>) /\ UNCHANGED <<anchor, previous, active>>
Toggle == kind = "slide" /\ IF shown[1] = 0 THEN SlideIn ELSE SlideOut

ScrollTo == kind = "scroll" /\ \E v \in Ends : AskStart(<<v>>) /\ UNCHANGED <<anchor, previous, active>>

\* A click is noted even when the effect refuses to start.
UseLink == kind = "smooth" /\ \E v \in Ends :
  /\ anchor' = v
  /\ \/ AskStart(<<v>>)
     \/ /\ ~Accepts /\ Asks
        /\ outcome' = <<v>>
        /\ UNCHANGED <<wait, alwaysHide, timer, intervals, from, to, css, shown, soon,
                       chains, open, wheel, hash, hasty>>
  /\ UNCHANGED <<previous, active>>

\* set() does not stop an effect that runs: its next step moves the parts back.
AskSet(v) ==
  /\ Asks
  /\ Set(v)
  /\ outcome' = [p \in DOMAIN outcome |->
                   IF p \in DOMAIN v /\ ~(timer # 0 /\ p \in DOMAIN to) THEN v[p] ELSE outcome[p]]
  /\ UNCHANGED <<wait, alwaysHide, timer, intervals, from, to, soon, chains, wheel,
                 anchor, hash, previous, active, hasty>>

StyleSet == \/ kind = "style" /\ \E v \in Ends : AskSet(<<v>>) /\ UNCHANGED open
            \/ kind = "styles" /\ \E v \in Targets(1..2) : AskSet(v) /\ UNCHANGED open
ShowHide == kind = "slide" /\ \E v \in Ends : AskSet(<<v>>) /\ open' = (v = 2)

\* chain() with a function that starts the effect again.
AddLink == kind \in {"style", "slide", "scroll"} /\ \E v \in Ends :
  /\ Asks
  /\ chains' = Append(chains, [does |-> "start", target |-> <<v>>])
  /\ UNCHANGED <<wait, alwaysHide, timer, intervals, from, to, css, shown, soon, open,
                 wheel, anchor, hash, previous, active, outcome, hasty>>

ClearChain ==
  /\ chains # <<>>
  /\ chains' = <<>>
  /\ UNCHANGED <<wait, alwaysHide, timer, intervals, from, to, css, shown, soon, open,
                 wheel, anchor, hash, previous, active, outcome, hasty, requests>>

\* stop(), called by the page or, for a scroll, by the mouse wheel.
Stop ==
  /\ timer # 0
  /\ intervals' = Cleared
  /\ timer' = 0
  /\ outcome' = Promise(NoParts)
  /\ UNCHANGED <<wait, alwaysHide, from, to, css, shown, soon, chains, open, wheel,
                 anchor, hash, previous, active, hasty, requests>>

WheelStop == wheel /\ Stop
-----------------------------------------------------------------------------
(***************************************************************************)
(* Accordion.                                                              *)
(***************************************************************************)
Hides(i, index) == i # index \/ (alwaysHide /\ shown[i] > 0)

Display == kind = "accordion" /\ \E index \in DOMAIN shown :
  /\ index # previous \/ alwaysHide
  /\ previous' = index
  /\ active' = [i \in DOMAIN shown |-> ~Hides(i, index)]
  /\ AskStart([i \in DOMAIN shown |-> IF Hides(i, index) THEN 0 ELSE 2])
  /\ UNCHANGED anchor

AddSection ==
  /\ kind = "accordion"
  /\ Asks
  /\ Len(shown) = Sections
  /\ shown' = Append(shown, 0)
  /\ active' = Append(active, FALSE)
  /\ outcome' = Append(outcome, 0)
  /\ UNCHANGED <<wait, alwaysHide, timer, intervals, from, to, css, soon, chains, open,
                 wheel, anchor, hash, previous, hasty>>
-----------------------------------------------------------------------------
FxAsk == \/ StyleStart \/ StylesStart \/ Toggle \/ SlideIn \/ SlideOut \/ ScrollTo \/ UseLink
         \/ StyleSet \/ ShowHide \/ AddLink \/ ClearChain \/ Stop \/ WheelStop
         \/ Display \/ AddSection

FxNext == StepOn \/ StepEnd \/ FireTimeout \/ FxAsk

\* The browser's timers go on, and no duration is endless.
FxFairness == WF_fxVars(StepEnd) /\ WF_fxVars(FireTimeout)
-----------------------------------------------------------------------------
FxIdle == DOMAIN intervals = {} /\ soon = <<>>

PartsAtRest == \A p \in DOMAIN outcome : outcome[p] \in {Either, shown[p]}
SlideAtRest == kind = "slide" /\ outcome[1] # Either => open = (shown[1] = 2)
SmoothAtRest == kind = "smooth" /\ outcome[1] # Either => hash = shown[1]
AccordionAtRest == kind = "accordion" /\ (\A i \in DOMAIN outcome : outcome[i] # Either) =>
  /\ \A i \in DOMAIN shown : active[i] = (shown[i] = 2)
  /\ \A i \in DOMAIN shown : shown[i] = 2 => i = previous
  /\ ~alwaysHide => shown[previous] = 2

\* When no timer is left, the page shows what the last call that was accepted
\* asked for, part by part, unless stop() took the promise back: Fx.Base.stop
\* and start, whatever was chained, restarted or set in between.  The flag a
\* slide keeps agrees with what is shown, and so do the events of an accordion,
\* which shows one section, the one displayed last (or none with alwaysHide).  After
\* SmoothScroll the location names the anchor the page shows, that of the link
\* clicked last even if the scroll to it was refused.
AtRest == FxIdle => PartsAtRest /\ SlideAtRest /\ SmoothAtRest /\ AccordionAtRest

\* A scroll that runs stops when the wheel is turned, unless it was started
\* in the 10 ms before the onComplete of the one before: that call removes the
\* listener the new one had added (Fx.Scroll.initialize).
WheelStops == Scrolls /\ timer # 0 /\ ~hasty => wheel
=============================================================================
