-------------------------------- MODULE Mouse -------------------------------
(***************************************************************************)
(* The widgets of mootools-release-1.11.js that follow the mouse:          *)
(* Drag.Base and Drag.Move with droppables, Slider, Sortables, Tips and    *)
(* Scroller.  One coordinate is enough for each.  A drag starts with a     *)
(* mousedown and ends with the mouseup that reaches the document; one that *)
(* is released outside the window never does, and a second mousedown may   *)
(* follow.                                                                 *)
(***************************************************************************)
EXTENDS Widget, Integers, Sequences, FiniteSets

CONSTANTS
  Places,       \* where the mouse may be
  Limit,        \* the container ends at 0 and Limit; Slider: max
  Grid,         \* options.grid of the drag
  Snap,         \* options.snap of the drag
  Droppables,   \* per droppable, in order: the places it covers
  Steps,        \* options.steps of the slider
  Items,        \* the number of items of the list; each is two places high
  MaxGhosts     \* bound: ghosts in the page, after lost mouseups too

ASSUME MouseAssumption ==
  /\ Places \subseteq Nat
  /\ {Limit, Grid, Steps, Items, MaxGhosts} \subseteq Nat \ {0}
  /\ Snap \in Nat
  /\ Limit % Steps = 0      \* toPosition() is a whole number of pixels

VARIABLES
  docs,         \* the listeners on document (Scroller: on the element)
  attached,     \* mousedown is listened to
  at,           \* where the element (the knob) is
  valueNow,     \* Drag.Base: value.now
  grab,         \* Drag.Base: mouse.pos
  began,        \* Drag.Base: mouse.start
  out,          \* Drag.Base: this.out
  overed,       \* Drag.Move: this.overed, 0 for none
  entered,      \* the droppables that got over, and neither leave nor drop since
  step, previousChange, previousEnd,   \* Slider
  order,        \* Sortables: the items as the list shows them
  dragged,      \* Sortables: this.active
  last,         \* Sortables: this.previous, 0 for null
  ghosts,       \* Sortables: the ghosts in document.body
  ghosted,      \* Sortables: options.ghost
  delays,       \* Tips: the browser's timeouts, by handle
  delay,        \* Tips, Scroller: this.timer, 0 for none
  timesOut,     \* Tips: options.timeout is set
  over,         \* the element of the tips the mouse is over, 0 for none
  tip,          \* Tips: the element the wrapper describes
  visible,      \* Tips: the tip is shown
  thrown,       \* the elements of the tips that were thrown away
  page,         \* Scroller: this.page, at the low or the high edge or neither
  scrolled      \* Scroller: the element is scrolled to its start (0) or end (2)

VARIABLES
  held,         \* history: a mousedown was not yet followed by a mouseup
  lost,         \* history: a mouseup did not reach the document
  meddled,      \* history: the slider was set while its knob was dragged
  disturbed     \* history: another element was thrown away since the mouse came

dragVars == <<at, valueNow, grab, began, out, overed, entered>>
sliderVars == <<step, previousChange, previousEnd, meddled>>
sortVars == <<order, dragged, last, ghosts, ghosted>>
scrollerVars == <<page, scrolled>>
tipVars == <<delays, delay, timesOut, over, tip, visible, thrown, disturbed>>
mouseVars == <<docs, attached, held, lost, dragVars, sliderVars, sortVars, tipVars,
               scrollerVars>>

DragInit == /\ at = 0 /\ valueNow = 0 /\ grab = 0 /\ began = 0
            /\ out = FALSE /\ overed = 0 /\ entered = {}
SliderInit == step = -1 /\ previousChange = -1 /\ previousEnd = -1 /\ meddled = FALSE
SortablesInit == /\ order = IF kind = "sortables" THEN [i \in 1..Items |-> i] ELSE <<>>
                 /\ ghosted \in (IF kind = "sortables" THEN BOOLEAN ELSE {FALSE})
                 /\ dragged = 0 /\ last = 0 /\ ghosts = 0
TipsInit == /\ timesOut \in (IF kind = "tips" THEN BOOLEAN ELSE {FALSE})
            /\ delays = [h \in {} |-> ""] /\ delay = 0
            /\ over = 0 /\ tip = 0 /\ visible = FALSE
            /\ thrown = {} /\ disturbed = FALSE
ScrollerInit == page = "neither" /\ scrolled = 0

MouseInit ==
  /\ docs = {} /\ attached = TRUE /\ held = FALSE /\ lost = FALSE
  /\ DragInit /\ SliderInit /\ SortablesInit /\ TipsInit /\ ScrollerInit
-----------------------------------------------------------------------------
(***************************************************************************)
(* Drag.Base, and Drag.Move when the kind is "drag".                       *)
(***************************************************************************)
Drags == kind \in {"drag", "slider"}
Distance(m) == IF m > began THEN m - began ELSE began - m
Threshold == IF kind = "slider" THEN 0 ELSE Snap

\* mousedown: start() of the drag or of the list.
Pressed == /\ attached
           /\ held' = TRUE
           /\ lost' = (lost \/ held)
           /\ UNCHANGED attached

Reports(s) == step' = s /\ previousChange' = s

\* Slider.toStep: rounded to the nearest step.
ToStep(position) == (2 * position * Steps + Limit) \div (2 * Limit)

DragStart == Drags /\ \E m \in Places :
  /\ Pressed
  /\ docs' = docs \cup {"check", "stop"}
  /\ valueNow' = at
  /\ grab' = m - at
  /\ began' = m
  /\ IF kind = "slider"
     THEN Reports(ToStep(at)) /\ meddled' = FALSE /\ UNCHANGED <<overed, previousEnd>>
     ELSE overed' = 0 /\ UNCHANGED sliderVars
  /\ UNCHANGED <<at, out, entered, sortVars, tipVars, scrollerVars>>

\* The limit first, then the grid.
Limited(v) == IF v > Limit THEN Limit ELSE IF v < 0 THEN 0 ELSE v
OnGrid(v) == IF kind = "drag" THEN v - (v % Grid) ELSE v

Under(m) == {i \in DOMAIN Droppables : m \in Droppables[i]}
Over(m, isOut) == IF isOut \/ Under(m) = {} THEN 0
                  ELSE CHOOSE i \in Under(m) : \A j \in Under(m) : j <= i

\* The droppable of before is told leave, the new one over.
Left(new) == IF new = overed THEN entered ELSE (entered \ {overed}) \cup ({new} \ {0})

\* drag(): of Drag.Base, then of Drag.Move or of the slider.
Dragged(m) ==
  LET v == m - grab
      isOut == v # Limited(v)
      new == IF kind = "drag" THEN Over(m, isOut) ELSE overed
  IN /\ valueNow' = OnGrid(Limited(v))
     /\ at' = valueNow'
     /\ out' = isOut
     /\ overed' = new
     /\ entered' = Left(new)
     /\ IF kind = "slider"
        THEN Reports(ToStep(valueNow')) /\ meddled' = FALSE /\ UNCHANGED previousEnd
        ELSE UNCHANGED sliderVars
     /\ UNCHANGED <<grab, began>>

\* mousemove: check() waits for the snap, drag() does not.
DragMove == Drags /\ \E m \in Places :
  LET snaps == "check" \in docs /\ Distance(m) > Threshold IN
  /\ "drag" \in docs \/ snaps
  /\ docs' = IF snaps THEN (docs \ {"check"}) \cup {"drag"} ELSE docs
  /\ Dragged(m)
  /\ UNCHANGED <<attached, held, lost, sortVars, tipVars, scrollerVars>>

\* Mutant: the listener that waits for the snap stays.
CheckStays == docs \ {"drag", "stop"}

\* Drag.Base.stop takes both listeners of mousemove away.
Unlistened == docs \ {"check", "drag", "stop"}

\* mouseup: drop or emptydrop, then Drag.Base.stop; the slider's onComplete.
DragStop ==
  /\ Drags
  /\ "stop" \in docs
  /\ docs' = Unlistened
  /\ held' = FALSE
  /\ entered' = IF out THEN entered ELSE entered \ {overed}
  /\ IF kind = "slider"
     THEN LET s == ToStep(valueNow) IN Reports(s) /\ previousEnd' = s /\ UNCHANGED meddled
     ELSE UNCHANGED sliderVars
  /\ UNCHANGED <<attached, lost, at, valueNow, grab, began, out, overed, sortVars, tipVars, scrollerVars>>

\* attach() and detach() of a drag and of a list: mousedown only.
Attach == /\ kind \in {"drag", "sortables"}
          /\ attached' = ~attached
          /\ UNCHANGED <<docs, held, lost, dragVars, sliderVars, sortVars, tipVars, scrollerVars>>
-----------------------------------------------------------------------------
(***************************************************************************)
(* Slider.                                                                 *)
(***************************************************************************)
Moved(s, position) ==
  /\ Reports(s)
  /\ previousEnd' = s
  /\ at' = position
  /\ meddled' = (docs # {})
  /\ UNCHANGED <<docs, attached, held, lost, valueNow, grab, began, out, overed, entered,
                 sortVars, tipVars, scrollerVars>>

SliderSet == kind = "slider" /\ \E s \in 0..Steps : Moved(s, (Limit * s) \div Steps)
ClickedElement == kind = "slider" /\ \E m \in Places :
  Moved(ToStep(Limited(m)), Limited(m))
-----------------------------------------------------------------------------
(***************************************************************************)
(* Sortables.  The item at index k covers the places 2(k-1) to 2k.         *)
(***************************************************************************)
SortStart == kind = "sortables" /\ \E i \in DOMAIN order :
  /\ Pressed
  /\ ghosts < MaxGhosts
  /\ dragged' = order[i]
  /\ ghosts' = IF ghosted THEN ghosts + 1 ELSE ghosts
  /\ docs' = docs \cup {"move", "end"} \cup (IF ghosted THEN {"moveGhost"} ELSE {})
  /\ UNCHANGED <<order, last, ghosted, dragVars, sliderVars, tipVars, scrollerVars>>

Swapped(i, j) == [order EXCEPT ![i] = order[j], ![j] = order[i]]

SortMove == \E y \in Places \ {0} :
  LET k == CHOOSE i \in DOMAIN order : order[i] = dragged
      before == IF last = 0 THEN y ELSE last
      up == before > y
  IN /\ "move" \in docs
     /\ order' = IF up /\ k > 1 /\ y < 2 * (k - 1) THEN Swapped(k - 1, k)
                 ELSE IF ~up /\ k < Len(order) /\ y > 2 * k THEN Swapped(k, k + 1)
                 ELSE order
     /\ last' = y
     /\ UNCHANGED <<docs, attached, held, lost, dragged, ghosts, ghosted, dragVars,
                    sliderVars, tipVars, scrollerVars>>

SortEnd ==
  /\ "end" \in docs
  /\ docs' = docs \ ({"move", "end"} \cup (IF ghosted THEN {"moveGhost"} ELSE {}))
  /\ ghosts' = IF ghosted THEN ghosts - 1 ELSE ghosts
  /\ last' = 0
  /\ held' = FALSE
  /\ UNCHANGED <<attached, lost, order, dragged, ghosted, dragVars, sliderVars, tipVars, scrollerVars>>
-----------------------------------------------------------------------------
(***************************************************************************)
(* Tips on the elements 1 and 2, which lie side by side.                   *)
(***************************************************************************)
Uncleared == [h \in DOMAIN delays \ {delay} |-> delays[h]]

Delayed(what, live) ==
  LET h == CHOOSE x \in 1..(Cardinality(DOMAIN live) + 1) : x \notin DOMAIN live
  IN delays' = live @@ (h :> what) /\ delay' = h

TipRest == UNCHANGED <<docs, attached, held, lost, timesOut, dragVars, sliderVars, sortVars, scrollerVars>>

MouseEnter == kind = "tips" /\ over = 0 /\ \E el \in {1, 2} \ thrown :
  /\ over' = el
  /\ tip' = el
  /\ Delayed("show", Uncleared)
  /\ disturbed' = FALSE
  /\ UNCHANGED <<visible, thrown>> /\ TipRest

MouseLeave ==
  /\ over # 0
  /\ over' = 0
  /\ Delayed("hide", Uncleared)
  /\ UNCHANGED <<tip, visible, thrown, disturbed>> /\ TipRest

\* Element.empty() of what contains the elements els: Garbage.trash fires trash on
\* each, which hides the tip, whichever element it is of, and removes its listeners.
ThrowAway == kind = "tips" /\ \E els \in SUBSET ({1, 2} \ thrown) \ {{}} :
  /\ thrown' = thrown \cup els
  /\ over' = IF over \in els THEN 0 ELSE over
  /\ disturbed' = (over \notin els)
  /\ Delayed("hide", Uncleared)
  /\ UNCHANGED <<tip, visible>> /\ TipRest

\* this.timer keeps the handle of a timeout that has fired.
Show(h, live) ==
  /\ delays[h] = "show"
  /\ visible' = TRUE
  /\ IF timesOut THEN Delayed("hide", live) ELSE delays' = live /\ UNCHANGED delay

Hide(h, live) ==
  /\ delays[h] = "hide"
  /\ visible' = FALSE
  /\ delays' = live
  /\ UNCHANGED delay

TipTimeout == kind = "tips" /\ \E h \in DOMAIN delays :
  LET live == [g \in DOMAIN delays \ {h} |-> delays[g]] IN
  /\ Show(h, live) \/ Hide(h, live)
  /\ UNCHANGED <<over, tip, thrown, disturbed>> /\ TipRest
-----------------------------------------------------------------------------
(***************************************************************************)
(* Scroller.  start() makes a new listener each time; here it is started   *)
(* only when it is stopped.                                                *)
(***************************************************************************)
ScrollerRest == UNCHANGED <<attached, lost, dragVars, sliderVars, sortVars,
                            timesOut, over, tip, visible, thrown, disturbed>>

ScrollerStart ==
  /\ kind = "scroller" /\ docs = {}
  /\ docs' = {"coord"}
  /\ held' = TRUE
  /\ UNCHANGED <<delays, delay, scrollerVars>> /\ ScrollerRest

\* The first mousemove starts the interval that scrolls.
GetCoords ==
  /\ "coord" \in docs
  /\ page' \in {"low", "high", "neither"}
  /\ IF delay = 0 THEN Delayed("scroll", delays) ELSE UNCHANGED <<delays, delay>>
  /\ UNCHANGED <<docs, held, scrolled>> /\ ScrollerRest

\* scroll(): towards the edge the mouse is at, not beyond the end.
ScrollerTick ==
  /\ kind = "scroller" /\ DOMAIN delays # {}
  /\ \/ page = "low" /\ scrolled # 0 /\ scrolled' = scrolled - 1
     \/ page = "high" /\ scrolled # 2 /\ scrolled' = scrolled + 1
  /\ UNCHANGED <<docs, held, delays, delay, page>> /\ ScrollerRest

ScrollerStop ==
  /\ kind = "scroller" /\ held
  /\ docs' = docs \ {"coord"}
  /\ held' = FALSE
  /\ delays' = Uncleared
  /\ delay' = 0
  /\ UNCHANGED scrollerVars /\ ScrollerRest
-----------------------------------------------------------------------------
MouseNext ==
  \/ DragStart \/ DragMove \/ DragStop \/ Attach
  \/ SliderSet \/ ClickedElement
  \/ SortStart \/ SortMove \/ SortEnd
  \/ MouseEnter \/ MouseLeave \/ ThrowAway \/ TipTimeout
  \/ ScrollerStart \/ GetCoords \/ ScrollerTick \/ ScrollerStop

MouseFairness == WF_mouseVars(TipTimeout)
-----------------------------------------------------------------------------
Released == ~held => docs = {} /\ (kind = "scroller" => delays = [h \in {} |-> ""])

DropsAtRest == kind = "drag" =>
  /\ at \in 0..Limit
  /\ ~lost => entered = (IF held THEN {overed} \ {0} ELSE {})

SliderAtRest == kind = "slider" /\ ~held /\ ~meddled /\ step # -1 =>
  /\ previousChange = step /\ previousEnd = step
  /\ step = ToStep(at)

GhostsAtRest == ~lost => ghosts = (IF ghosted /\ held THEN 1 ELSE 0)

TipsAtRest == kind = "tips" /\ DOMAIN delays = {} =>
  /\ visible <=> over # 0 /\ ~timesOut /\ ~disturbed
  /\ visible => tip = over

\* Once the mouse lets go, nothing of the drag is left: no listener on the
\* document, no ghost, no droppable that was entered and not left; a drag stays
\* within its container.  The slider's last reports are the step its knob shows,
\* unless it was set in the middle of a drag.  Once the timeouts are over, a tip
\* is shown exactly while the mouse is over its element, or until its timeout, or
\* until another element with a tip is thrown away, which hides it too.
\* A mouseup that was lost leaves a ghost, or a droppable that is never left.
MouseAtRest == Released /\ DropsAtRest /\ SliderAtRest /\ GhostsAtRest /\ TipsAtRest
=============================================================================
