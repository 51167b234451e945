------------------------------ MODULE Elements ------------------------------
(***************************************************************************)
(* Listeners in mootools-release-1.11.js: Element.Methods.Events with the  *)
(* custom events, domready, Group and Asset.images.  The element keeps the *)
(* functions of an event in $events[type].keys; what is called is decided  *)
(* by the browser, which holds a set of pairs of event and function.       *)
(***************************************************************************)
EXTENDS Widget, Naturals, Sequences, FiniteSets

CONSTANTS
  Fns,          \* functions that may be registered
  Instances,    \* the instances of a group
  Images        \* the images that are loaded together

ASSUME ElementsAssumption == IsFiniteSet(Fns) /\ IsFiniteSet(Images)

VARIABLES
  keys,         \* $events[type].keys; Group: this.events[type]
  native,       \* the browser's listeners: <<type, function>>
  loaded,       \* window.loaded
  stage,        \* the document: 0 loading, 1 its content is there, 2 all is
  polls,        \* the intervals that poll document.readyState
  pollTimer,    \* window.timer: whether it names one of them
  webkit,       \* window.webkit: domready polls
  calls,        \* history: how often each function was called on domready
  late,         \* history: the functions that came after the load of a page
                \* that had none
  checker,      \* Group: this.checker[type]
  since,        \* history: the instances that fired since the group did
  early,        \* history: the group fired before all instances had
  status,       \* the images: "loading", "loaded" or "failed"
  cached,       \* the images the browser had already
  delayed,      \* the delayed load events of Asset.image
  counter,      \* Asset.images: counter
  completes,    \* history: how often onComplete was called
  twice,        \* history: the images whose load and delayed load were both counted
  leaked        \* history: the types whose listeners removeEvent(s) got wrong

eventVars == <<keys, native, leaked>>
readyVars == <<loaded, stage, polls, pollTimer, webkit, calls, late>>
groupVars == <<checker, since, early>>
imageVars == <<status, cached, delayed, counter, completes, twice>>
elementVars == <<eventVars, readyVars, groupVars, imageVars>>

Types == {"click", "mouseenter"}
NoKeys == [t \in Types \cup {"domready", "onComplete"} |-> <<>>]

\* Element.Events.mouseenter: the browser's event, and the function that
\* fires mouseenter for all of the element's keys.
Native(type, f) == IF type = "mouseenter" THEN <<"mouseover", "map">> ELSE <<type, f>>

EventsInit == keys = NoKeys /\ native = {} /\ leaked = {}
ReadyInit == /\ loaded = FALSE /\ stage = 0 /\ polls = 0 /\ pollTimer = FALSE
             /\ webkit \in (IF kind = "domready" THEN BOOLEAN ELSE {FALSE})
             /\ calls = [f \in Fns |-> 0] /\ late = {}
GroupInit == checker = {} /\ since = {} /\ early = FALSE
ImagesInit == /\ cached \in (IF kind = "images" THEN SUBSET Images ELSE {{}})
              /\ status = [i \in Images |-> "loading"]
              /\ delayed = cached
              /\ counter = 0 /\ completes = 0 /\ twice = {}

ElementsInit == EventsInit /\ ReadyInit /\ GroupInit /\ ImagesInit

\* addListener and removeListener, for all of the functions.
Listening(t, F) == native \cup {Native(t, f) : f \in F}
Unlistening(t, F) == native \ {Native(t, f) : f \in F}

InSeq(x, s) == \E i \in DOMAIN s : s[i] = x
\* keys.splice(keys.indexOf(fn), 1)
Spliced(s, x) == LET pos == CHOOSE i \in DOMAIN s : s[i] = x
                  IN [i \in 1..(Len(s) - 1) |-> IF i < pos THEN s[i] ELSE s[i + 1]]
-----------------------------------------------------------------------------
(***************************************************************************)
(* addEvent, removeEvent, removeEvents and cloneEvents.                    *)
(***************************************************************************)
AddEvent == kind = "events" /\ \E t \in Types, f \in Fns :
  /\ ~InSeq(f, keys[t])
  /\ keys' = [keys EXCEPT ![t] = Append(@, f)]
  /\ native' = Listening(t, {f})
  /\ UNCHANGED <<leaked, readyVars, groupVars, imageVars>>

\* The functions of a custom event share one listener, and lose it together.
RemoveEvent == kind = "events" /\ \E t \in Types, f \in Fns :
  /\ InSeq(f, keys[t])
  /\ keys' = [keys EXCEPT ![t] = Spliced(@, f)]
  /\ native' = Unlistening(t, {f})
  /\ leaked' = IF t = "mouseenter" /\ Len(keys[t]) > 1 THEN leaked \cup {t} ELSE leaked
  /\ UNCHANGED <<readyVars, groupVars, imageVars>>

\* removeEvents(type) walks through the keys that removeEvent takes out: it
\* meets every second one, and then forgets them all.
Met(t) == {keys[t][i] : i \in {j \in DOMAIN keys[t] : j % 2 = 1}}

Forgotten(T) ==
  /\ \E t \in T : keys[t] # <<>>
  /\ keys' = [t \in DOMAIN keys |-> IF t \in T THEN <<>> ELSE keys[t]]
  /\ native' = native \ UNION {{Native(t, f) : f \in Met(t)} : t \in T}
  /\ leaked' = leaked \cup {t \in T : t = "click" /\ Len(keys[t]) > 1}
  /\ UNCHANGED <<readyVars, groupVars, imageVars>>

RemoveEvents == kind = "events" /\ \E t \in Types : Forgotten({t})

\* Garbage.trash: removeEvents() of all the types.
Trash == kind = "events" /\ Forgotten(Types)

\* cloneEvents() from an element that listens to t with all functions.
CloneEvents == kind = "events" /\ \E t \in Types :
  LET new == {f \in Fns : ~InSeq(f, keys[t])}
      more == CHOOSE s \in [1..Cardinality(new) -> new] : {s[i] : i \in DOMAIN s} = new
  IN /\ new # {}
     /\ keys' = [keys EXCEPT ![t] = @ \o more]
     /\ native' = Listening(t, new)
     /\ UNCHANGED <<leaked, readyVars, groupVars, imageVars>>
-----------------------------------------------------------------------------
(***************************************************************************)
(* domready.  A function that comes after it is called at once.  Of the    *)
(* browsers, those that poll and those with DOMContentLoaded are modelled. *)
(***************************************************************************)
Called(f) == [calls EXCEPT ![f] = @ + 1]

AddReady == kind = "domready" /\ \E f \in Fns :
  /\ ~InSeq(f, keys["domready"])
  /\ keys' = [keys EXCEPT !["domready"] = Append(@, f)]
  /\ IF loaded THEN calls' = Called(f) /\ UNCHANGED <<polls, pollTimer, late>>
     ELSE /\ polls' = IF webkit THEN polls + 1 ELSE polls
          /\ pollTimer' = webkit
          /\ late' = IF stage = 2 /\ ~webkit THEN late \cup {f} ELSE late
          /\ UNCHANGED calls
  /\ UNCHANGED <<native, leaked, loaded, stage, webkit, groupVars, imageVars>>

Unready == ~loaded

\* domReady(): only the first call counts, and only the poll that window.timer
\* names ends.
DomReady ==
  /\ Unready /\ keys["domready"] # <<>>
  /\ loaded' = TRUE
  /\ polls' = IF pollTimer THEN polls - 1 ELSE polls
  /\ pollTimer' = FALSE
  /\ calls' = [f \in Fns |-> IF InSeq(f, keys["domready"]) THEN calls[f] + 1 ELSE calls[f]]

\* DOMContentLoaded, then load: each comes once, and calls domReady() if any
\* function was there to listen to it.
DocumentEvent ==
  /\ kind = "domready" /\ stage < 2
  /\ stage' = stage + 1
  /\ IF webkit \/ loaded \/ keys["domready"] = <<>>
     THEN UNCHANGED <<loaded, polls, pollTimer, calls>> ELSE DomReady
  /\ UNCHANGED <<eventVars, webkit, late, groupVars, imageVars>>

\* A poll that finds the document loaded or complete.
PollReady ==
  /\ kind = "domready" /\ webkit /\ stage > 0 /\ polls > 0
  /\ DomReady
  /\ UNCHANGED <<eventVars, stage, webkit, late, groupVars, imageVars>>
-----------------------------------------------------------------------------
(***************************************************************************)
(* Group: each function that is added adds a check to every instance.      *)
(***************************************************************************)
GroupAdd == kind = "group" /\ \E f \in Fns :
  /\ ~InSeq(f, keys["onComplete"])
  /\ keys' = [keys EXCEPT !["onComplete"] = Append(@, f)]
  /\ UNCHANGED <<native, leaked, readyVars, groupVars, imageVars>>

\* Mutant: the checker is not reset.
CheckKept(c, i) == c \cup {i}

\* check(), once: all the instances are there, or the one is noted.
Check(c, i) == IF c \cup {i} = Instances THEN {} ELSE c \cup {i}

\* An instance fires: as many checks as there are functions.
InstanceFires == kind = "group" /\ \E i \in Instances :
  LET n == Len(keys["onComplete"])
      c[k \in 0..n] == IF k = 0 THEN checker ELSE Check(c[k - 1], i)
      fires == \E k \in 0..(n - 1) : c[k] \cup {i} = Instances
  IN /\ n > 0
     /\ checker' = c[n]
     /\ since' = IF fires THEN {} ELSE since \cup {i}
     /\ early' = (early \/ (fires /\ since \cup {i} # Instances))
     /\ UNCHANGED <<eventVars, readyVars, imageVars>>
-----------------------------------------------------------------------------
(***************************************************************************)
(* Asset.image and Asset.images.                                           *)
(***************************************************************************)
OnLoad == /\ counter' = counter + 1
          /\ completes' = IF counter' = Cardinality(Images) THEN completes + 1 ELSE completes

Loads == kind = "images" /\ \E i \in Images :
  /\ status[i] = "loading"
  /\ \/ /\ status' = [status EXCEPT ![i] = "loaded"]
        /\ IF i \in cached \ delayed THEN UNCHANGED <<counter, completes>> ELSE OnLoad
     \/ /\ i \notin cached
        /\ status' = [status EXCEPT ![i] = "failed"]
        /\ UNCHANGED <<counter, completes>>
  /\ UNCHANGED <<cached, delayed, twice, eventVars, readyVars, groupVars>>

\* fireEvent('load', element, 1): the function that listens to load is called 1 ms
\* later, also if the browser has called it.  It removes itself as a listener, so
\* that the browser's load does not call it any more.
DelayedLoad == kind = "images" /\ \E i \in delayed :
  /\ delayed' = delayed \ {i}
  /\ twice' = IF status[i] = "loaded" THEN twice \cup {i} ELSE twice
  /\ OnLoad
  /\ UNCHANGED <<status, cached, eventVars, readyVars, groupVars>>
-----------------------------------------------------------------------------
ElementsNext == \/ AddEvent \/ RemoveEvent \/ RemoveEvents \/ Trash \/ CloneEvents
                \/ AddReady \/ DocumentEvent \/ PollReady
                \/ GroupAdd \/ InstanceFires
                \/ Loads \/ DelayedLoad
-----------------------------------------------------------------------------
NativeIsKeys == kind = "events" => \A t \in Types \ leaked :
  {Native(t, keys[t][i]) : i \in DOMAIN keys[t]} = {p \in native : \E f \in Fns : p = Native(t, f)}

ReadyOnce == kind = "domready" =>
  /\ \A f \in Fns : calls[f] = (IF loaded /\ InSeq(f, keys["domready"]) THEN 1 ELSE 0)
  /\ ~loaded /\ webkit => (pollTimer <=> polls > 0)
  /\ stage = 2 /\ ~webkit => \A f \in Fns \ late : InSeq(f, keys["domready"]) => calls[f] = 1

GroupInStep == Len(keys["onComplete"]) <= 1 => checker = since /\ ~early

Counted == {i \in Images : status[i] = "loaded" \/ i \in cached \ delayed}
ImagesComplete == twice = {} => completes = (IF Images # {} /\ Counted = Images THEN 1 ELSE 0)

\* A function is called by the browser exactly when it is registered, by
\* domready exactly once, before the page has loaded or after, by a group when
\* every instance has fired since the last time, by Asset.images when every image
\* has loaded.  The exceptions are how the library goes wrong: several functions
\* on one custom event (removeEvent) or on one type (removeEvents) lose or leave a
\* listener, the first functions for domready that come after the load are never
\* called where nothing polls, two functions on one group check twice, an image in
\* the cache counts twice if the browser's load comes before the delayed one.
EventsWhenDue == NativeIsKeys /\ ReadyOnce /\ GroupInStep /\ ImagesComplete
=============================================================================
