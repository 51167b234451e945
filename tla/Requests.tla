------------------------------ MODULE Requests ------------------------------
(***************************************************************************)
(* XHR of mootools-release-1.11.js with the two classes made from it, Ajax *)
(* and Json.Remote: one instance that the page uses again and again.  A    *)
(* request is known by its number; its answer is known by the same number. *)
(*                                                                         *)
(* The answer of a transport calls onStateChange.  When a listener of that *)
(* answer sends again, on the same transport, onStateChange then replaces  *)
(* the handler send() has set: nobody hears the answer of that request.    *)
(***************************************************************************)
EXTENDS Widget, Naturals, Sequences, FiniteSets

CONSTANTS
  MaxSends,     \* bound: requests that are sent
  MaxLinks      \* bound: functions in this.chains

ASSUME RequestsAssumption == {MaxSends, MaxLinks} \subseteq Nat

VARIABLES
  autoCancel,   \* options.autoCancel
  running,      \* this.running
  deaf,         \* the handler of the running request was replaced
  text,         \* options.update: the answer it shows, 0 for none
  links,        \* this.chains: functions that send again
  due,          \* the timeouts that were set: what for, after which answer
  fate,         \* history: what became of each request
  evaluated,    \* history: the answers whose scripts were run
  completed     \* history: the answers onComplete was called with

requestVars == <<autoCancel, running, deaf, text, links, due, fate, evaluated, completed>>

Requesting == kind \in {"ajax", "json"}

RequestsInit ==
  /\ autoCancel \in (IF Requesting THEN BOOLEAN ELSE {FALSE})
  /\ running = FALSE /\ deaf = FALSE /\ text = 0 /\ links = 0 /\ due = {}
  /\ fate = <<>> /\ evaluated = {} /\ completed = <<>>
-----------------------------------------------------------------------------
(***************************************************************************)
(* send() and cancel().                                                    *)
(***************************************************************************)
Last == Len(fate)
Becoming(what) == [fate EXCEPT ![Last] = what]

\* abort() may call onStateChange, which returns: running is FALSE by then.
Cancelled == IF running THEN Becoming("cancelled") ELSE fate

\* From within a listener of an answer the new request is deaf.
Sends(f, within) ==
  /\ Len(f) < MaxSends
  /\ fate' = Append(f, "running")
  /\ running' = TRUE
  /\ deaf' = within

Free == ~running \/ autoCancel

\* Ajax.request, Json.Remote.send.
Request ==
  /\ Requesting /\ Free
  /\ Sends(Cancelled, FALSE)
  /\ UNCHANGED <<autoCancel, text, links, due, evaluated, completed>>

Cancel ==
  /\ running
  /\ fate' = Cancelled
  /\ running' = FALSE /\ deaf' = FALSE
  /\ UNCHANGED <<autoCancel, text, links, due, evaluated, completed>>

RequestLater ==
  /\ Requesting /\ links < MaxLinks
  /\ links' = links + 1
  /\ UNCHANGED <<autoCancel, running, deaf, text, due, fate, evaluated, completed>>
-----------------------------------------------------------------------------
(***************************************************************************)
(* onStateChange.                                                          *)
(***************************************************************************)

\* A listener of onSuccess or onFailure may send again.
Answered(what) ==
  /\ running /\ ~deaf
  /\ \/ fate' = Becoming(what) /\ running' = FALSE /\ UNCHANGED deaf
     \/ Sends(Becoming(what), TRUE)

Timeout(what) == [n |-> Last, does |-> what]
NextRequest == IF links = 0 THEN {} ELSE {Timeout("link")}

\* Ajax.onComplete: update, the scripts (at once, in some browsers), onComplete.
AjaxSuccess ==
  /\ kind = "ajax"
  /\ Answered("done")
  /\ text' = Last
  /\ \/ due' = due \cup {Timeout("eval"), Timeout("complete")} \cup NextRequest /\ UNCHANGED evaluated
     \/ due' = due \cup {Timeout("complete")} \cup NextRequest /\ evaluated' = evaluated \cup {Last}
  /\ links' = IF links = 0 THEN 0 ELSE links - 1
  /\ UNCHANGED <<autoCancel, completed>>

\* Json.Remote.onComplete does not wait.
JsonSuccess ==
  /\ kind = "json"
  /\ Answered("done")
  /\ completed' = Append(completed, Last)
  /\ due' = due \cup NextRequest
  /\ links' = IF links = 0 THEN 0 ELSE links - 1
  /\ UNCHANGED <<autoCancel, text, evaluated>>

\* A failure leaves the chain as it is.
RequestFailure ==
  /\ Answered("failed")
  /\ UNCHANGED <<autoCancel, text, links, due, evaluated, completed>>
-----------------------------------------------------------------------------
(***************************************************************************)
(* The timeouts: scripts after 0 ms, a link after 10, onComplete after 20. *)
(***************************************************************************)
Delay(what) == CASE what = "eval" -> 0 [] what = "link" -> 10 [] what = "complete" -> 20

\* A timeout set earlier, for no longer, fires earlier.
Earliest(t) == \A u \in due \ {t} : ~(u.n <= t.n /\ Delay(u.does) <= Delay(t.does))

Fires(t, what) == t \in due /\ t.does = what /\ Earliest(t) /\ due' = due \ {t}

EvalScripts == \E t \in due :
  /\ Fires(t, "eval")
  /\ evaluated' = evaluated \cup {t.n}
  /\ UNCHANGED <<autoCancel, running, deaf, text, links, fate, completed>>

Complete20 == \E t \in due :
  /\ Fires(t, "complete")
  /\ completed' = Append(completed, t.n)
  /\ UNCHANGED <<autoCancel, running, deaf, text, links, fate, evaluated>>

\* The request of a link may be refused (as is one beyond MaxSends); then it is gone.
LinkedRequest == \E t \in due :
  /\ Fires(t, "link")
  /\ IF Free /\ Len(fate) < MaxSends THEN Sends(Cancelled, FALSE) ELSE UNCHANGED <<fate, running, deaf>>
  /\ UNCHANGED <<autoCancel, text, links, evaluated, completed>>
-----------------------------------------------------------------------------
RequestTimeout == EvalScripts \/ Complete20 \/ LinkedRequest

RequestsNext == \/ Request \/ Cancel \/ RequestLater
                \/ AjaxSuccess \/ JsonSuccess \/ RequestFailure
                \/ RequestTimeout

RequestsFairness == WF_requestVars(RequestTimeout)
-----------------------------------------------------------------------------
Done == {n \in DOMAIN fate : fate[n] = "done"}
Completing == {t.n : t \in {u \in due : u.does = "complete"}}

\* An instance has one request at a time, the last.  Each that succeeds is shown,
\* has its scripts run and then calls onComplete, once and in the order of the
\* requests, whatever is sent, cancelled or chained in the 20 ms between; one that
\* was cancelled or failed does none of that.
AnswersWhenDue == Requesting =>
  /\ \A n \in DOMAIN fate : fate[n] = "running" => n = Last /\ running
  /\ running => Last > 0 /\ fate[Last] = "running"
  /\ kind = "ajax" => /\ text \in Done \cup {0} /\ \A n \in Done : n <= text
                      /\ \A i \in DOMAIN completed : completed[i] \in evaluated
  /\ \A i, j \in DOMAIN completed : i < j => completed[i] < completed[j]
  /\ {completed[i] : i \in DOMAIN completed} = Done \ Completing
  /\ Completing \subseteq Done
=============================================================================
