-------------------------------- MODULE Page --------------------------------
(***************************************************************************)
(* A page that holds one widget of Effects, Mouse or Elements, the hash of *)
(* HashCookie or an instance of Requests.                                  *)
(***************************************************************************)
EXTENDS Effects, Mouse, Elements, HashCookie, Requests

vars == <<kind, fxVars, mouseVars, elementVars, hashVars, requestVars>>

Init == kind \in Kinds /\ FxInit /\ MouseInit /\ ElementsInit /\ HashInit /\ RequestsInit

Next == \/ FxNext /\ UNCHANGED <<kind, mouseVars, elementVars, hashVars, requestVars>>
        \/ MouseNext /\ UNCHANGED <<kind, fxVars, elementVars, hashVars, requestVars>>
        \/ ElementsNext /\ UNCHANGED <<kind, fxVars, mouseVars, hashVars, requestVars>>
        \/ HashNext /\ UNCHANGED <<kind, fxVars, mouseVars, elementVars, requestVars>>
        \/ RequestsNext /\ UNCHANGED <<kind, fxVars, mouseVars, elementVars, hashVars>>

Spec == Init /\ [][Next]_vars /\ FxFairness /\ MouseFairness /\ RequestsFairness
-----------------------------------------------------------------------------
\* A function is called by the browser exactly when it is registered, by
\* domready once, by a group when every instance has fired, by Asset.images when
\* every image has loaded; of a request, what its answer is due, once and in the
\* order of the requests, whatever is sent, cancelled or chained meanwhile; with
\* the exceptions that EventsWhenDue and AnswersWhenDue name.
CalledWhenDue == EventsWhenDue /\ AnswersWhenDue

\* What was called must end: every effect comes to rest, once the page asks for
\* nothing more, a tip is hidden once the mouse has left its element, and nothing
\* that an answer has put off stays put off.
Settles == <>[]FxIdle /\ []<>(over = 0 => ~visible) /\ <>[](due = {})
=============================================================================
