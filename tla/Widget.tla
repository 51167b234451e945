------------------------------- MODULE Widget -------------------------------
(***************************************************************************)
(* The page of the IRC example loads mootools-release-1.11.js.  Its        *)
(* widgets share no state, so Effects, Mouse, Elements, HashCookie and     *)
(* Requests model a page that holds one of them; which one is chosen at    *)
(* the start.  The browser runs one callback at a time: an action is one   *)
(* callback, or one call of the page's own code.                           *)
(***************************************************************************)
CONSTANTS
  Kinds      \* the widgets the page may hold

VARIABLE
  kind       \* the widget it holds

\* These two are those of TLC, in a form that can be reasoned about: the function
\* of one argument, and the one that is f where f is defined and g elsewhere.
d :> e == [x \in {d} |-> e]
f @@ g == [x \in DOMAIN f \cup DOMAIN g |-> IF x \in DOMAIN f THEN f[x] ELSE g[x]]
=============================================================================
