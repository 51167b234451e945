----------------------------- MODULE TimerSet -----------------------------
(***************************************************************************)
(* What the main loop needs of the timer heap, and what SchedCore assumes  *)
(* of it: a set of operations with deadlines, from which the earliest can  *)
(* be taken, and from which a finished operation is removed -- or, when    *)
(* several operations have its deadline, one of them.                      *)
(***************************************************************************)
EXTENDS Integers

CONSTANT Ops       \* timed operations: records with a deadline `at'

VARIABLES
  timers,          \* the operations that are on the heap
  last             \* the last call: its name, its argument or its result

vars == <<timers, last>>

Init == timers = {} /\ last = <<"init">>

Push(op) ==
  /\ op \notin timers
  /\ timers' = timers \cup {op}
  /\ last' = <<"push", op>>

Pop(op) ==
  /\ op \in timers /\ \A other \in timers : op.at <= other.at
  /\ timers' = timers \ {op}
  /\ last' = <<"pop", op>>

Remove(op) ==
  /\ \E tied \in timers : tied.at = op.at /\ timers' = timers \ {tied}
  /\ last' = <<"remove", op>>

\* heap.index raises ValueError: no operation has this deadline.
RemoveFails(op) ==
  /\ \A other \in timers : other.at # op.at
  /\ timers' = timers
  /\ last' = <<"ValueError", op>>

Next == \E op \in Ops : Push(op) \/ Pop(op) \/ Remove(op) \/ RemoveFails(op)

Spec == Init /\ [][Next]_vars
=============================================================================
