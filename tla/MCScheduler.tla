---------------------------- MODULE MCScheduler ----------------------------
(* Small instances of Scheduler for TLC: one coroutine is added before run(), *)
(* the others by it or by each other.                                         *)
EXTENDS Scheduler, TLC

CONSTANT Main

MCStarted == <<Main>>

\* The coroutines that are not there at the start can be exchanged.
Symmetry == Permutations(Coro \ {Main})
=============================================================================
