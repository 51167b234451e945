---------------------------- MODULE MCCoroQueue ----------------------------
(* Small instances of CoroQueue for TLC: three coroutines share a queue. *)
EXTENDS CoroQueue, TLC

CONSTANTS c1, c2, c3

MCStarted == <<c1, c2, c3>>
=============================================================================
