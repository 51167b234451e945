---------------------------- MODULE MCTimerHeap ----------------------------
(* Heaps of up to six of eight operations, two for each of four deadlines. *)
EXTENDS TimerHeap

MCOps == {[id |-> i, at |-> i \div 2] : i \in 0..7}
=============================================================================
