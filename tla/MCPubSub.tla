------------------------------ MODULE MCPubSub ------------------------------
(* Small instances of PubSub for TLC: three coroutines share a queue. *)
EXTENDS PubSub

CONSTANTS c1, c2, c3

MCStarted == <<c1, c2, c3>>
MCStartedTwo == <<c1, c2>>
=============================================================================
