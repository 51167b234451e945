----------------------------- MODULE MessageLog -----------------------------
(***************************************************************************)
(* What a publish/subscribe queue promises: there is one log of messages,  *)
(* a reader begins somewhere in it, and from there gets every message once *)
(* and in order, up to the end of the log each time it gets any.           *)
(***************************************************************************)
EXTENDS Integers, Sequences

CONSTANTS Readers, Messages

VARIABLES
  log,             \* the messages published, in order
  start,           \* where in the log a reader began
  got              \* what it got since

vars == <<log, start, got>>

Init ==
  /\ log = <<>>
  /\ start = [r \in Readers |-> 0]
  /\ got = [r \in Readers |-> <<>>]

\* What a reader that began after the first i messages of l has to get.
From(i, l) == SubSeq(l, i + 1, Len(l))

Begin(r) ==
  /\ \E i \in 0 .. Len(log) : start' = [start EXCEPT ![r] = i]
  /\ got' = [got EXCEPT ![r] = <<>>]
  /\ UNCHANGED log

Read(r) ==
  /\ got' = [got EXCEPT ![r] = From(start[r], log)]
  /\ UNCHANGED <<log, start>>

\* The readers of R wait for the message and get it at once.
Publish(m, R) ==
  /\ log' = Append(log, m)
  /\ got' = [r \in Readers |-> IF r \in R THEN From(start[r], log') ELSE got[r]]
  /\ UNCHANGED start

Next ==
  \/ \E r \in Readers : Begin(r) \/ Read(r)
  \/ \E m \in Messages, R \in SUBSET Readers : Publish(m, R)

Spec == Init /\ [][Next]_vars
=============================================================================
