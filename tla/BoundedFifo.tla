---------------------------- MODULE BoundedFifo ----------------------------
(***************************************************************************)
(* What a queue promises: the items that were put are got in the order in  *)
(* which they were put, each of them once.  A put that finds no room       *)
(* counts as put where it stands, behind those that came before, but may   *)
(* still be withdrawn; an item that has found room may not.                *)
(***************************************************************************)
EXTENDS Integers, Sequences, SequencesExt

CONSTANTS
  Items,
  Capacity         \* number of items there is room for; 0 stands for no limit

VARIABLES
  pending,         \* items put and not got yet
  got              \* items got, in order

vars == <<pending, got>>

Init == pending = <<>> /\ got = <<>>

Put(x) == pending' = Append(pending, x) /\ UNCHANGED got

Get ==
  /\ pending # <<>>
  /\ pending' = Tail(pending)
  /\ got' = Append(got, Head(pending))

\* The put of x meets a get that waits.
Pass(x) ==
  /\ pending = <<>>
  /\ got' = Append(got, x)
  /\ UNCHANGED pending

Withdraw(i) ==
  /\ Capacity > 0 /\ i \in Capacity + 1 .. Len(pending)
  /\ pending' = RemoveAt(pending, i)
  /\ UNCHANGED got

Next ==
  \/ Get
  \/ \E x \in Items : Put(x) \/ Pass(x)
  \/ \E i \in DOMAIN pending : Withdraw(i)

Spec == Init /\ [][Next]_vars
=============================================================================
