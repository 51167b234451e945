----------------------------- MODULE TimerHeap -----------------------------
(***************************************************************************)
(* Scheduler.timeouts as it is kept: a list in heap order, worked on by    *)
(* heappush and heappop of Python's heapq and by heapremove of             *)
(* cogen/core/events.py, which heapq lacks.  Operations compare by their   *)
(* deadline only (TimedOperation.__cmp__), so two of them may be equal     *)
(* without being the same.  Sequences start at 1: the parent of i is i/2.  *)
(***************************************************************************)
EXTENDS Integers, Sequences, SequencesExt

CONSTANTS
  Ops,             \* timed operations: records with a deadline `at'
  MaxLen           \* bound: length of the heap

ASSUME OpsAssumption == \A op \in Ops : op.at \in Int

VARIABLES heap, last

vars == <<heap, last>>

Swapped(h, i, j) == [h EXCEPT ![i] = h[j], ![j] = h[i]]

Parent(i) == i \div 2

\* The item at r.pos changes places with the one at j.
Moved(r, j) == [heap |-> Swapped(r.heap, r.pos, j), pos |-> j]

\* One turn of the loop of heapq._siftdown.
Raised(r, start) ==
  IF r.pos > start /\ r.heap[r.pos].at < r.heap[Parent(r.pos)].at
  THEN Moved(r, Parent(r.pos))
  ELSE r

\* heapq._siftdown: the item at pos moves towards start while it is smaller.  The
\* loop has ended after Len(h) turns.
SiftDown(h, start, pos) ==
  LET after[k \in 0..Len(h)] ==
        IF k = 0 THEN [heap |-> h, pos |-> pos] ELSE Raised(after[k - 1], start)
  IN after[Len(h)].heap

\* The smaller child of pos; the right one when they are equal.
SmallerChild(h, pos) ==
  LET left == 2 * pos
      right == left + 1
  IN IF right <= Len(h) /\ ~(h[left].at < h[right].at) THEN right ELSE left

\* One turn of the loop of heapq._siftup.
Lowered(r) ==
  IF 2 * r.pos <= Len(r.heap) THEN Moved(r, SmallerChild(r.heap, r.pos)) ELSE r

\* heapq._siftup: the smaller children move up until the item from pos is in a
\* leaf, from where it sifts down again.
SiftUp(h, pos) ==
  LET after[k \in 0..Len(h)] ==
        IF k = 0 THEN [heap |-> h, pos |-> pos] ELSE Lowered(after[k - 1])
      leaf == after[Len(h)]
  IN SiftDown(leaf.heap, pos, leaf.pos)

HeapPush(h, op) == SiftDown(Append(h, op), 1, Len(h) + 1)

\* heapq.heappop: what remains once Head(h) is taken.
HeapPop(h) ==
  IF Len(h) = 1 THEN <<>> ELSE SiftUp(<<Last(h)>> \o Tail(Front(h)), 1)

\* list.index: the first item that is equal to op.
IndexOf(h, op) == SelectInSeq(h, LAMBDA item : item.at = op.at)

\* Mutant: the item that fills the gap is not compared with its parent.
LazyHeapRemove(h, op) ==
  LET i == IndexOf(h, op) IN
  IF Last(h).at = op.at THEN Front(h)
  ELSE SiftUp([Front(h) EXCEPT ![i] = Last(h)], i)

\* Mutant: the gap is filled, but the order is not restored below it.
NoSiftUpHeapRemove(h, op) ==
  LET i == IndexOf(h, op) IN
  IF Last(h).at = op.at THEN Front(h)
  ELSE SiftDown([Front(h) EXCEPT ![i] = Last(h)], 1, i)

\* Mutant: the popped last item is compared with nothing and lost.
LossyHeapRemove(h, op) == Front(h)

\* heapremove of cogen/core/events.py, for an op that is equal to some item.
HeapRemove(h, op) ==
  LET i == IndexOf(h, op) IN
  IF Last(h).at = op.at THEN Front(h)
  ELSE SiftDown(SiftUp([Front(h) EXCEPT ![i] = Last(h)], i), 1, i)
-----------------------------------------------------------------------------
Init == heap = <<>> /\ last = <<"init">>

\* TimedOperation.process.
Push(op) ==
  /\ op \notin ToSet(heap) /\ Len(heap) < MaxLen
  /\ heap' = HeapPush(heap, op)
  /\ last' = <<"push", op>>

\* Scheduler.handle_timeouts.
Pop ==
  /\ heap # <<>>
  /\ heap' = HeapPop(heap)
  /\ last' = <<"pop", Head(heap)>>

\* TimedOperation.finalize; op may have been popped before.
Finish(op) ==
  IF IndexOf(heap, op) # 0
  THEN heap' = HeapRemove(heap, op) /\ last' = <<"remove", op>>
  ELSE heap' = heap /\ last' = <<"ValueError", op>>

Next == Pop \/ \E op \in Ops : Push(op) \/ Finish(op)

Spec == Init /\ [][Next]_vars
-----------------------------------------------------------------------------
\* Every item is at most its children: what heappush, heappop and heapremove
\* each rely on and must restore.
HeapOrdered == \A i \in DOMAIN heap : i > 1 => heap[Parent(i)].at <= heap[i].at

\* heapremove takes out one item only, and the item itself when no other item
\* has its deadline (the timer of another operation is left alone).
RemovesItself == [][\A op \in ToSet(heap) :
  (last' = <<"remove", op>> /\ \A x \in ToSet(heap) \ {op} : x.at # op.at)
     => ToSet(heap') = ToSet(heap) \ {op}]_vars

\* The heap implements the set of timers SchedCore works with.
Set == INSTANCE TimerSet WITH timers <- ToSet(heap)
ImplementsTimerSet == Set!Spec
=============================================================================
