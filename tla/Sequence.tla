------------------------------- MODULE Sequence -------------------------------
(***************************************************************************)
(* What doubly_linked_list.c and queue.c promise: a sequence that grows    *)
(* and shrinks at both ends and whose elements can be moved to the front,  *)
(* and a first-in first-out queue.  ret is the item handed out last.       *)
(***************************************************************************)
EXTENDS SequencesExt, Integers

CONSTANTS Items, None

VARIABLES items, fifo, ret

vars == <<items, fifo, ret>>

Init == items = <<>> /\ fifo = <<>> /\ ret = None

Push(x) ==
  /\ items' \in {<<x>> \o items, Append(items, x)}
  /\ UNCHANGED <<fifo, ret>>

Pop ==
  /\ items # <<>>
  /\ \/ items' = Tail(items)  /\ ret' = Head(items)
     \/ items' = Front(items) /\ ret' = Last(items)
  /\ UNCHANGED fifo

ToFront(i) ==
  /\ i \in DOMAIN items
  /\ items' = <<items[i]>> \o RemoveAt(items, i)
  /\ UNCHANGED <<fifo, ret>>

Enqueue(x) == fifo' = Append(fifo, x) /\ UNCHANGED <<items, ret>>

Dequeue ==
  /\ fifo # <<>>
  /\ fifo' = Tail(fifo) /\ ret' = Head(fifo)
  /\ UNCHANGED items

Clear == fifo' = <<>> /\ UNCHANGED <<items, ret>>

Next ==
  \/ \E x \in Items : Push(x) \/ Enqueue(x)
  \/ \E i \in DOMAIN items : ToFront(i)
  \/ Pop \/ Dequeue \/ Clear

Spec == Init /\ [][Next]_vars

=============================================================================
