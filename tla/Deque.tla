-------------------------------- MODULE Deque ---------------------------------
(***************************************************************************)
(* What the users of hacksaw/queue.c and linked_vector.c rely on: a list   *)
(* that grows at either end, loses its first item, and is thrown away once.*)
(***************************************************************************)
EXTENDS Sequences

CONSTANT Item

VARIABLE items

Init == items = <<>>

PushBack(x) == items' = Append(items, x)
PushFront(x) == items' = <<x>> \o items
PopFront == items # <<>> /\ items' = Tail(items)
Clear == items' = <<>>

Next == \/ \E x \in Item : PushBack(x) \/ PushFront(x)
        \/ PopFront
        \/ Clear

Spec == Init /\ [][Next]_items
==============================================================================
