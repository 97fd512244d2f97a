---------------------------- MODULE ItemSequence ------------------------------
(***************************************************************************)
(* What the users of hacksaw/vector.c rely on: a sequence that takes items *)
(* at any place and gives them up at any place, the others keeping their   *)
(* order.  One made with VECTOR_KEEP leaves a hole instead of closing up.  *)
(***************************************************************************)
EXTENDS SequencesExt

CONSTANTS Item, Hole

VARIABLE items

Init == items = <<>>

InsertItem(i, x) == items' = InsertAt(items, i, x)
AppendItems(s) == items' = items \o s
RemoveItem(i) == items' = RemoveAt(items, i)
BlankItem(i) == items' = ReplaceAt(items, i, Hole)

Next ==
    \/ \E x \in Item, i \in 1 .. Len(items) + 1 : InsertItem(i, x)
    \/ \E s \in SetToAllKPermutations(Item) : AppendItems(s)
    \/ \E i \in 1 .. Len(items) : RemoveItem(i) \/ BlankItem(i)

Spec == Init /\ [][Next]_items
==============================================================================
