----------------------------- MODULE Dictionary ------------------------------
(***************************************************************************)
(* What the users of hacksaw/lut.c rely on: a key is bound to a value and, *)
(* once bound, to an id of its own that it keeps for ever.                 *)
(***************************************************************************)
EXTENDS Functions

CONSTANTS Key, Id, Value

VARIABLES
    ids,    \* the id of every key bound so far
    values  \* and its value

Init == ids = <<>> /\ values = <<>>

\* A new key takes an id that no other key has.
Add(k, i, v) ==
    /\ k \notin DOMAIN ids /\ i \notin Range(ids)
    /\ ids' = [x \in DOMAIN ids \cup {k} |-> IF x = k THEN i ELSE ids[x]]
    /\ values' = [x \in DOMAIN ids \cup {k} |-> IF x = k THEN v ELSE values[x]]

\* A known key only changes its value.
Rebind(k, v) ==
    /\ k \in DOMAIN ids
    /\ values' = [values EXCEPT ![k] = v]
    /\ UNCHANGED ids

Next == \E k \in Key, v \in Value : Rebind(k, v) \/ \E i \in Id : Add(k, i, v)

Spec == Init /\ [][Next]_<<ids, values>>
==============================================================================
