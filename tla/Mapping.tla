------------------------------- MODULE Mapping --------------------------------
(***************************************************************************)
(* What the users of hacksaw/map.c rely on: each key is bound to the last  *)
(* value inserted under it, until it is removed.                           *)
(***************************************************************************)
CONSTANTS Key, Value

VARIABLE bound

Init == bound = <<>>

Bind(k, v) ==
    bound' = [x \in DOMAIN bound \cup {k} |-> IF x = k THEN v ELSE bound[x]]
Unbind(k) == bound' = [x \in DOMAIN bound \ {k} |-> bound[x]]
Clear == bound' = <<>>

Next == \/ \E k \in Key : Unbind(k) \/ \E v \in Value : Bind(k, v)
        \/ Clear

Spec == Init /\ [][Next]_bound
==============================================================================
