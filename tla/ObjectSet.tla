------------------------------ MODULE ObjectSet -------------------------------
(***************************************************************************)
(* The set of hacksaw/set.c: a vector whose elements are compared by       *)
(* cmp_func, or by their address if there is none.  Compared[o] stands for *)
(* what the comparison sees of o.                                          *)
(***************************************************************************)
EXTENDS Vector, SequencesExt

CONSTANT Compared  \* a function on Object; the identity without cmp_func

\* set_inside: where an element equal to el is
Inside(set, el) == {i \in 0 .. set.n - 1 : Compared[set.ptr[i]] = Compared[el]}
IndexOf(set, el) == CHOOSE i \in Inside(set, el) : \A j \in Inside(set, el) : i <= j

\* set_new, set_add and set_remove
SetNew == VectorNew("REMOVE")
\* A slip: addresses are compared although there is a cmp_func.
SetAddByAddress(set, el) ==
    IF \A i \in 0 .. set.n - 1 : set.ptr[i] # el THEN VectorAdd(set, el) ELSE set
SetAdd(set, el) == IF Inside(set, el) = {} THEN VectorAdd(set, el) ELSE set
SetRemove(set, el) == VectorRemove(set, IndexOf(set, el))

\* Adding a sequence one by one
AddAll(set, s) == FoldLeft(SetAdd, set, s)

\* set_dup and set_union
SetDup(s) == AddAll(SetNew, Elements(s))
SetUnion(s1, s2) == AddAll(s1, Elements(s2))

\* set_intersect walks the bigger of the two and keeps what is in the other.
KeptIn(other, walked) ==
    FoldLeft(LAMBDA out, el : IF Inside(other, el) # {} THEN SetAdd(out, el) ELSE out,
             SetNew, Elements(walked))
SetIntersect(s1, s2) == IF s1.n > s2.n THEN KeptIn(s2, s1) ELSE KeptIn(s1, s2)

\* What the elements of a set look like to the comparison.
Content(s) == {Compared[s.ptr[i]] : i \in 0 .. s.n - 1}
Distinct(s) == Cardinality(Content(s)) = s.n
==============================================================================
