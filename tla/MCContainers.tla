---------------------------- MODULE MCContainers ------------------------------
(***************************************************************************)
(* Three objects, two of them equal to the sets' comparison; fewer cells   *)
(* than a list could use, so that they are reused while dangling pointers  *)
(* to them remain; three keys, two with one hash, in a map of two buckets; *)
(* a vector that grows once.                                              *)
(***************************************************************************)
EXTENDS Containers, TLC

CONSTANTS o1, o2, o3, k1, k2, k3

MCObject == {o1, o2, o3}
MCCompared == [o \in MCObject |-> IF o = o3 THEN "odd" ELSE "even"]
MCKey == {k1, k2, k3}
MCHash == [k \in MCKey |-> IF k = k3 THEN 5 ELSE 1]
MCThreshold == <<4, 5>>
MCPrograms ==
    {{"queue"}, {"queue_set"}, {"vector", "sets"}, {"vector", "map"}}

Symmetry ==
    Permutations(Node) \cup Permutations({o1, o2}) \cup Permutations({k1, k2})
        \cup Permutations(SetName)
==============================================================================
