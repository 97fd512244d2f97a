------------------------------ MODULE RefObject -------------------------------
(***************************************************************************)
(* The counted objects of hacksaw/object.h.  Containers and the users of   *)
(* an object each hold references; OBJECT_DECREF of the last one frees it. *)
(* Memory is handed out again: a freed object may be made anew.            *)
(***************************************************************************)
EXTENDS Integers, FiniteSets

CONSTANTS
    Object,   \* the memory malloc may return for a RefObject
    NULL,
    MaxCount  \* bound: references to one object at a time

ASSUME NullAssumption == NULL \notin Object

VARIABLES
    exists,  \* the objects in use
    count,   \* their reference_count
    held     \* not in the program: how many of the references its users have

objects == <<exists, count, held>>

ObjectsTyped ==
    /\ exists \subseteq Object
    /\ count \in [Object -> Nat] /\ held \in [Object -> Nat]

NoObjects ==
    /\ exists = {}
    /\ count = [o \in Object |-> 0] /\ held = [o \in Object |-> 0]

\* OBJECT_DECREF of an object with a count of c: whether it is freed, and
\* the count it is left with.
Released(c) == c = 0 \/ c = 1
Decremented(c) == IF c = 0 THEN 0 ELSE c - 1

\* OBJECT_INCREF by a container that a user hands o: one he holds already, or
\* one made for the purpose with a count of zero, as the server's requests are.
Incref(o) ==
    /\ o \in exists => held[o] > 0 /\ count[o] < MaxCount
    /\ exists' = exists \cup {o}
    /\ count' = [count EXCEPT ![o] = @ + 1]
    /\ UNCHANGED held

\* OBJECT_INCREF of several objects that another container keeps alive
IncrefAll(S) ==
    /\ \A o \in S : count[o] < MaxCount
    /\ count' = [o \in Object |-> IF o \in S THEN count[o] + 1 ELSE count[o]]
    /\ UNCHANGED <<exists, held>>

\* OBJECT_DECREF by a container.  An empty slot has nothing to release.
Decref(o) ==
    /\ IF o = NULL THEN UNCHANGED <<exists, count>>
       ELSE /\ count' = [count EXCEPT ![o] = Decremented(@)]
            /\ exists' = IF Released(count[o]) THEN exists \ {o} ELSE exists
    /\ UNCHANGED held

\* The user makes an object with a reference of his own, as the tests do.
Create(o) ==
    /\ o \notin exists
    /\ exists' = exists \cup {o}
    /\ count' = [count EXCEPT ![o] = 1] /\ held' = [held EXCEPT ![o] = 1]

\* The user drops a reference.  The server frees a request it popped, whatever
\* its count: nobody else holds it, so that is the same.
Release(o) ==
    /\ held[o] > 0
    /\ held' = [held EXCEPT ![o] = @ - 1]
    /\ count' = [count EXCEPT ![o] = Decremented(@)]
    /\ exists' = IF Released(count[o]) THEN exists \ {o} ELSE exists
==============================================================================
