------------------------------ MODULE Containers ------------------------------
(***************************************************************************)
(* A program that keeps counted objects in the containers of hacksaw: a    *)
(* list (queue, stack or queue_set), a vector, sets with one comparison,   *)
(* and a map.  It holds what it puts in, may drop it at once, and gets     *)
(* objects back; an object dies with its last reference.                   *)
(***************************************************************************)
EXTENDS LinkedQueue, ObjectSet, HashMap

CONSTANTS
    SetName,    \* the sets the program may make
    Programs,   \* which containers a program uses together
    MaxLength,  \* bound: items in the vector
    MaxBuckets  \* bound: size of the map

VARIABLES
    made,    \* the containers of this program
    vector,
    sets,    \* the sets made so far, by name
    map,     \* NULL once freed
    lost     \* not in the program: references nobody will ever drop

arrays == <<vector, sets, map, lost>>
vars == <<objects, list, made, arrays>>

TypeOK == ObjectsTyped /\ ListTyped /\ made \in Programs /\ lost \in [Object -> Nat]

Init ==
    /\ made \in Programs
    /\ NoObjects
    /\ NewList /\ freed = (made \cap {"queue", "queue_set"} = {})
    /\ \E opts \in IF "vector" \in made THEN {"REMOVE", "KEEP"} ELSE {"REMOVE"} :
          vector = VectorNew(opts)
    /\ sets = <<>>
    /\ map = IF "map" \in made THEN MapNew ELSE NULL
    /\ lost = [o \in Object |-> 0]

UserStep == (\E o \in Object : Create(o) \/ Release(o)) /\ UNCHANGED <<list, made, arrays>>

ListStep ==
    /\ \/ /\ "queue" \in made
          /\ \E n \in Node, o \in Object : Add(n, o) \/ Prepend(n, o)
       \/ /\ "queue_set" \in made
          /\ \E n \in Node, o \in Object : QueueSetAdd(n, o)
       \/ Pop
       \/ Free
    /\ UNCHANGED <<made, arrays>>

AddToVector(o) ==
    /\ vector.n < MaxLength /\ vector' = VectorAdd(vector, o)
    /\ Incref(o)
    /\ UNCHANGED <<sets, map, lost>>

InsertIntoVector(o, index) ==
    /\ vector.n < MaxLength /\ vector' = VectorInsert(vector, o, index)
    /\ Incref(o)
    /\ UNCHANGED <<sets, map, lost>>

\* vector_remove drops the vector's reference, and only then returns the object.
RemoveFromVector(index) ==
    /\ vector' = VectorRemove(vector, index)
    /\ Decref(vector.ptr[index])
    /\ UNCHANGED <<sets, map, lost>>

\* vector_extend with the vector of a set
ExtendVector(s) ==
    LET ex == Elements(sets[s])
    IN  /\ vector.n + Len(ex) <= MaxLength
        /\ vector' = FoldLeft(VectorAdd, vector, ex)
        /\ IncrefAll(Range(ex))
        /\ UNCHANGED <<sets, map, lost>>

VectorStep ==
    /\ "vector" \in made
    /\ \/ \E o \in Object : AddToVector(o) \/ \E i \in 0 .. vector.n : InsertIntoVector(o, i)
       \/ \E i \in 0 .. vector.n - 1 : RemoveFromVector(i)
       \/ \E s \in DOMAIN sets : ExtendVector(s)
    /\ UNCHANGED <<list, made>>

\* set_add of an object the set has no equal of
AddToSet(s, o) ==
    /\ Inside(sets[s], o) = {}
    /\ sets' = [sets EXCEPT ![s] = SetAdd(@, o)]
    /\ Incref(o)
    /\ UNCHANGED <<vector, map, lost>>

\* set_remove of an element equal to one the user holds
RemoveFromSet(s, o) ==
    /\ held[o] > 0 /\ Inside(sets[s], o) # {}
    /\ sets' = [sets EXCEPT ![s] = SetRemove(@, o)]
    /\ Decref(sets[s].ptr[IndexOf(sets[s], o)])
    /\ UNCHANGED <<vector, map, lost>>

\* s becomes a set with the elements it had and others of sets in use.
Becomes(s, set) ==
    LET had == IF s \in DOMAIN sets THEN Range(Elements(sets[s])) ELSE {}
    IN  /\ sets' = [x \in DOMAIN sets \cup {s} |-> IF x = s THEN set ELSE sets[x]]
        /\ IncrefAll(Range(Elements(set)) \ had)
        /\ UNCHANGED <<vector, map, lost>>

\* Each set is made once: set_free would free the vector through a pointer
\* that vector_new never sets.
SetStep ==
    /\ "sets" \in made
    /\ \/ \E s \in DOMAIN sets, o \in Object : AddToSet(s, o) \/ RemoveFromSet(s, o)
       \/ \E s1, s2 \in DOMAIN sets : Becomes(s1, SetUnion(sets[s1], sets[s2]))
       \/ \E s \in SetName \ DOMAIN sets :
             \/ Becomes(s, SetNew)
             \/ \E s1 \in DOMAIN sets : Becomes(s, SetDup(sets[s1]))
             \/ \E s1, s2 \in DOMAIN sets : Becomes(s, SetIntersect(sets[s1], sets[s2]))
    /\ UNCHANGED <<list, made>>

\* map_insert.  The object that was under the key is returned to map_insert,
\* which ignores it: the map's reference to it is lost.
InsertIntoMap(key, o) ==
    /\ MapEnlarged(map).size <= MaxBuckets
    /\ map' = MapInsert(map, key, o)
    /\ Incref(o)
    /\ lost' = [p \in Object |-> IF p = MapGet(map, key) THEN lost[p] + 1 ELSE lost[p]]
    /\ UNCHANGED <<vector, sets>>

\* map_remove hands the map's reference to the caller.
RemoveFromMap(key) ==
    LET o == MapGet(map, key)
    IN  /\ o # NULL
        /\ map' = MapRemove(map, key)
        /\ held' = [held EXCEPT ![o] = @ + 1]
        /\ UNCHANGED <<exists, count, vector, sets, lost>>

\* map_free: OBJECT_DECREF of the data of every item
FreeMap ==
    /\ map' = NULL
    /\ count' = [o \in Object |-> count[o] - Cardinality(Holding(map, o))]
    /\ exists' = {o \in exists : Holding(map, o) # {} => count'[o] > 0}
    /\ UNCHANGED <<held, vector, sets, lost>>

MapStep ==
    /\ map # NULL
    /\ \/ \E key \in Key : RemoveFromMap(key) \/ \E o \in Object : InsertIntoMap(key, o)
       \/ FreeMap
    /\ UNCHANGED <<list, made>>

Next ==
    \/ UserStep
    \/ ListStep
    \/ VectorStep
    \/ SetStep
    \/ MapStep

Spec == Init /\ [][Next]_vars

-----------------------------------------------------------------------------
\* The references the vector and the sets hold to o.
InVector(o) == Cardinality({i \in 0 .. vector.n - 1 : vector.ptr[i] = o})
InSets(o) == Cardinality({s \in DOMAIN sets : o \in Range(Elements(sets[s]))})
InMap(o) == IF map = NULL THEN 0 ELSE Cardinality(Holding(map, o))

\* What the map finds under each key
Bound == IF map = NULL THEN <<>> ELSE
    [key \in {k \in Key : MapGet(map, k) # NULL} |-> MapGet(map, key)]

\* Whatever container an object passes through, its count is the number of
\* places that hold it, and it is in use exactly as long as there is one: no
\* container ever leads to a freed object, and the only references nobody drops
\* are those map_insert loses when it replaces a value.  Nor does the map lose
\* sight of a key: map_all_keys stops when it has found n of them, and n, which
\* growth and removal leave wrong, is never less than their number.
CountsExact ==
    /\ TypeOK
    /\ \A o \in Object :
          /\ count[o] = held[o] + InList(o) + InVector(o) + InSets(o) + InMap(o) + lost[o]
          /\ o \in exists <=> count[o] > 0
    /\ map # NULL => Range(AllKeys(map)) = DOMAIN Bound

\* No two elements of a set look equal to its comparison, though they are
\* different objects, and union and intersection mean what they say, whichever
\* of the two sets is the bigger one.
SetAlgebra ==
    \A s1, s2 \in Range(sets) :
        LET both == SetUnion(s1, s2) common == SetIntersect(s1, s2)
        IN  /\ Distinct(s1) /\ Distinct(both) /\ Distinct(common)
            /\ Content(both) = Content(s1) \cup Content(s2)
            /\ Content(common) = Content(s1) \cap Content(s2)

\* Through growth, insertion in the middle, removal and extension, the vector's
\* slots hold a sequence, also when it was made to keep holes.
Array == INSTANCE ItemSequence WITH Item <- Object, Hole <- NULL, items <- Elements(vector)
ImplementsSequence == Array!Spec

\* Through collisions and growth, the table finds under each key the object
\* inserted last, and nothing under a key that was removed.
Table == INSTANCE Mapping WITH Value <- Object, bound <- Bound
ImplementsMapping == Table!Spec
==============================================================================
