----------------------------- MODULE LinkedQueue ------------------------------
(***************************************************************************)
(* The doubly linked list of hacksaw/linked_vector.c and the queue made of *)
(* it (queue.c), with the memory they live in: cells that malloc hands out *)
(* again after free, pointers left dangling, and counted objects.          *)
(*                                                                         *)
(* stack.c and queue_set.c are the same list under other names: a stack is *)
(* filled in front, a queue_set takes no object twice.  The request server *)
(* makes every call under its mutex.                                       *)
(*                                                                         *)
(* `order' is not in the program: the cells of the list, first to last, as *)
(* they should be.  The invariants say that the pointers agree with it.    *)
(***************************************************************************)
EXTENDS RefObject, SequencesExt

CONSTANT Node  \* the memory cells malloc may return for a LinkedNode

ASSUME NodeAssumption == NULL \notin Node /\ IsFiniteSet(Node)

VARIABLES
    head, tail,        \* of the LinkedVector; tail may point anywhere
    next, prev, data,  \* the contents of the cells
    live,              \* the cells in use
    freed,             \* the list itself was freed, or never made
    order

list == <<head, tail, next, prev, data, live, freed, order>>

Pointer == Node \cup {NULL}

ListTyped ==
    /\ head \in Pointer /\ tail \in Pointer
    /\ next \in [Node -> Pointer] /\ prev \in [Node -> Pointer]
    /\ data \in [Node -> Object \cup {NULL}]
    /\ live \subseteq Node /\ freed \in BOOLEAN
    /\ order \in Seq(Node)

\* linked_vector_new leaves tail as malloc returned it.
NewList ==
    /\ head = NULL /\ tail \in Pointer
    /\ next = [n \in Node |-> NULL] /\ prev = [n \in Node |-> NULL]
    /\ data = [n \in Node |-> NULL]
    /\ live = {} /\ order = <<>> /\ freed \in BOOLEAN

\* A slip: the list is taken to be empty by its tail alone.
LooksEmptyByTail == tail = NULL
\* Whether the list is empty: neither append nor prepend looks further than
\* head and tail, of which the first is enough.
LooksEmpty == head = NULL \/ tail = NULL

\* A new cell n, which takes a reference to o.
NewNode(n, o) ==
    /\ ~freed /\ n \notin live
    /\ live' = live \cup {n}
    /\ data' = [data EXCEPT ![n] = o]
    /\ Incref(o)
    /\ UNCHANGED freed

\* linked_vector_append, queue_add
Add(n, o) ==
    /\ NewNode(n, o)
    /\ order' = Append(order, n)
    /\ tail' = n
    /\ IF LooksEmpty
       THEN /\ head' = n
            /\ next' = [next EXCEPT ![n] = NULL]
            /\ prev' = [prev EXCEPT ![n] = NULL]
       ELSE /\ next' = [next EXCEPT ![n] = NULL, ![tail] = n]
            /\ prev' = [prev EXCEPT ![n] = tail]
            /\ UNCHANGED head

\* A slip: the first cell does not become the tail.
PrependNoTail(n, o) ==
    /\ NewNode(n, o)
    /\ order' = <<n>> \o order
    /\ head' = n
    /\ IF LooksEmpty
       THEN /\ next' = [next EXCEPT ![n] = NULL]
            /\ prev' = [prev EXCEPT ![n] = NULL]
       ELSE /\ next' = [next EXCEPT ![n] = head]
            /\ prev' = [prev EXCEPT ![n] = NULL, ![head] = n]
    /\ UNCHANGED tail

\* linked_vector_prepend, stack_add
Prepend(n, o) ==
    /\ NewNode(n, o)
    /\ order' = <<n>> \o order
    /\ head' = n
    /\ IF LooksEmpty
       THEN /\ tail' = n
            /\ next' = [next EXCEPT ![n] = NULL]
            /\ prev' = [prev EXCEPT ![n] = NULL]
       ELSE /\ next' = [next EXCEPT ![n] = head]
            /\ prev' = [prev EXCEPT ![n] = NULL, ![head] = n]
            /\ UNCHANGED tail

\* A slip: the popped object is not held before its cell is freed.
PopNoIncref ==
    /\ ~freed /\ head # NULL
    /\ LET o == data[head]
           c == count[o]
       IN  /\ count' = [count EXCEPT ![o] = Decremented(c)]
           /\ exists' = IF Released(c) THEN exists \ {o} ELSE exists
           /\ held' = [held EXCEPT ![o] = @ + 1]
    /\ live' = live \ {head}
    /\ head' = next[head]
    /\ order' = Tail(order)
    /\ UNCHANGED <<tail, next, prev, data, freed>>

\* queue_pop, stack_pop: the popped object is held once more before its cell is freed.
\* tail and the new head's prev keep pointing at the freed cell.
Pop ==
    /\ ~freed /\ head # NULL
    /\ LET o == data[head]
           c == count[o] + 1
       IN  /\ count' = [count EXCEPT ![o] = Decremented(c)]
           /\ exists' = IF Released(c) THEN exists \ {o} ELSE exists
           /\ held' = [held EXCEPT ![o] = @ + 1]
    /\ live' = live \ {head}
    /\ head' = next[head]
    /\ order' = Tail(order)
    /\ UNCHANGED <<tail, next, prev, data, freed>>

\* linked_vector_get(i): the walk along next from head.  It goes through
\* cells in use only as long as the pointers are right.
Get[i \in 0 .. Cardinality(Node)] ==
    IF i = 0 THEN head ELSE IF Get[i - 1] = NULL THEN NULL ELSE next[Get[i - 1]]

\* linked_vector_free and queue_set_inside walk the same way.
Walked == Range(Get) \ {NULL}

\* queue_set_add with the comparison of queue_set_inside
QueueSetAdd(n, o) == (\A cell \in Walked : data[cell] # o) /\ Add(n, o)

\* linked_vector_free
Free ==
    /\ ~freed /\ freed' = TRUE
    /\ live' = live \ Walked
    /\ count' = [o \in Object |->
                    count[o] - Cardinality({n \in Walked : data[n] = o})]
    /\ exists' = {o \in exists : \A n \in Walked : data[n] = o => count'[o] # 0}
    /\ order' = <<>>
    /\ UNCHANGED <<head, tail, next, prev, data, held>>

-----------------------------------------------------------------------------

\* The pointers of the cells in use agree with the order of insertion, and
\* nothing else is in use.  Only the prev of the first cell and the tail of an
\* empty list may dangle, after a pop; a pointer leads to a cell or nowhere.
Linked ==
    /\ live = Range(order) /\ IsInjective(order)
    /\ head = IF order = <<>> THEN NULL ELSE order[1]
    /\ order # <<>> => tail = Last(order) /\ next[Last(order)] = NULL
    /\ \A i \in 1 .. Len(order) - 1 :
          next[order[i]] = order[i + 1] /\ prev[order[i + 1]] = order[i]
PointersSound == ListTyped /\ (freed \/ Linked)

\* The references the list holds to o.
InList(o) == Cardinality({n \in live : data[n] = o})

\* What the walk from head finds is a double-ended queue.
Objects == [i \in 1 .. Cardinality(Walked) |-> data[Get[i - 1]]]
List == INSTANCE Deque WITH Item <- Object,
            items <- IF freed THEN <<>> ELSE Objects
ImplementsDeque == List!Spec
==============================================================================
