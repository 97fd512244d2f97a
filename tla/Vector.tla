-------------------------------- MODULE Vector --------------------------------
(***************************************************************************)
(* The growing array of hacksaw/vector.c as a record: the slots ptr of the *)
(* room s, of which the first n are filled.  A write past the room is lost.*)
(* Slots from n on are empty here: no operation reads what memory leaves   *)
(* in them.  References are counted by the modules that use this one.      *)
(***************************************************************************)
EXTENDS RefObject, Sequences

CONSTANT FirstRoom  \* 32 in vector_new

ASSUME RoomAssumption == FirstRoom \in Nat \ {0}

\* vector_new
VectorNew(opts) ==
    [opts |-> opts, s |-> FirstRoom, n |-> 0, ptr |-> [i \in 0 .. FirstRoom - 1 |-> NULL]]

\* vector_allocate
Allocated(v) ==
    [v EXCEPT !.s = 2 * @,
              !.ptr = [i \in 0 .. 2 * v.s - 1 |-> IF i < v.s THEN @[i] ELSE NULL]]

\* memmove, and memcpy of blocks that overlap towards the front
Moved(ptr, dest, src, len) ==
    [i \in DOMAIN ptr |-> IF i \in dest .. dest + len - 1 THEN ptr[src + i - dest] ELSE ptr[i]]

\* vector_add.  The room is compared for equality: it must never be reached
\* by another way first.
VectorAdd(v, el) ==
    LET w == IF v.s = v.n + 1 THEN Allocated(v) ELSE v
    IN  [w EXCEPT !.ptr[w.n] = el, !.n = @ + 1]

\* A slip: insertion makes room only when none is left, as if the last slot
\* could be filled; the next vector_add misses its equality.
VectorInsertLate(v, el, index) ==
    LET w == IF v.s <= v.n THEN Allocated(v) ELSE v
    IN  [w EXCEPT !.ptr = [Moved(@, index + 1, index, w.n - index) EXCEPT ![index] = el],
                  !.n = @ + 1]
\* vector_insert, at an index up to n
VectorInsert(v, el, index) ==
    LET w == IF v.s <= v.n + 1 THEN Allocated(v) ELSE v
    IN  [w EXCEPT !.ptr = [Moved(@, index + 1, index, w.n - index) EXCEPT ![index] = el],
                  !.n = @ + 1]

\* vector_remove: VECTOR_KEEP leaves an empty slot, every other vector closes
\* up in order, for VECTOR_UNORDERED is no bit of opts.
VectorRemove(v, index) ==
    IF v.opts = "KEEP" THEN [v EXCEPT !.ptr[index] = NULL]
    ELSE LET n == v.n - 1
         IN  [v EXCEPT !.n = n,
                       !.ptr = [Moved(@, index, index + 1, n - index) EXCEPT ![n] = NULL]]

\* What vector_get and vector_foreach read, first to last; there is nothing to
\* be read past the room.
Elements(v) == [i \in 1 .. v.n |-> IF i <= v.s THEN v.ptr[i - 1] ELSE NULL]
==============================================================================
