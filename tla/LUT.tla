--------------------------------- MODULE LUT ---------------------------------
(***************************************************************************)
(* The lookup table of hacksaw/lut.c: a chained hash table whose entries   *)
(* are also reached by an id that must survive resizing.  An id is the     *)
(* key's hash and the number of earlier keys with the same hash.           *)
(*                                                                         *)
(* A table is a record: `size' buckets, the counter `n', and the nodes.    *)
(* Each node carries the bucket it hangs in and its age, the value of n    *)
(* when it was appended: nothing is ever removed and nodes are only        *)
(* appended, so a chain is the nodes of one bucket in the order of age.    *)
(* Every stored datum is a counted Python object, as in all the callers.   *)
(***************************************************************************)
EXTENDS Integers, FiniteSets, Functions

CONSTANTS
    Key,         \* the strings used as keys
    Hash,        \* map_get_hash: the 32-bit hash of each key
    OverlapSpan, \* 2^16: hash_overlap is a U16
    NULL

ASSUME HashAssumption == Hash \in [Key -> Nat]
ASSUME OverlapAssumption == OverlapSpan \in Nat \ {0}

Id == [hash : Range(Hash), overlap : 0 .. OverlapSpan - 1]

Node(Data) == [id : Id, key : Key, data : Data, age : Nat, bucket : Nat]

Table(Data) == [size : Nat \ {0}, n : Nat, nodes : SUBSET Node(Data)]

\* self->size * LUT_THRESHOLD, truncated
ReallocAt(size) == (7 * size) \div 10

\* lut_new
New(size) == [size |-> size, n |-> 0, nodes |-> {}]

\* The chain an id or a hash leads to, and its first member among S.
Chain(t, hash) == {nd \in t.nodes : nd.bucket = hash % t.size}
First(S) == CHOOSE nd \in S : \A other \in S : nd.age <= other.age
\* A slip: only the hashes are compared.
WithHash(t, id) == {nd \in Chain(t, id.hash) : nd.id.hash = id.hash}
WithId(t, id) == {nd \in Chain(t, id.hash) : nd.id = id}

\* lut_realloc.  The old buckets are emptied in order until n nodes have been
\* moved: a node moves iff fewer than n hang in the buckets before its own.
Moved(t) == {nd \in t.nodes :
                Cardinality({m \in t.nodes : m.bucket < nd.bucket}) < t.n}
\* A slip: nodes keep the number of the bucket they hung in.
ReallocKeepsBucket(t, size) ==
    [size |-> size, n |-> Cardinality(Moved(t)), nodes |-> Moved(t)]
Realloc(t, size) ==
    [size |-> size, n |-> Cardinality(Moved(t)),
     nodes |-> {[nd EXCEPT !.bucket = nd.id.hash % size] : nd \in Moved(t)}]

\* lut_get_id: the id of key, or the one it would get, and which of the two.
SameHash(t, key) == {nd \in Chain(t, Hash[key]) : nd.id.hash = Hash[key]}
\* A slip: colliding keys are not told apart.
GetIdNoOverlap(t, key) ==
    [id |-> [hash |-> Hash[key], overlap |-> 0],
     flag |-> IF \E nd \in SameHash(t, key) : nd.key = key THEN "EXISTS" ELSE "NOT_FOUND"]
GetId(t, key) ==
    LET hit == {nd \in SameHash(t, key) : nd.key = key}
    IN  IF hit # {}
        THEN [id |-> First(hit).id, flag |-> "EXISTS"]
        ELSE [id |-> [hash |-> Hash[key],
                      overlap |-> Cardinality(SameHash(t, key)) % OverlapSpan],
              flag |-> "NOT_FOUND"]

\* lut_get and lut_get_key
Get(t, id) == IF WithId(t, id) = {} THEN NULL ELSE First(WithId(t, id)).data
GetKey(t, id) == IF WithId(t, id) = {} THEN NULL ELSE First(WithId(t, id)).key

\* lut_insert_id.  The table is first enlarged if it is full, also when the
\* key exists and nothing will be added.
Enlarged(t) == IF t.n + 1 >= ReallocAt(t.size) THEN Realloc(t, 4 * t.size) ELSE t

Appended(t, key, data, id) ==
    [t EXCEPT !.nodes = @ \cup {[id |-> id, key |-> key, data |-> data, age |-> t.n,
                                 bucket |-> id.hash % t.size]},
              !.n = @ + 1]
Overwritten(t, data, id) ==
    LET old == First(WithId(t, id))
    IN  [t EXCEPT !.nodes = (@ \ {old}) \cup {[old EXCEPT !.data = data]}]

InsertId(t, key, data, id, flag) ==
    IF flag = "NOT_FOUND" THEN Appended(Enlarged(t), key, data, id)
    ELSE Overwritten(Enlarged(t), data, id)

\* lut_insert
Insert(t, key, data) ==
    LET g == GetId(t, key) IN InsertId(t, key, data, g.id, g.flag)

\* The references lut_insert_id adds to data and drops: a new node holds one;
\* an overwritten node exchanges its own, unless it held data already.
Gains(t, data, id, flag) == flag = "NOT_FOUND" \/ Get(Enlarged(t), id) # data
Loses(t, data, id, flag) ==
    IF flag = "EXISTS" /\ Get(Enlarged(t), id) # data THEN {Get(Enlarged(t), id)} ELSE {}

\* The assertions of lut_realloc and lut_insert_id.
AssertsHold(t, id, flag) ==
    /\ Enlarged(t) # t => Enlarged(t).n = t.n
    /\ flag = "EXISTS" => WithId(Enlarged(t), id) # {}

-----------------------------------------------------------------------------
(* What holds of a table that is only changed by inserting ids the table   *)
(* itself gave out and that nobody used in the meantime.                   *)

\* Every entry can be found: it hangs where its id leads, under its key's
\* hash, and no key or id has two entries.  Resizing must keep this.
Findable(t) ==
    /\ \A nd \in t.nodes :
          nd.bucket = nd.id.hash % t.size /\ nd.id.hash = Hash[nd.key]
    /\ \A x, y \in t.nodes : x.key = y.key \/ x.id = y.id => x = y

\* The counter counts, so the table is enlarged before it is full, and the
\* loop of lut_realloc may rely on it to stop.
Counted(t) == t.n = Cardinality(t.nodes) /\ t.n < ReallocAt(t.size)

\* The overlaps handed out for a hash are those below the number of its keys,
\* so the next one is fresh.
Spread(t) ==
    \A nd \in t.nodes :
        nd.id.overlap < Cardinality({m \in t.nodes : m.id.hash = nd.id.hash})

Sound(t) == IsFiniteSet(t.nodes) /\ Findable(t) /\ Counted(t) /\ Spread(t)

\* What remains of that in a table that is also given the ids of another one:
\* two nodes may have the same id then, but they were appended at two times.
Regular(t) ==
    /\ IsFiniteSet(t.nodes) /\ Counted(t)
    /\ \A nd \in t.nodes : nd.bucket = nd.id.hash % t.size /\ nd.age < t.n
    /\ \A x, y \in t.nodes : x.age = y.age => x = y

\* The nodes that hold a reference to x.
Uses(t, x) == {nd \in t.nodes : nd.data = x}

\* The keys and what they are bound to, for the abstract dictionary.
Keys(t) == {nd.key : nd \in t.nodes}
NodeOf(t, key) == CHOOSE nd \in t.nodes : nd.key = key
Ids(t) == [k \in Keys(t) |-> NodeOf(t, k).id]
Values(t) == [k \in Keys(t) |-> NodeOf(t, k).data]
==============================================================================
