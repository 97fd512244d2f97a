------------------------------- MODULE HashMap --------------------------------
(***************************************************************************)
(* The map of hacksaw/map.c: a chained hash table from strings to counted  *)
(* objects, as a record of the buckets, each a sequence of items with the  *)
(* newest first, and the number n that decides when it grows.              *)
(***************************************************************************)
EXTENDS RefObject, SequencesExt

CONSTANTS
    Key,       \* the strings used as keys
    Hash,      \* map_get_hash of each
    FirstSize, \* the size and the threshold, as a fraction <<4, 5>>, the
    Threshold  \* user passes to map_new

ASSUME HashAssumption == Hash \in [Key -> Nat] /\ FirstSize \in Nat \ {0}

\* map_new
MapNew == [size |-> FirstSize, n |-> 0, table |-> [b \in 0 .. FirstSize - 1 |-> <<>>]]
ReallocAt(size) == (size * Threshold[1]) \div Threshold[2]

Bucket(map, key) == Hash[key] % map.size
At(map, key) == SelectInSeq(map.table[Bucket(map, key)], LAMBDA item : item.key = key)

\* map_get
MapGet(map, key) ==
    IF At(map, key) = 0 THEN NULL ELSE map.table[Bucket(map, key)][At(map, key)].data

\* prv_map_insert_item: a known key's item takes the new data, a new item goes
\* to the front of its bucket and is counted.
InsertItem(map, item) ==
    LET b == Bucket(map, item.key)
    IN  IF At(map, item.key) # 0
        THEN [map EXCEPT !.table[b][At(map, item.key)] = item]
        ELSE [map EXCEPT !.table[b] = <<item>> \o @, !.n = @ + 1]

\* prv_map_realloc_item: bucket after bucket, each chain from its end
Unchained(map) ==
    FoldLeft(LAMBDA s, b : s \o Reverse(map.table[b]), <<>>, [i \in 1 .. map.size |-> i - 1])

\* map_realloc: the items are entered anew.  Every one is counted again on top
\* of the old n.
MapRealloc(map, size) ==
    FoldLeft(InsertItem,
             [size |-> size, n |-> map.n, table |-> [b \in 0 .. size - 1 |-> <<>>]],
             Unchained(map))

\* map_insert: the table is enlarged first, also if the key exists.
MapEnlarged(map) ==
    IF map.n + 1 >= ReallocAt(map.size) THEN MapRealloc(map, 2 * map.size) ELSE map
MapInsert(map, key, data) == InsertItem(MapEnlarged(map), [key |-> key, data |-> data])

\* A slip: the items before the removed one are forgotten.
MapRemoveFirst(map, key) ==
    [map EXCEPT !.table[Bucket(map, key)] = SubSeq(@, At(map, key) + 1, Len(@))]
\* map_remove of a key that exists: n stays.
MapRemove(map, key) ==
    [map EXCEPT !.table[Bucket(map, key)] = RemoveAt(@, At(map, key))]

\* map_all_keys: bucket after bucket, as long as fewer than n keys were found.
KeysIn(chain) == [i \in DOMAIN chain |-> chain[i].key]
AllKeys(map) ==
    FoldLeft(LAMBDA keys, b : IF Len(keys) < map.n THEN keys \o KeysIn(map.table[b]) ELSE keys,
             <<>>, [i \in 1 .. map.size |-> i - 1])

\* All the items, and those that hold o.
Items(map) == UNION {{<<b, i>> : i \in DOMAIN map.table[b]} : b \in DOMAIN map.table}
Holding(map, o) == {at \in Items(map) : map.table[at[1]][at[2]].data = o}
==============================================================================
