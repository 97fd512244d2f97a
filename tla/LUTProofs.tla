------------------------------ MODULE LUTProofs ------------------------------
(***************************************************************************)
(* Lemmas about the lookup table for any keys, hashes and data: enlarging, *)
(* appending and overwriting keep a table Sound and every binding in it,   *)
(* a known key is found under its id, and the id of a new key is fresh.    *)
(***************************************************************************)
EXTENDS LUT, FiniteSetTheorems, WellFoundedInduction, TLAPS

\* What a table says, wherever its nodes hang.
Entries(t) == {[id |-> nd.id, key |-> nd.key, data |-> nd.data] : nd \in t.nodes}

\* A set of numbers has a least one.
LEMMA Least ==
    ASSUME NEW S, S \subseteq Nat, S # {}
    PROVE  \E x \in S : \A y \in S : x <= y
  <1> DEFINE R == {pair \in Nat \X Nat : pair[1] < pair[2]}
  <1>1. IsWellFoundedOn(R, Nat)
    BY NatLessThanWellFounded DEF OpToRel
  <1>2. PICK x \in S : \A y \in S : ~ (<<y, x>> \in R)
    <2> HIDE DEF R
    <2> QED
      BY <1>1, WFMin
  <1>3. ASSUME NEW y \in S
        PROVE  x <= y
    <2>1. x \in Nat /\ y \in Nat /\ <<y, x>> \in Nat \X Nat
      OBVIOUS
    <2>2. <<y, x>>[1] = y /\ <<y, x>>[2] = x /\ ~ (<<y, x>> \in R)
      BY <1>2
    <2>3. ~ (y < x)
      BY <2>1, <2>2
    <2> QED
      BY <2>1, <2>3
  <1> QED
    BY <1>3

\* The first node of a chain.
LEMMA FirstIn ==
    ASSUME NEW Data, NEW S, S \subseteq Node(Data), S # {}
    PROVE  First(S) \in S
  <1> DEFINE ages == {nd.age : nd \in S}
  <1>1. ages \subseteq Nat /\ ages # {}
    BY DEF Node
  <1>2. PICK a \in ages : \A b \in ages : a <= b
    <2> HIDE DEF ages
    <2> QED
      BY <1>1, Least
  <1>3. PICK nd \in S : nd.age = a
    OBVIOUS
  <1>4. \A other \in S : nd.age <= other.age
    BY <1>2, <1>3
  <1> QED
    BY <1>4 DEF First

\* lut_get finds the datum of a node with that id, or nothing.
LEMMA GetIn ==
    ASSUME NEW Data, NULL \notin Data, NEW t \in Table(Data), NEW id
    PROVE  /\ Get(t, id) \in Data \cup {NULL}
           /\ Get(t, id) # NULL => \E nd \in t.nodes : nd.id = id /\ nd.data = Get(t, id)
           /\ Get(t, id) = NULL <=> WithId(t, id) = {}
  <1>1. t.nodes \in SUBSET Node(Data) /\ WithId(t, id) \in SUBSET Node(Data)
        /\ \A nd \in WithId(t, id) : nd \in t.nodes /\ nd.id = id
    BY DEF Table, WithId, Chain
  <1>2. CASE WithId(t, id) = {}
    BY <1>2 DEF Get
  <1>3. CASE WithId(t, id) # {}
    <2>1. First(WithId(t, id)) \in WithId(t, id)
      BY <1>1, <1>3, FirstIn
    <2>2. First(WithId(t, id)) \in Node(Data)
      BY <1>1, <2>1
    <2>3. Get(t, id) = First(WithId(t, id)).data /\ First(WithId(t, id)).data \in Data
      BY <1>3, <2>2 DEF Get, Node
    <2> QED
      BY <1>1, <1>3, <2>1, <2>3
  <1> QED
    BY <1>2, <1>3

\* A table of fewer than ReallocAt(size) nodes has room for one more after it
\* has been enlarged.
LEMMA ReallocAtGrows ==
    ASSUME NEW size \in Nat \ {0}
    PROVE  /\ ReallocAt(size) \in Nat
           /\ 4 * size \in Nat \ {0}
           /\ ReallocAt(size) + 1 < ReallocAt(4 * size)
  BY DEF ReallocAt

\* lut_new
LEMMA NewSound ==
    ASSUME NEW Data, NEW size \in Nat, size >= 2
    PROVE  New(size) \in Table(Data) /\ Sound(New(size))
  <1>1. /\ New(size).nodes = {} /\ New(size).n = 0 /\ New(size).size = size
        /\ New(size) \in Table(Data)
    BY DEF New, Table
  <1>2. 0 < ReallocAt(size)
    BY DEF ReallocAt
  <1>3. IsFiniteSet({}) /\ Cardinality({}) = 0
    BY FS_EmptySet
  <1> QED
    BY <1>1, <1>2, <1>3 DEF Sound, Findable, Counted, Spread

\* In a sound table the nodes of one hash are those get_id counts.
LEMMA SameHashGroup ==
    ASSUME NEW t, NEW key \in Key, Sound(t)
    PROVE  SameHash(t, key) = {m \in t.nodes : m.id.hash = Hash[key]}
  BY DEF Sound, Findable, SameHash, Chain

\* A node of a sound table is found under its id and under its key.
LEMMA FoundById ==
    ASSUME NEW t, Sound(t), NEW nd \in t.nodes
    PROVE  /\ WithId(t, nd.id) = {nd}
           /\ First(WithId(t, nd.id)) = nd
           /\ Get(t, nd.id) = nd.data
  <1>1. WithId(t, nd.id) = {nd}
    BY DEF Sound, Findable, WithId, Chain
  <1>2. First({nd}) = nd
    <2>1. \A x \in {nd} : (\A other \in {nd} : x.age <= other.age) => x = nd
      OBVIOUS
    <2> QED
      BY <2>1 DEF First
  <1> QED
    BY <1>1, <1>2 DEF Get

\* lut_realloc moves every node if the counter, which ends the loop, is the
\* number of nodes.
LEMMA AllMoved ==
    ASSUME NEW Data, NEW t \in Table(Data), IsFiniteSet(t.nodes), Counted(t)
    PROVE  Moved(t) = t.nodes
  <1> SUFFICES ASSUME NEW nd \in t.nodes
               PROVE  Cardinality({m \in t.nodes : m.bucket < nd.bucket}) < t.n
    BY DEF Moved
  <1> DEFINE before == {m \in t.nodes : m.bucket < nd.bucket}
  <1>1. IsFiniteSet(t.nodes) /\ t.n = Cardinality(t.nodes)
    BY DEF Counted
  <1>2. nd.bucket \in Nat
    BY DEF Table, Node
  <1>3. before \in SUBSET (t.nodes \ {nd})
    BY <1>2
  <1>4. IsFiniteSet(t.nodes \ {nd}) /\ Cardinality(t.nodes \ {nd}) = t.n - 1
    BY <1>1, FS_RemoveElement, Zenon
  <1>5. IsFiniteSet(before) /\ Cardinality(before) <= t.n - 1
    <2>1. Cardinality(before) <= Cardinality(t.nodes \ {nd}) /\ IsFiniteSet(before)
      BY <1>3, <1>4, FS_Subset, Zenon
    <2> QED
      BY <2>1, <1>4
  <1>6. t.n \in Nat /\ Cardinality(before) \in Nat
    BY <1>1, <1>5, FS_CardinalityType
  <1> QED
    BY <1>5, <1>6

\* lut_realloc keeps the table sound, leaves room, and changes no binding.
LEMMA ReallocSound ==
    ASSUME HashAssumption, NEW Data, NEW t \in Table(Data), Sound(t)
    PROVE  /\ Realloc(t, 4 * t.size) \in Table(Data)
           /\ Sound(Realloc(t, 4 * t.size))
           /\ Realloc(t, 4 * t.size).n = t.n
           /\ t.n + 1 < ReallocAt(4 * t.size)
           /\ Entries(Realloc(t, 4 * t.size)) = Entries(t)
  <1> DEFINE size == 4 * t.size
             move(nd) == [nd EXCEPT !.bucket = nd.id.hash % size]
             r == Realloc(t, size)
  <1>1. /\ t.size \in Nat \ {0} /\ t.n \in Nat /\ t.nodes \in SUBSET Node(Data)
        /\ IsFiniteSet(t.nodes) /\ t.n = Cardinality(t.nodes) /\ t.n < ReallocAt(t.size)
    BY DEF Table, Sound, Counted
  <1>2. /\ size \in Nat \ {0} /\ ReallocAt(t.size) + 1 < ReallocAt(size)
        /\ ReallocAt(t.size) \in Nat /\ ReallocAt(size) \in Nat
    <2>1. ReallocAt(size) \in Nat
      BY <1>1 DEF ReallocAt
    <2> QED
      BY <1>1, <2>1, ReallocAtGrows
  <1>3. r = [size |-> size, n |-> t.n, nodes |-> {move(nd) : nd \in t.nodes}]
    BY <1>1, AllMoved, Zenon DEF Realloc, Sound
  <1> HIDE DEF size, r
  <1>4. ASSUME NEW nd \in t.nodes
        PROVE  /\ move(nd) \in Node(Data)
               /\ move(nd).id = nd.id /\ move(nd).key = nd.key /\ move(nd).data = nd.data
               /\ move(nd).bucket = nd.id.hash % size
    <2>1. nd \in Node(Data)
      BY <1>1
    <2>2. nd.id.hash \in Nat
      BY <2>1, HashAssumption DEF Node, Id, HashAssumption, Range
    <2>3. nd.id.hash % size \in Nat
      BY <2>2, <1>2
    <2> QED
      BY <2>1, <2>3 DEF Node
  <1>5. ASSUME NEW x \in t.nodes, NEW y \in t.nodes, x.key = y.key \/ x.id = y.id
        PROVE  x = y
    BY <1>5 DEF Sound, Findable
  <1>6. r \in Table(Data)
    BY <1>1, <1>2, <1>3, <1>4 DEF Table
  <1>7. Findable(r)
    <2>1. ASSUME NEW m \in r.nodes
          PROVE  m.bucket = m.id.hash % r.size /\ m.id.hash = Hash[m.key]
      <3>1. PICK nd \in t.nodes : m = move(nd)
        BY <1>3
      <3> QED
        BY <3>1, <1>3, <1>4 DEF Sound, Findable
    <2>2. ASSUME NEW x \in r.nodes, NEW y \in r.nodes, x.key = y.key \/ x.id = y.id
          PROVE  x = y
      <3>1. PICK nx \in t.nodes : x = move(nx)
        BY <1>3
      <3>2. PICK ny \in t.nodes : y = move(ny)
        BY <1>3
      <3>3. nx.key = ny.key \/ nx.id = ny.id
        BY <3>1, <3>2, <2>2, <1>4
      <3> QED
        BY <3>1, <3>2, <3>3, <1>5
    <2> QED
      BY <2>1, <2>2 DEF Findable
  <1>8. \* the bijection between the nodes and the moved nodes, for any hash
        ASSUME NEW S \in SUBSET t.nodes
        PROVE  /\ IsFiniteSet({move(nd) : nd \in S})
               /\ Cardinality({move(nd) : nd \in S}) = Cardinality(S)
    <2> DEFINE T == {move(nd) : nd \in S}
               f == [nd \in S |-> move(nd)]
    <2>1. f \in [S -> T] /\ \A y \in T : \E x \in S : f[x] = y
      OBVIOUS
    <2>2. ASSUME NEW x \in S, NEW y \in S, f[x] = f[y]
          PROVE  x = y
      <3>1. move(x) = move(y) /\ x \in t.nodes /\ y \in t.nodes
        BY <2>2
      <3>2. x.key = y.key
        BY <3>1, <1>4
      <3> QED
        BY <3>1, <3>2, <1>5
    <2>3. f \in Bijection(S, T)
      BY <2>1, <2>2 DEF Bijection, Injection, Surjection, IsInjective
    <2>4. ExistsBijection(S, T)
      BY <2>3 DEF ExistsBijection
    <2>5. IsFiniteSet(S)
      BY <1>1, FS_Subset
    <2> QED
      BY <2>4, <2>5, FS_Bijection
  <1>9. IsFiniteSet(r.nodes) /\ Counted(r)
    <2>1. IsFiniteSet(r.nodes) /\ Cardinality(r.nodes) = t.n
      BY <1>1, <1>3, <1>8
    <2>2. r.n = t.n /\ r.size = size
      BY <1>3
    <2>3. t.n < ReallocAt(size)
      BY <1>1, <1>2
    <2> QED
      BY <2>1, <2>2, <2>3 DEF Counted
  <1>10. Spread(r)
    <2> SUFFICES ASSUME NEW m \in r.nodes
                 PROVE  m.id.overlap < Cardinality({x \in r.nodes : x.id.hash = m.id.hash})
      BY DEF Spread
    <2>1. PICK nd \in t.nodes : m = move(nd)
      BY <1>3
    <2> DEFINE S == {x \in t.nodes : x.id.hash = nd.id.hash}
    <2>2. {x \in r.nodes : x.id.hash = m.id.hash} = {move(x) : x \in S}
      <3>1. m.id = nd.id
        BY <2>1, <1>4
      <3>2. r.nodes = {move(x) : x \in t.nodes}
        BY <1>3
      <3>3. ASSUME NEW x \in t.nodes
            PROVE  move(x).id.hash = x.id.hash
        BY <1>4
      <3> HIDE DEF move
      <3>4. ASSUME NEW x \in r.nodes, x.id.hash = m.id.hash
            PROVE  \E y \in S : x = move(y)
        BY <3>1, <3>2, <3>3, <3>4
      <3> QED
        BY <3>1, <3>2, <3>3, <3>4
    <2>3. nd.id.overlap < Cardinality(S)
      BY DEF Sound, Spread
    <2>4. Cardinality({move(x) : x \in S}) = Cardinality(S)
      BY <1>8
    <2>5. m.id = nd.id
      BY <2>1, <1>4
    <2> QED
      BY <2>2, <2>3, <2>4, <2>5
  <1>11. Sound(r)
    BY <1>7, <1>9, <1>10 DEF Sound
  <1>12. r.n = t.n /\ t.n + 1 < ReallocAt(size)
    BY <1>1, <1>2, <1>3
  <1>13. Entries(r) = Entries(t)
    <2>1. r.nodes = {move(nd) : nd \in t.nodes}
      BY <1>3
    <2>2. \A nd \in t.nodes : /\ move(nd).id = nd.id
                              /\ move(nd).key = nd.key /\ move(nd).data = nd.data
      BY <1>4
    <2> HIDE DEF move
    <2> QED
      BY <2>1, <2>2 DEF Entries
  <1> QED
    BY <1>6, <1>11, <1>12, <1>13 DEF size, r

\* The test at the top of lut_insert_id leaves room for one node.
LEMMA EnlargedSound ==
    ASSUME HashAssumption, NEW Data, NEW t \in Table(Data), Sound(t)
    PROVE  /\ Enlarged(t) \in Table(Data)
           /\ Sound(Enlarged(t))
           /\ Enlarged(t).n = t.n
           /\ t.n + 1 < ReallocAt(Enlarged(t).size)
           /\ Entries(Enlarged(t)) = Entries(t)
  <1>1. CASE t.n + 1 >= ReallocAt(t.size)
    <2>1. Realloc(t, 4 * t.size).size = 4 * t.size
      BY DEF Realloc
    <2> QED
      BY <1>1, <2>1, ReallocSound DEF Enlarged
  <1>2. CASE ~(t.n + 1 >= ReallocAt(t.size))
    <2>1. t.n \in Nat /\ ReallocAt(t.size) \in Int
      BY DEF Table, ReallocAt
    <2> QED
      BY <1>2, <2>1 DEF Enlarged
  <1> QED
    BY <1>1, <1>2

\* lut_get_id finds a known key.
LEMMA GetIdKnown ==
    ASSUME NEW t, Sound(t), NEW nd \in t.nodes, nd.key \in Key
    PROVE  GetId(t, nd.key) = [id |-> nd.id, flag |-> "EXISTS"]
  <1> DEFINE hit == {m \in SameHash(t, nd.key) : m.key = nd.key}
  <1>1. hit = {nd}
    <2>1. nd.id.hash = Hash[nd.key] /\ \A m \in t.nodes : m.key = nd.key => m = nd
      BY DEF Sound, Findable
    <2> QED
      BY <2>1, SameHashGroup
  <1>2. First({nd}) = nd
    <2>1. \A x \in {nd} : (\A other \in {nd} : x.age <= other.age) => x = nd
      OBVIOUS
    <2> QED
      BY <2>1 DEF First
  <1>3. hit # {} /\ First(hit) = nd
    BY <1>1, <1>2
  <1> QED
    BY <1>3 DEF GetId

\* The id lut_get_id gives for an unknown key is one no key has: the keys of
\* one hash are fewer than a U16 can count.
LEMMA GetIdNew ==
    ASSUME HashAssumption, OverlapAssumption, IsFiniteSet(Key),
           Cardinality(Key) <= OverlapSpan,
           NEW Data, NEW t \in Table(Data), Sound(t), NEW key \in Key \ Keys(t)
    PROVE  LET g == GetId(t, key)
               group == {m \in t.nodes : m.id.hash = Hash[key]}
           IN  /\ g.flag = "NOT_FOUND" /\ g.id \in Id
               /\ g.id = [hash |-> Hash[key], overlap |-> Cardinality(group)]
               /\ \A nd \in t.nodes : nd.id # g.id
  <1> DEFINE g == GetId(t, key)
             group == {m \in t.nodes : m.id.hash = Hash[key]}
  <1>1. group \in SUBSET t.nodes /\ IsFiniteSet(t.nodes) /\ t.nodes \in SUBSET Node(Data)
    BY DEF Sound, Table
  <1>2. \* distinct nodes have distinct keys, none of them key
        Cardinality(t.nodes) < OverlapSpan /\ Cardinality(t.nodes) \in Nat
    <2> DEFINE f == [nd \in t.nodes |-> nd.key]
    <2>1. \A nd \in t.nodes : nd.key \in Key \ {key}
      BY <1>1 DEF Keys, Node
    <2>2. f \in Injection(t.nodes, Key \ {key})
      BY <2>1 DEF Injection, IsInjective, Sound, Findable
    <2>3. IsFiniteSet(Key \ {key}) /\ Cardinality(Key \ {key}) = Cardinality(Key) - 1
      BY FS_RemoveElement
    <2>4. Cardinality(t.nodes) <= Cardinality(Key \ {key})
      BY <2>2, <2>3, FS_Injection
    <2>5. Cardinality(Key) \in Nat /\ Cardinality(t.nodes) \in Nat
      BY <1>1, FS_CardinalityType
    <2> QED
      BY <2>3, <2>4, <2>5 DEF OverlapAssumption
  <1>3. Cardinality(group) \in 0 .. OverlapSpan - 1
    <2>1. Cardinality(group) <= Cardinality(t.nodes) /\ IsFiniteSet(group)
      BY <1>1, FS_Subset
    <2>2. Cardinality(group) \in Nat
      BY <2>1, FS_CardinalityType
    <2> QED
      BY <1>2, <2>1, <2>2 DEF OverlapAssumption
  <1>4. Cardinality(group) % OverlapSpan = Cardinality(group)
    BY <1>3 DEF OverlapAssumption
  <1>5. g = [id |-> [hash |-> Hash[key], overlap |-> Cardinality(group)], flag |-> "NOT_FOUND"]
    <2>1. SameHash(t, key) = group
      BY SameHashGroup
    <2>2. {nd \in group : nd.key = key} = {}
      BY DEF Keys
    <2> QED
      BY <2>1, <2>2, <1>4 DEF GetId
  <1>6. g.id \in Id
    <2>1. Hash[key] \in Range(Hash)
      BY DEF Range, HashAssumption
    <2> QED
      BY <2>1, <1>3, <1>5 DEF Id
  <1>7. ASSUME NEW nd \in t.nodes
        PROVE  nd.id # g.id
    <2> SUFFICES ASSUME nd.id = g.id PROVE FALSE
      OBVIOUS
    <2>1. nd.id.hash = Hash[key] /\ nd.id.overlap = Cardinality(group)
      BY <1>5
    <2>2. nd.id.overlap < Cardinality(group)
      BY <2>1 DEF Sound, Spread
    <2> QED
      BY <1>3, <2>1, <2>2
  <1> QED
    BY <1>5, <1>6, <1>7

\* The size of a hash's group can be read off the entries.
LEMMA GroupSize ==
    ASSUME NEW t, Sound(t), NEW hash
    PROVE  Cardinality({m \in t.nodes : m.id.hash = hash})
              = Cardinality({e \in Entries(t) : e.id.hash = hash})
  <1> DEFINE S == {m \in t.nodes : m.id.hash = hash}
             T == {e \in Entries(t) : e.id.hash = hash}
             f == [m \in S |-> [id |-> m.id, key |-> m.key, data |-> m.data]]
  <1>1. f \in [S -> T] /\ \A e \in T : \E m \in S : f[m] = e
    <2>1. ASSUME NEW m \in S
          PROVE  f[m] \in T
      BY DEF Entries
    <2>2. ASSUME NEW e \in T
          PROVE  \E m \in S : f[m] = e
      <3>1. PICK m \in t.nodes : e = [id |-> m.id, key |-> m.key, data |-> m.data]
        BY DEF Entries
      <3>2. m \in S
        BY <3>1
      <3> QED
        BY <3>1, <3>2
    <2> HIDE DEF T, S
    <2> QED
      BY <2>1, <2>2
  <1>2. ASSUME NEW x \in S, NEW y \in S, f[x] = f[y]
        PROVE  x = y
    <2>1. x.key = y.key
      BY <1>2
    <2> QED
      BY <2>1 DEF Sound, Findable
  <1>3. f \in Bijection(S, T)
    BY <1>1, <1>2 DEF Bijection, Injection, Surjection, IsInjective
  <1>4. ExistsBijection(S, T)
    BY <1>3 DEF ExistsBijection
  <1>5. IsFiniteSet(S)
    BY FS_Subset DEF Sound
  <1> QED
    BY <1>4, <1>5, FS_Bijection

\* Appending a fresh entry to a table with room.
LEMMA AppendedSound ==
    ASSUME HashAssumption, NEW Data, NEW t \in Table(Data), Sound(t),
           t.n + 1 < ReallocAt(t.size),
           NEW key \in Key \ Keys(t), NEW data \in Data, NEW id \in Id,
           id.hash = Hash[key],
           id.overlap = Cardinality({m \in t.nodes : m.id.hash = Hash[key]}),
           \A nd \in t.nodes : nd.id # id
    PROVE  /\ Appended(t, key, data, id) \in Table(Data)
           /\ Sound(Appended(t, key, data, id))
           /\ Entries(Appended(t, key, data, id))
                 = Entries(t) \cup {[id |-> id, key |-> key, data |-> data]}
  <1> DEFINE new == [id |-> id, key |-> key, data |-> data, age |-> t.n,
                     bucket |-> id.hash % t.size]
             r == Appended(t, key, data, id)
  <1>1. /\ t.size \in Nat \ {0} /\ t.n \in Nat /\ t.nodes \in SUBSET Node(Data)
        /\ IsFiniteSet(t.nodes) /\ t.n = Cardinality(t.nodes)
    BY DEF Table, Sound, Counted
  <1>2. r = [size |-> t.size, n |-> t.n + 1, nodes |-> t.nodes \cup {new}]
    <2> DEFINE nodes == t.nodes \cup {new}
    <2>1. r = [t EXCEPT !.nodes = nodes, !.n = @ + 1]
      BY DEF Appended
    <2>2. t = [size |-> t.size, n |-> t.n, nodes |-> t.nodes]
      BY DEF Table
    <2> HIDE DEF nodes, r
    <2>3. r = [size |-> t.size, n |-> t.n + 1, nodes |-> nodes]
      BY <2>1, <2>2
    <2> QED
      BY <2>3 DEF nodes
  <1>3. new \in Node(Data) /\ id.hash \in Nat
    <2>1. id.hash \in Nat
      BY DEF HashAssumption
    <2>2. id.hash % t.size \in Nat
      BY <2>1, <1>1
    <2> QED
      BY <2>1, <2>2, <1>1 DEF Node
  <1>4. new \notin t.nodes /\ \A nd \in t.nodes : nd.key # key /\ nd.id # id
    BY DEF Keys
  <1> HIDE DEF r
  <1>5. r \in Table(Data)
    BY <1>1, <1>2, <1>3 DEF Table
  <1>6. Findable(r)
    BY <1>2, <1>4 DEF Sound, Findable
  <1>7. IsFiniteSet(r.nodes) /\ Cardinality(r.nodes) = t.n + 1
    BY <1>1, <1>2, <1>4, FS_AddElement
  <1>8. Counted(r)
    BY <1>1, <1>2, <1>7 DEF Counted
  <1>9. Spread(r)
    <2> SUFFICES ASSUME NEW nd \in r.nodes
                 PROVE  nd.id.overlap < Cardinality({m \in r.nodes : m.id.hash = nd.id.hash})
      BY DEF Spread
    <2> DEFINE old == {m \in t.nodes : m.id.hash = nd.id.hash}
    <2>1. IsFiniteSet(old) /\ Cardinality(old) \in Nat
      BY <1>1, FS_Subset, FS_CardinalityType
    <2>2. CASE nd.id.hash = id.hash
      <3>1. {m \in r.nodes : m.id.hash = nd.id.hash} = old \cup {new}
        BY <1>2, <2>2
      <3>2. Cardinality(old \cup {new}) = Cardinality(old) + 1
        BY <1>4, <2>1, FS_AddElement
      <3>3. nd.id.overlap \in Nat /\ nd.id.overlap <= Cardinality(old)
        <4>1. CASE nd = new
          <5>1. nd.id = id /\ old = {m \in t.nodes : m.id.hash = Hash[key]}
            BY <4>1
          <5>2. nd.id.overlap = Cardinality(old)
            BY <5>1
          <5> QED
            BY <5>2, <2>1
        <4>2. CASE nd # new
          <5>1. nd \in t.nodes /\ nd.id.overlap < Cardinality(old)
            BY <4>2, <1>2 DEF Sound, Spread
          <5>2. nd.id.overlap \in Nat
            <6>1. nd \in Node(Data)
              BY <5>1, <1>1
            <6> QED
              BY <6>1 DEF Node, Id
          <5> QED
            BY <5>1, <5>2, <2>1
        <4> QED
          BY <4>1, <4>2
      <3>4. Cardinality({m \in r.nodes : m.id.hash = nd.id.hash}) = Cardinality(old) + 1
        BY <3>1, <3>2
      <3> HIDE DEF old
      <3> QED
        BY <3>3, <3>4, <2>1
    <2>3. CASE nd.id.hash # id.hash
      <3>1. nd \in t.nodes /\ {m \in r.nodes : m.id.hash = nd.id.hash} = old
        BY <1>2, <2>3
      <3> QED
        BY <3>1 DEF Sound, Spread
    <2> QED
      BY <2>2, <2>3
  <1>10. Entries(r) = Entries(t) \cup {[id |-> id, key |-> key, data |-> data]}
    <2>1. new.id = id /\ new.key = key /\ new.data = data /\ r.nodes = t.nodes \cup {new}
      BY <1>2
    <2> HIDE DEF new
    <2>2. Entries(r) \subseteq Entries(t) \cup {[id |-> id, key |-> key, data |-> data]}
      BY <2>1 DEF Entries
    <2>3. Entries(t) \subseteq Entries(r) /\ [id |-> id, key |-> key, data |-> data] \in Entries(r)
      BY <2>1 DEF Entries
    <2> QED
      BY <2>2, <2>3
  <1> QED
    BY <1>5, <1>6, <1>7, <1>8, <1>9, <1>10 DEF Sound, r

\* lut_get_id and lut_insert_id of a new key, as use_get_global and
\* initialize_repository call them: one entry more, under a fresh id.
LEMMA InsertNew ==
    ASSUME HashAssumption, OverlapAssumption, IsFiniteSet(Key),
           Cardinality(Key) <= OverlapSpan,
           NEW Data, NEW t \in Table(Data), Sound(t),
           NEW key \in Key \ Keys(t), NEW data \in Data
    PROVE  LET g == GetId(t, key)
               r == InsertId(t, key, data, g.id, g.flag)
           IN  /\ g.flag = "NOT_FOUND" /\ g.id \in Id
               /\ \A e \in Entries(t) : e.id # g.id /\ e.key # key
               /\ r \in Table(Data) /\ Sound(r)
               /\ Entries(r) = Entries(t) \cup {[id |-> g.id, key |-> key, data |-> data]}
  <1> DEFINE g == GetId(t, key)
             e == Enlarged(t)
             r == InsertId(t, key, data, g.id, g.flag)
  <1>1. /\ e \in Table(Data) /\ Sound(e) /\ e.n = t.n
        /\ e.n + 1 < ReallocAt(e.size) /\ Entries(e) = Entries(t)
    BY EnlargedSound
  <1>2. /\ g.flag = "NOT_FOUND" /\ g.id \in Id
        /\ g.id = [hash |-> Hash[key],
                   overlap |-> Cardinality({m \in t.nodes : m.id.hash = Hash[key]})]
        /\ \A nd \in t.nodes : nd.id # g.id
    BY GetIdNew
  <1> HIDE DEF g, e
  <1>3. Cardinality({m \in t.nodes : m.id.hash = Hash[key]})
           = Cardinality({m \in e.nodes : m.id.hash = Hash[key]})
    <2> DEFINE h == Hash[key]
    <2> HIDE DEF h
    <2>1. Cardinality({m \in t.nodes : m.id.hash = h})
             = Cardinality({x \in Entries(t) : x.id.hash = h})
      BY GroupSize
    <2>2. Cardinality({m \in e.nodes : m.id.hash = h})
             = Cardinality({x \in Entries(e) : x.id.hash = h})
      <3>1. Sound(e)
        BY <1>1
      <3> QED
        BY <3>1, GroupSize, Zenon
    <2>3. {x \in Entries(t) : x.id.hash = h} = {x \in Entries(e) : x.id.hash = h}
      BY <1>1
    <2> QED
      BY <2>1, <2>2, <2>3 DEF h
  <1>4. \A x \in Entries(t) : x.id # g.id /\ x.key # key
    BY <1>2 DEF Entries, Keys
  <1>5. key \in Key \ Keys(e) /\ \A nd \in e.nodes : nd.id # g.id
    <2>1. ASSUME NEW nd \in e.nodes
          PROVE  nd.id # g.id /\ nd.key # key
      <3>1. [id |-> nd.id, key |-> nd.key, data |-> nd.data] \in Entries(t)
        BY <1>1 DEF Entries
      <3> QED
        BY <3>1, <1>4
    <2> QED
      BY <2>1 DEF Keys
  <1>6. r = Appended(e, key, data, g.id)
    BY <1>2 DEF InsertId, e
  <1>7. g.id.hash = Hash[key]
        /\ g.id.overlap = Cardinality({m \in e.nodes : m.id.hash = Hash[key]})
    BY <1>2, <1>3
  <1>8. /\ Appended(e, key, data, g.id) \in Table(Data)
        /\ Sound(Appended(e, key, data, g.id))
        /\ Entries(Appended(e, key, data, g.id))
              = Entries(e) \cup {[id |-> g.id, key |-> key, data |-> data]}
    <2> DEFINE id == g.id
    <2>1. /\ id \in Id /\ id.hash = Hash[key] /\ \A nd \in e.nodes : nd.id # id
          /\ id.overlap = Cardinality({m \in e.nodes : m.id.hash = Hash[key]})
      BY <1>2, <1>5, <1>7
    <2>2. key \in Key \ Keys(e)
      BY <1>5
    <2> HIDE DEF id
    <2>3. /\ Appended(e, key, data, id) \in Table(Data)
          /\ Sound(Appended(e, key, data, id))
          /\ Entries(Appended(e, key, data, id))
                = Entries(e) \cup {[id |-> id, key |-> key, data |-> data]}
      BY <1>1, <2>1, <2>2, AppendedSound
    <2> QED
      BY <2>3 DEF id
  <1> QED
    BY <1>1, <1>2, <1>4, <1>6, <1>8 DEF g

LEMMA ReplaceCard ==
    ASSUME NEW S, IsFiniteSet(S), NEW a \in S, NEW b, b \notin S \ {a}
    PROVE  /\ IsFiniteSet((S \ {a}) \cup {b})
           /\ Cardinality((S \ {a}) \cup {b}) = Cardinality(S)
  <1>1. IsFiniteSet(S \ {a}) /\ Cardinality(S \ {a}) = Cardinality(S) - 1
    BY FS_RemoveElement
  <1>2. IsFiniteSet((S \ {a}) \cup {b})
        /\ Cardinality((S \ {a}) \cup {b}) = Cardinality(S \ {a}) + 1
    BY <1>1, FS_AddElement
  <1>3. Cardinality(S) \in Nat
    BY FS_CardinalityType
  <1> QED
    BY <1>1, <1>2, <1>3

\* The branch of lut_insert_id that replaces what a node holds.
LEMMA OverwrittenSound ==
    ASSUME NEW Data, NEW t \in Table(Data), Sound(t), NEW nd \in t.nodes, NEW data \in Data
    PROVE  /\ Overwritten(t, data, nd.id) \in Table(Data)
           /\ Sound(Overwritten(t, data, nd.id))
           /\ Entries(Overwritten(t, data, nd.id))
                 = (Entries(t) \ {[id |-> nd.id, key |-> nd.key, data |-> nd.data]})
                   \cup {[id |-> nd.id, key |-> nd.key, data |-> data]}
  <1> DEFINE new == [nd EXCEPT !.data = data]
             r == Overwritten(t, data, nd.id)
  <1>1. /\ t.size \in Nat \ {0} /\ t.n \in Nat /\ t.nodes \in SUBSET Node(Data)
        /\ IsFiniteSet(t.nodes)
    BY DEF Table, Sound
  <1>2. r = [t EXCEPT !.nodes = (@ \ {nd}) \cup {new}]
    BY FoundById DEF Overwritten
  <1>3. /\ new \in Node(Data) /\ new.id = nd.id /\ new.key = nd.key /\ new.data = data
        /\ new.bucket = nd.bucket
    BY <1>1 DEF Node
  <1> HIDE DEF r, new
  <1>4. r \in Table(Data) /\ r.size = t.size /\ r.n = t.n /\ r.nodes = (t.nodes \ {nd}) \cup {new}
    BY <1>1, <1>2, <1>3 DEF Table
  <1>5. \A m \in t.nodes : m.key = nd.key \/ m.id = nd.id => m = nd
    BY DEF Sound, Findable
  <1>6. new \notin t.nodes \ {nd}
    BY <1>3, <1>5
  <1>7. IsFiniteSet(r.nodes) /\ Counted(r)
    BY <1>1, <1>4, <1>6, ReplaceCard DEF Sound, Counted
  <1>8. Findable(r)
    <2>1. ASSUME NEW x \in r.nodes
          PROVE  x.bucket = x.id.hash % r.size /\ x.id.hash = Hash[x.key]
      BY <1>3, <1>4 DEF Sound, Findable
    <2>2. ASSUME NEW x \in r.nodes, NEW y \in r.nodes, x.key = y.key \/ x.id = y.id
          PROVE  x = y
      BY <1>3, <1>4, <1>5, <2>2 DEF Sound, Findable
    <2> QED
      BY <2>1, <2>2 DEF Findable
  <1>9. Spread(r)
    <2> SUFFICES ASSUME NEW x \in r.nodes
                 PROVE  x.id.overlap < Cardinality({m \in r.nodes : m.id.hash = x.id.hash})
      BY DEF Spread
    <2> DEFINE h == x.id.hash
               S == {m \in t.nodes : m.id.hash = h}
               T == {m \in r.nodes : m.id.hash = h}
    <2>1. Cardinality(T) = Cardinality(S)
      <3>1. CASE nd.id.hash = h
        <4>1. T = (S \ {nd}) \cup {new} /\ nd \in S /\ new \notin S \ {nd}
          BY <1>3, <1>4, <1>6, <3>1
        <4>2. IsFiniteSet(S)
          BY <1>1, FS_Subset
        <4> HIDE DEF S, T
        <4> QED
          BY <4>1, <4>2, ReplaceCard
      <3>2. CASE nd.id.hash # h
        BY <1>3, <1>4, <3>2
      <3> QED
        BY <3>1, <3>2
    <2>2. \E m \in t.nodes : m.id = x.id
      BY <1>3, <1>4
    <2>3. x.id.overlap < Cardinality(S)
      BY <2>2 DEF Sound, Spread
    <2> QED
      BY <2>1, <2>3
  <1>10. Entries(r) = (Entries(t) \ {[id |-> nd.id, key |-> nd.key, data |-> nd.data]})
                      \cup {[id |-> nd.id, key |-> nd.key, data |-> data]}
    <2> DEFINE ent(m) == [id |-> m.id, key |-> m.key, data |-> m.data]
    <2>1. ent(new) = [id |-> nd.id, key |-> nd.key, data |-> data]
      BY <1>3
    <2>2. \A m \in t.nodes : ent(m) = ent(nd) <=> m = nd
      BY <1>5
    <2>3. Entries(t) = {ent(m) : m \in t.nodes} /\ Entries(r) = {ent(m) : m \in r.nodes}
      BY DEF Entries
    <2> HIDE DEF ent
    <2>4. Entries(r) = (Entries(t) \ {ent(nd)}) \cup {ent(new)}
      BY <1>4, <2>2, <2>3
    <2> QED
      BY <2>1, <2>4 DEF ent
  <1> QED
    BY <1>4, <1>7, <1>8, <1>9, <1>10 DEF r, Sound

\* lut_insert of a key that is known: only its value changes.
LEMMA InsertKnown ==
    ASSUME HashAssumption, NEW Data, NEW t \in Table(Data), Sound(t),
           NEW nd \in t.nodes, NEW data \in Data
    PROVE  LET g == GetId(t, nd.key)
               r == InsertId(t, nd.key, data, g.id, g.flag)
           IN  /\ g = [id |-> nd.id, flag |-> "EXISTS"]
               /\ r \in Table(Data) /\ Sound(r)
               /\ Entries(r) = (Entries(t) \ {[id |-> nd.id, key |-> nd.key, data |-> nd.data]})
                               \cup {[id |-> nd.id, key |-> nd.key, data |-> data]}
  <1> DEFINE g == GetId(t, nd.key)
             e == Enlarged(t)
             r == InsertId(t, nd.key, data, g.id, g.flag)
  <1>1. e \in Table(Data) /\ Sound(e) /\ Entries(e) = Entries(t)
    BY EnlargedSound
  <1>2. g = [id |-> nd.id, flag |-> "EXISTS"]
    <2>1. nd.key \in Key
      BY DEF Table, Node
    <2> QED
      BY <2>1, GetIdKnown
  <1>3. PICK m \in e.nodes : m.id = nd.id /\ m.key = nd.key /\ m.data = nd.data
    <2>1. [id |-> nd.id, key |-> nd.key, data |-> nd.data] \in Entries(e)
      BY <1>1 DEF Entries
    <2> QED
      BY <2>1 DEF Entries
  <1>4. r = Overwritten(e, data, m.id)
    BY <1>2, <1>3 DEF InsertId
  <1> HIDE DEF e, r, g
  <1>5. /\ Overwritten(e, data, m.id) \in Table(Data)
        /\ Sound(Overwritten(e, data, m.id))
        /\ Entries(Overwritten(e, data, m.id))
              = (Entries(e) \ {[id |-> m.id, key |-> m.key, data |-> m.data]})
                \cup {[id |-> m.id, key |-> m.key, data |-> data]}
    BY <1>1, OverwrittenSound
  <1> QED
    BY <1>1, <1>2, <1>3, <1>4, <1>5 DEF g, r

\* Either way: the key's node has the id and the datum, the others are those
\* of the table before, and no key lost its id.
LEMMA InsertSound ==
    ASSUME HashAssumption, OverlapAssumption, IsFiniteSet(Key),
           Cardinality(Key) <= OverlapSpan,
           NEW Data, NEW t \in Table(Data), Sound(t), NEW key \in Key, NEW data \in Data
    PROVE  LET g == GetId(t, key)
               r == InsertId(t, key, data, g.id, g.flag)
           IN  /\ g.id \in Id /\ r \in Table(Data) /\ Sound(r)
               /\ \A nd \in r.nodes :
                     \/ nd.key = key /\ nd.id = g.id /\ nd.data = data
                     \/ nd.key # key /\ \E m \in t.nodes :
                           m.id = nd.id /\ m.key = nd.key /\ m.data = nd.data
               /\ \A m \in t.nodes : \E nd \in r.nodes : nd.id = m.id /\ nd.key = m.key
  <1> DEFINE g == GetId(t, key)
             r == InsertId(t, key, data, g.id, g.flag)
             new == [id |-> g.id, key |-> key, data |-> data]
  <1>1. /\ g.id \in Id /\ r \in Table(Data) /\ Sound(r) /\ new \in Entries(r)
        /\ \A e \in Entries(r) : e # new => e \in Entries(t) /\ e.key # key
        /\ \A e \in Entries(t) : e \notin Entries(r) => e.id = new.id /\ e.key = new.key
    <2>1. CASE key \in Keys(t)
      <3>1. PICK nd \in t.nodes : nd.key = key
        BY <2>1 DEF Keys
      <3> DEFINE g2 == GetId(t, nd.key)
                 r2 == InsertId(t, nd.key, data, g2.id, g2.flag)
      <3>5. /\ g2 = [id |-> nd.id, flag |-> "EXISTS"] /\ r2 \in Table(Data) /\ Sound(r2)
            /\ Entries(r2) = (Entries(t) \ {[id |-> nd.id, key |-> nd.key, data |-> nd.data]})
                             \cup {[id |-> nd.id, key |-> nd.key, data |-> data]}
        BY InsertKnown
      <3>2. /\ g = [id |-> nd.id, flag |-> "EXISTS"] /\ r \in Table(Data) /\ Sound(r)
            /\ Entries(r) = (Entries(t) \ {[id |-> nd.id, key |-> nd.key, data |-> nd.data]})
                            \cup {[id |-> nd.id, key |-> nd.key, data |-> data]}
        BY <3>1, <3>5
      <3>3. g.id = nd.id /\ nd.id \in Id
        BY <3>2 DEF Table, Node
      <3>4. \A e \in Entries(t) : e.key = key =>
               e = [id |-> nd.id, key |-> nd.key, data |-> nd.data]
        BY <3>1 DEF Entries, Sound, Findable
      <3> HIDE DEF g, r
      <3> QED
        BY <3>1, <3>2, <3>3, <3>4
    <2>2. CASE key \notin Keys(t)
      <3>1. /\ g.id \in Id /\ \A e \in Entries(t) : e.id # g.id /\ e.key # key
            /\ r \in Table(Data) /\ Sound(r) /\ Entries(r) = Entries(t) \cup {new}
        BY <2>2, InsertNew
      <3> HIDE DEF g, r, new
      <3> QED
        BY <3>1
    <2> QED
      BY <2>1, <2>2
  <1> DEFINE ent(nd) == [id |-> nd.id, key |-> nd.key, data |-> nd.data]
  <1>2. /\ \A nd \in r.nodes : ent(nd) \in Entries(r)
        /\ \A e \in Entries(r) : \E nd \in r.nodes : e = ent(nd)
        /\ \A m \in t.nodes : ent(m) \in Entries(t)
        /\ \A e \in Entries(t) : \E m \in t.nodes : e = ent(m)
    BY DEF Entries
  <1>3. /\ new.id = g.id /\ new.key = key /\ new.data = data
        /\ \A nd : ent(nd).id = nd.id /\ ent(nd).key = nd.key /\ ent(nd).data = nd.data
    OBVIOUS
  <1> HIDE DEF g, r, new, ent
  <1>4. ASSUME NEW nd \in r.nodes
        PROVE  \/ nd.key = key /\ nd.id = g.id /\ nd.data = data
               \/ nd.key # key /\ \E m \in t.nodes :
                     m.id = nd.id /\ m.key = nd.key /\ m.data = nd.data
    <2>1. ent(nd) \in Entries(r)
      BY <1>2
    <2>2. CASE ent(nd) = new
      BY <1>3, <2>2
    <2>3. CASE ent(nd) \in Entries(t) /\ ent(nd).key # key
      <3>1. PICK m \in t.nodes : ent(nd) = ent(m)
        BY <1>2, <2>3
      <3>2. m.id = nd.id /\ m.key = nd.key /\ m.data = nd.data
        BY <1>3, <3>1
      <3> QED
        BY <1>3, <2>3, <3>2
    <2> QED
      BY <1>1, <2>1, <2>2, <2>3
  <1>5. ASSUME NEW m \in t.nodes
        PROVE  \E nd \in r.nodes : nd.id = m.id /\ nd.key = m.key
    <2>1. \E e \in Entries(r) : e.id = m.id /\ e.key = m.key
      BY <1>1, <1>2, <1>3
    <2>2. PICK nd \in r.nodes : ent(nd).id = m.id /\ ent(nd).key = m.key
      BY <1>2, <2>1
    <2> QED
      BY <1>3, <2>2
  <1> QED
    BY <1>1, <1>4, <1>5 DEF g, r

\* What Ids and Values say of a sound table.
LEMMA Bindings ==
    ASSUME NEW t, Sound(t)
    PROVE  /\ Keys(t) = {e.key : e \in Entries(t)}
           /\ DOMAIN Ids(t) = Keys(t) /\ DOMAIN Values(t) = Keys(t)
           /\ Ids(t) = [k \in Keys(t) |-> Ids(t)[k]]
           /\ Values(t) = [k \in Keys(t) |-> Values(t)[k]]
           /\ \A e \in Entries(t) : Ids(t)[e.key] = e.id /\ Values(t)[e.key] = e.data
           /\ \A e \in Entries(t) : Get(t, e.id) = e.data
  <1>1. Keys(t) = {e.key : e \in Entries(t)}
    <2>1. ASSUME NEW nd \in t.nodes
          PROVE  \E e \in Entries(t) : e.key = nd.key
      <3> DEFINE e == [id |-> nd.id, key |-> nd.key, data |-> nd.data]
      <3>1. e \in Entries(t) /\ e.key = nd.key
        BY DEF Entries
      <3> QED
        BY <3>1
    <2>2. \A e \in Entries(t) : \E nd \in t.nodes : e.key = nd.key
      BY DEF Entries
    <2> QED
      BY <2>1, <2>2 DEF Keys
  <1>2. ASSUME NEW e \in Entries(t)
        PROVE  /\ Ids(t)[e.key] = e.id /\ Values(t)[e.key] = e.data
               /\ Get(t, e.id) = e.data
    <2>1. PICK nd \in t.nodes : e = [id |-> nd.id, key |-> nd.key, data |-> nd.data]
      BY DEF Entries
    <2>2. NodeOf(t, e.key) = nd
      <3>1. \A m \in t.nodes : m.key = e.key <=> m = nd
        BY <2>1 DEF Sound, Findable
      <3> QED
        BY <3>1 DEF NodeOf
    <2>3. e.key \in Keys(t)
      BY <2>1 DEF Keys
    <2>4. Get(t, nd.id) = nd.data
      BY FoundById
    <2> QED
      BY <2>1, <2>2, <2>3, <2>4 DEF Ids, Values
  <1> QED
    BY <1>1, <1>2 DEF Ids, Values

-----------------------------------------------------------------------------
(* Tables that are only Regular.                                           *)

LEMMA NewRegular ==
    ASSUME NEW Data, NEW size \in Nat, size >= 2
    PROVE  New(size) \in Table(Data) /\ Regular(New(size)) /\ New(size).nodes = {}
  <1>1. New(size) \in Table(Data) /\ Sound(New(size)) /\ New(size).nodes = {}
    BY NewSound DEF New
  <1> QED
    BY <1>1 DEF Regular, Sound

\* The test at the top of lut_insert_id: the nodes only change their buckets.
LEMMA EnlargedRegular ==
    ASSUME HashAssumption, NEW Data, NEW t \in Table(Data), Regular(t)
    PROVE  LET e == Enlarged(t)
           IN  /\ e \in Table(Data) /\ Regular(e) /\ e.n = t.n /\ t.n + 1 < ReallocAt(e.size)
               /\ \A nd \in t.nodes : \E m \in e.nodes :
                     m.id = nd.id /\ m.key = nd.key /\ m.data = nd.data
               /\ \A x : Cardinality(Uses(e, x)) = Cardinality(Uses(t, x))
  <1> DEFINE size == 4 * t.size
             move(nd) == [nd EXCEPT !.bucket = nd.id.hash % size]
             r == Realloc(t, size)
  <1>1. /\ t.size \in Nat \ {0} /\ t.n \in Nat /\ t.nodes \in SUBSET Node(Data)
        /\ IsFiniteSet(t.nodes) /\ t.n = Cardinality(t.nodes) /\ t.n < ReallocAt(t.size)
        /\ Counted(t)
    BY DEF Table, Regular, Counted
  <1>2. /\ size \in Nat \ {0} /\ ReallocAt(t.size) + 1 < ReallocAt(size)
        /\ ReallocAt(t.size) \in Nat /\ ReallocAt(size) \in Nat
    <2>1. ReallocAt(size) \in Nat
      BY <1>1 DEF ReallocAt
    <2> QED
      BY <1>1, <2>1, ReallocAtGrows
  <1>3. r = [size |-> size, n |-> t.n, nodes |-> {move(nd) : nd \in t.nodes}]
    BY <1>1, AllMoved, Zenon DEF Realloc
  <1> HIDE DEF size, r
  <1>4. ASSUME NEW nd \in t.nodes
        PROVE  /\ move(nd) \in Node(Data)
               /\ move(nd).id = nd.id /\ move(nd).key = nd.key /\ move(nd).data = nd.data
               /\ move(nd).age = nd.age /\ move(nd).bucket = nd.id.hash % size
    <2>1. nd \in Node(Data)
      BY <1>1
    <2>2. nd.id.hash \in Nat
      BY <2>1, HashAssumption DEF Node, Id, HashAssumption, Range
    <2>3. nd.id.hash % size \in Nat
      BY <2>2, <1>2
    <2> QED
      BY <2>1, <2>3 DEF Node
  <1>5. ASSUME NEW x \in t.nodes, NEW y \in t.nodes, move(x).age = move(y).age
        PROVE  x = y
    BY <1>4, <1>5 DEF Regular
  <1>6. r \in Table(Data)
    BY <1>1, <1>2, <1>3, <1>4 DEF Table
  <1>7. ASSUME NEW S \in SUBSET t.nodes
        PROVE  /\ IsFiniteSet({move(nd) : nd \in S})
               /\ Cardinality({move(nd) : nd \in S}) = Cardinality(S)
    <2> DEFINE T == {move(nd) : nd \in S}
               f == [nd \in S |-> move(nd)]
    <2>1. f \in [S -> T] /\ \A y \in T : \E x \in S : f[x] = y
      OBVIOUS
    <2>2. ASSUME NEW x \in S, NEW y \in S, f[x] = f[y]
          PROVE  x = y
      <3>1. move(x) = move(y) /\ x \in t.nodes /\ y \in t.nodes
        BY <2>2
      <3> QED
        BY <3>1, <1>5
    <2>3. f \in Bijection(S, T)
      BY <2>1, <2>2 DEF Bijection, Injection, Surjection, IsInjective
    <2>4. ExistsBijection(S, T)
      BY <2>3 DEF ExistsBijection
    <2>5. IsFiniteSet(S)
      BY <1>1, FS_Subset
    <2> QED
      BY <2>4, <2>5, FS_Bijection
  <1>8. Regular(r)
    <2>1. IsFiniteSet(r.nodes) /\ Cardinality(r.nodes) = t.n
      BY <1>1, <1>3, <1>7
    <2>2. r.n = t.n /\ r.size = size /\ t.n < ReallocAt(size)
      BY <1>1, <1>2, <1>3
    <2>3. ASSUME NEW m \in r.nodes
          PROVE  m.bucket = m.id.hash % r.size /\ m.age < r.n
      <3>1. PICK nd \in t.nodes : m = move(nd)
        BY <1>3
      <3> QED
        BY <3>1, <1>4, <2>2 DEF Regular
    <2>4. ASSUME NEW x \in r.nodes, NEW y \in r.nodes, x.age = y.age
          PROVE  x = y
      <3>1. PICK nx \in t.nodes : x = move(nx)
        BY <1>3
      <3>2. PICK ny \in t.nodes : y = move(ny)
        BY <1>3
      <3> QED
        BY <3>1, <3>2, <2>4, <1>5
    <2> QED
      BY <2>1, <2>2, <2>3, <2>4 DEF Regular, Counted
  <1>9. ASSUME NEW nd \in t.nodes
        PROVE  \E m \in r.nodes : m.id = nd.id /\ m.key = nd.key /\ m.data = nd.data
    BY <1>3, <1>4
  <1>10. ASSUME NEW x
         PROVE  Cardinality(Uses(r, x)) = Cardinality(Uses(t, x))
    <2>1. Uses(r, x) = {move(nd) : nd \in Uses(t, x)}
      <3>1. r.nodes = {move(nd) : nd \in t.nodes}
        BY <1>3
      <3>2. \A nd \in t.nodes : move(nd).data = nd.data
        BY <1>4
      <3> HIDE DEF move
      <3> QED
        BY <3>1, <3>2 DEF Uses
    <2>2. Uses(t, x) \in SUBSET t.nodes
      BY DEF Uses
    <2> QED
      BY <2>1, <2>2, <1>7
  <1>11. CASE t.n + 1 >= ReallocAt(t.size)
    <2>1. Enlarged(t) = r /\ r.n = t.n /\ r.size = size
      BY <1>11, <1>3 DEF Enlarged, r, size
    <2>2. t.n + 1 < ReallocAt(size)
      BY <1>1, <1>2
    <2> QED
      BY <2>1, <2>2, <1>6, <1>8, <1>9, <1>10
  <1>12. CASE ~(t.n + 1 >= ReallocAt(t.size))
    <2>1. Enlarged(t) = t
      BY <1>12 DEF Enlarged
    <2> QED
      BY <2>1, <1>12, <1>1, <1>2
  <1> QED
    BY <1>11, <1>12

\* lut_get_id, and the assertions of what the callers do with it
LEMMA GetIdRegular ==
    ASSUME HashAssumption, OverlapAssumption,
           NEW Data, NEW t \in Table(Data), Regular(t), NEW key \in Key
    PROVE  LET g == GetId(t, key)
           IN  /\ g.id \in Id /\ g.flag \in {"EXISTS", "NOT_FOUND"}
               /\ g.flag = "EXISTS" => WithId(Enlarged(t), g.id) # {}
               /\ AssertsHold(t, g.id, g.flag)
  <1> DEFINE g == GetId(t, key)
             e == Enlarged(t)
             hit == {nd \in SameHash(t, key) : nd.key = key}
  <1>1. t.nodes \in SUBSET Node(Data) /\ hit \subseteq t.nodes
    BY DEF Table, SameHash, Chain
  <1>2. /\ e \in Table(Data) /\ Regular(e) /\ e.n = t.n
        /\ \A nd \in t.nodes : \E m \in e.nodes :
              m.id = nd.id /\ m.key = nd.key /\ m.data = nd.data
    BY EnlargedRegular
  <1>3. CASE hit # {}
    <2>1. First(hit) \in hit
      BY <1>1, <1>3, FirstIn, Zenon
    <2>2. g = [id |-> First(hit).id, flag |-> "EXISTS"]
      BY <1>3 DEF GetId
    <2>3. First(hit) \in t.nodes
      BY <2>1, <1>1
    <2>4. First(hit).id \in Id
      BY <2>3, <1>1 DEF Node
    <2>5. PICK m \in e.nodes : m.id = First(hit).id
      BY <2>3, <1>2
    <2>6. m \in WithId(e, g.id)
      BY <2>2, <2>5, <1>2 DEF WithId, Chain, Regular
    <2>7. WithId(e, g.id) # {}
      BY <2>6, Zenon
    <2>8. g.flag = "EXISTS" /\ g.id \in Id
      BY <2>2, <2>4
    <2> QED
      BY <2>7, <2>8, <1>2, Zenon DEF AssertsHold
  <1>4. CASE hit = {}
    <2> DEFINE c == Cardinality(SameHash(t, key))
    <2>1. g = [id |-> [hash |-> Hash[key], overlap |-> c % OverlapSpan],
               flag |-> "NOT_FOUND"]
      BY <1>4 DEF GetId
    <2>2. c \in Nat
      <3>1. SameHash(t, key) \in SUBSET t.nodes /\ IsFiniteSet(t.nodes)
        BY DEF SameHash, Chain, Regular
      <3>2. IsFiniteSet(SameHash(t, key))
        BY <3>1, FS_Subset
      <3> QED
        BY <3>2, FS_CardinalityType
    <2>3. c % OverlapSpan \in 0 .. OverlapSpan - 1
      BY <2>2 DEF OverlapAssumption
    <2>4. Hash[key] \in Range(Hash)
      BY DEF Range, HashAssumption
    <2>5. g.id \in Id /\ g.flag = "NOT_FOUND"
      BY <2>1, <2>3, <2>4 DEF Id
    <2> QED
      BY <2>5, <1>2 DEF AssertsHold
  <1> QED
    BY <1>3, <1>4

\* lut_insert_id: a node more, or one that changes what it refers to.  Gains and
\* Loses are the references added and dropped.
LEMMA InsertRegular ==
    ASSUME HashAssumption, NEW Data, NULL \notin Data,
           NEW t \in Table(Data), Regular(t),
           NEW key \in Key, NEW data \in Data, NEW id \in Id,
           NEW flag \in {"EXISTS", "NOT_FOUND"},
           flag = "EXISTS" => WithId(Enlarged(t), id) # {}
    PROVE  LET r == InsertId(t, key, data, id, flag)
           IN  /\ r \in Table(Data) /\ Regular(r)
               /\ \A x \in Data :
                     /\ x # data /\ Uses(t, x) = {} => Uses(r, x) = {}
                     /\ Cardinality(Uses(r, x))
                           = Cardinality(Uses(t, x))
                             + (IF x = data /\ Gains(t, data, id, flag) THEN 1 ELSE 0)
                             - (IF x \in Loses(t, data, id, flag) THEN 1 ELSE 0)
  <1> DEFINE e == Enlarged(t)
             r == InsertId(t, key, data, id, flag)
  <1>1. /\ e \in Table(Data) /\ Regular(e) /\ e.n = t.n /\ t.n + 1 < ReallocAt(e.size)
        /\ \A x : Cardinality(Uses(e, x)) = Cardinality(Uses(t, x))
    BY EnlargedRegular
  <1>2. /\ e.size \in Nat \ {0} /\ e.n \in Nat /\ e.nodes \in SUBSET Node(Data)
        /\ IsFiniteSet(e.nodes) /\ e.n = Cardinality(e.nodes) /\ e.n + 1 < ReallocAt(e.size)
        /\ e = [size |-> e.size, n |-> e.n, nodes |-> e.nodes]
        /\ \A nd \in e.nodes : nd.bucket = nd.id.hash % e.size /\ nd.age < e.n
        /\ \A x, y \in e.nodes : x.age = y.age => x = y
    BY <1>1 DEF Table, Regular, Counted
  <1>3. ASSUME NEW x
        PROVE  /\ IsFiniteSet(Uses(e, x)) /\ Cardinality(Uses(e, x)) \in Nat
               /\ Uses(t, x) = {} => Uses(e, x) = {}
    <2>1. Uses(e, x) \in SUBSET e.nodes
      BY DEF Uses
    <2>2. IsFiniteSet(Uses(e, x)) /\ Cardinality(Uses(e, x)) \in Nat
      BY <2>1, <1>2, FS_Subset, FS_CardinalityType
    <2>3. ASSUME Uses(t, x) = {}
          PROVE  Uses(e, x) = {}
      <3>1. Cardinality(Uses(e, x)) = 0
        BY <2>3, <1>1, FS_EmptySet
      <3> QED
        BY <3>1, <2>2, FS_EmptySet
    <2> QED
      BY <2>2, <2>3
  <1>4. CASE flag = "NOT_FOUND"
    <2> DEFINE new == [id |-> id, key |-> key, data |-> data, age |-> e.n,
                       bucket |-> id.hash % e.size]
               nodes == e.nodes \cup {new}
    <2>1. r = [size |-> e.size, n |-> e.n + 1, nodes |-> nodes]
      <3>1. r = [e EXCEPT !.nodes = nodes, !.n = @ + 1]
        BY <1>4 DEF InsertId, Appended
      <3> HIDE DEF nodes, r, e
      <3> QED
        BY <3>1, <1>2
    <2>2. new \in Node(Data) /\ new \notin e.nodes
      <3>1. id.hash \in Nat
        BY DEF HashAssumption, Id, Range
      <3>2. id.hash % e.size \in Nat
        BY <3>1, <1>2
      <3>3. \A nd \in e.nodes : nd.age < e.n
        BY <1>2
      <3> QED
        BY <3>2, <3>3, <1>2 DEF Node
    <2>3. new.age = e.n /\ new.data = data /\ new.id = id /\ new.bucket = id.hash % e.size
      OBVIOUS
    <2> HIDE DEF new, r, e
    <2>4. r \in Table(Data)
      BY <2>1, <2>2, <1>2 DEF Table
    <2>5. IsFiniteSet(nodes) /\ Cardinality(nodes) = e.n + 1
      BY <1>2, <2>2, FS_AddElement
    <2>6. Regular(r)
      <3>1. IsFiniteSet(r.nodes) /\ Counted(r)
        BY <2>1, <2>5, <1>2 DEF Counted
      <3>2. \A nd \in e.nodes : nd.age < e.n /\ nd.age \in Nat
        BY <1>2 DEF Node
      <3> QED
        BY <3>1, <3>2, <2>1, <2>3, <1>2 DEF Regular
    <2>7. Gains(t, data, id, flag) /\ Loses(t, data, id, flag) = {}
      BY <1>4 DEF Gains, Loses
    <2>8. ASSUME NEW x \in Data
          PROVE  /\ x # data /\ Uses(t, x) = {} => Uses(r, x) = {}
                 /\ Cardinality(Uses(r, x))
                       = Cardinality(Uses(e, x)) + (IF x = data THEN 1 ELSE 0)
      <3>1. CASE x = data
        <4>1. Uses(r, x) = Uses(e, x) \cup {new} /\ new \notin Uses(e, x)
          BY <3>1, <2>1, <2>2, <2>3 DEF Uses
        <4>2. Cardinality(Uses(e, x) \cup {new}) = Cardinality(Uses(e, x)) + 1
          BY <4>1, <1>3, FS_AddElement
        <4> QED
          BY <4>1, <4>2, <3>1
      <3>2. CASE x # data
        <4>1. Uses(r, x) = Uses(e, x)
          BY <3>2, <2>1, <2>3 DEF Uses
        <4> QED
          BY <4>1, <3>2, <1>3
      <3> QED
        BY <3>1, <3>2
    <2>9. ASSUME NEW x \in Data
          PROVE  Cardinality(Uses(r, x)) = Cardinality(Uses(t, x))
                                           + (IF x = data THEN 1 ELSE 0) - 0
      BY <2>8, <1>1, <1>3
    <2> QED
      BY <2>4, <2>6, <2>7, <2>8, <2>9 DEF r
  <1>5. CASE flag = "EXISTS"
    <2> DEFINE old == First(WithId(e, id))
               new == [old EXCEPT !.data = data]
               nodes == (e.nodes \ {old}) \cup {new}
    <2>1. old \in e.nodes /\ WithId(e, id) # {} /\ Get(e, id) = old.data
      <3>1. WithId(e, id) \subseteq Node(Data) /\ WithId(e, id) # {}
        BY <1>2, <1>5 DEF WithId, Chain
      <3>2. old \in WithId(e, id)
        BY <3>1, FirstIn, Zenon
      <3> QED
        BY <3>1, <3>2 DEF WithId, Chain, Get
    <2>2. r = [size |-> e.size, n |-> e.n, nodes |-> nodes]
      <3>1. r = [e EXCEPT !.nodes = nodes]
        BY <1>5 DEF InsertId, Overwritten
      <3> HIDE DEF nodes, r, e
      <3> QED
        BY <3>1, <1>2
    <2>3. /\ new \in Node(Data) /\ new.data = data /\ old.data \in Data
          /\ new.id = old.id /\ new.age = old.age /\ new.bucket = old.bucket
      BY <2>1, <1>2 DEF Node
    <2>4. new \notin e.nodes \ {old}
      BY <2>1, <2>3, <1>2
    <2> HIDE DEF new, r, e, old
    <2>5. r \in Table(Data)
      BY <2>2, <2>3, <1>2 DEF Table
    <2>6. Regular(r)
      <3>1. IsFiniteSet(e.nodes \ {old}) /\ Cardinality(e.nodes \ {old}) = e.n - 1
        BY <2>1, <1>2, FS_RemoveElement
      <3>2. IsFiniteSet(nodes) /\ Cardinality(nodes) = e.n - 1 + 1
        BY <3>1, <2>4, FS_AddElement
      <3>3. IsFiniteSet(r.nodes) /\ Counted(r)
        <4>1. e.n - 1 + 1 = e.n /\ e.n < ReallocAt(e.size)
          BY <1>2 DEF ReallocAt
        <4> QED
          BY <2>2, <3>2, <4>1 DEF Counted
      <3> QED
        BY <3>3, <2>1, <2>2, <2>3, <1>2 DEF Regular
    <2>7. /\ Gains(t, data, id, flag) <=> old.data # data
          /\ Loses(t, data, id, flag) = IF old.data # data THEN {old.data} ELSE {}
      BY <1>5, <2>1 DEF Gains, Loses, e
    <2>8. ASSUME NEW x \in Data
          PROVE  Uses(r, x) = (Uses(e, x) \ {old}) \cup (IF x = data THEN {new} ELSE {})
      BY <2>2, <2>3 DEF Uses
    <2>9. ASSUME NEW x \in Data
          PROVE  /\ old \in Uses(e, x) <=> x = old.data
                 /\ new \notin Uses(e, x) \ {old}
      BY <2>1, <2>4 DEF Uses
    <2>10. ASSUME NEW x \in Data
           PROVE  Cardinality(Uses(r, x))
                     = Cardinality(Uses(e, x)) + (IF x = data THEN 1 ELSE 0)
                                               - (IF x = old.data THEN 1 ELSE 0)
      <3> DEFINE U == Uses(e, x) \ {old}
      <3>1. IsFiniteSet(U)
            /\ Cardinality(U) = Cardinality(Uses(e, x)) - (IF x = old.data THEN 1 ELSE 0)
        <4>1. IsFiniteSet(Uses(e, x)) /\ Cardinality(Uses(e, x)) \in Nat
          BY <1>3
        <4>2. IsFiniteSet(U) /\ Cardinality(U) = IF old \in Uses(e, x)
                THEN Cardinality(Uses(e, x)) - 1 ELSE Cardinality(Uses(e, x))
          BY <4>1, FS_RemoveElement
        <4> QED
          BY <4>1, <4>2, <2>9
      <3>2. Cardinality(U \cup {new}) = Cardinality(U) + 1
        BY <3>1, <2>9, FS_AddElement
      <3>3. Uses(r, x) = IF x = data THEN U \cup {new} ELSE U
        BY <2>8
      <3>4. Cardinality(Uses(e, x)) \in Nat
        BY <1>3
      <3> HIDE DEF U
      <3> QED
        BY <3>1, <3>2, <3>3, <3>4
    <2>11. ASSUME NEW x \in Data
           PROVE  Cardinality(Uses(r, x))
                     = Cardinality(Uses(t, x))
                       + (IF x = data /\ old.data # data THEN 1 ELSE 0)
                       - (IF x \in (IF old.data # data THEN {old.data} ELSE {}) THEN 1 ELSE 0)
      <3>1. Cardinality(Uses(e, x)) \in Nat /\ Cardinality(Uses(e, x)) = Cardinality(Uses(t, x))
        BY <1>1, <1>3
      <3> QED
        BY <3>1, <2>10
    <2>12. ASSUME NEW x \in Data, x # data, Uses(t, x) = {}
           PROVE  Uses(r, x) = {}
      BY <2>12, <2>8, <1>3
    <2> QED
      BY <2>5, <2>6, <2>7, <2>11, <2>12 DEF r
  <1> QED
    BY <1>4, <1>5

==============================================================================
