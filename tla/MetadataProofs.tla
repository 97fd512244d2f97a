---------------------------- MODULE MetadataProofs ----------------------------
(***************************************************************************)
(* Proofs about UseFlags, Expressions and Metadata for any files, texts,   *)
(* numbers of cells and loops, and any names and hashes of flags: the      *)
(* table of flags, the reference counts of nodes, the conditions of nodes, *)
(* the order in which loops see them, and what an ebuild has read.         *)
(***************************************************************************)
EXTENDS Metadata, LUTProofs, FiniteSetTheorems, SequenceTheorems, WellFoundedInduction, TLAPS

\* Induction over the natural numbers, for a set.
LEMMA SetInduction ==
    ASSUME NEW S, 0 \in S, \A n \in Nat : n \in S => n + 1 \in S
    PROVE  Nat \subseteq S
  <1> SUFFICES ASSUME NEW m \in Nat, m \notin S
               PROVE  FALSE
    OBVIOUS
  <1> DEFINE T == {k \in Nat : k \notin S}
  <1>1. PICK k \in T : \A y \in T : k <= y
    BY Least
  <1>2. k \in Nat /\ k # 0 /\ k - 1 \in Nat
    OBVIOUS
  <1>3. k - 1 \in S
    BY <1>1, <1>2
  <1>4. (k - 1) + 1 = k
    BY <1>2
  <1> QED
    BY <1>2, <1>3, <1>4

\* Repeating a function from a first value.
Orbit(h, X, G, x) == h \in [Nat -> X] /\ h[0] = x /\ \A n \in Nat : h[n + 1] = G[h[n]]

\* A function can be repeated for ever.
LEMMA Iterated ==
    ASSUME NEW X, NEW G, NEW x, G \in [X -> X], x \in X
    PROVE  \E h : Orbit(h, X, G, x)
  <1> DEFINE Good(h, k) == h[0] = x /\ \A n \in Nat : n < k => h[n + 1] = G[h[n]]
             S == {k \in Nat : \E h \in [Nat -> X] : Good(h, k)}
  <1>1. 0 \in S
    <2>1. [n \in Nat |-> x] \in [Nat -> X] /\ Good([n \in Nat |-> x], 0)
      OBVIOUS
    <2> QED
      BY <2>1
  <1>2. ASSUME NEW k \in Nat, k \in S
        PROVE  k + 1 \in S
    <2>1. PICK h \in [Nat -> X] : Good(h, k)
      BY <1>2
    <2> DEFINE h2 == [n \in Nat |-> IF n = k + 1 THEN G[h[k]] ELSE h[n]]
    <2>2. h2 \in [Nat -> X]
      OBVIOUS
    <2>3. Good(h2, k + 1)
      BY <2>1
    <2> HIDE DEF h2, Good
    <2> QED
      BY <2>2, <2>3
  <1>3. Nat \subseteq S
    <2> HIDE DEF S
    <2> QED
      BY <1>1, <1>2, SetInduction
  <1> DEFINE H(k) == CHOOSE h \in [Nat -> X] : Good(h, k)
  <1>4. \A k \in Nat : H(k) \in [Nat -> X] /\ Good(H(k), k)
    <2> HIDE DEF Good
    <2> QED
      BY <1>3
  \* Two that are good up to k agree up to k.
  <1>5. ASSUME NEW a \in Nat, NEW b \in Nat, a <= b
        PROVE  \A n \in Nat : n <= a => H(a)[n] = H(b)[n]
    <2> DEFINE U == {n \in Nat : n <= a => H(a)[n] = H(b)[n]}
    <2> HIDE DEF H
    <2>1. 0 \in U
      BY <1>4
    <2>2. ASSUME NEW n \in Nat, n \in U
          PROVE  n + 1 \in U
      <3> SUFFICES ASSUME n + 1 <= a
                   PROVE  H(a)[n + 1] = H(b)[n + 1]
        OBVIOUS
      <3>1. H(a)[n] = H(b)[n] /\ n < a /\ n < b
        BY <2>2, <1>5
      <3>2. H(a)[n + 1] = G[H(a)[n]] /\ H(b)[n + 1] = G[H(b)[n]]
        BY <1>4, <3>1
      <3> QED
        BY <3>1, <3>2
    <2>3. Nat \subseteq U
      <3> HIDE DEF U
      <3> QED
        BY <2>1, <2>2, SetInduction
    <2> QED
      BY <2>3
  <1> DEFINE f == [n \in Nat |-> H(n)[n]]
  <1>6. f \in [Nat -> X]
    <2> HIDE DEF H
    <2> QED
      BY <1>4
  <1>7. f[0] = x
    <2> HIDE DEF H
    <2> QED
      BY <1>4
  <1>8. ASSUME NEW n \in Nat
        PROVE  f[n + 1] = G[f[n]]
    <2> HIDE DEF H
    <2>1. H(n)[n] = H(n + 1)[n]
      BY <1>5
    <2>2. H(n + 1)[n + 1] = G[H(n + 1)[n]]
      BY <1>4
    <2> QED
      BY <2>1, <2>2
  <1> HIDE DEF f
  <1> QED
    BY <1>6, <1>7, <1>8 DEF Orbit

\* The rounds of Freed.
Loose(cnt, refs) == {c \in Live : cnt[c] <= Among(refs, c) + Pointing(Live, c)}

\* Freed is what the rounds come to after as many as there are loose nodes.
LEMMA FreedRounds ==
    ASSUME NEW cnt, NEW refs
    PROVE  \E rounds \in [Nat -> SUBSET Loose(cnt, refs)] :
              /\ rounds[0] = {}
              /\ \A n \in Nat : rounds[n + 1] =
                    {c \in Loose(cnt, refs) : cnt[c] <= Among(refs, c) + Pointing(rounds[n], c)}
              /\ Freed(cnt, refs) = rounds[Cardinality(Loose(cnt, refs))]
  <1> DEFINE loose == {c \in Live : cnt[c] <= Among(refs, c) + Pointing(Live, c)}
             rounds[n \in Nat] ==
                IF n = 0 THEN {}
                ELSE LET before == rounds[n - 1]
                     IN  {c \in loose : cnt[c] <= Among(refs, c) + Pointing(before, c)}
             G == [B \in SUBSET loose |-> {c \in loose : cnt[c] <= Among(refs, c) + Pointing(B, c)}]
  <1>1. Freed(cnt, refs) = rounds[Cardinality(loose)]
    BY DEF Freed
  <1>2. PICK h \in [Nat -> SUBSET loose] : h[0] = {} /\ \A n \in Nat : h[n + 1] = G[h[n]]
    <2> DEFINE X == SUBSET loose
               x == {}
    <2>1. G \in [X -> X] /\ x \in X
      OBVIOUS
    <2> HIDE DEF G, X, x, rounds, loose
    <2>2. \E h : Orbit(h, X, G, x)
      BY <2>1, Iterated
    <2> QED
      BY <2>2 DEF X, x, Orbit
  <1>3. h = [n \in Nat |-> IF n = 0 THEN {}
                           ELSE {c \in loose : cnt[c] <= Among(refs, c) + Pointing(h[n - 1], c)}]
    <2> SUFFICES ASSUME NEW n \in Nat, n # 0
                 PROVE  h[n] = {c \in loose : cnt[c] <= Among(refs, c) + Pointing(h[n - 1], c)}
      BY <1>2
    <2>1. n - 1 \in Nat /\ (n - 1) + 1 = n
      OBVIOUS
    <2>2. h[n] = G[h[n - 1]] /\ h[n - 1] \in SUBSET loose
      BY <1>2, <2>1
    <2> QED
      BY <2>2
  <1>4. rounds = [n \in Nat |-> IF n = 0 THEN {}
                           ELSE {c \in loose : cnt[c] <= Among(refs, c) + Pointing(rounds[n - 1], c)}]
    <2> HIDE DEF loose
    <2> QED
      BY <1>3 DEF rounds
  <1> HIDE DEF rounds
  <1>5. \A n \in Nat : rounds[n] \in SUBSET loose
    <2> SUFFICES ASSUME NEW n \in Nat
                 PROVE  rounds[n] \in SUBSET loose
      OBVIOUS
    <2> QED
      BY <1>4
  <1>6. rounds \in [Nat -> SUBSET loose]
    <2> HIDE DEF loose
    <2> QED
      BY <1>4, <1>5
  <1>7. rounds[0] = {}
    BY <1>4
  <1>8. ASSUME NEW n \in Nat
        PROVE  rounds[n + 1] = {c \in loose : cnt[c] <= Among(refs, c) + Pointing(rounds[n], c)}
    <2>1. n + 1 \in Nat /\ n + 1 # 0 /\ (n + 1) - 1 = n
      OBVIOUS
    <2> HIDE DEF loose
    <2> QED
      BY <1>4, <2>1
  <1> QED
    BY <1>1, <1>6, <1>7, <1>8 DEF Loose

-----------------------------------------------------------------------------
\* One step of use_get_global: the entries afterwards, whether the name was
\* known or not.
LEMMA InternStep ==
    ASSUME HashAssumption, OverlapAssumption, FlagAssumption,
           NEW t \in Table(Key), Sound(t), \A nd \in t.nodes : nd.data = nd.key,
           NEW name \in Key
    PROVE  LET g == GetId(t, name)
               r == IF g.flag = "NOT_FOUND" THEN InsertId(t, name, name, g.id, g.flag) ELSE t
           IN  /\ g.id \in Id /\ r \in Table(Key) /\ Sound(r)
               /\ \/ name \in Keys(t) /\ r = t
                  \/ name \notin Keys(t) /\ \A e \in Entries(t) : e.id # g.id /\ e.key # name
               /\ Entries(r) = Entries(t) \cup {[id |-> g.id, key |-> name, data |-> name]}
  <1> DEFINE g == GetId(t, name)
             r == IF g.flag = "NOT_FOUND" THEN InsertId(t, name, name, g.id, g.flag) ELSE t
  <1>1. CASE name \in Keys(t)
    <2>1. PICK nd \in t.nodes : nd.key = name
      BY <1>1 DEF Keys
    <2>2. g = [id |-> nd.id, flag |-> "EXISTS"]
      BY <2>1, GetIdKnown
    <2>3. r = t /\ g.id = nd.id
      BY <2>2
    <2>4. [id |-> nd.id, key |-> name, data |-> name] \in Entries(t)
      BY <2>1 DEF Entries
    <2>5. nd.id \in Id
      BY DEF Table, Node
    <2> QED
      BY <1>1, <2>3, <2>4, <2>5
  <1>2. CASE name \notin Keys(t)
    BY <1>2, InsertNew DEF FlagAssumption
  <1> QED
    BY <1>1, <1>2

\* The initial state is sound.
LEMMA InitIInv == Init => IInv
  <1> USE FlagAssumption DEF FlagAssumption
  <1> SUFFICES ASSUME Init PROVE IInv
    OBVIOUS
  <1>1. global_flags \in Table(Key) /\ Sound(global_flags) /\ global_flags.nodes = {}
    BY NewSound DEF Init, New
  <1> QED
    BY <1>1 DEF Init, IInv, TypeOK, TableSound, GivenIdsStored

\* Every use of the table keeps it sound.
LEMMA NextIInv == IInv /\ [Next]_vars => IInv'
  <1> USE HashAssumption, OverlapAssumption, FlagAssumption
  <1> SUFFICES ASSUME IInv, [Next]_vars PROVE IInv'
    OBVIOUS
  <1>1. ASSUME NEW useflag \in Key, UseGetGlobal(useflag)
        PROVE  IInv'
    <2> DEFINE t == global_flags
               g == GetId(t, useflag)
               r == IF g.flag = "NOT_FOUND"
                    THEN InsertId(t, useflag, useflag, g.id, g.flag) ELSE t
    <2>1. /\ t \in Table(Key) /\ Sound(t) /\ \A nd \in t.nodes : nd.data = nd.key
          /\ given \subseteq [name : Key, id : Id] /\ answer \in Key \cup {NULL}
          /\ \A x \in given : \E nd \in t.nodes : nd.id = x.id /\ nd.key = x.name
      BY DEF IInv, TypeOK, TableSound, GivenIdsStored
    <2>2. /\ g.id \in Id /\ r \in Table(Key) /\ Sound(r)
          /\ Entries(r) = Entries(t) \cup {[id |-> g.id, key |-> useflag, data |-> useflag]}
      BY <2>1, InternStep
    <2>3. /\ global_flags' = r /\ answer' = answer
          /\ given' = given \cup {[name |-> useflag, id |-> g.id]}
      BY <1>1 DEF UseGetGlobal
    <2> HIDE DEF g, r
    <2>4. TypeOK'
      BY <2>1, <2>2, <2>3 DEF TypeOK
    <2>5. ASSUME NEW nd \in r.nodes
          PROVE  nd.data = nd.key
      <3>1. [id |-> nd.id, key |-> nd.key, data |-> nd.data] \in Entries(r)
        BY DEF Entries
      <3>2. \A e \in Entries(t) : e.data = e.key
        BY <2>1 DEF Entries
      <3> QED
        BY <2>2, <3>1, <3>2
    <2>6. ASSUME NEW x \in given'
          PROVE  \E nd \in r.nodes : nd.id = x.id /\ nd.key = x.name
      <3>1. \E e \in Entries(r) : e.id = x.id /\ e.key = x.name
        <4>1. CASE x \in given
          <5>1. PICK nd \in t.nodes : nd.id = x.id /\ nd.key = x.name
            BY <2>1, <4>1
          <5>2. [id |-> nd.id, key |-> nd.key, data |-> nd.data] \in Entries(t)
            BY DEF Entries
          <5> QED
            BY <2>2, <5>1, <5>2
        <4>2. CASE x = [name |-> useflag, id |-> g.id]
          <5> DEFINE e == [id |-> g.id, key |-> useflag, data |-> useflag]
          <5>1. e \in Entries(r) /\ e.id = x.id /\ e.key = x.name
            BY <2>2, <4>2
          <5> QED
            BY <5>1
        <4> QED
          BY <2>3, <4>1, <4>2
      <3>2. PICK e \in Entries(r) : e.id = x.id /\ e.key = x.name
        BY <3>1
      <3>3. PICK nd \in r.nodes : e = [id |-> nd.id, key |-> nd.key, data |-> nd.data]
        BY DEF Entries
      <3> QED
        BY <3>2, <3>3
    <2>7. GivenIdsStored'
      BY <2>3, <2>5, <2>6 DEF GivenIdsStored
    <2> QED
      BY <2>2, <2>3, <2>4, <2>7 DEF IInv, TableSound
  <1>2. ASSUME NEW x \in given, GetUseFlag(x.id)
        PROVE  IInv'
    <2>1. PICK nd \in global_flags.nodes : nd.id = x.id
      BY DEF IInv, GivenIdsStored
    <2>2. Get(global_flags, x.id) = nd.data /\ nd.data \in Key
      BY <2>1, FoundById DEF IInv, TypeOK, TableSound, Table, Node
    <2> QED
      BY <1>2, <2>2 DEF GetUseFlag, IInv, TypeOK, TableSound, GivenIdsStored
  <1>3. CASE UNCHANGED vars
    BY <1>3 DEF vars, IInv, TypeOK, TableSound, GivenIdsStored
  <1> QED
    BY <1>1, <1>2, <1>3 DEF Next

\* The inductive invariant: the table is sound and every id given out is in it.
THEOREM Invariance == Spec => []IInv
  BY InitIInv, NextIInv, PTL DEF Spec

\* What is stored is found.
LEMMA StoredResolve == IInv => GivenIdsResolve
  <1> SUFFICES ASSUME IInv, NEW g \in given
               PROVE  Get(global_flags, g.id) = g.name
    BY DEF GivenIdsResolve
  <1>1. PICK nd \in global_flags.nodes : nd.id = g.id /\ nd.key = g.name
    BY DEF IInv, GivenIdsStored
  <1> QED
    BY <1>1, FoundById DEF IInv, TableSound, GivenIdsStored

\* An id kept by a parsed expression leads to the flag it was made for, for
\* ever, whatever collides and however often the table is enlarged.
THEOREM IdsResolve == Spec => []GivenIdsResolve
  BY StoredResolve, Invariance, PTL

\* The table is always sound.
THEOREM StaysSound == Spec => []TableSound
  BY Invariance, PTL DEF IInv

\* A step of the table is one of the dictionary.
LEMMA DictStep == IInv /\ IInv' /\ [Next]_vars => [Dict!Next]_<<Ids(global_flags), Values(global_flags)>>
  <1> USE HashAssumption, OverlapAssumption, FlagAssumption
  <1> SUFFICES ASSUME IInv, IInv', [Next]_vars,
                      ~ UNCHANGED <<Ids(global_flags), Values(global_flags)>>
               PROVE  Dict!Next
    OBVIOUS
  <1>1. ASSUME NEW useflag \in Key, UseGetGlobal(useflag)
        PROVE  Dict!Next
    <2> DEFINE t == global_flags
               g == GetId(t, useflag)
               r == IF g.flag = "NOT_FOUND"
                    THEN InsertId(t, useflag, useflag, g.id, g.flag) ELSE t
    <2>1. /\ t \in Table(Key) /\ Sound(t) /\ \A nd \in t.nodes : nd.data = nd.key
      BY DEF IInv, TypeOK, TableSound, GivenIdsStored
    <2>2. /\ g.id \in Id /\ Sound(r)
          /\ \/ useflag \in Keys(t) /\ r = t
             \/ useflag \notin Keys(t) /\ \A e \in Entries(t) : e.id # g.id /\ e.key # useflag
          /\ Entries(r) = Entries(t) \cup {[id |-> g.id, key |-> useflag, data |-> useflag]}
      BY <2>1, InternStep
    <2>3. global_flags' = r
      BY <1>1 DEF UseGetGlobal
    <2>4. r # t
      BY <2>3
    <2>5. useflag \notin Keys(t) /\ \A e \in Entries(t) : e.id # g.id /\ e.key # useflag
      BY <2>2, <2>4
    <2> DEFINE i == g.id
    <2>6. i \in Id /\ Sound(r)
          /\ Entries(r) = Entries(t) \cup {[id |-> i, key |-> useflag, data |-> useflag]}
      BY <2>2
    <2> HIDE DEF g, r, i, t
    <2>7. /\ Keys(t) = {e.key : e \in Entries(t)} /\ Keys(r) = {e.key : e \in Entries(r)}
          /\ DOMAIN Ids(t) = Keys(t) /\ DOMAIN Values(t) = Keys(t)
          /\ Ids(r) = [k \in Keys(r) |-> Ids(r)[k]]
          /\ Values(r) = [k \in Keys(r) |-> Values(r)[k]]
          /\ \A e \in Entries(t) : Ids(t)[e.key] = e.id /\ Values(t)[e.key] = e.data
          /\ \A e \in Entries(r) : Ids(r)[e.key] = e.id /\ Values(r)[e.key] = e.data
      BY <2>1, <2>6, Bindings
    <2>8. Keys(r) = Keys(t) \cup {useflag}
      <3> DEFINE e == [id |-> i, key |-> useflag, data |-> useflag]
      <3>1. Entries(r) = Entries(t) \cup {e} /\ e.key = useflag
        BY <2>6
      <3> HIDE DEF e
      <3> QED
        BY <3>1, <2>7
    <2>9. Ids(r)[useflag] = i /\ Values(r)[useflag] = useflag
      <3> DEFINE e == [id |-> i, key |-> useflag, data |-> useflag]
      <3>1. e \in Entries(r)
        BY <2>6
      <3> QED
        BY <3>1, <2>7
    <2>10. ASSUME NEW k \in Keys(t)
           PROVE  /\ Ids(r)[k] = Ids(t)[k] /\ Values(r)[k] = Values(t)[k]
                  /\ Ids(t)[k] # i
      <3>1. PICK e \in Entries(t) : e.key = k
        BY <2>7
      <3>2. e \in Entries(r) /\ e.id # i
        BY <2>6, <2>5 DEF i
      <3> QED
        BY <3>1, <3>2, <2>7
    <2>11. Ids(r) = [x \in DOMAIN Ids(t) \cup {useflag} |->
                        IF x = useflag THEN i ELSE Ids(t)[x]]
      BY <2>7, <2>8, <2>9, <2>10, <2>5
    <2>12. Values(r) = [x \in DOMAIN Ids(t) \cup {useflag} |->
                           IF x = useflag THEN useflag ELSE Values(t)[x]]
      BY <2>7, <2>8, <2>9, <2>10, <2>5
    <2>13. i \notin Dict!Range(Ids(t)) /\ useflag \notin DOMAIN Ids(t)
      BY <2>5, <2>7, <2>10 DEF Dict!Range
    <2>14. Dict!Add(useflag, i, useflag)
      BY <2>3, <2>11, <2>12, <2>13 DEF Dict!Add, t
    <2> QED
      BY <2>6, <2>14 DEF Dict!Next
  <1>2. CASE UNCHANGED global_flags
    BY <1>2 DEF Ids, Values, Keys, NodeOf
  <1> QED
    BY <1>1, <1>2 DEF Next, GetUseFlag, vars

\* The table implements the dictionary: a name takes an id nobody has and
\* keeps it, and interning or enlarging changes no other binding.
THEOREM Refinement == Spec => ImplementsDictionary
  <1>1. Init => Dict!Init
    <2> SUFFICES ASSUME Init PROVE Dict!Init
      OBVIOUS
    <2>1. Keys(global_flags) = {}
      BY DEF Init, New, Keys
    <2> QED
      BY <2>1 DEF Dict!Init, Ids, Values
  <1> QED
    BY <1>1, DictStep, Invariance, PTL DEF Spec, ImplementsDictionary, Dict!Spec

-----------------------------------------------------------------------------
(* Counting references.                                                    *)

\* One if p, else none.
Ind(p) == IF p THEN 1 ELSE 0

\* How many of the members M of the records f[s], s in S, are x.
LinkSet(f, S, M, x) == {e \in S \X M : f[e[1]][e[2]] = x}
Links(f, S, M, x) == Cardinality(LinkSet(f, S, M, x))
Pointer == {"next", "children"}
OfLoop == {"head", "item"}

\* One or none.
LEMMA InRange == \A p : Ind(p) \in Nat
  BY DEF Ind

\* There are finitely many pointers, and none if no member is x.
LEMMA LinksFinite ==
    ASSUME NEW f, NEW S, IsFiniteSet(S), NEW M, IsFiniteSet(M), NEW x
    PROVE  /\ IsFiniteSet(LinkSet(f, S, M, x))
           /\ Links(f, S, M, x) \in Nat
           /\ Links(f, S, M, x) = 0 <=> \A s \in S, m \in M : f[s][m] # x
  <1> DEFINE E == {e \in S \X M : f[e[1]][e[2]] = x}
  <1>1. IsFiniteSet(S \X M)
    BY FS_Product
  <1>2. IsFiniteSet(E) /\ Cardinality(E) \in Nat
    BY <1>1, FS_Subset, FS_CardinalityType
  <1>3. Cardinality(E) = 0 <=> E = {}
    BY <1>2, FS_EmptySet
  <1>4. E = {} <=> \A s \in S, m \in M : f[s][m] # x
    <2>1. ASSUME NEW s \in S, NEW m \in M, f[s][m] = x
          PROVE  E # {}
      <3>1. <<s, m>> \in S \X M /\ <<s, m>> \in E
        BY <2>1
      <3> QED
        BY <3>1
    <2>2. ASSUME E # {}
          PROVE  \E s \in S, m \in M : f[s][m] = x
      BY <2>2
    <2> QED
      BY <2>1, <2>2
  <1> QED
    BY <1>2, <1>3, <1>4 DEF Links, LinkSet

\* Pointers from two sets of records.
LEMMA LinksSplit ==
    ASSUME NEW f, NEW S, IsFiniteSet(S), NEW T, IsFiniteSet(T), S \cap T = {},
           NEW M, IsFiniteSet(M), NEW x
    PROVE  Links(f, S \cup T, M, x) = Links(f, S, M, x) + Links(f, T, M, x)
  <1>1. /\ LinkSet(f, S \cup T, M, x) = LinkSet(f, S, M, x) \cup LinkSet(f, T, M, x)
        /\ LinkSet(f, S, M, x) \cap LinkSet(f, T, M, x) = {}
    BY DEF LinkSet
  <1>2. IsFiniteSet(LinkSet(f, S, M, x)) /\ IsFiniteSet(LinkSet(f, T, M, x))
    BY LinksFinite
  <1>3. Links(f, S, M, x) \in Nat /\ Links(f, T, M, x) \in Nat
    BY LinksFinite
  <1>4. Cardinality(LinkSet(f, S, M, x) \cup LinkSet(f, T, M, x)) =
           Cardinality(LinkSet(f, S, M, x)) + Cardinality(LinkSet(f, T, M, x)) - Cardinality({})
    BY <1>1, <1>2, FS_Union
  <1>5. Cardinality({}) = 0
    BY FS_EmptySet
  <1>6. Links(f, S \cup T, M, x) = Cardinality(LinkSet(f, S, M, x) \cup LinkSet(f, T, M, x))
    BY <1>1 DEF Links
  <1>7. Links(f, S \cup T, M, x) = Links(f, S, M, x) + Links(f, T, M, x) - 0
    BY <1>4, <1>5, <1>6 DEF Links
  <1> QED
    BY <1>3, <1>7

\* Records with the same members have the same pointers.
LEMMA LinksSame ==
    ASSUME NEW f, NEW g, NEW S, NEW M, NEW x, \A s \in S, m \in M : f[s][m] = g[s][m]
    PROVE  Links(f, S, M, x) = Links(g, S, M, x)
  <1>1. LinkSet(f, S, M, x) = LinkSet(g, S, M, x)
    BY DEF LinkSet
  <1> QED
    BY <1>1 DEF Links

\* How many of two things hold.
LEMMA SizeOfPair ==
    ASSUME NEW p, NEW q, p # q
    PROVE  /\ Cardinality({}) = 0
           /\ Cardinality({p}) = 1 /\ Cardinality({q}) = 1
           /\ Cardinality({p} \cup {q}) = 2
  <1>1. IsFiniteSet({p})
    BY FS_Singleton
  <1>2. q \notin {p}
    OBVIOUS
  <1>3. Cardinality({p} \cup {q}) = Cardinality({p}) + 1
    BY <1>1, <1>2, FS_AddElement
  <1>4. Cardinality({p}) = 1 /\ Cardinality({q}) = 1
    BY FS_Singleton
  <1>5. Cardinality({}) = 0
    BY FS_EmptySet
  <1> QED
    BY <1>3, <1>4, <1>5

\* The pointers of one record.
LEMMA LinksOfOne ==
    ASSUME NEW f, NEW l, NEW a, NEW b, a # b, NEW x
    PROVE  Links(f, {l}, {a, b}, x) = Ind(f[l][a] = x) + Ind(f[l][b] = x)
  <1> DEFINE E == {e \in {l} \X {a, b} : f[e[1]][e[2]] = x}
             p == <<l, a>>
             q == <<l, b>>
  <1>1. p # q /\ {l} \X {a, b} = {p, q}
    OBVIOUS
  <1>2. p[1] = l /\ p[2] = a /\ q[1] = l /\ q[2] = b
    OBVIOUS
  <1>3. /\ Cardinality({}) = 0
        /\ Cardinality({p}) = 1 /\ Cardinality({q}) = 1
        /\ Cardinality({p} \cup {q}) = 2
    BY <1>1, SizeOfPair
  <1>4. E = {e \in {p, q} : f[e[1]][e[2]] = x}
    BY <1>1
  <1>9. Links(f, {l}, {a, b}, x) = Cardinality(E)
    BY DEF Links, LinkSet
  <1>10. PICK k : k = Links(f, {l}, {a, b}, x)
    OBVIOUS
  <1> HIDE DEF p, q
  <1>5. CASE f[l][a] = x /\ f[l][b] = x
    <2>1. E = {p} \cup {q}
      BY <1>2, <1>4, <1>5
    <2> HIDE DEF E
    <2>2. k = 2
      BY <1>3, <1>9, <1>10, <2>1
    <2>3. Ind(f[l][a] = x) = 1 /\ Ind(f[l][b] = x) = 1
      BY <1>5 DEF Ind
    <2> QED
      BY <1>10, <2>2, <2>3
  <1>6. CASE f[l][a] = x /\ f[l][b] # x
    <2>1. E = {p}
      BY <1>2, <1>4, <1>6
    <2> HIDE DEF E
    <2>2. k = 1
      BY <1>3, <1>9, <1>10, <2>1
    <2>3. Ind(f[l][a] = x) = 1 /\ Ind(f[l][b] = x) = 0
      BY <1>6 DEF Ind
    <2> QED
      BY <1>10, <2>2, <2>3
  <1>7. CASE f[l][a] # x /\ f[l][b] = x
    <2>1. E = {q}
      BY <1>2, <1>4, <1>7
    <2> HIDE DEF E
    <2>2. k = 1
      BY <1>3, <1>9, <1>10, <2>1
    <2>3. Ind(f[l][a] = x) = 0 /\ Ind(f[l][b] = x) = 1
      BY <1>7 DEF Ind
    <2> QED
      BY <1>10, <2>2, <2>3
  <1>8. CASE f[l][a] # x /\ f[l][b] # x
    <2>1. E = {}
      BY <1>2, <1>4, <1>8
    <2> HIDE DEF E
    <2>2. k = 0
      BY <1>3, <1>9, <1>10, <2>1
    <2>3. Ind(f[l][a] = x) = 0 /\ Ind(f[l][b] = x) = 0
      BY <1>8 DEF Ind
    <2> QED
      BY <1>10, <2>2, <2>3
  <1> QED
    BY <1>5, <1>6, <1>7, <1>8

\* Pairs are finite.
LEMMA PairFinite == \A a, b : IsFiniteSet({a, b})
  <1> SUFFICES ASSUME NEW a, NEW b
               PROVE  IsFiniteSet({a, b})
    OBVIOUS
  <1>1. IsFiniteSet({a} \cup {b})
    BY FS_Singleton, FS_Union
  <1>2. {a, b} = {a} \cup {b}
    OBVIOUS
  <1> QED
    BY <1>1, <1>2

\* There are two members of each kind.
LEMMA TwoMembers == IsFiniteSet(Pointer) /\ IsFiniteSet(OfLoop)
  BY PairFinite DEF Pointer, OfLoop

\* One more record.
LEMMA LinksAdd ==
    ASSUME NEW f, NEW S, IsFiniteSet(S), NEW l, l \notin S, NEW x
    PROVE  /\ Links(f, S \cup {l}, Pointer, x) =
                 Links(f, S, Pointer, x) + Ind(f[l].next = x) + Ind(f[l].children = x)
           /\ Links(f, S \cup {l}, OfLoop, x) =
                 Links(f, S, OfLoop, x) + Ind(f[l].head = x) + Ind(f[l].item = x)
  <1>1. ASSUME NEW M, IsFiniteSet(M)
        PROVE  /\ Links(f, S \cup {l}, M, x) = Links(f, S, M, x) + Links(f, {l}, M, x)
               /\ Links(f, S, M, x) \in Nat
    <2> DEFINE T == {l}
    <2>1. IsFiniteSet(T) /\ S \cap T = {}
      BY FS_Singleton
    <2> HIDE DEF T
    <2>2. Links(f, S \cup T, M, x) = Links(f, S, M, x) + Links(f, T, M, x)
      BY <1>1, <2>1, LinksSplit
    <2>3. Links(f, S, M, x) \in Nat
      BY <1>1, LinksFinite
    <2> QED
      BY <2>2, <2>3 DEF T
  <1>2. Links(f, {l}, Pointer, x) = Ind(f[l].next = x) + Ind(f[l].children = x)
    <2>1. "next" # "children"
      OBVIOUS
    <2> QED
      BY <2>1, LinksOfOne DEF Pointer
  <1>3. Links(f, {l}, OfLoop, x) = Ind(f[l].head = x) + Ind(f[l].item = x)
    <2>1. "head" # "item"
      OBVIOUS
    <2> QED
      BY <2>1, LinksOfOne DEF OfLoop
  <1>4. ASSUME NEW p
        PROVE  Ind(p) \in Nat
    BY DEF Ind
  <1>5. /\ Ind(f[l].next = x) \in Nat /\ Ind(f[l].children = x) \in Nat
        /\ Ind(f[l].head = x) \in Nat /\ Ind(f[l].item = x) \in Nat
    BY <1>4
  <1>6. /\ Links(f, S \cup {l}, Pointer, x) = Links(f, S, Pointer, x) + Links(f, {l}, Pointer, x)
        /\ Links(f, S \cup {l}, OfLoop, x) = Links(f, S, OfLoop, x) + Links(f, {l}, OfLoop, x)
        /\ Links(f, S, Pointer, x) \in Nat /\ Links(f, S, OfLoop, x) \in Nat
    BY <1>1, TwoMembers
  <1> QED
    BY <1>2, <1>3, <1>5, <1>6

\* The links of some records and those of the others.
LEMMA LinksFewer ==
    ASSUME NEW f, NEW T, IsFiniteSet(T), NEW S, S \subseteq T, NEW M, IsFiniteSet(M), NEW x
    PROVE  /\ Links(f, T, M, x) = Links(f, S, M, x) + Links(f, T \ S, M, x)
           /\ Links(f, S, M, x) \in Nat /\ Links(f, T \ S, M, x) \in Nat
           /\ Links(f, T, M, x) \in Nat
  <1>1. IsFiniteSet(S) /\ IsFiniteSet(T \ S)
    BY FS_Subset, FS_Difference
  <1> DEFINE U == T \ S
  <1>2. S \cup U = T /\ S \cap U = {} /\ IsFiniteSet(U)
    BY <1>1
  <1> HIDE DEF U
  <1>3. Links(f, S \cup U, M, x) = Links(f, S, M, x) + Links(f, U, M, x)
    BY <1>1, <1>2, LinksSplit
  <1>4. Links(f, T, M, x) = Links(f, S, M, x) + Links(f, U, M, x)
    BY <1>2, <1>3
  <1>5. Links(f, S, M, x) \in Nat /\ Links(f, U, M, x) \in Nat /\ Links(f, T, M, x) \in Nat
    BY <1>1, <1>2, LinksFinite
  <1> QED
    BY <1>4, <1>5 DEF U

-----------------------------------------------------------------------------
(* Among.                                                                  *)

\* References are finitely many, and none if none is to x.
LEMMA AmongFinite ==
    ASSUME NEW refs, IsFiniteSet(DOMAIN refs), NEW x
    PROVE  /\ IsFiniteSet({i \in DOMAIN refs : refs[i] = x})
           /\ Among(refs, x) \in Nat
           /\ Among(refs, x) = 0 <=> \A i \in DOMAIN refs : refs[i] # x
  <1> DEFINE E == {i \in DOMAIN refs : refs[i] = x}
  <1>1. IsFiniteSet(E) /\ Cardinality(E) \in Nat
    BY FS_Subset, FS_CardinalityType
  <1>2. Cardinality(E) = 0 <=> E = {}
    BY <1>1, FS_EmptySet
  <1> QED
    BY <1>1, <1>2 DEF Among

\* Every reference is to something else.
LEMMA AmongInjective ==
    ASSUME NEW refs, IsFiniteSet(DOMAIN refs), \A i, j \in DOMAIN refs : refs[i] = refs[j] => i = j, NEW x
    PROVE  Among(refs, x) = Ind(\E i \in DOMAIN refs : refs[i] = x)
  <1>1. CASE \E i \in DOMAIN refs : refs[i] = x
    <2>1. PICK i \in DOMAIN refs : refs[i] = x
      BY <1>1
    <2>2. {j \in DOMAIN refs : refs[j] = x} = {i}
      BY <2>1
    <2> QED
      BY <1>1, <2>2, FS_Singleton DEF Among, Ind
  <1>2. CASE ~ \E i \in DOMAIN refs : refs[i] = x
    BY <1>2, AmongFinite DEF Ind
  <1> QED
    BY <1>1, <1>2

\* One of them is changed.
LEMMA AmongReplaced ==
    ASSUME NEW refs, IsFiniteSet(DOMAIN refs), NEW n \in DOMAIN refs, NEW v, NEW x
    PROVE  Among([refs EXCEPT ![n] = v], x) + Ind(refs[n] = x) = Among(refs, x) + Ind(v = x)
  <1> DEFINE new == [refs EXCEPT ![n] = v]
             O(r) == {i \in (DOMAIN refs) \ {n} : r[i] = x}
  <1>1. DOMAIN new = DOMAIN refs /\ new[n] = v /\ \A i \in (DOMAIN refs) \ {n} : new[i] = refs[i]
    OBVIOUS
  <1>2. O(new) = O(refs)
    BY <1>1
  <1>3. IsFiniteSet(O(refs)) /\ n \notin O(refs) /\ Cardinality(O(refs)) \in Nat
    <2>1. O(refs) \in SUBSET DOMAIN refs
      OBVIOUS
    <2>2. IsFiniteSet(O(refs))
      BY <2>1, FS_Subset
    <2> QED
      BY <2>2, FS_CardinalityType
  <1>4. ASSUME NEW r, DOMAIN r = DOMAIN refs, O(r) = O(refs)
        PROVE  Among(r, x) = Cardinality(O(refs)) + Ind(r[n] = x)
    <2>1. CASE r[n] = x
      <3>1. {i \in DOMAIN r : r[i] = x} = O(r) \cup {n}
        BY <1>4, <2>1
      <3>2. Cardinality(O(refs) \cup {n}) = Cardinality(O(refs)) + 1
        <4> HIDE DEF O
        <4> QED
          BY <1>3, FS_AddElement
      <3> QED
        BY <1>4, <2>1, <3>1, <3>2 DEF Among, Ind
    <2>2. CASE r[n] # x
      <3>1. {i \in DOMAIN r : r[i] = x} = O(r)
        BY <1>4, <2>2
      <3> QED
        BY <1>3, <1>4, <2>2, <3>1 DEF Among, Ind
    <2> QED
      BY <2>1, <2>2
  <1>5. Among(new, x) = Cardinality(O(refs)) + Ind(v = x)
    BY <1>1, <1>2, <1>4
  <1>6. Among(refs, x) = Cardinality(O(refs)) + Ind(refs[n] = x)
    BY <1>4
  <1>7. Ind(v = x) \in Nat /\ Ind(refs[n] = x) \in Nat
    BY DEF Ind
  <1> HIDE DEF O, new
  <1>8. Among(new, x) + Ind(refs[n] = x) = Among(refs, x) + Ind(v = x)
    BY <1>3, <1>5, <1>6, <1>7
  <1> QED
    BY <1>8 DEF new

\* No reference.
LEMMA NoRef == \A x : Among(<<>>, x) = 0
  <1>1. \A x : {i \in DOMAIN <<>> : <<>>[i] = x} = {}
    OBVIOUS
  <1>2. Cardinality({}) = 0
    BY FS_EmptySet
  <1> QED
    BY <1>1, <1>2 DEF Among

\* One reference.
LEMMA OneRef ==
    ASSUME NEW a
    PROVE  IsFiniteSet(DOMAIN <<a>>) /\ \A x : Among(<<a>>, x) = Ind(a = x)
  <1>1. DOMAIN <<a>> = {1} /\ <<a>>[1] = a
    OBVIOUS
  <1>2. \A p : IsFiniteSet({p}) /\ Cardinality({p}) = 1
    BY FS_Singleton
  <1>3. Cardinality({}) = 0
    BY FS_EmptySet
  <1>4. ASSUME NEW x
        PROVE  Among(<<a>>, x) = Ind(a = x)
    <2>1. {i \in DOMAIN <<a>> : <<a>>[i] = x} = IF a = x THEN {1} ELSE {}
      BY <1>1
    <2> QED
      BY <1>2, <1>3, <2>1 DEF Among, Ind
  <1>5. IsFiniteSet(DOMAIN <<a>>)
    BY <1>1, <1>2
  <1> QED
    BY <1>4, <1>5

\* Two references.
LEMMA TwoRefs ==
    ASSUME NEW a, NEW b
    PROVE  IsFiniteSet(DOMAIN <<a, b>>) /\ \A x : Among(<<a, b>>, x) = Ind(a = x) + Ind(b = x)
  <1>1. DOMAIN <<a, b>> = {1, 2} /\ <<a, b>>[1] = a /\ <<a, b>>[2] = b
    OBVIOUS
  <1>2. /\ Cardinality({}) = 0 /\ Cardinality({1}) = 1 /\ Cardinality({2}) = 1
        /\ Cardinality({1} \cup {2}) = 2
    <2>1. 1 # 2
      OBVIOUS
    <2> QED
      BY <2>1, SizeOfPair
  <1>3. ASSUME NEW x
        PROVE  Among(<<a, b>>, x) = Ind(a = x) + Ind(b = x)
    <2>1. {i \in DOMAIN <<a, b>> : <<a, b>>[i] = x} =
             IF a = x THEN IF b = x THEN {1} \cup {2} ELSE {1}
             ELSE IF b = x THEN {2} ELSE {}
      BY <1>1
    <2> QED
      BY <1>2, <2>1 DEF Among, Ind
  <1>4. IsFiniteSet(DOMAIN <<a, b>>)
    <2>1. \A p, q : IsFiniteSet({p, q})
      BY PairFinite
    <2> QED
      BY <1>1, <2>1
  <1> QED
    BY <1>3, <1>4

-----------------------------------------------------------------------------
(* Releasing.                                                              *)

\* A chain of subsets of a set of n things that repeats itself once it stops
\* growing has stopped after n steps.
LEMMA Settles ==
    ASSUME NEW S, IsFiniteSet(S), NEW f \in [Nat -> SUBSET S], f[0] = {},
           \A n \in Nat : f[n] \subseteq f[n + 1],
           \A n \in Nat : f[n + 1] = f[n] => f[n + 2] = f[n + 1]
    PROVE  f[Cardinality(S) + 1] = f[Cardinality(S)]
  <1> DEFINE D == {n \in Nat : f[n + 1] = f[n] \/ Cardinality(f[n]) >= n}
  <1>1. ASSUME NEW n \in Nat
        PROVE  IsFiniteSet(f[n]) /\ Cardinality(f[n]) \in Nat /\ Cardinality(f[n]) <= Cardinality(S)
    BY FS_Subset, FS_CardinalityType
  <1>2. 0 \in D
    <2>1. Cardinality({}) = 0
      BY FS_EmptySet
    <2> QED
      BY <2>1
  <1>3. ASSUME NEW n \in Nat, n \in D
        PROVE  n + 1 \in D
    <2>1. CASE f[n + 1] = f[n]
      BY <2>1
    <2>2. CASE f[n + 1] # f[n]
      <3>1. Cardinality(f[n]) >= n
        BY <1>3, <2>2
      <3>2. f[n] \in SUBSET f[n + 1] /\ IsFiniteSet(f[n + 1])
        BY <1>1
      <3>3. Cardinality(f[n]) <= Cardinality(f[n + 1]) /\ Cardinality(f[n + 1]) # Cardinality(f[n])
        BY <2>2, <3>2, FS_Subset
      <3>4. Cardinality(f[n + 1]) >= n + 1
        <4>1. Cardinality(f[n]) \in Nat /\ Cardinality(f[n + 1]) \in Nat
          BY <1>1
        <4> QED
          BY <4>1, <3>1, <3>3
      <3> QED
        BY <3>4
    <2> QED
      BY <2>1, <2>2
  <1>4. Nat \subseteq D
    <2> HIDE DEF D
    <2> QED
      BY <1>2, <1>3, SetInduction
  <1> DEFINE N == Cardinality(S)
  <1>5. N \in Nat /\ N + 1 \in Nat
    BY FS_CardinalityType
  <1>6. CASE Cardinality(f[N]) >= N
    <2>1. Cardinality(f[N]) = Cardinality(S) /\ f[N] \in SUBSET S /\ f[N + 1] \in SUBSET S
      BY <1>1, <1>5, <1>6
    <2>2. f[N] = S
      BY <2>1, FS_Subset
    <2>3. f[N] \subseteq f[N + 1]
      BY <1>5
    <2> QED
      BY <2>1, <2>2, <2>3
  <1> QED
    BY <1>4, <1>5, <1>6

\* Pointing counts links.
LEMMA PointingLinks ==
    ASSUME NEW S, NEW x
    PROVE  Pointing(S, x) = Links(node, S, Pointer, x)
  BY DEF Pointing, Links, LinkSet, Pointer

\* The heap that Drop is asked about: counts of pointers and of other references,
\* the dropped ones among them; free cells are blank.
Droppable(cnt, refs, other) ==
    /\ cnt \in [Cell -> Nat] /\ other \in [Cell -> Nat]
    /\ IsFiniteSet(DOMAIN refs)
    /\ \A c \in Cell :
          /\ cnt[c] = Links(node, Cell, Pointer, c) + other[c]
          /\ Among(refs, c) <= other[c]
          /\ count[c] = 0 => node[c] = Blank /\ cnt[c] = 0

\* Freed is a fixed point of its rounds: they have settled.
LEMMA FreedFixed ==
    ASSUME CellAssumption, count \in [Cell -> Nat], NEW cnt, NEW refs, NEW other,
           Droppable(cnt, refs, other)
    PROVE  LET freed == Freed(cnt, refs)
           IN  /\ freed \subseteq Live
               /\ \A c \in Live : c \in freed <=>
                     cnt[c] <= Among(refs, c) + Links(node, freed, Pointer, c)
  <1> DEFINE loose == Loose(cnt, refs)
  <1>1. Live \subseteq Cell /\ IsFiniteSet(Live) /\ IsFiniteSet(loose) /\ IsFiniteSet(Cell)
    <2>1. Live \in SUBSET Cell /\ loose \in SUBSET Cell
      BY DEF Live, Loose
    <2> QED
      BY <2>1, FS_Subset DEF CellAssumption
  <1>2. PICK g \in [Nat -> SUBSET loose] :
           /\ g[0] = {}
           /\ \A n \in Nat : g[n + 1] =
                 {c \in loose : cnt[c] <= Among(refs, c) + Pointing(g[n], c)}
           /\ Freed(cnt, refs) = g[Cardinality(loose)]
    BY FreedRounds
  <1>3. ASSUME NEW A, NEW B, A \subseteq B, B \subseteq Live, NEW c \in Cell
        PROVE  /\ Pointing(A, c) <= Pointing(B, c)
               /\ Pointing(A, c) \in Nat /\ Pointing(B, c) \in Nat
    <2>1. IsFiniteSet(B)
      BY <1>1, <1>3, FS_Subset
    <2>2. /\ Links(node, B, Pointer, c) = Links(node, A, Pointer, c) + Links(node, B \ A, Pointer, c)
          /\ Links(node, A, Pointer, c) \in Nat /\ Links(node, B \ A, Pointer, c) \in Nat
          /\ Links(node, B, Pointer, c) \in Nat
      BY <1>3, <2>1, LinksFewer, TwoMembers
    <2> QED
      BY <2>2, PointingLinks
  <1>4. ASSUME NEW c \in Cell
        PROVE  cnt[c] \in Nat /\ Among(refs, c) \in Nat
    BY AmongFinite DEF Droppable
  <1> HIDE DEF loose
  <1> DEFINE Step(B) == {c \in loose : cnt[c] <= Among(refs, c) + Pointing(B, c)}
  <1>5. ASSUME NEW A, NEW B, A \subseteq B, B \subseteq Live
        PROVE  Step(A) \subseteq Step(B)
    <2> SUFFICES ASSUME NEW c \in loose, cnt[c] <= Among(refs, c) + Pointing(A, c)
                 PROVE  cnt[c] <= Among(refs, c) + Pointing(B, c)
      OBVIOUS
    <2>1. c \in Cell
      BY DEF loose, Loose, Live
    <2>2. Pointing(A, c) <= Pointing(B, c) /\ Pointing(A, c) \in Nat /\ Pointing(B, c) \in Nat
      BY <1>3, <1>5, <2>1
    <2>3. cnt[c] \in Nat /\ Among(refs, c) \in Nat
      BY <1>4, <2>1
    <2> QED
      BY <2>2, <2>3
  <1>6. \A n \in Nat : g[n + 1] = Step(g[n])
    BY <1>2
  <1>7. \A n \in Nat : g[n] \subseteq loose /\ g[n] \subseteq Live
    BY <1>2 DEF loose, Loose
  <1> HIDE DEF Step
  <1>8. \A n \in Nat : g[n] \subseteq g[n + 1]
    <2> DEFINE I == {n \in Nat : g[n] \subseteq g[n + 1]}
    <2>1. 0 \in I
      BY <1>2
    <2>2. ASSUME NEW n \in Nat, n \in I
          PROVE  n + 1 \in I
      <3>1. g[n] \subseteq g[n + 1] /\ g[n + 1] \subseteq Live
        BY <1>7, <2>2
      <3>2. g[n + 1] = Step(g[n]) /\ g[(n + 1) + 1] = Step(g[n + 1])
        BY <1>6
      <3>3. Step(g[n]) \subseteq Step(g[n + 1])
        BY <1>5, <3>1
      <3> QED
        BY <3>2, <3>3
    <2>3. Nat \subseteq I
      <3> HIDE DEF I
      <3> QED
        BY <2>1, <2>2, SetInduction
    <2> QED
      BY <2>3
  <1>9. \A n \in Nat : g[n + 1] = g[n] => g[n + 2] = g[n + 1]
    <2> SUFFICES ASSUME NEW n \in Nat, g[n + 1] = g[n]
                 PROVE  g[n + 2] = g[n + 1]
      OBVIOUS
    <2>1. g[n + 1] = Step(g[n]) /\ g[(n + 1) + 1] = Step(g[n + 1]) /\ (n + 1) + 1 = n + 2
      BY <1>6
    <2> QED
      BY <2>1
  <1> DEFINE N == Cardinality(loose)
             freed == Freed(cnt, refs)
  <1>10. N \in Nat /\ freed = g[N]
    BY <1>1, <1>2, FS_CardinalityType
  <1>11. g[N + 1] = g[N]
    BY <1>1, <1>2, <1>8, <1>9, Settles
  <1>12. freed = Step(freed) /\ freed \subseteq Live
    BY <1>6, <1>7, <1>10, <1>11
  <1> HIDE DEF freed
  <1>13. ASSUME NEW c \in Live
         PROVE  c \in freed <=> cnt[c] <= Among(refs, c) + Pointing(freed, c)
    <2>1. c \in Cell
      BY DEF Live
    <2>2. c \in freed <=> c \in loose /\ cnt[c] <= Among(refs, c) + Pointing(freed, c)
      BY <1>12 DEF Step
    <2>3. Pointing(freed, c) <= Pointing(Live, c) /\ Pointing(freed, c) \in Nat /\ Pointing(Live, c) \in Nat
      BY <1>3, <1>12, <2>1
    <2>4. cnt[c] <= Among(refs, c) + Pointing(freed, c) => c \in loose
      BY <1>4, <2>1, <2>3 DEF loose, Loose
    <2> QED
      BY <2>2, <2>4
  <1> QED
    BY <1>12, <1>13, PointingLinks DEF freed

\* What Drop does: the nodes that are freed had no other reference and none of
\* those that stay points to them; the counts of the others are right.
LEMMA Dropped ==
    ASSUME CellAssumption, count \in [Cell -> Nat], NEW cnt, NEW refs, NEW other,
           Droppable(cnt, refs, other)
    PROVE  LET freed == Freed(cnt, refs)
           IN  /\ freed \subseteq Live /\ Drop(cnt, refs) \in [Cell -> Nat]
               /\ \A c \in Cell :
                     /\ Drop(cnt, refs)[c] = Links(node, Cell \ freed, Pointer, c) + other[c] - Among(refs, c)
                     /\ Drop(cnt, refs)[c] = 0 <=> c \notin Live \ freed
                     /\ c \in freed => other[c] = Among(refs, c)
                     /\ \A d \in freed : c \notin freed => node[c].next # d /\ node[c].children # d
  <1> DEFINE freed == Freed(cnt, refs)
  <1>1. /\ freed \subseteq Live
        /\ \A c \in Live : c \in freed <=> cnt[c] <= Among(refs, c) + Links(node, freed, Pointer, c)
    BY FreedFixed
  <1>2. DOMAIN Drop(cnt, refs) = Cell /\ Drop(cnt, refs) = [c \in Cell |-> Drop(cnt, refs)[c]]
    BY DEF Drop
  <1>3. \A c \in Cell : Drop(cnt, refs)[c] =
           IF c \in freed THEN 0 ELSE cnt[c] - Among(refs, c) - Links(node, freed, Pointer, c)
    BY PointingLinks DEF Drop
  <1> HIDE DEF freed
  <1>4. ASSUME NEW c \in Cell
        PROVE  /\ Drop(cnt, refs)[c] \in Nat
               /\ Drop(cnt, refs)[c] = Links(node, Cell \ freed, Pointer, c) + other[c] - Among(refs, c)
               /\ Drop(cnt, refs)[c] = 0 <=> c \notin Live \ freed
               /\ c \in freed => other[c] = Among(refs, c)
               /\ c \in freed => Links(node, Cell \ freed, Pointer, c) = 0
    <2> DEFINE every == Links(node, Cell, Pointer, c)
               from == Links(node, freed, Pointer, c)
               rest == Links(node, Cell \ freed, Pointer, c)
               a == Among(refs, c)
               o == other[c]
               k == cnt[c]
    <2>1. every = from + rest /\ every \in Nat /\ from \in Nat /\ rest \in Nat
      <3>1. freed \subseteq Cell /\ IsFiniteSet(Cell)
        BY <1>1 DEF Live, CellAssumption
      <3>2. IsFiniteSet(Pointer)
        BY TwoMembers
      <3> HIDE DEF every, from, rest
      <3>3. /\ Links(node, Cell, Pointer, c) =
                  Links(node, freed, Pointer, c) + Links(node, Cell \ freed, Pointer, c)
            /\ Links(node, freed, Pointer, c) \in Nat /\ Links(node, Cell \ freed, Pointer, c) \in Nat
            /\ Links(node, Cell, Pointer, c) \in Nat
        <4>1. ASSUME NEW A, NEW B, A \subseteq B, IsFiniteSet(B)
              PROVE  /\ Links(node, B, Pointer, c) =
                           Links(node, A, Pointer, c) + Links(node, B \ A, Pointer, c)
                     /\ Links(node, A, Pointer, c) \in Nat /\ Links(node, B \ A, Pointer, c) \in Nat
                     /\ Links(node, B, Pointer, c) \in Nat
          BY <3>2, <4>1, LinksFewer
        <4> QED
          BY <3>1, <4>1
      <3> QED
        BY <3>3 DEF every, from, rest
    <2>2. a \in Nat /\ o \in Nat /\ k \in Nat /\ k = every + o /\ a <= o
      BY AmongFinite DEF Droppable
    <2>3. c \in Live => (c \in freed <=> k <= a + from)
      BY <1>1
    <2>4. c \notin Live => k = 0 /\ c \notin freed
      BY <1>1 DEF Live, Droppable
    <2>5. Drop(cnt, refs)[c] = IF c \in freed THEN 0 ELSE k - a - from
      BY <1>3
    <2> HIDE DEF every, from, rest, a, o, k
    <2>6. CASE c \in freed
      <3>1. rest = 0 /\ o = a
        BY <1>1, <2>1, <2>2, <2>3, <2>6
      <3>2. Drop(cnt, refs)[c] = 0 /\ rest + o - a = 0
        BY <2>2, <2>5, <2>6, <3>1
      <3> QED
        BY <2>6, <3>1, <3>2 DEF rest, o, a
    <2>7. CASE c \in Live /\ c \notin freed
      <3>1. k - a - from > 0
        BY <2>1, <2>2, <2>3, <2>7
      <3>2. k - a - from = rest + o - a
        BY <2>1, <2>2
      <3>3. k - a - from \in Nat
        BY <2>1, <2>2, <3>1
      <3> QED
        BY <2>5, <2>7, <3>1, <3>2, <3>3 DEF rest, o, a
    <2>8. CASE c \notin Live
      <3>1. k = 0 /\ every = 0 /\ o = 0 /\ a = 0 /\ from = 0 /\ rest = 0
        BY <2>1, <2>2, <2>4, <2>8
      <3>2. k - a - from = 0 /\ rest + o - a = 0
        BY <3>1
      <3> QED
        BY <2>4, <2>5, <2>8, <3>2 DEF rest, o, a
    <2> QED
      BY <2>6, <2>7, <2>8
  <1>5. ASSUME NEW c \in Cell, NEW d \in freed, c \notin freed
        PROVE  node[c].next # d /\ node[c].children # d
    <2>1. d \in Cell
      BY <1>1 DEF Live
    <2>2. IsFiniteSet(Cell \ freed) /\ c \in Cell \ freed
      BY <1>5, FS_Difference DEF CellAssumption
    <2>3. Links(node, Cell \ freed, Pointer, d) = 0
      BY <1>4, <2>1
    <2>4. \A s \in Cell \ freed, m \in Pointer : node[s][m] # d
      BY <2>2, <2>3, LinksFinite, TwoMembers
    <2> QED
      BY <2>2, <2>4 DEF Pointer
  <1>6. Drop(cnt, refs) \in [Cell -> Nat]
    BY <1>2, <1>4
  <1> QED
    BY <1>1, <1>4, <1>5, <1>6 DEF freed

\* Dropping nothing changes nothing.
LEMMA DroppedNothing ==
    ASSUME CellAssumption, count \in [Cell -> Nat], NEW cnt, NEW refs, NEW other,
           Droppable(cnt, refs, other), \A i \in DOMAIN refs : refs[i] \notin Cell,
           \A c \in Cell : cnt[c] = count[c]
    PROVE  Freed(cnt, refs) = {} /\ \A c \in Cell : Drop(cnt, refs)[c] = cnt[c]
  <1>1. PICK g \in [Nat -> SUBSET Loose(cnt, refs)] :
           /\ g[0] = {}
           /\ \A n \in Nat : g[n + 1] =
                 {c \in Loose(cnt, refs) : cnt[c] <= Among(refs, c) + Pointing(g[n], c)}
           /\ Freed(cnt, refs) = g[Cardinality(Loose(cnt, refs))]
    BY FreedRounds
  <1>2. \A c \in Cell : Pointing({}, c) = 0 /\ Among(refs, c) = 0
    <2> SUFFICES ASSUME NEW c \in Cell
                 PROVE  Pointing({}, c) = 0 /\ Among(refs, c) = 0
      OBVIOUS
    <2>1. Links(node, {}, Pointer, c) = 0
      <3>1. IsFiniteSet({})
        BY FS_EmptySet
      <3> QED
        BY <3>1, LinksFinite, TwoMembers
    <2>2. Among(refs, c) = 0
      <3>1. IsFiniteSet(DOMAIN refs) /\ \A i \in DOMAIN refs : refs[i] # c
        BY DEF Droppable
      <3> QED
        BY <3>1, AmongFinite
    <2> QED
      BY <2>1, <2>2, PointingLinks
  <1>3. \A c \in Loose(cnt, refs) : c \in Cell /\ cnt[c] \in Nat /\ cnt[c] > 0
    BY DEF Loose, Live, Droppable
  <1> DEFINE I == {n \in Nat : g[n] = {}}
  <1>4. 0 \in I
    BY <1>1
  <1>5. ASSUME NEW n \in Nat, n \in I
        PROVE  n + 1 \in I
    <2>1. g[n + 1] = {c \in Loose(cnt, refs) : cnt[c] <= Among(refs, c) + Pointing({}, c)}
      BY <1>1, <1>5
    <2>2. ASSUME NEW c \in Loose(cnt, refs)
          PROVE  ~ (cnt[c] <= Among(refs, c) + Pointing({}, c))
      <3>1. cnt[c] \in Nat /\ cnt[c] > 0 /\ Among(refs, c) = 0 /\ Pointing({}, c) = 0
        BY <1>2, <1>3
      <3> QED
        BY <3>1
    <2> QED
      BY <2>1, <2>2
  <1>6. Nat \subseteq I
    <2> HIDE DEF I
    <2> QED
      BY <1>4, <1>5, SetInduction
  <1>7. Cardinality(Loose(cnt, refs)) \in Nat
    <2>1. Loose(cnt, refs) \in SUBSET Cell
      BY <1>3
    <2> QED
      BY <2>1, FS_Subset, FS_CardinalityType DEF CellAssumption
  <1>8. Freed(cnt, refs) = {}
    BY <1>1, <1>6, <1>7
  <1>9. ASSUME NEW c \in Cell
        PROVE  Drop(cnt, refs)[c] = cnt[c]
    <2>1. Drop(cnt, refs)[c] = cnt[c] - Among(refs, c) - Pointing({}, c)
      BY <1>8 DEF Drop
    <2>2. cnt[c] \in Nat
      BY DEF Droppable
    <2> QED
      BY <1>2, <2>1, <2>2
  <1> QED
    BY <1>8, <1>9

-----------------------------------------------------------------------------
(* The inductive invariant behind the counts.                              *)

\* What cells and loops hold.
NodeRecord == [use : Maybe(Id), children : Maybe(Cell), next : Maybe(Cell), it : Maybe(Cell)]
LoopRecord == [head : Cell, item : Maybe(Cell), seen : Seq(Cell)]
LoopsTyped ==
    /\ loops = [l \in DOMAIN loops |-> loops[l]]
    /\ DOMAIN loops \subseteq Loop /\ IsFiniteSet(DOMAIN loops)
    /\ \A l \in DOMAIN loops : loops[l] \in LoopRecord
Shape ==
    /\ NodesTyped /\ LoopsTyped /\ field \in [TextName -> Maybe(Cell)]
    /\ file \in Files /\ reading \in Nat

\* The references that are not pointers of nodes.
Stacked(c) == IF job = NULL THEN 0 ELSE Among(job.stack, c)
Others(c) ==
    Links(loops, DOMAIN loops, OfLoop, c) + Stacked(c) + Ind(c \in lost) + held[c] + Among(field, c)

\* Free cells are blank, every count is right, a condition is an id that was given
\* out, and the place a loop has reached can be reached from where it started.
BlankWhenFree == \A c \in Cell : count[c] = 0 => node[c] = Blank
CountsExact == \A c \in Cell : count[c] = Links(node, Cell, Pointer, c) + Others(c)
UsesGiven == \A c \in Cell : node[c].use # NULL => \E g \in given : g.id = node[c].use
NextClosed(T) == \A d \in T : node[d].next # NULL => node[d].next \in T
ItAhead ==
    \A c \in Cell : node[c].it # NULL =>
        \A T \in SUBSET Cell : c \in T /\ NextClosed(T) => node[c].it \in T

\* What is on the parser's stack and what hangs from it is young: every node has
\* one reference, the one it was built with, and nothing older points to it.
Young(Y) ==
    /\ Y \subseteq Cell /\ job.self \notin Y
    /\ \A i \in 1 .. Len(job.stack) : job.stack[i] \in Y
    /\ \A c \in Y : /\ count[c] = 1 /\ node[c].it = NULL
                    /\ node[c].next \in Maybe(Y) /\ node[c].children \in Maybe(Y)
    /\ \A c \in Cell \ Y : node[c].next \notin Y /\ node[c].children \notin Y

\* The numbers of items on the parser's stack, see IsText.
Depths(text, depth) ==
    /\ depth \in [0 .. Len(text.ops) -> 0 .. Len(text.ops)]
    /\ depth[0] = 0
    /\ \A n \in 1 .. Len(text.ops) :
          text.ops[n].take <= depth[n - 1] /\ depth[n] = depth[n - 1] - text.ops[n].take + 1

\* What a parser is made of.
ParserState == [text : AnyText, at : Nat, stack : Seq(Cell), self : Maybe(Cell)]
Parsing ==
    job # NULL =>
    /\ job \in ParserState /\ job.at \in 1 .. Len(job.text.ops) + 1
    /\ \E depth : Depths(job.text, depth) /\ Len(job.stack) = depth[job.at - 1]
    /\ \E Y : Young(Y)
    /\ job.self # NULL => held[job.self] = 1 /\ count[job.self] = 1 /\ node[job.self] = Blank
    /\ job.self = NULL => reading \in 1 .. Len(file) /\ Line.name \in TextName

\* The expressions of the ebuild are different ones, and not lost.
Roots ==
    /\ \A n, m \in TextName : field[n] # NULL /\ field[n] = field[m] => n = m
    /\ \A n \in TextName : field[n] \notin lost
Core == IInv /\ Shape /\ BlankWhenFree /\ CountsExact /\ UsesGiven /\ ItAhead /\ Parsing /\ Roots

\* There are five names of texts.
LEMMA TextNames == IsFiniteSet(TextName)
  <1>1. IsFiniteSet({"DEPEND"} \cup {"RDEPEND"} \cup {"PDEPEND"} \cup {"BDEPEND"} \cup {"REQUIRED_USE"})
    BY FS_Singleton, FS_Union
  <1>2. TextName = {"DEPEND"} \cup {"RDEPEND"} \cup {"PDEPEND"} \cup {"BDEPEND"} \cup {"REQUIRED_USE"}
    BY DEF TextName, DependName
  <1> QED
    BY <1>1, <1>2

\* A reference of each kind is a number, and there are finitely many of a kind.
LEMMA OthersNat ==
    ASSUME Shape, Parsing, NEW c \in Cell
    PROVE  /\ Links(loops, DOMAIN loops, OfLoop, c) \in Nat /\ Stacked(c) \in Nat
           /\ Ind(c \in lost) \in Nat /\ held[c] \in Nat /\ Among(field, c) \in Nat
           /\ Others(c) \in Nat
           /\ Links(loops, DOMAIN loops, OfLoop, c) <= Others(c) /\ Stacked(c) <= Others(c)
           /\ Ind(c \in lost) <= Others(c) /\ held[c] <= Others(c) /\ Among(field, c) <= Others(c)
  <1>1. Links(loops, DOMAIN loops, OfLoop, c) \in Nat
    BY LinksFinite, TwoMembers DEF Shape, LoopsTyped
  <1>2. Stacked(c) \in Nat
    <2>1. CASE job = NULL
      BY <2>1 DEF Stacked
    <2>2. CASE job # NULL
      <3>1. job.stack \in Seq(Cell)
        BY <2>2 DEF Parsing, ParserState
      <3>2. DOMAIN job.stack = 1 .. Len(job.stack) /\ Len(job.stack) \in Nat
        BY <3>1, LenProperties
      <3>3. IsFiniteSet(DOMAIN job.stack)
        BY <3>2, FS_Interval
      <3> QED
        BY <2>2, <3>3, AmongFinite DEF Stacked
    <2> QED
      BY <2>1, <2>2
  <1>3. Among(field, c) \in Nat
    <2>1. DOMAIN field = TextName
      BY DEF Shape
    <2> QED
      BY <2>1, TextNames, AmongFinite
  <1>4. Ind(c \in lost) \in Nat
    BY DEF Ind
  <1>5. held[c] \in Nat
    BY DEF Shape, NodesTyped
  <1>6. ASSUME NEW a \in Nat, NEW b \in Nat, NEW i \in Nat, NEW d \in Nat, NEW e \in Nat
        PROVE  LET s == a + b + i + d + e
               IN  s \in Nat /\ a <= s /\ b <= s /\ i <= s /\ d <= s /\ e <= s
    OBVIOUS
  <1> QED
    BY <1>1, <1>2, <1>3, <1>4, <1>5, <1>6 DEF Others

\* A sum of nothings is nothing.
LEMMA NothingAdded == 0 + 0 + 0 + 0 + 0 = 0
  OBVIOUS

\* The invariant holds at the start.
LEMMA InitCore == MetadataInit => Core
  <1> USE CellAssumption, FlagAssumption, HashAssumption, OverlapAssumption
  <1> SUFFICES ASSUME MetadataInit PROVE Core
    OBVIOUS
  <1>1. IInv
    BY InitIInv DEF MetadataInit
  <1>2. DOMAIN loops = {} /\ IsFiniteSet(DOMAIN loops) /\ loops = <<>>
    BY FS_EmptySet DEF MetadataInit, NoNodes
  <1>3. Blank \in NodeRecord
    BY DEF Blank, NodeRecord, Maybe
  <1>4. Shape
    <2>1. NodesTyped
      BY <1>2, <1>3 DEF MetadataInit, NoNodes, NodesTyped, NodeRecord
    <2>2. LoopsTyped
      BY <1>2 DEF LoopsTyped
    <2> QED
      BY <1>2, <2>1, <2>2 DEF MetadataInit, Shape, Maybe
  <1>5. Parsing
    BY DEF MetadataInit, NoNodes, Parsing
  <1>6. \A c \in Cell : node[c] = Blank /\ count[c] = 0 /\ held[c] = 0
    BY DEF MetadataInit, NoNodes
  <1>7. CountsExact
    <2> SUFFICES ASSUME NEW c \in Cell
                 PROVE  count[c] = Links(node, Cell, Pointer, c) + Others(c)
      BY DEF CountsExact
    <2>1. Links(node, Cell, Pointer, c) = 0
      <3>1. \A s \in Cell, m \in Pointer : node[s][m] # c
        BY <1>6 DEF Blank, Pointer
      <3> QED
        BY <3>1, LinksFinite, TwoMembers
    <2>2. Links(loops, DOMAIN loops, OfLoop, c) = 0
      BY <1>2, LinksFinite, TwoMembers
    <2>3. Among(field, c) = 0
      <3>1. DOMAIN field = TextName /\ \A n \in TextName : field[n] # c
        BY DEF MetadataInit
      <3> QED
        BY <3>1, AmongFinite, TextNames
    <2>4. Stacked(c) = 0 /\ Ind(c \in lost) = 0
      BY DEF MetadataInit, NoNodes, Stacked, Ind
    <2>5. Others(c) = 0 + 0 + 0 + 0 + 0
      BY <1>6, <2>2, <2>3, <2>4 DEF Others
    <2>6. Others(c) = 0
      BY ONLY <2>5, NothingAdded
    <2>7. count[c] = 0
      BY <1>6
    <2> QED
      BY <2>1, <2>6, <2>7
  <1>8. BlankWhenFree /\ UsesGiven /\ ItAhead
    BY <1>6 DEF BlankWhenFree, UsesGiven, ItAhead, Blank
  <1>9. Roots
    BY DEF MetadataInit, NoNodes, Roots
  <1> QED
    BY <1>1, <1>4, <1>5, <1>7, <1>8, <1>9 DEF Core

\* Nodes with the pointers and conditions that the ones in memory have.
SameButIt(nodes) ==
    \A c \in Cell : /\ nodes[c] \in NodeRecord
                    /\ nodes[c].next = node[c].next /\ nodes[c].children = node[c].children
                    /\ nodes[c].use = node[c].use

\* The heap after a release.
LEMMA HeapAfter ==
    ASSUME CellAssumption, Shape, NEW cnt, NEW refs, NEW other, Droppable(cnt, refs, other),
           NEW nodes, SameButIt(nodes), HeapIs(nodes, Drop(cnt, refs))
    PROVE  /\ node' \in [Cell -> NodeRecord] /\ count' \in [Cell -> Nat]
           /\ \A c \in Cell :
                 /\ count'[c] = 0 => node'[c] = Blank
                 /\ count'[c] # 0 => node'[c] = nodes[c] /\ c \in Live
                 /\ count'[c] = Links(node', Cell, Pointer, c) + other[c] - Among(refs, c)
                 /\ count'[c] = 0 => other[c] = Among(refs, c)
                 /\ count'[c] = 0 /\ count[c] # 0 => c \in Freed(cnt, refs)
                 /\ \A d \in Freed(cnt, refs) :
                       c \notin Freed(cnt, refs) => node[c].next # d /\ node[c].children # d
  <1> DEFINE freed == Freed(cnt, refs)
             after == Drop(cnt, refs)
  <1>0. count \in [Cell -> Nat]
    BY DEF Shape, NodesTyped
  <1>1. /\ freed \subseteq Live /\ after \in [Cell -> Nat]
        /\ \A c \in Cell :
              /\ after[c] = Links(node, Cell \ freed, Pointer, c) + other[c] - Among(refs, c)
              /\ after[c] = 0 <=> c \notin Live \ freed
              /\ c \in freed => other[c] = Among(refs, c)
              /\ \A d \in freed : c \notin freed => node[c].next # d /\ node[c].children # d
    BY <1>0, Dropped
  <1>2. count' = after /\ node' = [c \in Cell |-> IF after[c] = 0 THEN Blank ELSE nodes[c]]
    BY DEF HeapIs
  <1> HIDE DEF freed, after
  <1>3. Blank \in NodeRecord /\ Blank.next = NULL /\ Blank.children = NULL
    BY DEF Blank, NodeRecord, Maybe
  <1>4. \A c \in Cell : node'[c] = IF after[c] = 0 THEN Blank ELSE nodes[c]
    BY <1>2
  <1>5. node' \in [Cell -> NodeRecord]
    BY <1>2, <1>3 DEF SameButIt
  <1>6. freed \subseteq Cell /\ Live \subseteq Cell
    BY <1>1 DEF Live
  <1>7. ASSUME NEW c \in Cell
        PROVE  Links(node', Cell, Pointer, c) = Links(node, Cell \ freed, Pointer, c)
    <2>1. ASSUME NEW A, NEW B, A \subseteq B, IsFiniteSet(B)
          PROVE  /\ Links(node', B, Pointer, c) =
                       Links(node', A, Pointer, c) + Links(node', B \ A, Pointer, c)
                 /\ Links(node', A, Pointer, c) \in Nat /\ Links(node', B \ A, Pointer, c) \in Nat
      BY <2>1, LinksFewer, TwoMembers
    <2>2. IsFiniteSet(Cell) /\ c # NULL
      BY DEF CellAssumption
    <2>3. Links(node', freed, Pointer, c) = 0
      <3>1. \A s \in freed, m \in Pointer : node'[s][m] # c
        BY <1>1, <1>3, <1>4, <1>6, <2>2 DEF Pointer
      <3>2. IsFiniteSet(freed)
        BY <1>6, <2>2, FS_Subset
      <3> QED
        BY <3>1, <3>2, LinksFinite, TwoMembers
    <2>4. Links(node', Cell \ freed, Pointer, c) = Links(node, Cell \ freed, Pointer, c)
      <3>1. ASSUME NEW s \in Cell \ freed, NEW m \in Pointer
            PROVE  node'[s][m] = node[s][m]
        <4>1. CASE s \in Live
          <5>1. node'[s] = nodes[s]
            BY <1>1, <1>4, <4>1
          <5> QED
            BY <5>1 DEF SameButIt, Pointer
        <4>2. CASE s \notin Live
          <5>1. node'[s] = Blank
            BY <1>1, <1>4, <4>2
          <5>2. count[s] = 0
            BY <4>2, <1>0 DEF Live
          <5>3. node[s] = Blank
            BY <5>2 DEF Droppable
          <5> QED
            BY <5>1, <5>3
        <4> QED
          BY <4>1, <4>2
      <3> DEFINE S == Cell \ freed
      <3>2. \A s \in S, m \in Pointer : node'[s][m] = node[s][m]
        BY <3>1
      <3> HIDE DEF S
      <3>3. Links(node', S, Pointer, c) = Links(node, S, Pointer, c)
        BY <3>2, LinksSame
      <3> QED
        BY <3>3 DEF S
    <2>5. /\ Links(node', Cell, Pointer, c) =
                Links(node', freed, Pointer, c) + Links(node', Cell \ freed, Pointer, c)
          /\ Links(node', Cell \ freed, Pointer, c) \in Nat
      BY <1>6, <2>1, <2>2
    <2> QED
      BY <2>3, <2>4, <2>5
  <1>8. ASSUME NEW c \in Cell
        PROVE  /\ count'[c] = 0 => node'[c] = Blank
               /\ count'[c] # 0 => node'[c] = nodes[c] /\ c \in Live
               /\ count'[c] = Links(node', Cell, Pointer, c) + other[c] - Among(refs, c)
               /\ count'[c] = 0 => other[c] = Among(refs, c)
               /\ count'[c] = 0 /\ count[c] # 0 => c \in freed
               /\ \A d \in freed : c \notin freed => node[c].next # d /\ node[c].children # d
    <2>1. /\ count'[c] = 0 => node'[c] = Blank
          /\ count'[c] # 0 => node'[c] = nodes[c] /\ c \in Live
      BY <1>1, <1>2, <1>4
    <2>2. count'[c] = Links(node', Cell, Pointer, c) + other[c] - Among(refs, c)
      BY <1>1, <1>2, <1>7
    <2>3. count'[c] = 0 => other[c] = Among(refs, c)
      <3>1. CASE c \in Live
        BY <1>1, <1>2, <3>1
      <3>2. CASE c \notin Live
        <4>1. cnt[c] = 0
          BY <1>0, <3>2 DEF Droppable, Live
        <4>2. Links(node, Cell, Pointer, c) \in Nat /\ other[c] \in Nat /\ Among(refs, c) \in Nat
          BY LinksFinite, TwoMembers, AmongFinite DEF Droppable, CellAssumption
        <4> QED
          BY <4>1, <4>2 DEF Droppable
      <3> QED
        BY <3>1, <3>2
    <2>4. count'[c] = 0 /\ count[c] # 0 => c \in freed
      BY <1>0, <1>1, <1>2 DEF Live
    <2>5. \A d \in freed : c \notin freed => node[c].next # d /\ node[c].children # d
      BY <1>1
    <2> QED
      BY <2>1, <2>2, <2>3, <2>4, <2>5
  <1> QED
    BY <1>1, <1>2, <1>5, <1>8 DEF freed

\* The places that loops reached, after a release: they stay, are taken back, or
\* go one node on.
Onward(nodes) ==
    \A c \in Cell : nodes[c].it # NULL =>
        \/ nodes[c].it = node[c].it
        \/ nodes[c].it = c
        \/ node[c].it # NULL /\ nodes[c].it = node[node[c].it].next

\* They can still be reached from where the loops started.
LEMMA ItAheadAfter ==
    ASSUME CellAssumption, Shape, ItAhead, NEW cnt, NEW refs, NEW other, Droppable(cnt, refs, other),
           NEW nodes, SameButIt(nodes), Onward(nodes), HeapIs(nodes, Drop(cnt, refs)),
           \A c \in Cell : Among(refs, c) <= other[c]
    PROVE  ItAhead'
  <1>1. /\ node' \in [Cell -> NodeRecord] /\ count' \in [Cell -> Nat]
        /\ \A c \in Cell :
              /\ count'[c] = 0 => node'[c] = Blank
              /\ count'[c] # 0 => node'[c] = nodes[c]
              /\ count'[c] = Links(node', Cell, Pointer, c) + other[c] - Among(refs, c)
    BY HeapAfter
  <1>2. SUFFICES ASSUME NEW c \in Cell, node'[c].it # NULL,
                      NEW T \in SUBSET Cell, c \in T, NextClosed(T)'
               PROVE  node'[c].it \in T
    BY DEF ItAhead
  <1> DEFINE U == {d \in T : count'[d] # 0}
  <1>3. \A d \in T : node'[d].next # NULL => node'[d].next \in T
    BY <1>2 DEF NextClosed
  <1>4. ASSUME NEW d \in Cell, NEW e \in Cell, node'[d].next = e
        PROVE  count'[e] # 0
    <2>1. Links(node', Cell, Pointer, e) \in Nat /\ Links(node', Cell, Pointer, e) # 0
      BY <1>4, LinksFinite, TwoMembers DEF CellAssumption, Pointer
    <2>2. Among(refs, e) \in Nat /\ other[e] \in Nat /\ Among(refs, e) <= other[e]
      BY AmongFinite DEF Droppable
    <2>3. count'[e] = Links(node', Cell, Pointer, e) + other[e] - Among(refs, e)
      BY <1>1
    <2> QED
      BY <2>1, <2>2, <2>3
  <1>5. NextClosed(U)
    <2> SUFFICES ASSUME NEW d \in U, node[d].next # NULL
                 PROVE  node[d].next \in U
      BY DEF NextClosed
    <2>1. node'[d].next = node[d].next
      BY <1>1 DEF SameButIt
    <2>2. node'[d].next \in T
      BY <1>3, <2>1
    <2> QED
      BY <1>4, <2>1, <2>2
  <1>6. Blank.it = NULL
    BY DEF Blank
  <1>7. c \in U /\ node'[c] = nodes[c]
    BY <1>1, <1>2, <1>6
  <1>8. node[c].it # NULL => node[c].it \in U
    <2>1. U \in SUBSET Cell
      OBVIOUS
    <2> HIDE DEF U
    <2> QED
      BY <1>5, <1>7, <2>1 DEF ItAhead
  <1>9. node[c].it # NULL /\ node[node[c].it].next # NULL => node[node[c].it].next \in U
    BY <1>5, <1>8 DEF NextClosed
  <1>10. nodes[c].it \in U
    <2> HIDE DEF U
    <2> QED
      BY <1>2, <1>7, <1>8, <1>9 DEF Onward
  <1> QED
    BY <1>7, <1>10

\* A release, after which no parser is at work.
LEMMA DropStep ==
    ASSUME CellAssumption, Core, UNCHANGED <<vars, file>>, job' = NULL, lost' \subseteq Cell, reading' \in Nat,
           NEW cnt, NEW refs, NEW other, Droppable(cnt, refs, other),
           NEW nodes, SameButIt(nodes), Onward(nodes), HeapIs(nodes, Drop(cnt, refs)),
           held' \in [Cell -> Nat], LoopsTyped', field' \in [TextName -> Maybe(Cell)], Roots',
           \A c \in Cell : Others(c)' = other[c] - Among(refs, c)
    PROVE  Core'
  <1>1. /\ node' \in [Cell -> NodeRecord] /\ count' \in [Cell -> Nat]
        /\ \A c \in Cell :
              /\ count'[c] = 0 => node'[c] = Blank
              /\ count'[c] # 0 => node'[c] = nodes[c]
              /\ count'[c] = Links(node', Cell, Pointer, c) + other[c] - Among(refs, c)
    BY HeapAfter DEF Core
  <1>2. IInv'
    BY DEF Core, vars, IInv, TypeOK, TableSound, GivenIdsStored
  <1>3. NodesTyped'
    BY <1>1 DEF Core, Shape, NodesTyped, NodeRecord, LoopsTyped
  <1>4. Shape'
    BY <1>3 DEF Core, Shape
  <1>5. BlankWhenFree'
    BY <1>1 DEF BlankWhenFree
  <1>6. CountsExact'
    <2> SUFFICES ASSUME NEW c \in Cell
                 PROVE  count'[c] = Links(node', Cell, Pointer, c) + Others(c)'
      BY DEF CountsExact, Links, LinkSet
    <2>1. /\ Links(node', Cell, Pointer, c) \in Nat
          /\ Among(refs, c) \in Nat /\ other[c] \in Nat
      BY LinksFinite, TwoMembers, AmongFinite DEF CellAssumption, Droppable
    <2>2. /\ count'[c] = Links(node', Cell, Pointer, c) + other[c] - Among(refs, c)
          /\ Others(c)' = other[c] - Among(refs, c)
      BY <1>1
    <2> QED
      BY <2>1, <2>2
  <1>7. UsesGiven'
    <2> SUFFICES ASSUME NEW c \in Cell, node'[c].use # NULL
                 PROVE  \E g \in given' : g.id = node'[c].use
      BY DEF UsesGiven
    <2>1. Blank.use = NULL
      BY DEF Blank
    <2>2. node'[c] = nodes[c] /\ node[c].use = node'[c].use
      BY <1>1, <2>1 DEF SameButIt
    <2>3. given' = given
      BY DEF vars
    <2> QED
      BY <2>2, <2>3 DEF Core, UsesGiven
  <1>8. ItAhead'
    BY ItAheadAfter DEF Core, Droppable
  <1>9. Parsing'
    BY DEF Parsing
  <1> QED
    BY <1>2, <1>4, <1>5, <1>6, <1>7, <1>8, <1>9 DEF Core

\* The nodes that are referred to are in memory, and so is what they point to.
LEMMA Referred ==
    ASSUME CellAssumption, Shape, Parsing, CountsExact
    PROVE  /\ \A c \in Cell : Others(c) # 0 => c \in Live
           /\ \A c, d \in Cell : node[c].next = d \/ node[c].children = d => d \in Live
           /\ \A l \in DOMAIN loops : loops[l].head \in Live /\ loops[l].item \in Maybe(Live)
           /\ \A n \in TextName : field[n] \in Maybe(Live)
  <1>1. ASSUME NEW c \in Cell
        PROVE  /\ count[c] = Links(node, Cell, Pointer, c) + Others(c) /\ count[c] \in Nat
               /\ Links(node, Cell, Pointer, c) \in Nat /\ Others(c) \in Nat
    <2>1. Links(node, Cell, Pointer, c) \in Nat
      BY LinksFinite, TwoMembers DEF CellAssumption
    <2> QED
      BY <2>1, OthersNat DEF CountsExact, Shape, NodesTyped
  <1>2. ASSUME NEW c \in Cell, Others(c) # 0
        PROVE  c \in Live
    BY <1>1, <1>2 DEF Live
  <1>3. ASSUME NEW c \in Cell, NEW d \in Cell, node[c].next = d \/ node[c].children = d
        PROVE  d \in Live
    <2>1. Links(node, Cell, Pointer, d) # 0
      <3>1. \E m \in Pointer : node[c][m] = d
        BY <1>3 DEF Pointer
      <3> QED
        BY <3>1, LinksFinite, TwoMembers DEF CellAssumption
    <2> QED
      BY <1>1, <2>1 DEF Live
  <1>4. ASSUME NEW l \in DOMAIN loops, NEW c \in Cell, loops[l].head = c \/ loops[l].item = c
        PROVE  c \in Live
    <2>1. Links(loops, DOMAIN loops, OfLoop, c) # 0
      <3>1. \E m \in OfLoop : loops[l][m] = c
        BY <1>4 DEF OfLoop
      <3> QED
        BY <3>1, LinksFinite, TwoMembers DEF Shape, LoopsTyped
    <2>2. Others(c) # 0
      BY <2>1, OthersNat
    <2> QED
      BY <1>2, <2>2
  <1>5. ASSUME NEW n \in TextName, NEW c \in Cell, field[n] = c
        PROVE  c \in Live
    <2>1. Among(field, c) # 0
      <3>1. DOMAIN field = TextName
        BY DEF Shape
      <3> QED
        BY <1>5, <3>1, TextNames, AmongFinite
    <2>2. Others(c) # 0
      BY <2>1, OthersNat
    <2> QED
      BY <1>2, <2>2
  <1>6. \A l \in DOMAIN loops : loops[l].head \in Cell /\ loops[l].item \in Maybe(Cell)
    BY DEF Shape, LoopsTyped, LoopRecord
  <1>7. \A n \in TextName : field[n] \in Maybe(Cell)
    BY DEF Shape
  <1> QED
    BY <1>2, <1>3, <1>4, <1>5, <1>6, <1>7 DEF Maybe

\* The node a loop comes to next is in memory.
LEMMA ItLive ==
    ASSUME CellAssumption, Shape, Parsing, CountsExact, ItAhead, NEW c \in Live
    PROVE  node[c].it \in Maybe(Live)
  <1>1. Live \in SUBSET Cell
    BY DEF Live
  <1>2. NextClosed(Live)
    <2> SUFFICES ASSUME NEW d \in Live, node[d].next # NULL
                 PROVE  node[d].next \in Live
      BY DEF NextClosed
    <2>1. d \in Cell /\ node[d].next \in Cell
      BY <1>1 DEF Shape, NodesTyped, Maybe
    <2> QED
      BY <2>1, Referred
  <1> QED
    BY <1>1, <1>2 DEF ItAhead, Maybe

\* The other references while nothing but loops, variables or fields change.
LEMMA OthersIdle ==
    ASSUME job = NULL, job' = NULL, lost' = lost, NEW c \in Cell
    PROVE  /\ Others(c) = Links(loops, DOMAIN loops, OfLoop, c) + 0 + Ind(c \in lost) + held[c] + Among(field, c)
           /\ Others(c)' = Links(loops', DOMAIN loops', OfLoop, c) + 0 + Ind(c \in lost)
                           + held'[c] + Among(field', c)
  <1>1. Stacked(c) = 0 /\ Stacked(c)' = 0
    BY DEF Stacked
  <1>2. Others(c)' = Links(loops', DOMAIN loops', OfLoop, c) + Stacked(c)' + Ind(c \in lost)
                     + held'[c] + Among(field', c)
    BY DEF Others, Links, LinkSet, Ind, Among
  <1> QED
    BY <1>1, <1>2 DEF Others

\* The nodes in memory, unchanged.
LEMMA SameNodes ==
    ASSUME Shape
    PROVE  SameButIt(node) /\ Onward(node)
  BY DEF Shape, NodesTyped, SameButIt, Onward, NodeRecord

\* Python forgets a variable.
LEMMA ForgetCore ==
    ASSUME CellAssumption, Core, NEW c \in Cell, Forget(c), UNCHANGED ebuild
    PROVE  Core'
  <1> USE CellAssumption
  <1> DEFINE other == [x \in Cell |-> Others(x)]
             refs == <<c>>
  <1>1. /\ held[c] > 0 /\ held' = [held EXCEPT ![c] = @ - 1]
        /\ HeapIs(node, Drop(count, refs)) /\ loops' = loops
        /\ job = NULL /\ job' = NULL
        /\ UNCHANGED <<vars, lost, file, reading, field>>
    BY DEF Forget, Idle, ebuild
  <1>2. Shape /\ Parsing /\ CountsExact
    BY DEF Core
  <1>3. held \in [Cell -> Nat] /\ count \in [Cell -> Nat]
    BY <1>2 DEF Shape, NodesTyped
  <1>4. held' \in [Cell -> Nat] /\ \A x \in Cell : held'[x] = held[x] - Ind(c = x)
    BY <1>1, <1>3 DEF Ind
  <1>5. IsFiniteSet(DOMAIN refs) /\ \A x : Among(refs, x) = Ind(c = x)
    BY OneRef
  <1> HIDE DEF refs
  <1>6. \A x \in Cell : other[x] \in Nat /\ Ind(c = x) <= other[x]
    <2> SUFFICES ASSUME NEW x \in Cell
                 PROVE  Others(x) \in Nat /\ Ind(c = x) <= Others(x)
      OBVIOUS
    <2>1. Others(x) \in Nat /\ held[x] \in Nat /\ held[x] <= Others(x)
      BY <1>2, OthersNat
    <2>2. Ind(c = x) <= held[x]
      BY <1>1, <1>3 DEF Ind
    <2> QED
      BY <2>1, <2>2, InRange
  <1>7. Droppable(count, refs, other)
    BY <1>2, <1>3, <1>5, <1>6 DEF Droppable, CountsExact, Core, BlankWhenFree
  <1>8. \A x \in Cell : Others(x)' = other[x] - Among(refs, x)
    <2> SUFFICES ASSUME NEW x \in Cell
                 PROVE  Others(x)' = Others(x) - Ind(c = x)
      BY <1>5
    <2>1. /\ Others(x) = Links(loops, DOMAIN loops, OfLoop, x) + 0 + Ind(x \in lost) + held[x] + Among(field, x)
          /\ Others(x)' = Links(loops', DOMAIN loops', OfLoop, x) + 0 + Ind(x \in lost)
                          + held'[x] + Among(field', x)
      BY <1>1, OthersIdle
    <2>2. /\ Links(loops, DOMAIN loops, OfLoop, x) \in Nat /\ Ind(x \in lost) \in Nat
          /\ held[x] \in Nat /\ Among(field, x) \in Nat
      BY <1>2, OthersNat
    <2>3. Others(x)' = Links(loops, DOMAIN loops, OfLoop, x) + 0 + Ind(x \in lost)
                       + (held[x] - Ind(c = x)) + Among(field, x)
      BY <1>1, <1>4, <2>1
    <2> QED
      BY <2>1, <2>2, <2>3, InRange
  <1>9. LoopsTyped' /\ field' \in [TextName -> Maybe(Cell)] /\ Roots'
    BY <1>1 DEF Core, Shape, LoopsTyped, Roots
  <1>10. SameButIt(node) /\ Onward(node)
    BY <1>2, SameNodes
  <1> HIDE DEF other
  <1>20. lost' \subseteq Cell /\ reading' \in Nat
    BY <1>1, <1>2 DEF Shape, NodesTyped
  <1> QED
    BY <1>1, <1>4, <1>7, <1>8, <1>9, <1>10, <1>20, DropStep

\* A loop ends and releases its head and its item.
LEMMA EndLoopCore ==
    ASSUME CellAssumption, Core, NEW l \in DOMAIN loops, EndLoop(l), UNCHANGED ebuild
    PROVE  Core'
  <1> USE CellAssumption
  <1> DEFINE other == [x \in Cell |-> Others(x)]
             item == loops[l].item
             head == loops[l].head
             refs == <<item, head>>
             D == (DOMAIN loops) \ {l}
  <1>1. /\ loops' = [m \in D |-> loops[m]]
        /\ HeapIs(node, Drop(count, refs)) /\ held' = held
        /\ job = NULL /\ job' = NULL
        /\ UNCHANGED <<vars, lost, file, reading, field>>
    BY DEF EndLoop, Idle, ebuild
  <1>2. Shape /\ Parsing /\ CountsExact /\ LoopsTyped
    BY DEF Core, Shape
  <1>3. held \in [Cell -> Nat] /\ count \in [Cell -> Nat]
    BY <1>2 DEF Shape, NodesTyped
  <1>4. IsFiniteSet(DOMAIN refs) /\ \A x : Among(refs, x) = Ind(item = x) + Ind(head = x)
    <2> HIDE DEF item, head
    <2> QED
      BY TwoRefs
  <1>5. DOMAIN loops' = D /\ IsFiniteSet(D) /\ IsFiniteSet(DOMAIN loops) /\ l \notin D /\ D \cup {l} = DOMAIN loops
    BY <1>1, <1>2, FS_RemoveElement DEF LoopsTyped
  <1> HIDE DEF refs, item, head
  <1>6. ASSUME NEW x \in Cell
        PROVE  /\ Links(loops, DOMAIN loops, OfLoop, x) =
                     Links(loops', DOMAIN loops', OfLoop, x) + Ind(item = x) + Ind(head = x)
               /\ Links(loops', DOMAIN loops', OfLoop, x) \in Nat
    <2>1. Links(loops', D, OfLoop, x) = Links(loops, D, OfLoop, x)
      <3>1. \A m \in D, f \in OfLoop : loops'[m][f] = loops[m][f]
        BY <1>1
      <3> HIDE DEF D
      <3> QED
        BY <3>1, LinksSame
    <2>2. Links(loops, D \cup {l}, OfLoop, x) = Links(loops, D, OfLoop, x) + Ind(head = x) + Ind(item = x)
      <3> HIDE DEF D
      <3> QED
        BY <1>5, LinksAdd DEF head, item
    <2>3. Links(loops, D, OfLoop, x) \in Nat
      <3> HIDE DEF D
      <3> QED
        BY <1>5, LinksFinite, TwoMembers
    <2> HIDE DEF D
    <2> QED
      BY <1>5, <2>1, <2>2, <2>3, InRange
  <1>7. \A x \in Cell : other[x] \in Nat /\ Ind(item = x) + Ind(head = x) <= other[x]
    <2> SUFFICES ASSUME NEW x \in Cell
                 PROVE  Others(x) \in Nat /\ Ind(item = x) + Ind(head = x) <= Others(x)
      OBVIOUS
    <2>1. Others(x) \in Nat /\ Links(loops, DOMAIN loops, OfLoop, x) <= Others(x)
          /\ Links(loops, DOMAIN loops, OfLoop, x) \in Nat
      BY <1>2, OthersNat
    <2> HIDE DEF D
    <2> QED
      BY <1>6, <2>1, InRange
  <1>8. Droppable(count, refs, other)
    BY <1>2, <1>3, <1>4, <1>7 DEF Droppable, CountsExact, Core, BlankWhenFree
  <1>9. \A x \in Cell : Others(x)' = other[x] - Among(refs, x)
    <2> SUFFICES ASSUME NEW x \in Cell
                 PROVE  Others(x)' = other[x] - Among(refs, x)
      OBVIOUS
    <2> HIDE DEF D
    <2>1. /\ Others(x) = Links(loops, DOMAIN loops, OfLoop, x) + 0 + Ind(x \in lost) + held[x] + Among(field, x)
          /\ Others(x)' = Links(loops', DOMAIN loops', OfLoop, x) + 0 + Ind(x \in lost)
                          + held'[x] + Among(field', x)
      BY <1>1, OthersIdle
    <2>2. /\ Links(loops, DOMAIN loops, OfLoop, x) \in Nat /\ Ind(x \in lost) \in Nat
          /\ held[x] \in Nat /\ Among(field, x) \in Nat
      BY <1>2, OthersNat
    <2>3. Others(x)' = Links(loops', DOMAIN loops', OfLoop, x) + 0 + Ind(x \in lost)
                       + held[x] + Among(field, x)
      BY <1>1, <2>1
    <2> DEFINE k == Links(loops', DOMAIN loops', OfLoop, x)
               p == Ind(item = x)
               q == Ind(head = x)
               d == Ind(x \in lost)
               h == held[x]
               f == Among(field, x)
    <2>4. Others(x) = k + p + q + 0 + d + h + f /\ Others(x)' = k + 0 + d + h + f
      BY <1>6, <2>1, <2>3
    <2>5. k \in Nat /\ p \in Nat /\ q \in Nat /\ d \in Nat /\ h \in Nat /\ f \in Nat
      BY <1>6, <2>2, InRange
    <2> HIDE DEF k, p, q, d, h, f
    <2>6. Others(x)' = Others(x) - (p + q)
      BY ONLY <2>4, <2>5
    <2>7. other[x] = Others(x)
      OBVIOUS
    <2>8. Among(refs, x) = p + q
      BY <1>4 DEF p, q
    <2> HIDE DEF other
    <2> QED
      BY <2>6, <2>7, <2>8
  <1>10. LoopsTyped'
    BY <1>1, <1>2, <1>5 DEF LoopsTyped
  <1>11. field' \in [TextName -> Maybe(Cell)] /\ Roots' /\ held' \in [Cell -> Nat]
    BY <1>1, <1>3 DEF Core, Shape, Roots
  <1>12. SameButIt(node) /\ Onward(node)
    BY <1>2, SameNodes
  <1> HIDE DEF other, D
  <1>20. lost' \subseteq Cell /\ reading' \in Nat
    BY <1>1, <1>2 DEF Shape, NodesTyped
  <1> QED
    BY <1>1, <1>8, <1>9, <1>10, <1>11, <1>12, <1>20, DropStep

\* A loop that takes one reference and leaves another: what the others hold
\* gains the one and loses the other.
LEMMA LoopBalance ==
  ASSUME NEW k \in Nat, NEW n \in Nat, NEW d \in Nat, NEW e \in Nat, NEW f \in Nat,
         NEW o \in Nat, NEW i \in Nat, NEW p, NEW q,
         p = k + 0 + d + e + f, q = n + 0 + d + e + f, n + i = k + o
  PROVE  q = p + o - i
  OBVIOUS

\* A loop takes the next item and releases the last one.
LEMMA LoopNextCore ==
    ASSUME CellAssumption, Core, NEW l \in DOMAIN loops, LoopNext(l), UNCHANGED ebuild
    PROVE  Core'
  <1> USE CellAssumption
  <1> DEFINE item == loops[l].item
             head == loops[l].head
             out == node[head].it
             refs == <<item>>
             cnt == [count EXCEPT ![out] = @ + 1]
             nodes == [node EXCEPT ![head].it = node[out].next]
             other == [x \in Cell |-> Others(x) + Ind(out = x)]
  <1>1. /\ out # NULL
        /\ loops' = [loops EXCEPT ![l].item = out, ![l].seen = Append(@, out)]
        /\ HeapIs(nodes, Drop(cnt, refs)) /\ held' = held
        /\ job = NULL /\ job' = NULL
        /\ UNCHANGED <<vars, lost, file, reading, field>>
    BY DEF LoopNext, Idle, ebuild
  <1>2. Shape /\ Parsing /\ CountsExact /\ LoopsTyped /\ ItAhead
    BY DEF Core, Shape
  <1>3. /\ held \in [Cell -> Nat] /\ count \in [Cell -> Nat]
        /\ node \in [Cell -> NodeRecord]
    BY <1>2 DEF Shape, NodesTyped, NodeRecord
  <1>4. head \in Live /\ out \in Live /\ out \in Cell /\ head \in Cell
    <2>1. head \in Live
      BY <1>2, Referred
    <2>2. out \in Maybe(Live)
      BY <1>2, <2>1, ItLive
    <2> QED
      BY <1>1, <2>1, <2>2 DEF Maybe, Live
  <1>5. IsFiniteSet(DOMAIN refs) /\ \A x : Among(refs, x) = Ind(item = x)
    <2> HIDE DEF item
    <2> QED
      BY OneRef
  <1>6. SameButIt(nodes) /\ Onward(nodes)
    <2>1. node[out].next \in Maybe(Cell)
      BY <1>3, <1>4 DEF NodeRecord
    <2>2. ASSUME NEW c \in Cell
          PROVE  /\ nodes[c] \in NodeRecord
                 /\ nodes[c].next = node[c].next /\ nodes[c].children = node[c].children
                 /\ nodes[c].use = node[c].use
                 /\ c # head => nodes[c].it = node[c].it
                 /\ c = head => nodes[c].it = node[out].next
      <3> HIDE DEF out, head
      <3>1. node[c] \in NodeRecord
        BY <1>3
      <3>2. nodes[c] = IF c = head THEN [node[c] EXCEPT !.it = node[out].next] ELSE node[c]
        BY <1>3
      <3> QED
        BY <2>1, <3>1, <3>2 DEF NodeRecord
    <2> HIDE DEF nodes
    <2> QED
      BY <1>1, <2>2 DEF SameButIt, Onward
  <1>7. DOMAIN cnt = Cell /\ cnt \in [Cell -> Nat] /\ \A x \in Cell : cnt[x] = count[x] + Ind(out = x)
    <2> HIDE DEF out
    <2> QED
      BY <1>3, <1>4 DEF Ind
  <1> HIDE DEF cnt, nodes, refs
  <1>8. /\ DOMAIN loops' = DOMAIN loops
        /\ loops' = [m \in DOMAIN loops |->
                        IF m = l THEN [head |-> head, item |-> out, seen |-> Append(loops[l].seen, out)]
                        ELSE loops[m]]
    <2>1. loops[l] \in LoopRecord
      BY <1>2 DEF LoopsTyped
    <2>2. [loops[l] EXCEPT !.item = out, !.seen = Append(@, out)] =
             [head |-> head, item |-> out, seen |-> Append(loops[l].seen, out)]
      <3>1. ASSUME NEW r \in LoopRecord, NEW v
            PROVE  [r EXCEPT !.item = v, !.seen = Append(@, v)] =
                      [head |-> r.head, item |-> v, seen |-> Append(r.seen, v)]
        <4>1. r = [head |-> r.head, item |-> r.item, seen |-> r.seen]
          BY DEF LoopRecord
        <4> DEFINE new == [r EXCEPT !.item = v, !.seen = Append(@, v)]
        <4>2. DOMAIN r = {"head", "item", "seen"}
          BY DEF LoopRecord
        <4>3. new = [n \in {"head", "item", "seen"} |-> new[n]]
          BY <4>2
        <4>4. new.head = r.head /\ new.item = v /\ new.seen = Append(r.seen, v)
          BY <4>2
        <4> HIDE DEF new
        <4>5. new = [head |-> new.head, item |-> new.item, seen |-> new.seen]
          BY <4>3
        <4> QED
          BY <4>4, <4>5 DEF new
      <3> QED
        BY <2>1, <3>1
    <2>3. loops' = [m \in DOMAIN loops |->
                       IF m = l THEN [loops[l] EXCEPT !.item = out, !.seen = Append(@, out)] ELSE loops[m]]
      <3> HIDE DEF out
      <3> QED
        BY <1>1, <1>2 DEF LoopsTyped
    <2> HIDE DEF out, head
    <2> QED
      BY <2>2, <2>3
  <1> HIDE DEF item, head, out
  <1>9. LoopsTyped'
    <2>1. loops[l] \in LoopRecord
      BY <1>2 DEF LoopsTyped
    <2>2. [head |-> head, item |-> out, seen |-> Append(loops[l].seen, out)] \in LoopRecord
      <3>1. loops[l].seen \in Seq(Cell)
        BY <2>1 DEF LoopRecord
      <3>2. Append(loops[l].seen, out) \in Seq(Cell)
        BY <1>4, <3>1, AppendProperties
      <3> QED
        BY <1>4, <3>2 DEF LoopRecord, Maybe
    <2> QED
      BY <1>2, <1>8, <2>2 DEF LoopsTyped
  <1>10. ASSUME NEW x \in Cell
         PROVE  Links(loops', DOMAIN loops', OfLoop, x) + Ind(item = x) =
                   Links(loops, DOMAIN loops, OfLoop, x) + Ind(out = x)
    <2> DEFINE D == (DOMAIN loops) \ {l}
    <2>1. IsFiniteSet(D) /\ l \notin D /\ D \cup {l} = DOMAIN loops
      BY <1>2, FS_RemoveElement DEF LoopsTyped
    <2>2. \A m \in D, f \in OfLoop : loops'[m][f] = loops[m][f]
      BY <1>8
    <2> HIDE DEF D
    <2>3. Links(loops', D, OfLoop, x) = Links(loops, D, OfLoop, x)
      BY <2>2, LinksSame
    <2>4. Links(loops, D \cup {l}, OfLoop, x) = Links(loops, D, OfLoop, x) + Ind(head = x) + Ind(item = x)
      BY <2>1, LinksAdd DEF head, item
    <2>5. Links(loops', D \cup {l}, OfLoop, x) =
             Links(loops', D, OfLoop, x) + Ind(loops'[l].head = x) + Ind(loops'[l].item = x)
      BY <2>1, LinksAdd
    <2>6. loops'[l].head = head /\ loops'[l].item = out
      BY <1>8
    <2>7. Links(loops, D, OfLoop, x) \in Nat
      BY <2>1, LinksFinite, TwoMembers
    <2> QED
      BY <1>8, <2>1, <2>3, <2>4, <2>5, <2>6, <2>7, InRange
  <1>11. ASSUME NEW x \in Cell
         PROVE  /\ Others(x) \in Nat /\ Ind(item = x) <= Others(x)
                /\ other[x] = Others(x) + Ind(out = x)
    <2>1. Others(x) \in Nat /\ Links(loops, DOMAIN loops, OfLoop, x) <= Others(x)
          /\ Links(loops, DOMAIN loops, OfLoop, x) \in Nat
      BY <1>2, OthersNat
    <2>2. item = x => Links(loops, DOMAIN loops, OfLoop, x) # 0
      <3>1. item = x => \E f \in OfLoop : loops[l][f] = x
        BY DEF item, OfLoop
      <3> QED
        BY <1>2, <3>1, LinksFinite, TwoMembers DEF LoopsTyped
    <2>3. Ind(item = x) <= Others(x)
      BY <2>1, <2>2 DEF Ind
    <2> QED
      BY <2>1, <2>3
  <1>12. Droppable(cnt, refs, other)
    <2>1. other \in [Cell -> Nat]
      BY <1>11, InRange
    <2>2. ASSUME NEW x \in Cell
          PROVE  /\ cnt[x] = Links(node, Cell, Pointer, x) + other[x]
                 /\ Among(refs, x) <= other[x]
                 /\ count[x] = 0 => node[x] = Blank /\ cnt[x] = 0
      <3>1. Links(node, Cell, Pointer, x) \in Nat
        BY LinksFinite, TwoMembers
      <3>2. count[x] = Links(node, Cell, Pointer, x) + Others(x)
        BY <1>2 DEF CountsExact
      <3>3. count[x] = 0 => Ind(out = x) = 0
        BY <1>4 DEF Ind, Live
      <3>4. count[x] = 0 => node[x] = Blank
        BY DEF Core, BlankWhenFree
      <3> QED
        BY <1>5, <1>7, <1>11, <3>1, <3>2, <3>3, <3>4, InRange
    <2> QED
      BY <1>5, <1>7, <2>1, <2>2 DEF Droppable
  <1>13. \A x \in Cell : Others(x)' = other[x] - Among(refs, x)
    <2> SUFFICES ASSUME NEW x \in Cell
                 PROVE  Others(x)' = other[x] - Among(refs, x)
      OBVIOUS
    <2>1. /\ Others(x) = Links(loops, DOMAIN loops, OfLoop, x) + 0 + Ind(x \in lost) + held[x] + Among(field, x)
          /\ Others(x)' = Links(loops', DOMAIN loops', OfLoop, x) + 0 + Ind(x \in lost)
                          + held'[x] + Among(field', x)
      BY <1>1, OthersIdle
    <2>2. /\ Links(loops, DOMAIN loops, OfLoop, x) \in Nat /\ Ind(x \in lost) \in Nat
          /\ held[x] \in Nat /\ Among(field, x) \in Nat
      BY <1>2, OthersNat
    <2>3. Others(x)' = Links(loops', DOMAIN loops', OfLoop, x) + 0 + Ind(x \in lost)
                       + held[x] + Among(field, x)
      BY <1>1, <2>1
    <2>4. Links(loops', DOMAIN loops', OfLoop, x) \in Nat
      BY <1>9, LinksFinite, TwoMembers DEF LoopsTyped
    <2> DEFINE o == Ind(out = x)
               i == Ind(item = x)
    <2>5. o \in Nat /\ i \in Nat
      BY DEF Ind
    <2>6. Links(loops', DOMAIN loops', OfLoop, x) + i = Links(loops, DOMAIN loops, OfLoop, x) + o
      BY <1>10
    <2>7. other[x] = Others(x) + o /\ Among(refs, x) = i
      BY <1>5
    <2> DEFINE k == Links(loops, DOMAIN loops, OfLoop, x)
               n == Links(loops', DOMAIN loops', OfLoop, x)
               d == Ind(x \in lost)
               e == held[x]
               f == Among(field, x)
               p == Others(x)
               q == Others(x)'
    <2> HIDE DEF o, i, other
    <2>9. p \in Nat
      BY <1>11
    <2>10. k \in Nat /\ n \in Nat /\ d \in Nat /\ e \in Nat /\ f \in Nat
      BY <2>2, <2>4
    <2>11. p = k + 0 + d + e + f /\ q = n + 0 + d + e + f /\ n + i = k + o
      BY <2>1, <2>3, <2>6
    <2>12. other[x] = p + o /\ Among(refs, x) = i
      BY <2>7
    <2>8. q = p + o - i
      <3> HIDE DEF k, n, d, e, f, p, q
      <3> QED
        BY ONLY <2>5, <2>10, <2>11, LoopBalance
    <2> HIDE DEF k, n, d, e, f, p
    <2> QED
      BY <2>5, <2>8, <2>9, <2>12
  <1>14. field' \in [TextName -> Maybe(Cell)] /\ Roots' /\ held' \in [Cell -> Nat]
    BY <1>1, <1>3 DEF Core, Shape, Roots
  <1> HIDE DEF other
  <1>20. lost' \subseteq Cell /\ reading' \in Nat
    BY <1>1, <1>2 DEF Shape, NodesTyped
  <1> QED
    BY <1>1, <1>6, <1>9, <1>12, <1>13, <1>14, <1>20, DropStep

\* The ebuild goes, with its expressions.
LEMMA DeallocCore ==
    ASSUME CellAssumption, Core, Dealloc
    PROVE  Core'
  <1> USE CellAssumption
  <1> DEFINE other == [x \in Cell |-> Others(x)]
             refs == field
  <1>1. /\ HeapIs(node, Drop(count, refs)) /\ held' = held /\ loops' = loops
        /\ field' = [name \in TextName |-> NULL]
        /\ job = NULL /\ job' = NULL
        /\ UNCHANGED <<vars, lost, file, reading>>
    BY DEF Dealloc, Idle
  <1>2. Shape /\ Parsing /\ CountsExact
    BY DEF Core
  <1>3. held \in [Cell -> Nat] /\ count \in [Cell -> Nat] /\ field \in [TextName -> Maybe(Cell)]
    BY <1>2 DEF Shape, NodesTyped
  <1>4. IsFiniteSet(DOMAIN refs)
    BY <1>3, TextNames
  <1> HIDE DEF refs
  <1>5. \A x \in Cell : other[x] \in Nat /\ Among(refs, x) <= other[x]
    BY <1>2, OthersNat DEF refs
  <1>6. Droppable(count, refs, other)
    BY <1>2, <1>3, <1>4, <1>5 DEF Droppable, CountsExact, Core, BlankWhenFree
  <1>7. \A x \in Cell : Others(x)' = other[x] - Among(refs, x)
    <2> SUFFICES ASSUME NEW x \in Cell
                 PROVE  Others(x)' = Others(x) - Among(field, x)
      BY DEF refs
    <2>1. /\ Others(x) = Links(loops, DOMAIN loops, OfLoop, x) + 0 + Ind(x \in lost) + held[x] + Among(field, x)
          /\ Others(x)' = Links(loops', DOMAIN loops', OfLoop, x) + 0 + Ind(x \in lost)
                          + held'[x] + Among(field', x)
      BY <1>1, OthersIdle
    <2>2. /\ Links(loops, DOMAIN loops, OfLoop, x) \in Nat /\ Ind(x \in lost) \in Nat
          /\ held[x] \in Nat /\ Among(field, x) \in Nat
      BY <1>2, OthersNat
    <2>3. Among(field', x) = 0
      <3>1. DOMAIN field' = TextName /\ \A n \in TextName : field'[n] # x
        BY <1>1
      <3> QED
        BY <3>1, AmongFinite, TextNames
    <2>4. Others(x)' = Links(loops, DOMAIN loops, OfLoop, x) + 0 + Ind(x \in lost) + held[x] + 0
      BY <1>1, <2>1, <2>3
    <2> QED
      BY <2>1, <2>2, <2>4
  <1>8. field' \in [TextName -> Maybe(Cell)] /\ Roots' /\ held' \in [Cell -> Nat] /\ LoopsTyped'
    <2>1. NULL \notin lost
      BY <1>2 DEF Shape, NodesTyped
    <2> QED
      BY <1>1, <1>3, <2>1 DEF Core, Shape, Roots, LoopsTyped, Maybe
  <1>9. SameButIt(node) /\ Onward(node)
    BY <1>2, SameNodes
  <1> HIDE DEF other
  <1>20. lost' \subseteq Cell /\ reading' \in Nat
    BY <1>1, <1>2 DEF Shape, NodesTyped
  <1> QED
    BY <1>1, <1>6, <1>7, <1>8, <1>9, <1>20, DropStep

\* A step that frees nothing and at most takes another reference to a node.
LEMMA GainStep ==
    ASSUME CellAssumption, Core, IInv', given' = given, lost' = lost, file' = file,
           NEW gain \in [Cell -> Nat], \A x \in Cell : count'[x] = count[x] + gain[x],
           count' \in [Cell -> Nat],
           node' \in [Cell -> NodeRecord], SameButIt(node'), Onward(node'),
           \A x \in Cell : count'[x] = 0 => node'[x] = Blank,
           held' \in [Cell -> Nat], LoopsTyped', field' \in [TextName -> Maybe(Cell)],
           reading' \in Nat, Roots', Parsing',
           \A x \in Cell : Others(x)' = Others(x) + gain[x]
    PROVE  Core'
  <1>1. Shape'
    BY DEF Core, Shape, NodesTyped, LoopsTyped, NodeRecord
  <1>2. CountsExact'
    <2> SUFFICES ASSUME NEW c \in Cell
                 PROVE  count'[c] = Links(node', Cell, Pointer, c) + Others(c)'
      BY DEF CountsExact, Links, LinkSet
    <2>1. Links(node', Cell, Pointer, c) = Links(node, Cell, Pointer, c)
      <3>1. \A s \in Cell, m \in Pointer : node'[s][m] = node[s][m]
        BY DEF SameButIt, Pointer
      <3>2. LinkSet(node', Cell, Pointer, c) = LinkSet(node, Cell, Pointer, c)
        BY <3>1 DEF LinkSet
      <3> QED
        BY <3>2 DEF Links
    <2>2. Links(node, Cell, Pointer, c) \in Nat
      BY LinksFinite, TwoMembers DEF CellAssumption
    <2>3. count[c] = Links(node, Cell, Pointer, c) + Others(c)
      BY DEF Core, CountsExact
    <2>4. Others(c) \in Nat
      BY OthersNat DEF Core
    <2>5. count'[c] = count[c] + gain[c] /\ Others(c)' = Others(c) + gain[c] /\ gain[c] \in Nat
      OBVIOUS
    <2> QED
      BY <2>1, <2>2, <2>3, <2>4, <2>5
  <1>3. UsesGiven'
    <2>1. \A c \in Cell : node'[c].use = node[c].use
      BY DEF SameButIt
    <2>2. UsesGiven
      BY DEF Core
    <2> QED
      BY <2>1, <2>2 DEF UsesGiven
  <1>4. ItAhead'
    <2> SUFFICES ASSUME NEW c \in Cell, node'[c].it # NULL,
                        NEW T \in SUBSET Cell, c \in T, NextClosed(T)'
                 PROVE  node'[c].it \in T
      BY DEF ItAhead
    <2>1. NextClosed(T)
      BY DEF NextClosed, SameButIt
    <2>2. node[c].it # NULL => node[c].it \in T
      BY <2>1 DEF Core, ItAhead
    <2>3. node[c].it # NULL /\ node[node[c].it].next # NULL => node[node[c].it].next \in T
      BY <2>1, <2>2 DEF NextClosed
    <2> QED
      BY <2>2, <2>3 DEF Onward
  <1>5. BlankWhenFree'
    BY DEF BlankWhenFree
  <1> QED
    BY <1>1, <1>2, <1>3, <1>4, <1>5 DEF Core

\* The table of flags, unchanged.
LEMMA IInvKept ==
    ASSUME IInv, UNCHANGED vars
    PROVE  IInv'
  BY DEF vars, IInv, TypeOK, TableSound, GivenIdsStored

\* One reference more is a number of references.
LEMMA OneMore ==
  ASSUME NEW t \in Cell, NEW g \in [Cell -> Nat]
  PROVE  [g EXCEPT ![t] = @ + 1] \in [Cell -> Nat]
  <1>1. g[t] + 1 \in Nat
    OBVIOUS
  <1> QED
    BY <1>1

\* Python takes a reference to a node in memory.
LEMMA TakeCore ==
    ASSUME CellAssumption, Core, NEW t \in Cell, count[t] # 0, Takes(t),
           count' = [count EXCEPT ![t] = @ + 1],
           Idle, UNCHANGED <<node, loops, ebuild>>
    PROVE  Core'
  <1> DEFINE gain == [x \in Cell |-> Ind(t = x)]
  <1>1. /\ held' = [held EXCEPT ![t] = @ + 1]
        /\ job = NULL /\ job' = NULL
        /\ UNCHANGED <<vars, lost, file, reading, field, node, loops>>
    BY DEF Takes, Idle, ebuild
  <1>2. Shape /\ Parsing /\ IInv
    BY DEF Core
  <1>3. held \in [Cell -> Nat] /\ count \in [Cell -> Nat] /\ node \in [Cell -> NodeRecord]
    BY <1>2 DEF Shape, NodesTyped, NodeRecord
  <1>4. /\ held' \in [Cell -> Nat] /\ \A x \in Cell : held'[x] = held[x] + gain[x]
        /\ count' \in [Cell -> Nat] /\ \A x \in Cell : count'[x] = count[x] + gain[x]
        /\ gain \in [Cell -> Nat]
    <2>1. \A x \in Cell : gain[x] \in Nat /\ gain[x] = IF x = t THEN 1 ELSE 0
      BY DEF Ind
    <2>2. gain \in [Cell -> Nat]
      BY DEF Ind
    <2> HIDE DEF gain
    <2>3. held' \in [Cell -> Nat] /\ count' \in [Cell -> Nat]
      <3>2. held' \in [Cell -> Nat]
        BY <1>1, <1>3, OneMore
      <3>3. count' \in [Cell -> Nat]
        BY <1>3, OneMore
      <3> QED
        BY <3>2, <3>3
    <2>4. ASSUME NEW x \in Cell
          PROVE  held'[x] = held[x] + gain[x] /\ count'[x] = count[x] + gain[x]
      <3>1. CASE x = t
        BY <1>1, <1>3, <2>1, <3>1
      <3>2. CASE x # t
        <4>1. held'[x] = held[x] /\ count'[x] = count[x] /\ gain[x] = 0
          BY <1>1, <1>3, <2>1, <3>2
        <4> QED
          BY <1>3, <4>1
      <3> QED
        BY <3>1, <3>2
    <2> QED
      BY <2>2, <2>3, <2>4
  <1> HIDE DEF gain
  <1>5. \A x \in Cell : Others(x)' = Others(x) + gain[x]
    <2> SUFFICES ASSUME NEW x \in Cell
                 PROVE  Others(x)' = Others(x) + gain[x]
      OBVIOUS
    <2>1. /\ Others(x) = Links(loops, DOMAIN loops, OfLoop, x) + 0 + Ind(x \in lost) + held[x] + Among(field, x)
          /\ Others(x)' = Links(loops', DOMAIN loops', OfLoop, x) + 0 + Ind(x \in lost)
                          + held'[x] + Among(field', x)
      BY <1>1, OthersIdle
    <2>2. /\ Links(loops, DOMAIN loops, OfLoop, x) \in Nat /\ Ind(x \in lost) \in Nat
          /\ held[x] \in Nat /\ Among(field, x) \in Nat /\ gain[x] \in Nat
      BY <1>2, <1>4, OthersNat
    <2>3. Others(x)' = Links(loops, DOMAIN loops, OfLoop, x) + 0 + Ind(x \in lost)
                       + (held[x] + gain[x]) + Among(field, x)
      BY <1>1, <1>4, <2>1
    <2> QED
      BY <2>1, <2>2, <2>3
  <1>6. \A x \in Cell : count'[x] = 0 => node'[x] = Blank
    <2>1. \A x \in Cell : count'[x] = 0 => count[x] = 0
      BY <1>3, <1>4
    <2> QED
      BY <1>1, <2>1 DEF Core, BlankWhenFree
  <1>7. SameButIt(node') /\ Onward(node') /\ node' \in [Cell -> NodeRecord]
    BY <1>1, <1>2, <1>3, SameNodes
  <1>8. LoopsTyped' /\ field' \in [TextName -> Maybe(Cell)] /\ Roots' /\ reading' \in Nat
    BY <1>1 DEF Core, Shape, LoopsTyped, Roots
  <1>9. Parsing' /\ IInv' /\ given' = given
    BY <1>1, <1>2, IInvKept DEF Parsing, vars
  <1> QED
    BY <1>1, <1>4, <1>5, <1>6, <1>7, <1>8, <1>9, GainStep

\* Python reads a member of a node.
LEMMA TakeMemberCore ==
    ASSUME CellAssumption, Core, NEW c \in Cell, NEW member \in {"next", "children"},
           TakeMember(c, member), UNCHANGED ebuild
    PROVE  Core'
  <1> DEFINE t == node[c][member]
  <1>1. Takes(t) /\ count' = [count EXCEPT ![t] = @ + 1] /\ Idle /\ UNCHANGED <<node, loops, ebuild>>
    BY DEF TakeMember
  <1>2. node[c] \in NodeRecord /\ t # NULL
    BY DEF Core, Shape, NodesTyped, NodeRecord, TakeMember
  <1>3. t \in Cell /\ (node[c].next = t \/ node[c].children = t)
    BY <1>2 DEF NodeRecord, Maybe
  <1> HIDE DEF t
  <1>4. count[t] # 0
    <2>1. t \in Live
      BY <1>3, Referred DEF Core
    <2> QED
      BY <2>1 DEF Live
  <1> QED
    BY <1>1, <1>3, <1>4, TakeCore

\* Python reads a member of the ebuild.
LEMMA TakeFieldCore ==
    ASSUME CellAssumption, Core, NEW name \in TextName, TakeField(name)
    PROVE  Core'
  <1> DEFINE t == field[name]
  <1>1. Takes(t) /\ count' = [count EXCEPT ![t] = @ + 1] /\ Idle /\ UNCHANGED <<node, loops, ebuild>>
    BY DEF TakeField
  <1>2. t \in Maybe(Live) /\ t # NULL
    BY Referred DEF Core, TakeField
  <1>3. t \in Cell /\ count[t] # 0
    BY <1>2 DEF Live, Maybe
  <1> HIDE DEF t
  <1> QED
    BY <1>1, <1>3, TakeCore

\* A loop starts.
LEMMA StartLoopCore ==
    ASSUME CellAssumption, Core, NEW l \in Loop, NEW c \in Cell, StartLoop(l, c), UNCHANGED ebuild
    PROVE  Core'
  <1> DEFINE gain == [x \in Cell |-> Ind(c = x)]
             D == DOMAIN loops
             new == [head |-> c, item |-> NULL, seen |-> <<>>]
  <1>1. /\ l \notin D /\ held' = held
        /\ count' = [count EXCEPT ![c] = @ + 1]
        /\ node' = [node EXCEPT ![c].it = c]
        /\ loops' = [m \in D \cup {l} |-> IF m = l THEN new ELSE loops[m]]
        /\ job = NULL /\ job' = NULL
        /\ UNCHANGED <<vars, lost, file, reading, field>>
    BY DEF StartLoop, Idle, ebuild
  <1>2. Shape /\ Parsing /\ IInv /\ LoopsTyped
    BY DEF Core, Shape
  <1>3. held \in [Cell -> Nat] /\ count \in [Cell -> Nat] /\ node \in [Cell -> NodeRecord]
    BY <1>2 DEF Shape, NodesTyped, NodeRecord
  <1>4. /\ count' \in [Cell -> Nat] /\ \A x \in Cell : count'[x] = count[x] + gain[x]
        /\ gain \in [Cell -> Nat]
    BY <1>1, <1>3 DEF Ind
  <1>5. count[c] # 0
    <2>1. CASE held[c] > 0
      <3>1. held[c] \in Nat /\ held[c] <= Others(c) /\ Others(c) \in Nat
        BY <1>2, OthersNat
      <3> QED
        BY <2>1, <3>1, Referred DEF Core, Live
    <2>2. CASE \E m \in DOMAIN loops : loops[m].item = c
      <3>1. \A m \in DOMAIN loops : loops[m].item \in Maybe(Live)
        BY Referred DEF Core
      <3>2. c # NULL
        BY DEF CellAssumption
      <3> QED
        BY <2>2, <3>1, <3>2 DEF Live, Maybe
    <2> QED
      BY <2>1, <2>2 DEF StartLoop, Has
  <1>6. \A x \in Cell : node'[x] = IF x = c THEN [node[x] EXCEPT !.it = c] ELSE node[x]
    BY <1>1, <1>3
  <1>7. ASSUME NEW x \in Cell
        PROVE  /\ node'[x] \in NodeRecord
               /\ node'[x].next = node[x].next /\ node'[x].children = node[x].children
               /\ node'[x].use = node[x].use
               /\ node'[x].it = IF x = c THEN c ELSE node[x].it
    <2>1. node[x] \in NodeRecord
      BY <1>3
    <2> QED
      BY <1>6, <2>1 DEF NodeRecord, Maybe
  <1>8. SameButIt(node') /\ Onward(node') /\ node' \in [Cell -> NodeRecord]
    <2>1. DOMAIN node' = Cell /\ node' = [x \in Cell |-> node'[x]]
      BY <1>1, <1>3
    <2> QED
      BY <1>7, <2>1 DEF SameButIt, Onward
  <1>9. \A x \in Cell : count'[x] = 0 => node'[x] = Blank
    <2>1. \A x \in Cell : count'[x] = 0 => count[x] = 0 /\ x # c
      BY <1>3, <1>4, <1>5
    <2> QED
      BY <1>6, <2>1 DEF Core, BlankWhenFree
  <1> HIDE DEF gain, D
  <1>10. LoopsTyped' /\ DOMAIN loops' = D \cup {l} /\ IsFiniteSet(D)
    <2>1. IsFiniteSet(D \cup {l}) /\ IsFiniteSet(D)
      BY <1>2, FS_AddElement DEF LoopsTyped, D
    <2>2. new \in LoopRecord
      BY EmptySeq DEF LoopRecord, Maybe
    <2> HIDE DEF new
    <2> QED
      BY <1>1, <1>2, <2>1, <2>2 DEF LoopsTyped, D
  <1>11. ASSUME NEW x \in Cell
         PROVE  /\ Links(loops', DOMAIN loops', OfLoop, x) = Links(loops, DOMAIN loops, OfLoop, x) + gain[x]
                /\ gain[x] \in Nat
    <2>1. \A m \in D, f \in OfLoop : loops'[m][f] = loops[m][f]
      BY <1>1
    <2>2. Links(loops', D, OfLoop, x) = Links(loops, D, OfLoop, x)
      BY <2>1, LinksSame
    <2>3. Links(loops', D \cup {l}, OfLoop, x) =
             Links(loops', D, OfLoop, x) + Ind(loops'[l].head = x) + Ind(loops'[l].item = x)
      BY <1>1, <1>10, LinksAdd
    <2>4. loops'[l].head = c /\ loops'[l].item = NULL /\ x # NULL
      BY <1>1 DEF CellAssumption
    <2>5. Ind(loops'[l].head = x) = gain[x] /\ Ind(loops'[l].item = x) = 0
      BY <2>4 DEF Ind, gain
    <2>6. Links(loops, D, OfLoop, x) \in Nat /\ gain[x] \in Nat
      BY <1>4, <1>10, LinksFinite, TwoMembers
    <2> QED
      BY <1>10, <2>2, <2>3, <2>5, <2>6 DEF D
  <1>12. \A x \in Cell : Others(x)' = Others(x) + gain[x]
    <2> SUFFICES ASSUME NEW x \in Cell
                 PROVE  Others(x)' = Others(x) + gain[x]
      OBVIOUS
    <2>1. /\ Others(x) = Links(loops, DOMAIN loops, OfLoop, x) + 0 + Ind(x \in lost) + held[x] + Among(field, x)
          /\ Others(x)' = Links(loops', DOMAIN loops', OfLoop, x) + 0 + Ind(x \in lost)
                          + held'[x] + Among(field', x)
      BY <1>1, OthersIdle
    <2>2. /\ Links(loops, DOMAIN loops, OfLoop, x) \in Nat /\ Ind(x \in lost) \in Nat
          /\ held[x] \in Nat /\ Among(field, x) \in Nat
      BY <1>2, OthersNat
    <2>3. Others(x)' = (Links(loops, DOMAIN loops, OfLoop, x) + gain[x]) + 0 + Ind(x \in lost)
                       + held[x] + Among(field, x)
      BY <1>1, <1>11, <2>1
    <2> QED
      BY <1>11, <2>1, <2>2, <2>3
  <1>13. field' \in [TextName -> Maybe(Cell)] /\ Roots' /\ reading' \in Nat /\ held' \in [Cell -> Nat]
    BY <1>1, <1>3 DEF Core, Shape, Roots
  <1>14. Parsing' /\ IInv' /\ given' = given /\ lost' = lost /\ file' = file
    BY <1>1, <1>2, IInvKept DEF Parsing, vars
  <1> QED
    BY <1>4, <1>8, <1>9, <1>10, <1>12, <1>13, <1>14, GainStep

\* The memory for a new node is free.
LEMMA FreshIn ==
    ASSUME CellAssumption, Shape, Unused # {}
    PROVE  Fresh \in Cell /\ count[Fresh] = 0 /\ Fresh # NULL
  <1>1. Unused \subseteq Nat /\ Unused \subseteq Cell
    BY DEF Unused, CellAssumption
  <1>2. \E c \in Unused : \A d \in Unused : c <= d
    BY <1>1, Least
  <1>3. Fresh \in Unused
    BY <1>2 DEF Fresh
  <1>4. count[Fresh] = 0
    BY <1>1, <1>3 DEF Unused, Live, Shape, NodesTyped
  <1> QED
    BY <1>1, <1>3, <1>4 DEF CellAssumption

\* A parser that starts.
LEMMA ParserStarts ==
    ASSUME CellAssumption, NEW text, IsText(text), NEW self \in Maybe(Cell)
    PROVE  LET j == Parser(text, self)
           IN  /\ j \in ParserState /\ j # NULL /\ j.at \in 1 .. Len(j.text.ops) + 1
               /\ \E depth : Depths(j.text, depth) /\ Len(j.stack) = depth[j.at - 1]
               /\ j.stack = <<>> /\ j.self = self /\ j.text = text /\ Len(j.stack) = 0
  <1> DEFINE j == Parser(text, self)
  <1>1. j.text = text /\ j.at = 1 /\ j.stack = <<>> /\ j.self = self
    BY DEF Parser
  <1>2. <<>> \in Seq(Cell) /\ Len(<<>>) = 0
    BY EmptySeq
  <1>3. j \in ParserState
    BY <1>2 DEF Parser, ParserState, IsText
  <1>4. j # NULL
    BY <1>3 DEF ParserState, CellAssumption
  <1>5. Len(text.ops) \in Nat
    <2>1. text.ops \in Seq(Operation)
      BY DEF IsText, AnyText
    <2> QED
      BY <2>1, LenProperties
  <1>6. PICK depth : Depths(text, depth)
    BY DEF IsText, Depths
  <1>7. Len(j.stack) = depth[j.at - 1]
    BY <1>1, <1>2, <1>6 DEF Depths
  <1> HIDE DEF j
  <1> QED
    BY <1>1, <1>2, <1>3, <1>4, <1>5, <1>6, <1>7 DEF j

\* Python makes an expression.
LEMMA ConstructCore ==
    ASSUME CellAssumption, TextsAssumption, Core, NEW text \in Texts, Construct(text), UNCHANGED ebuild
    PROVE  Core'
  <1> DEFINE t == Fresh
             gain == [x \in Cell |-> Ind(t = x)]
  <1>1. /\ Unused # {} /\ held' = [held EXCEPT ![t] = @ + 1]
        /\ count' = [count EXCEPT ![t] = 1]
        /\ job = NULL /\ job' = Parser(text, t)
        /\ UNCHANGED <<vars, lost, file, reading, field, node, loops>>
    BY DEF Construct, Takes, ebuild
  <1>2. Shape /\ Parsing /\ IInv
    BY DEF Core
  <1>3. held \in [Cell -> Nat] /\ count \in [Cell -> Nat] /\ node \in [Cell -> NodeRecord]
    BY <1>2 DEF Shape, NodesTyped, NodeRecord
  <1>4. t \in Cell /\ count[t] = 0 /\ t # NULL
    BY <1>1, <1>2, FreshIn
  <1> HIDE DEF t
  <1>5. held[t] = 0
    BY <1>2, <1>4, OthersNat, Referred DEF Core, Live
  <1>6. node[t] = Blank
    BY <1>4 DEF Core, BlankWhenFree
  <1>7. /\ held' \in [Cell -> Nat] /\ \A x \in Cell : held'[x] = held[x] + gain[x]
        /\ count' \in [Cell -> Nat] /\ \A x \in Cell : count'[x] = count[x] + gain[x]
        /\ gain \in [Cell -> Nat]
    <2>1. \A x \in Cell : gain[x] \in Nat /\ gain[x] = IF x = t THEN 1 ELSE 0
      BY DEF Ind
    <2>2. gain \in [Cell -> Nat]
      BY DEF Ind
    <2> HIDE DEF gain
    <2>3. held' \in [Cell -> Nat] /\ \A x \in Cell : held'[x] = held[x] + gain[x]
      BY <1>1, <1>3, <1>4, <2>1
    <2>4. count' \in [Cell -> Nat] /\ \A x \in Cell : count'[x] = IF x = t THEN 1 ELSE count[x]
      BY <1>1, <1>3, <1>4
    <2>5. \A x \in Cell : count'[x] = count[x] + gain[x]
      <3> SUFFICES ASSUME NEW x \in Cell
                   PROVE  count'[x] = count[x] + gain[x]
        OBVIOUS
      <3>1. CASE x = t
        <4>1. count'[x] = 1 /\ gain[x] = 1 /\ count[x] = 0
          BY <1>4, <2>1, <2>4, <3>1
        <4> QED
          BY <4>1
      <3>2. CASE x # t
        <4>1. count'[x] = count[x] /\ gain[x] = 0 /\ count[x] \in Nat
          BY <1>3, <2>1, <2>4, <3>2
        <4> QED
          BY <4>1
      <3> QED
        BY <3>1, <3>2
    <2> QED
      BY <2>2, <2>3, <2>4, <2>5
  <1> HIDE DEF gain
  <1>8. /\ job' \in ParserState /\ job' # NULL /\ job'.at \in 1 .. Len(job'.text.ops) + 1
        /\ \E depth : Depths(job'.text, depth) /\ Len(job'.stack) = depth[job'.at - 1]
        /\ job'.stack = <<>> /\ job'.self = t /\ Len(job'.stack) = 0
    BY <1>1, <1>4, ParserStarts DEF TextsAssumption, Maybe
  <1>9. \A x \in Cell : Others(x)' = Others(x) + gain[x]
    <2> SUFFICES ASSUME NEW x \in Cell
                 PROVE  Others(x)' = Others(x) + gain[x]
      OBVIOUS
    <2>1. Stacked(x) = 0 /\ Stacked(x)' = 0
      BY <1>1, <1>8, NoRef DEF Stacked, Among
    <2>2. Others(x)' = Links(loops', DOMAIN loops', OfLoop, x) + Stacked(x)' + Ind(x \in lost')
                       + held'[x] + Among(field', x)
      BY DEF Others, Links, LinkSet, Ind, Among
    <2>3. /\ Links(loops, DOMAIN loops, OfLoop, x) \in Nat /\ Ind(x \in lost) \in Nat
          /\ held[x] \in Nat /\ Among(field, x) \in Nat /\ gain[x] \in Nat
      BY <1>2, <1>7, OthersNat
    <2>4. Others(x)' = Links(loops, DOMAIN loops, OfLoop, x) + 0 + Ind(x \in lost)
                       + (held[x] + gain[x]) + Among(field, x)
      BY <1>1, <1>7, <2>1, <2>2
    <2>5. Others(x) = Links(loops, DOMAIN loops, OfLoop, x) + 0 + Ind(x \in lost)
                       + held[x] + Among(field, x)
      BY <2>1 DEF Others
    <2> QED
      BY <2>3, <2>4, <2>5
  <1>10. \A x \in Cell : count'[x] = 0 => node'[x] = Blank
    <2>1. \A x \in Cell : count'[x] = 0 => count[x] = 0
      BY <1>3, <1>7
    <2> QED
      BY <1>1, <2>1 DEF Core, BlankWhenFree
  <1>11. SameButIt(node') /\ Onward(node') /\ node' \in [Cell -> NodeRecord]
    BY <1>1, <1>2, <1>3, SameNodes
  <1>12. LoopsTyped' /\ field' \in [TextName -> Maybe(Cell)] /\ Roots' /\ reading' \in Nat
    BY <1>1 DEF Core, Shape, LoopsTyped, Roots
  <1>13. IInv' /\ given' = given /\ lost' = lost /\ file' = file
    BY <1>1, <1>2, IInvKept DEF vars
  <1>14. Parsing'
    <2>1. held'[t] = 1 /\ count'[t] = 1 /\ node'[t] = Blank
      BY <1>1, <1>3, <1>4, <1>5, <1>6
    <2>2. Young({})'
      BY <1>8 DEF Young
    <2>3. \E Y : Young(Y)'
      BY <2>2
    <2> QED
      BY <1>4, <1>8, <2>1, <2>3 DEF Parsing, Depths, ParserState
  <1> QED
    BY <1>7, <1>9, <1>10, <1>11, <1>12, <1>13, <1>14, GainStep

\* Nothing happens to the nodes and the references to them.
LEMMA QuietStep ==
    ASSUME CellAssumption, Core, IInv', given' = given, UNCHANGED <<heap, held, loops, file, field>>,
           \A x \in Cell : Stacked(x)' = Stacked(x), reading' \in Nat, Parsing'
    PROVE  Core'
  <1> DEFINE gain == [x \in Cell |-> 0]
  <1>1. UNCHANGED <<node, count, lost, held, loops, file, field>>
    BY DEF heap
  <1>2. Shape
    BY DEF Core
  <1>3. held \in [Cell -> Nat] /\ count \in [Cell -> Nat] /\ node \in [Cell -> NodeRecord]
    BY <1>2 DEF Shape, NodesTyped, NodeRecord
  <1>4. /\ gain \in [Cell -> Nat] /\ count' \in [Cell -> Nat] /\ held' \in [Cell -> Nat]
        /\ \A x \in Cell : count'[x] = count[x] + gain[x]
    BY <1>1, <1>3
  <1>5. \A x \in Cell : Others(x)' = Others(x) + gain[x]
    <2> SUFFICES ASSUME NEW x \in Cell
                 PROVE  Others(x)' = Others(x)
      BY OthersNat DEF Core
    <2>1. Others(x)' = Links(loops', DOMAIN loops', OfLoop, x) + Stacked(x)' + Ind(x \in lost')
                       + held'[x] + Among(field', x)
      BY DEF Others, Links, LinkSet, Ind, Among
    <2> QED
      BY <1>1, <2>1 DEF Others
  <1>6. SameButIt(node') /\ Onward(node') /\ node' \in [Cell -> NodeRecord]
    BY <1>1, <1>2, <1>3, SameNodes
  <1>7. \A x \in Cell : count'[x] = 0 => node'[x] = Blank
    BY <1>1 DEF Core, BlankWhenFree
  <1>8. LoopsTyped' /\ field' \in [TextName -> Maybe(Cell)] /\ Roots'
    BY <1>1 DEF Core, Shape, LoopsTyped, Roots
  <1> HIDE DEF gain
  <1> QED
    BY <1>1, <1>4, <1>5, <1>6, <1>7, <1>8, GainStep

\* The line being read is one of the file.
LEMMA LineRead ==
    ASSUME FilesAssumption, Core, reading \in 1 .. Len(file)
    PROVE  /\ Len(file) \in Nat /\ reading \in DOMAIN file
           /\ Line.name \in TextName => IsText(Line.value)
           /\ Line.name \in {"IUSE", "KEYWORDS"} => Line.value \in Seq(Range(Line.value))
  <1>1. file \in Files /\ file \in Seq(Range(file))
    BY DEF Core, Shape, FilesAssumption
  <1>2. Len(file) \in Nat /\ DOMAIN file = 1 .. Len(file)
    BY <1>1, LenProperties
  <1> QED
    BY <1>1, <1>2 DEF FilesAssumption, Line

\* The parser is called for a line.
LEMMA ReadTextCore ==
    ASSUME CellAssumption, FilesAssumption, Core, ReadText
    PROVE  Core'
  <1>1. /\ job = NULL /\ reading \in 1 .. Len(file) /\ Line.name \in TextName
        /\ UNCHANGED <<vars, heap, held, loops, file, field>>
    BY DEF ReadText, ReadingLine
  <1>2. IInv' /\ given' = given
    BY <1>1, IInvKept DEF Core, vars
  <1>3. reading \in Nat /\ Len(file) \in Nat /\ IsText(Line.value)
    BY <1>1, LineRead DEF Core, Shape
  <1>4. CASE job' = job /\ reading' = reading + 1
    <2>1. Parsing' /\ reading' \in Nat /\ \A x \in Cell : Stacked(x)' = Stacked(x)
      BY <1>1, <1>3, <1>4 DEF Parsing, Stacked
    <2> QED
      BY <1>1, <1>2, <2>1, QuietStep
  <1>5. CASE job' = Parser(Line.value, NULL) /\ reading' = reading
    <2>1. /\ job' \in ParserState /\ job' # NULL /\ job'.at \in 1 .. Len(job'.text.ops) + 1
          /\ \E depth : Depths(job'.text, depth) /\ Len(job'.stack) = depth[job'.at - 1]
          /\ job'.stack = <<>> /\ job'.self = NULL /\ Len(job'.stack) = 0
      BY <1>3, <1>5, ParserStarts DEF Maybe
    <2>2. \A x \in Cell : Stacked(x)' = Stacked(x)
      BY <1>1, <2>1, NoRef DEF Stacked, Among
    <2>3. Young({})'
      BY <2>1 DEF Young, CellAssumption
    <2>4. \E Y : Young(Y)'
      BY <2>3
    <2>5. (reading \in 1 .. Len(file) /\ Line.name \in TextName)'
      BY <1>1, <1>5 DEF Line
    <2>6. Parsing'
      BY <2>1, <2>4, <2>5 DEF Parsing, Depths, ParserState
    <2> QED
      BY <1>1, <1>2, <1>3, <1>5, <2>2, <2>6, QuietStep
  <1> QED
    BY <1>4, <1>5 DEF ReadText

\* Steps that leave nodes and references alone.
LEMMA QuietCore ==
    ASSUME CellAssumption, HashAssumption, OverlapAssumption, FlagAssumption, FilesAssumption, Core,
           \/ StartReading \/ ReadOther \/ EndReading
           \/ \E l \in DOMAIN loops : ReadCondition(l) /\ UNCHANGED ebuild
           \/ UNCHANGED all
    PROVE  Core'
  <1>1. reading \in Nat
    BY DEF Core, Shape
  <1>2. CASE StartReading \/ ReadOther \/ EndReading
    <2>1. job = NULL /\ UNCHANGED <<vars, exprs, file, field>>
      BY <1>2 DEF StartReading, ReadOther, EndReading, ReadingLine
    <2>2. reading' \in Nat
      BY <1>1, <1>2 DEF StartReading, ReadOther, EndReading
    <2>3. UNCHANGED <<vars, heap, held, loops, job, file, field>>
      BY <2>1 DEF exprs, heap
    <2>4. Parsing' /\ \A x \in Cell : Stacked(x)' = Stacked(x)
      BY <2>1, <2>3 DEF Parsing, Stacked
    <2>5. IInv' /\ given' = given
      BY <2>1, IInvKept DEF Core, vars
    <2> QED
      BY <2>2, <2>3, <2>4, <2>5, QuietStep
  <1>3. ASSUME NEW l \in DOMAIN loops, ReadCondition(l), UNCHANGED ebuild
        PROVE  Core'
    <2>1. job = NULL /\ UNCHANGED <<exprs, file, field, reading>>
      BY <1>3 DEF ReadCondition, ebuild
    <2>2. UNCHANGED <<heap, held, loops, job>>
      BY <2>1 DEF exprs, heap
    <2>3. Parsing' /\ \A x \in Cell : Stacked(x)' = Stacked(x)
      BY <2>1, <2>2 DEF Parsing, Stacked
    <2>4. loops[l].item \in Cell
      BY <1>3 DEF ReadCondition, Core, Shape, LoopsTyped, LoopRecord, Maybe
    <2>5. PICK g \in given : g.id = node[loops[l].item].use
      BY <1>3, <2>4 DEF ReadCondition, Core, UsesGiven
    <2>6. GetUseFlag(g.id)
      BY <1>3, <2>5 DEF ReadCondition
    <2>7. [Next]_vars
      BY <2>5, <2>6 DEF Next
    <2>8. IInv' /\ given' = given
      BY <2>6, <2>7, NextIInv DEF Core, GetUseFlag
    <2> QED
      BY <1>1, <2>1, <2>2, <2>3, <2>8, QuietStep
  <1>4. CASE UNCHANGED all
    <2>1. UNCHANGED <<vars, heap, held, loops, job, file, field, reading>>
      BY <1>4 DEF all, exprs, ebuild, heap
    <2>2. \A x \in Cell : Stacked(x)' = Stacked(x)
      BY <2>1 DEF Stacked
    <2>3. IInv' /\ given' = given
      BY <2>1, IInvKept DEF Core, vars
    <2>4. Parsing'
      <3>1. UNCHANGED <<node, count, held, job, file, reading>>
        BY <2>1 DEF heap
      <3>2. ASSUME NEW Y, Young(Y)
            PROVE  Young(Y)'
        BY <3>1, <3>2 DEF Young
      <3> QED
        BY <3>1, <3>2 DEF Core, Parsing, Depths, Line
    <2> QED
      BY <1>1, <2>1, <2>2, <2>3, <2>4, QuietStep
  <1> QED
    BY <1>2, <1>3, <1>4

-----------------------------------------------------------------------------
(* The items on the parser's stack, and linking them.                      *)

\* An item of s, and items that are all different.
In(s, x) == \E i \in 1 .. Len(s) : s[i] = x
Distinct(s) == \A i, j \in 1 .. Len(s) : s[i] = s[j] => i = j

\* A sequence of different items refers to each once.
LEMMA AmongItems ==
    ASSUME NEW s \in Seq(Cell), Distinct(s)
    PROVE  IsFiniteSet(DOMAIN s) /\ \A x : Among(s, x) = Ind(In(s, x))
  <1>1. DOMAIN s = 1 .. Len(s) /\ Len(s) \in Nat
    BY LenProperties
  <1>2. IsFiniteSet(DOMAIN s)
    BY <1>1, FS_Interval
  <1>3. \A x : Among(s, x) = Ind(\E i \in DOMAIN s : s[i] = x)
    BY <1>1, <1>2, AmongInjective DEF Distinct
  <1> QED
    BY <1>1, <1>2, <1>3 DEF In

\* What is young has one reference: an item's is the parser's own, and one that
\* something young leads to has no other.
LEMMA YoungFacts ==
    ASSUME CellAssumption, Core, job # NULL, NEW Y, Young(Y)
    PROVE  /\ job.stack \in Seq(Cell) /\ Distinct(job.stack)
           /\ \A x \in Cell : Stacked(x) = Ind(In(job.stack, x))
           /\ \A x \in Cell : In(job.stack, x) =>
                 /\ x \in Y /\ Links(node, Cell, Pointer, x) = 0 /\ Others(x) = 1
                 /\ x \notin lost /\ held[x] = 0 /\ Among(field, x) = 0
           /\ \A c \in Y, m \in Pointer : node[c][m] # NULL =>
                 /\ node[c][m] \in Y /\ Links(node, Cell, Pointer, node[c][m]) = 1
                 /\ Others(node[c][m]) = 0
                 /\ LinkSet(node, Cell, Pointer, node[c][m]) = {<<c, m>>}
  <1>1. Shape /\ Parsing /\ CountsExact /\ IsFiniteSet(Cell)
    BY DEF Core, CellAssumption
  <1>2. job.stack \in Seq(Cell)
    BY <1>1 DEF Parsing, ParserState
  <1>3. DOMAIN job.stack = 1 .. Len(job.stack) /\ Len(job.stack) \in Nat
    BY <1>2, LenProperties
  <1>14. IsFiniteSet(DOMAIN job.stack)
    BY <1>3, FS_Interval
  <1>4. Y \subseteq Cell /\ \A c \in Y : count[c] = 1
    BY DEF Young
  <1>5. \A x \in Cell : Links(node, Cell, Pointer, x) \in Nat /\ IsFiniteSet(LinkSet(node, Cell, Pointer, x))
    BY <1>1, LinksFinite, TwoMembers
  <1>6. \A x \in Cell : Others(x) \in Nat /\ Stacked(x) \in Nat /\ Stacked(x) <= Others(x)
    BY <1>1, OthersNat
  <1>7. \A x \in Y : Links(node, Cell, Pointer, x) + Others(x) = 1
    BY <1>1, <1>4 DEF CountsExact
  <1>8. \A x : Stacked(x) = Among(job.stack, x)
    BY DEF Stacked
  <1>9. ASSUME NEW x \in Cell, In(job.stack, x)
        PROVE  x \in Y /\ Stacked(x) = 1 /\ Others(x) = 1 /\ Links(node, Cell, Pointer, x) = 0
    <2>1. PICK i \in 1 .. Len(job.stack) : job.stack[i] = x
      BY <1>9 DEF In
    <2>2. x \in Y
      BY <2>1 DEF Young
    <2>4. Among(job.stack, x) # 0
      BY <1>3, <1>14, <2>1, AmongFinite
    <2>5. Stacked(x) # 0
      BY <1>8, <2>4
    <2>6. Links(node, Cell, Pointer, x) + Others(x) = 1
      BY <1>7, <2>2
    <2>7. Links(node, Cell, Pointer, x) \in Nat /\ Others(x) \in Nat /\ Stacked(x) \in Nat /\ Stacked(x) <= Others(x)
      BY <1>5, <1>6
    <2> QED
      BY <2>2, <2>5, <2>6, <2>7
  <1>10. Distinct(job.stack)
    <2> SUFFICES ASSUME NEW i \in 1 .. Len(job.stack), NEW j \in 1 .. Len(job.stack),
                        job.stack[i] = job.stack[j]
                 PROVE  i = j
      BY DEF Distinct
    <2>1. job.stack[i] \in Cell
      BY <1>2, <1>3
    <2>2. Among(job.stack, job.stack[i]) = 1
      BY <1>8, <1>9, <2>1 DEF In
    <2> DEFINE S == {k \in DOMAIN job.stack : job.stack[k] = job.stack[i]}
    <2>3. IsFiniteSet(S) /\ Cardinality(S) = 1
      BY <1>14, <2>2, AmongFinite DEF Among
    <2>4. i \in S /\ j \in S
      BY <1>3
    <2> HIDE DEF S
    <2>5. \E k : S = {k}
      BY <2>3, FS_Singleton
    <2> QED
      BY <2>4, <2>5
  <1>11. \A x \in Cell : Stacked(x) = Ind(In(job.stack, x))
    BY <1>2, <1>8, <1>10, AmongItems
  <1>12. ASSUME NEW x \in Cell, In(job.stack, x)
         PROVE  x \notin lost /\ held[x] = 0 /\ Among(field, x) = 0
    <2>1. Stacked(x) = 1 /\ Others(x) = 1
      BY <1>9, <1>12
    <2>2. /\ Links(loops, DOMAIN loops, OfLoop, x) \in Nat
          /\ Ind(x \in lost) \in Nat /\ held[x] \in Nat /\ Among(field, x) \in Nat
      BY <1>1, OthersNat
    <2>3. 1 = Links(loops, DOMAIN loops, OfLoop, x) + 1 + Ind(x \in lost) + held[x] + Among(field, x)
      BY <2>1 DEF Others
    <2>4. Ind(x \in lost) = 0 /\ held[x] = 0 /\ Among(field, x) = 0
      BY <2>2, <2>3
    <2> QED
      BY <2>4 DEF Ind
  <1>13. ASSUME NEW c \in Y, NEW m \in Pointer, node[c][m] # NULL
         PROVE  /\ node[c][m] \in Y /\ Links(node, Cell, Pointer, node[c][m]) = 1
                /\ Others(node[c][m]) = 0
                /\ LinkSet(node, Cell, Pointer, node[c][m]) = {<<c, m>>}
    <2> DEFINE x == node[c][m]
               S == LinkSet(node, Cell, Pointer, x)
    <2>1. m = "next" \/ m = "children"
      BY DEF Pointer
    <2>2. x \in Y
      <3>1. node[c].next \in Maybe(Y) /\ node[c].children \in Maybe(Y)
        BY DEF Young
      <3> QED
        BY <1>13, <2>1, <3>1 DEF Maybe
    <2>3. <<c, m>> \in S
      BY <1>4 DEF LinkSet
    <2>4. x \in Cell
      BY <1>4, <2>2
    <2>5. S # {} /\ Links(node, Cell, Pointer, x) # 0
      <3>1. ~ \A s \in Cell, k \in Pointer : node[s][k] # x
        BY <1>4
      <3> HIDE DEF x
      <3>2. Links(node, Cell, Pointer, x) # 0
        BY <1>1, <3>1, LinksFinite, TwoMembers
      <3> QED
        BY <2>3, <3>2
    <2>6. Links(node, Cell, Pointer, x) = 1 /\ Others(x) = 0
      <3>1. Links(node, Cell, Pointer, x) + Others(x) = 1
        BY <1>7, <2>2
      <3>2. Links(node, Cell, Pointer, x) \in Nat /\ Others(x) \in Nat
        BY <1>5, <1>6, <2>4
      <3> HIDE DEF x
      <3> QED
        BY <2>5, <3>1, <3>2
    <2>7. IsFiniteSet(S) /\ Cardinality(S) = 1
      BY <1>5, <2>4, <2>6 DEF Links
    <2>8. \E e : S = {e}
      <3> HIDE DEF S
      <3> QED
        BY <2>7, FS_Singleton
    <2>9. S = {<<c, m>>}
      <3> HIDE DEF S
      <3> QED
        BY <2>3, <2>8
    <2> QED
      BY <2>2, <2>6, <2>9
  <1> QED
    BY <1>2, <1>9, <1>10, <1>11, <1>12, <1>13

\* Linking: each but the last leads to the one after it, and nothing else changes.
LEMMA LinkedNodes ==
    ASSUME CellAssumption, node \in [Cell -> NodeRecord], NEW s \in Seq(Cell), Distinct(s)
    PROVE  /\ Linked(s) \in [Cell -> NodeRecord]
           /\ \A i \in 1 .. Len(s) - 1 : Linked(s)[s[i]].next = s[i + 1]
           /\ \A c \in Cell : (\A i \in 1 .. Len(s) - 1 : s[i] # c) => Linked(s)[c] = node[c]
           /\ \A c \in Cell : /\ Linked(s)[c].children = node[c].children
                              /\ Linked(s)[c].use = node[c].use /\ Linked(s)[c].it = node[c].it
  <1>1. Len(s) \in Nat /\ \A i \in 1 .. Len(s) : s[i] \in Cell
    BY LenProperties, ElementOfSeq
  <1>3. ASSUME NEW c \in Cell, NEW i \in 1 .. Len(s) - 1, s[i] = c
        PROVE  Linked(s)[c] = [node[c] EXCEPT !.next = s[i + 1]]
    <2>1. i \in 1 .. Len(s) /\ i \in Nat
      BY <1>1
    <2>2. {j \in 1 .. Len(s) : s[j] = c} = {i}
      BY <1>3, <2>1 DEF Distinct
    <2>3. Min({i}) = i
      BY <2>1 DEF Min
    <2>4. SelectInSeq(s, LAMBDA x : x = c) = i
      BY <2>2, <2>3 DEF SelectInSeq
    <2>5. Linked(s)[c] =
             IF \E k \in 1 .. Len(s) - 1 : s[k] = c
             THEN [node[c] EXCEPT !.next = s[SelectInSeq(s, LAMBDA x : x = c) + 1]]
             ELSE node[c]
      BY DEF Linked
    <2> QED
      BY <1>3, <2>4, <2>5
  <1>4. ASSUME NEW c \in Cell, \A i \in 1 .. Len(s) - 1 : s[i] # c
        PROVE  Linked(s)[c] = node[c]
    BY <1>4 DEF Linked
  <1>5. \A i \in 1 .. Len(s) - 1 : s[i] \in Cell /\ s[i + 1] \in Cell
    <2> SUFFICES ASSUME NEW i \in 1 .. Len(s) - 1
                 PROVE  s[i] \in Cell /\ s[i + 1] \in Cell
      OBVIOUS
    <2>1. i \in 1 .. Len(s) /\ i + 1 \in 1 .. Len(s)
      BY <1>1
    <2> QED
      BY <1>1, <2>1
  <1>6. ASSUME NEW c \in Cell
        PROVE  /\ Linked(s)[c] \in NodeRecord
               /\ Linked(s)[c].children = node[c].children
               /\ Linked(s)[c].use = node[c].use /\ Linked(s)[c].it = node[c].it
    <2>1. node[c] \in NodeRecord
      OBVIOUS
    <2>2. CASE \A i \in 1 .. Len(s) - 1 : s[i] # c
      BY <1>4, <2>1, <2>2
    <2>3. CASE \E i \in 1 .. Len(s) - 1 : s[i] = c
      <3>1. PICK i \in 1 .. Len(s) - 1 : s[i] = c
        BY <2>3
      <3>2. Linked(s)[c] = [node[c] EXCEPT !.next = s[i + 1]]
        BY <1>3, <3>1
      <3>3. s[i + 1] \in Cell
        BY <1>5
      <3> QED
        BY <2>1, <3>2, <3>3 DEF NodeRecord, Maybe
    <2> QED
      BY <2>2, <2>3
  <1>7. ASSUME NEW i \in 1 .. Len(s) - 1
        PROVE  Linked(s)[s[i]].next = s[i + 1]
    <2>1. s[i] \in Cell /\ node[s[i]] \in NodeRecord
      BY <1>5
    <2>2. Linked(s)[s[i]] = [node[s[i]] EXCEPT !.next = s[i + 1]]
      BY <1>3, <2>1
    <2> QED
      BY <2>1, <2>2 DEF NodeRecord
  <1>8. Linked(s) \in [Cell -> NodeRecord]
    <2>1. Linked(s) = [c \in Cell |-> Linked(s)[c]]
      BY DEF Linked
    <2> QED
      BY <1>6, <2>1
  <1> QED
    BY <1>4, <1>6, <1>7, <1>8

\* What linking items that nothing leads to does to the counts, when what it cuts
\* off hangs from that one link.
LEMMA LinkedLinks ==
    ASSUME CellAssumption, node \in [Cell -> NodeRecord], NEW s \in Seq(Cell), Distinct(s),
           \A x \in Cell : In(s, x) => Links(node, Cell, Pointer, x) = 0,
           \A i \in 1 .. Len(s) - 1 : node[s[i]].next # NULL =>
               LinkSet(node, Cell, Pointer, node[s[i]].next) = {<<s[i], "next">>},
           NEW x \in Cell
    PROVE  Links(Linked(s), Cell, Pointer, x) + Ind(x \in CutOff(s)) + Ind(In(s, x) /\ x = FirstOf(s)) =
           Links(node, Cell, Pointer, x) + Ind(In(s, x))
  <1> DEFINE L == Linked(s)
             new == LinkSet(L, Cell, Pointer, x)
             old == LinkSet(node, Cell, Pointer, x)
  <1>1. Len(s) \in Nat /\ \A i \in 1 .. Len(s) : s[i] \in Cell
    BY LenProperties, ElementOfSeq
  <1>2. /\ \A i \in 1 .. Len(s) - 1 : L[s[i]].next = s[i + 1]
        /\ \A c \in Cell : (\A i \in 1 .. Len(s) - 1 : s[i] # c) => L[c] = node[c]
        /\ \A c \in Cell : L[c].children = node[c].children
    BY LinkedNodes
  <1> HIDE DEF L
  <1>3. \A i \in 1 .. Len(s) - 1 : i \in 1 .. Len(s) /\ i + 1 \in 1 .. Len(s) /\ i + 1 # 1 /\ i \in Nat
    BY <1>1
  <1>4. IsFiniteSet(Cell) /\ IsFiniteSet(Pointer)
    BY TwoMembers DEF CellAssumption
  <1>5. Links(node, Cell, Pointer, x) \in Nat /\ (Links(node, Cell, Pointer, x) = 0 => old = {})
    <2>1. Links(node, Cell, Pointer, x) = 0 => \A c \in Cell, m \in Pointer : node[c][m] # x
      BY <1>4, LinksFinite
    <2> QED
      BY <1>4, <2>1, LinksFinite DEF LinkSet
  <1>6. ASSUME NEW c \in Cell, NEW m \in Pointer
        PROVE  /\ <<c, m>> \in new <=> L[c][m] = x
               /\ <<c, m>> \in old <=> node[c][m] = x
    BY DEF LinkSet
  <1>7. ASSUME NEW e \in new \cup old
        PROVE  \E c \in Cell, m \in Pointer : e = <<c, m>>
    <2>1. e \in Cell \X Pointer
      BY DEF LinkSet
    <2>2. e = <<e[1], e[2]>> /\ e[1] \in Cell /\ e[2] \in Pointer
      BY <2>1
    <2> QED
      BY <2>2
  <1> HIDE DEF new, old
  \* a link that changed is from an item to the next
  <1>8. ASSUME NEW c \in Cell, NEW m \in Pointer, L[c][m] # node[c][m]
        PROVE  m = "next" /\ \E i \in 1 .. Len(s) - 1 : s[i] = c /\ L[c][m] = s[i + 1]
    <2>1. m = "next" \/ m = "children"
      BY DEF Pointer
    <2>2. m = "next"
      BY <1>2, <1>8, <2>1
    <2>3. PICK i \in 1 .. Len(s) - 1 : s[i] = c
      BY <1>2, <1>8
    <2> QED
      BY <1>2, <2>2, <2>3
  <1>9. Ind(x \in CutOff(s)) \in Nat /\ Ind(In(s, x)) \in Nat /\ Ind(In(s, x) /\ x = FirstOf(s)) \in Nat
    BY InRange
  <1>10. CASE In(s, x)
    <2>1. PICK k \in 1 .. Len(s) : s[k] = x
      BY <1>10 DEF In
    <2>2. Links(node, Cell, Pointer, x) = 0 /\ old = {}
      BY <1>5, <1>10
    <2>3. x \notin CutOff(s)
      <3> SUFFICES ASSUME NEW i \in 1 .. Len(s) - 1, node[s[i]].next = x
                   PROVE  FALSE
        BY DEF CutOff
      <3>1. s[i] \in Cell /\ "next" \in Pointer
        BY <1>1, <1>3 DEF Pointer
      <3> QED
        BY <1>6, <2>2, <3>1
    <2>4. CASE k = 1
      <3>1. x = FirstOf(s)
        <4>1. s # <<>>
          BY <1>1, <2>1, EmptySeq
        <4> QED
          BY <2>1, <2>4, <4>1 DEF FirstOf
      <3>2. new = {}
        <4> SUFFICES ASSUME NEW c \in Cell, NEW m \in Pointer, L[c][m] = x
                     PROVE  FALSE
          BY <1>6, <1>7
        <4>1. node[c][m] # x
          BY <1>6, <2>2
        <4>2. PICK i \in 1 .. Len(s) - 1 : s[i + 1] = x
          BY <1>8, <4>1
        <4> QED
          BY <1>3, <2>1, <2>4, <4>2 DEF Distinct
      <3>3. Links(L, Cell, Pointer, x) = 0
        BY <3>2, FS_EmptySet DEF Links, new
      <3> QED
        BY <1>10, <2>2, <2>3, <3>1, <3>3 DEF Ind, L
    <2>5. CASE k # 1
      <3>1. k - 1 \in 1 .. Len(s) - 1 /\ k - 1 + 1 = k
        BY <1>1, <2>5
      <3>2. x # FirstOf(s)
        <4>1. s # <<>> /\ 1 \in 1 .. Len(s)
          BY <1>1, <2>1, EmptySeq
        <4> QED
          BY <2>1, <2>5, <4>1 DEF FirstOf, Distinct
      <3>3. s[k - 1] \in Cell /\ "next" \in Pointer
        BY <1>1, <1>3, <3>1 DEF Pointer
      <3>4. L[s[k - 1]].next = x
        BY <1>2, <2>1, <3>1
      <3>5. new = {<<s[k - 1], "next">>}
        <4>1. <<s[k - 1], "next">> \in new
          BY <1>6, <3>3, <3>4
        <4>2. ASSUME NEW c \in Cell, NEW m \in Pointer, L[c][m] = x
              PROVE  <<c, m>> = <<s[k - 1], "next">>
          <5>1. node[c][m] # x
            BY <1>6, <2>2
          <5>2. m = "next" /\ \E i \in 1 .. Len(s) - 1 : s[i] = c /\ x = s[i + 1]
            BY <1>8, <4>2, <5>1
          <5>3. PICK i \in 1 .. Len(s) - 1 : s[i] = c /\ x = s[i + 1]
            BY <5>2
          <5>4. i + 1 = k
            BY <1>3, <2>1, <5>3 DEF Distinct
          <5>5. i = k - 1
            BY <1>3, <2>1, <5>4
          <5> QED
            BY <5>2, <5>3, <5>5
        <4> QED
          BY <1>6, <1>7, <4>1, <4>2
      <3>6. Links(L, Cell, Pointer, x) = 1
        BY <3>5, FS_Singleton DEF Links, new
      <3> QED
        BY <1>10, <2>2, <2>3, <3>2, <3>6 DEF Ind, L
    <2> QED
      BY <2>4, <2>5
  <1>11. CASE ~In(s, x) /\ x \in CutOff(s)
    <2>1. PICK i \in 1 .. Len(s) - 1 : node[s[i]].next = x
      BY <1>11 DEF CutOff
    <2>2. s[i] \in Cell /\ "next" \in Pointer /\ x # NULL
      BY <1>1, <1>3, <1>11 DEF Pointer, CutOff
    <2>3. old = {<<s[i], "next">>}
      BY <2>1, <2>2 DEF old
    <2>4. Links(node, Cell, Pointer, x) = 1
      BY <2>3, FS_Singleton DEF Links, old
    <2>5. new = {}
      <3> SUFFICES ASSUME NEW c \in Cell, NEW m \in Pointer, L[c][m] = x
                   PROVE  FALSE
        BY <1>6, <1>7
      <3>1. L[c][m] = node[c][m]
        <4> SUFFICES ASSUME L[c][m] # node[c][m]
                     PROVE  FALSE
          OBVIOUS
        <4>1. PICK j \in 1 .. Len(s) - 1 : x = s[j + 1]
          BY <1>8
        <4> QED
          BY <1>3, <1>11, <4>1 DEF In
      <3>2. <<c, m>> \in old
        BY <1>6, <3>1
      <3>3. c = s[i] /\ m = "next"
        BY <2>3, <3>2
      <3>4. x = s[i + 1]
        BY <1>2, <3>3
      <3> QED
        BY <1>3, <1>11, <3>4 DEF In
    <2>6. Links(L, Cell, Pointer, x) = 0
      BY <2>5, FS_EmptySet DEF Links, new
    <2> QED
      BY <1>11, <2>4, <2>6 DEF Ind, L
  <1>12. CASE ~In(s, x) /\ x \notin CutOff(s)
    <2>1. ASSUME NEW c \in Cell, NEW m \in Pointer
          PROVE  L[c][m] = x <=> node[c][m] = x
      <3> SUFFICES ASSUME L[c][m] # node[c][m]
                   PROVE  L[c][m] # x /\ node[c][m] # x
        OBVIOUS
      <3>1. m = "next"
        BY <1>8
      <3>2. PICK i \in 1 .. Len(s) - 1 : s[i] = c /\ L[c][m] = s[i + 1]
        BY <1>8
      <3>3. L[c][m] # x
        BY <1>3, <1>12, <3>2 DEF In
      <3>4. x # NULL
        BY DEF CellAssumption
      <3>5. node[c][m] # x
        BY <1>12, <3>1, <3>2, <3>4 DEF CutOff
      <3> QED
        BY <3>3, <3>5
    <2>2. new = old
      BY <2>1 DEF new, old, LinkSet
    <2>3. Links(L, Cell, Pointer, x) = Links(node, Cell, Pointer, x)
      BY <2>2 DEF Links, new, old
    <2> QED
      BY <1>5, <1>12, <2>3 DEF Ind, L
  <1> QED
    BY <1>10, <1>11, <1>12

\* One more reference.
LEMMA AmongAppend ==
    ASSUME NEW S, NEW s \in Seq(S), NEW a \in S, NEW x
    PROVE  /\ Among(Append(s, a), x) = Among(s, x) + Ind(a = x)
           /\ Among(s, x) \in Nat /\ IsFiniteSet(DOMAIN Append(s, a)) /\ IsFiniteSet(DOMAIN s)
  <1>1. /\ DOMAIN s = 1 .. Len(s) /\ Len(s) \in Nat
        /\ DOMAIN Append(s, a) = 1 .. Len(s) + 1
        /\ \A i \in 1 .. Len(s) : Append(s, a)[i] = s[i]
        /\ Append(s, a)[Len(s) + 1] = a
    BY LenProperties, AppendProperties
  <1>2. IsFiniteSet(1 .. Len(s)) /\ IsFiniteSet(1 .. Len(s) + 1)
    BY <1>1, FS_Interval
  <1> DEFINE A == {i \in 1 .. Len(s) : s[i] = x}
             B == {i \in 1 .. Len(s) + 1 : Append(s, a)[i] = x}
  <1>3. IsFiniteSet(A) /\ Cardinality(A) = Among(s, x) /\ Among(s, x) \in Nat
    BY <1>1, <1>2, AmongFinite DEF Among
  <1>4. Cardinality(B) = Among(Append(s, a), x)
    BY <1>1 DEF Among
  <1>5. Len(s) + 1 \notin A
    BY <1>1
  <1>6. B = IF a = x THEN A \cup {Len(s) + 1} ELSE A
    BY <1>1
  <1> HIDE DEF A, B
  <1>7. Cardinality(A \cup {Len(s) + 1}) = Cardinality(A) + 1
    BY <1>3, <1>5, FS_AddElement
  <1>8. Cardinality(B) = Cardinality(A) + Ind(a = x)
    <2>1. CASE a = x
      BY <1>6, <1>7, <2>1 DEF Ind
    <2>2. CASE a # x
      BY <1>3, <1>6, <2>2 DEF Ind
    <2> QED
      BY <2>1, <2>2
  <1> QED
    BY <1>1, <1>2, <1>3, <1>4, <1>8

\* The places of loops stay reachable when only nodes without one change.
LEMMA ItAheadKept ==
    ASSUME ItAhead, NEW Z, Z \subseteq Cell, \A c \in Cell : node[c].next # NULL => node[c].next \in Cell,
           \A c \in Cell \ Z : /\ node[c].next \notin Z /\ node'[c].next = node[c].next
                               /\ node'[c].it = node[c].it,
           \A c \in Z : node'[c].it = NULL
    PROVE  ItAhead'
  <1> SUFFICES ASSUME NEW c \in Cell, node'[c].it # NULL,
                      NEW T \in SUBSET Cell, c \in T,
                      \A d \in T : node'[d].next # NULL => node'[d].next \in T
               PROVE  node'[c].it \in T
    BY DEF ItAhead, NextClosed
  <1>1. c \notin Z /\ node'[c].it = node[c].it
    OBVIOUS
  <1>2. T \ Z \in SUBSET Cell /\ c \in T \ Z
    BY <1>1
  <1>3. NextClosed(T \ Z)
    BY DEF NextClosed
  <1>4. node[c].it \in T \ Z
    BY <1>1, <1>2, <1>3 DEF ItAhead
  <1> QED
    BY <1>1, <1>4

\* Linking some of the items on the stack.
LEMMA GroupLinked ==
    ASSUME CellAssumption, Core, job # NULL, NEW Y, Young(Y),
           NEW s \in Seq(Cell), Distinct(s), \A x \in Cell : In(s, x) => In(job.stack, x)
    PROVE  /\ Linked(s) \in [Cell -> NodeRecord]
           /\ \A c \in Cell \ Y : Linked(s)[c] = node[c]
           /\ \A c \in Y : /\ Linked(s)[c].next \in Maybe(Y) /\ Linked(s)[c].children \in Maybe(Y)
                           /\ Linked(s)[c].it = NULL
           /\ \A c \in Cell : Linked(s)[c].use = node[c].use
           /\ CutOff(s) \subseteq Y
           /\ \A x \in CutOff(s) : Others(x) = 0 /\ ~In(job.stack, x)
           /\ \A x \in Cell :
                 Links(Linked(s), Cell, Pointer, x) + Ind(x \in CutOff(s)) + Ind(In(s, x) /\ x = FirstOf(s)) =
                 Links(node, Cell, Pointer, x) + Ind(In(s, x))
  <1>1. node \in [Cell -> NodeRecord]
    BY DEF Core, Shape, NodesTyped, NodeRecord
  <1>2. Len(s) \in Nat /\ \A i \in 1 .. Len(s) : s[i] \in Cell
    BY LenProperties, ElementOfSeq
  <1>3. \A i \in 1 .. Len(s) - 1 : i \in 1 .. Len(s) /\ i + 1 \in 1 .. Len(s)
    BY <1>2
  <1>14. \A x \in Cell : In(job.stack, x) =>
              x \in Y /\ Links(node, Cell, Pointer, x) = 0 /\ Others(x) = 1
    <2> SUFFICES ASSUME NEW x \in Cell, In(job.stack, x)
                 PROVE  x \in Y /\ Links(node, Cell, Pointer, x) = 0 /\ Others(x) = 1
      OBVIOUS
    <2> QED
      BY YoungFacts
  <1>15. ASSUME NEW c \in Y, NEW m \in Pointer, node[c][m] # NULL
         PROVE  /\ node[c][m] \in Y /\ Others(node[c][m]) = 0
                /\ LinkSet(node, Cell, Pointer, node[c][m]) = {<<c, m>>}
    BY <1>15, YoungFacts
  <1>4. /\ \A x \in Cell : In(job.stack, x) =>
              x \in Y /\ Links(node, Cell, Pointer, x) = 0 /\ Others(x) = 1
        /\ \A c \in Y, m \in Pointer : node[c][m] # NULL =>
              /\ node[c][m] \in Y /\ Others(node[c][m]) = 0
              /\ LinkSet(node, Cell, Pointer, node[c][m]) = {<<c, m>>}
    BY <1>14, <1>15
  <1>5. \A i \in 1 .. Len(s) : s[i] \in Y /\ In(s, s[i])
    BY <1>2, <1>4 DEF In
  <1>6. "next" \in Pointer /\ Y \subseteq Cell
    BY DEF Pointer, Young
  <1>7. \A x \in CutOff(s) : x \in Y /\ Others(x) = 0
    <2> SUFFICES ASSUME NEW i \in 1 .. Len(s) - 1, node[s[i]].next # NULL
                 PROVE  node[s[i]].next \in Y /\ Others(node[s[i]].next) = 0
      BY DEF CutOff
    <2>1. s[i] \in Y
      BY <1>3, <1>5
    <2> QED
      BY <1>4, <1>6, <2>1
  <1>8. \A x \in CutOff(s) : ~In(job.stack, x)
    <2> SUFFICES ASSUME NEW x \in CutOff(s), In(job.stack, x)
                 PROVE  FALSE
      OBVIOUS
    <2>1. x \in Cell /\ Others(x) = 0
      BY <1>6, <1>7
    <2>2. Others(x) = 1
      BY <1>14, <2>1
    <2> QED
      BY <2>1, <2>2
  <1>9. /\ Linked(s) \in [Cell -> NodeRecord]
        /\ \A i \in 1 .. Len(s) - 1 : Linked(s)[s[i]].next = s[i + 1]
        /\ \A c \in Cell : (\A i \in 1 .. Len(s) - 1 : s[i] # c) => Linked(s)[c] = node[c]
        /\ \A c \in Cell : /\ Linked(s)[c].children = node[c].children
                           /\ Linked(s)[c].use = node[c].use /\ Linked(s)[c].it = node[c].it
    BY <1>1, LinkedNodes
  <1>10. \A i \in 1 .. Len(s) - 1 : node[s[i]].next # NULL =>
               LinkSet(node, Cell, Pointer, node[s[i]].next) = {<<s[i], "next">>}
    BY <1>3, <1>4, <1>5, <1>6
  <1>11. \A x \in Cell :
                 Links(Linked(s), Cell, Pointer, x) + Ind(x \in CutOff(s)) + Ind(In(s, x) /\ x = FirstOf(s)) =
                 Links(node, Cell, Pointer, x) + Ind(In(s, x))
    BY <1>1, <1>4, <1>10, LinkedLinks
  <1>12. \A c \in Cell \ Y : Linked(s)[c] = node[c]
    BY <1>3, <1>5, <1>9
  <1>13. ASSUME NEW c \in Y
         PROVE  /\ Linked(s)[c].next \in Maybe(Y) /\ Linked(s)[c].children \in Maybe(Y)
                /\ Linked(s)[c].it = NULL
    <2>1. node[c].next \in Maybe(Y) /\ node[c].children \in Maybe(Y) /\ node[c].it = NULL
      BY DEF Young
    <2>2. CASE \A i \in 1 .. Len(s) - 1 : s[i] # c
      BY <1>6, <1>9, <2>1, <2>2
    <2>3. CASE \E i \in 1 .. Len(s) - 1 : s[i] = c
      <3>1. PICK i \in 1 .. Len(s) - 1 : s[i] = c
        BY <2>3
      <3>2. s[i + 1] \in Y
        BY <1>3, <1>5
      <3> QED
        BY <1>6, <1>9, <2>1, <3>1, <3>2 DEF Maybe
    <2> QED
      BY <2>2, <2>3
  <1> QED
    BY <1>7, <1>8, <1>9, <1>11, <1>12, <1>13

\* The rest of a sequence and its end.
LEMMA SplitItems ==
    ASSUME NEW s \in Seq(Cell), Distinct(s), NEW n \in 0 .. Len(s)
    PROVE  LET rest == SubSeq(s, 1, n)
               group == SubSeq(s, n + 1, Len(s))
           IN  /\ rest \in Seq(Cell) /\ group \in Seq(Cell) /\ Distinct(rest) /\ Distinct(group)
               /\ Len(rest) = n /\ Len(group) = Len(s) - n
               /\ \A x : Ind(In(s, x)) = Ind(In(rest, x)) + Ind(In(group, x))
               /\ \A x : In(rest, x) \/ In(group, x) => In(s, x)
  <1> DEFINE rest == SubSeq(s, 1, n)
             group == SubSeq(s, n + 1, Len(s))
  <1>1. Len(s) \in Nat /\ n \in Nat /\ n <= Len(s)
    BY LenProperties
  <1>2. rest \in Seq(Cell) /\ Len(rest) = n /\ \A i \in 1 .. n : rest[i] = s[i]
    BY <1>1, SubSeqProperties
  <1>3. group \in Seq(Cell) /\ Len(group) = Len(s) - n
        /\ \A i \in 1 .. Len(s) - n : group[i] = s[n + i]
    BY <1>1, SubSeqProperties
  <1> HIDE DEF rest, group
  <1>4. \A i \in 1 .. n : i \in 1 .. Len(s)
    BY <1>1
  <1>5. \A i \in 1 .. Len(s) - n : n + i \in 1 .. Len(s) /\ n + i \notin 1 .. n /\ i \in Nat
    BY <1>1
  <1>6. \A j \in 1 .. Len(s) : j \in 1 .. n \/ (j - n \in 1 .. Len(s) - n /\ n + (j - n) = j)
    BY <1>1
  <1>7. Distinct(rest)
    BY <1>2, <1>4 DEF Distinct
  <1>8. Distinct(group)
    <2> SUFFICES ASSUME NEW i \in 1 .. Len(s) - n, NEW j \in 1 .. Len(s) - n, group[i] = group[j]
                 PROVE  i = j
      BY <1>3 DEF Distinct
    <2>1. n + i = n + j
      BY <1>3, <1>5 DEF Distinct
    <2> QED
      BY <1>1, <1>5, <2>1
  <1>9. ASSUME NEW x, In(rest, x) PROVE In(s, x) /\ ~In(group, x)
    <2>1. PICK i \in 1 .. n : s[i] = x
      BY <1>2, <1>9 DEF In
    <2>2. In(s, x)
      BY <1>4, <2>1 DEF In
    <2>3. ASSUME NEW j \in 1 .. Len(s) - n, group[j] = x PROVE FALSE
      <3>1. s[n + j] = x
        BY <1>3, <2>3
      <3>2. n + j = i
        BY <1>4, <1>5, <2>1, <3>1 DEF Distinct
      <3> QED
        BY <1>5, <3>2
    <2> QED
      BY <1>3, <2>2, <2>3 DEF In
  <1>10. ASSUME NEW x, In(group, x) PROVE In(s, x)
    BY <1>3, <1>5, <1>10 DEF In
  <1>11. ASSUME NEW x, In(s, x) PROVE In(rest, x) \/ In(group, x)
    <2>1. PICK j \in 1 .. Len(s) : s[j] = x
      BY <1>11 DEF In
    <2>2. CASE j \in 1 .. n
      BY <1>2, <2>1, <2>2 DEF In
    <2>3. CASE j - n \in 1 .. Len(s) - n /\ n + (j - n) = j
      <3>1. group[j - n] = x
        BY <1>3, <2>1, <2>3
      <3> QED
        BY <1>3, <2>3, <3>1 DEF In
    <2> QED
      BY <1>6, <2>2, <2>3
  <1>12. \A x : Ind(In(s, x)) = Ind(In(rest, x)) + Ind(In(group, x))
    BY <1>9, <1>10, <1>11 DEF Ind
  <1> QED
    BY <1>2, <1>3, <1>7, <1>8, <1>9, <1>10, <1>12 DEF rest, group

\* A reduction takes items that are there, and the parser goes on.
LEMMA ReduceParser ==
    ASSUME CellAssumption, Core, job # NULL, job.at <= Len(job.text.ops)
    PROVE  LET op == job.text.ops[job.at]
           IN  /\ op \in Operation /\ Len(job.stack) - op.take \in 0 .. Len(job.stack)
               /\ Len(job.stack) \in Nat /\ op.take \in Nat /\ job.stack \in Seq(Cell)
               /\ \A stk \in Seq(Cell) :
                     Len(stk) = Len(job.stack) - op.take + 1
                     /\ job' = [job EXCEPT !.at = @ + 1, !.stack = stk] =>
                     /\ job' \in ParserState /\ job' # NULL
                     /\ job'.at \in 1 .. Len(job'.text.ops) + 1
                     /\ \E depth : Depths(job'.text, depth) /\ Len(job'.stack) = depth[job'.at - 1]
                     /\ job'.stack = stk /\ job'.self = job.self
  <1> DEFINE op == job.text.ops[job.at]
  <1>1. job \in ParserState /\ job.at \in 1 .. Len(job.text.ops) + 1
    BY DEF Core, Parsing
  <1>2. /\ job.text \in AnyText /\ job.stack \in Seq(Cell) /\ job.at \in Nat
    BY <1>1 DEF ParserState
  <1>3. job.text.ops \in Seq(Operation)
    BY <1>2 DEF AnyText
  <1>4. Len(job.text.ops) \in Nat /\ Len(job.stack) \in Nat
    BY <1>2, <1>3, LenProperties
  <1>5. job.at \in 1 .. Len(job.text.ops) /\ job.at + 1 \in 1 .. Len(job.text.ops) + 1
    BY <1>1, <1>2, <1>4
  <1>6. op \in Operation
    BY <1>3, <1>5, ElementOfSeq
  <1>7. op.take \in Nat
    BY <1>6 DEF Operation
  <1>8. PICK depth : Depths(job.text, depth) /\ Len(job.stack) = depth[job.at - 1]
    BY DEF Core, Parsing
  <1>9. op.take <= Len(job.stack) /\ depth[job.at] = Len(job.stack) - op.take + 1
    BY <1>5, <1>8 DEF Depths
  <1>10. Len(job.stack) - op.take \in 0 .. Len(job.stack)
    BY <1>4, <1>7, <1>9
  <1>11. ASSUME NEW stk \in Seq(Cell), Len(stk) = Len(job.stack) - op.take + 1,
                job' = [job EXCEPT !.at = @ + 1, !.stack = stk]
         PROVE  /\ job' \in ParserState /\ job' # NULL
                /\ job'.at \in 1 .. Len(job'.text.ops) + 1
                /\ \E d : Depths(job'.text, d) /\ Len(job'.stack) = d[job'.at - 1]
                /\ job'.stack = stk /\ job'.self = job.self
    <2>1. /\ job'.text = job.text /\ job'.at = job.at + 1 /\ job'.stack = stk
          /\ job'.self = job.self /\ job' \in ParserState
      <3>1. job.at + 1 \in Nat
        BY <1>2
      <3>2. DOMAIN job = {"text", "at", "stack", "self"} /\ job.self \in Maybe(Cell)
        BY <1>1 DEF ParserState
      <3>3. /\ job'.text = job.text /\ job'.at = job.at + 1 /\ job'.stack = stk
            /\ job'.self = job.self
        BY <1>11, <3>2
      <3>4. job' = [text |-> job.text, at |-> job.at + 1, stack |-> stk, self |-> job.self]
        BY <1>1, <1>11 DEF ParserState
      <3> QED
        BY <1>2, <3>1, <3>2, <3>3, <3>4 DEF ParserState
    <2>2. job' # NULL
      BY <2>1 DEF ParserState, CellAssumption
    <2>3. job'.at - 1 = job.at
      BY <1>2, <2>1
    <2>4. Depths(job'.text, depth) /\ Len(job'.stack) = depth[job'.at - 1]
      BY <1>8, <1>9, <1>11, <2>1, <2>3
    <2> QED
      BY <1>5, <2>1, <2>2, <2>4
  <1> HIDE DEF op
  <1> QED
    BY <1>2, <1>4, <1>6, <1>7, <1>10, <1>11 DEF op

\* The first of some items.
LEMMA FirstOfItems ==
    ASSUME CellAssumption, NEW s \in Seq(Cell)
    PROVE  /\ s = <<>> => FirstOf(s) = NULL /\ \A x : ~In(s, x)
           /\ s # <<>> => FirstOf(s) \in Cell /\ FirstOf(s) = s[1] /\ In(s, FirstOf(s))
           /\ \A x \in Cell : In(s, x) /\ x = FirstOf(s) <=> x = FirstOf(s)
           /\ Len(s) \in Nat /\ (s = <<>> <=> Len(s) = 0)
  <1>1. Len(s) \in Nat /\ (s = <<>> <=> Len(s) = 0) /\ \A i \in 1 .. Len(s) : s[i] \in Cell
    BY LenProperties, EmptySeq, ElementOfSeq
  <1>2. CASE s = <<>>
    BY <1>1, <1>2 DEF FirstOf, In, CellAssumption
  <1>3. CASE s # <<>>
    <2>1. 1 \in 1 .. Len(s)
      BY <1>1, <1>3
    <2> QED
      BY <1>1, <1>3, <2>1 DEF FirstOf, In
  <1> QED
    BY <1>1, <1>2, <1>3

\* What follows for the state of the parser and the reading of the file.
LEMMA ReadOn ==
    ASSUME Core, job # NULL, UNCHANGED <<held, loops, field, file, reading>>,
           job' # NULL, job' \in ParserState, job'.self = job.self,
           job'.at \in 1 .. Len(job'.text.ops) + 1,
           \E depth : Depths(job'.text, depth) /\ Len(job'.stack) = depth[job'.at - 1],
           \E Y : Young(Y)',
           job.self # NULL => count'[job.self] = count[job.self] /\ node'[job.self] = node[job.self]
    PROVE  Parsing'
  <1>1. Parsing
    BY DEF Core
  <1>2. job'.self # NULL => held'[job'.self] = 1 /\ count'[job'.self] = 1 /\ node'[job'.self] = Blank
    BY <1>1 DEF Parsing
  <1>3. job'.self = NULL => reading' \in 1 .. Len(file') /\ Line'.name \in TextName
    BY <1>1 DEF Parsing, Line
  <1>4. Line' = (Line)'
    OBVIOUS
  <1>5. \E Y : Young(Y)'
    OBVIOUS
  <1>6. (\E depth : Depths(job.text, depth) /\ Len(job.stack) = depth[job.at - 1])'
    BY DEF Depths
  <1> QED
    BY <1>2, <1>3, <1>5, <1>6 DEF Parsing

\* What an expression of the ebuild refers to has a reference that is no pointer.
LEMMA FieldReferred ==
    ASSUME CellAssumption, Core, NEW n \in TextName, field[n] # NULL
    PROVE  field[n] \in Cell /\ Others(field[n]) # 0 /\ Among(field, field[n]) # 0
  <1>1. field[n] \in Cell /\ DOMAIN field = TextName
    BY DEF Core, Shape, Maybe
  <1>2. Among(field, field[n]) # 0
    BY <1>1, TextNames, AmongFinite
  <1>3. Among(field, field[n]) \in Nat /\ Others(field[n]) \in Nat /\ Among(field, field[n]) <= Others(field[n])
    BY <1>1, OthersNat DEF Core
  <1> QED
    BY <1>1, <1>2, <1>3

\* A step of the parser that loses what only nodes refer to.
LEMMA Rebuilt ==
    ASSUME CellAssumption, Core, IInv', given \subseteq given',
           node' \in [Cell -> NodeRecord], count' \in [Cell -> Nat],
           UNCHANGED <<held, loops, field, file, reading>>,
           NEW cut, cut \subseteq Cell, lost' = lost \cup cut, \A x \in cut : Others(x) = 0,
           \A c \in Cell : node'[c].use # NULL => \E g \in given' : g.id = node'[c].use,
           CountsExact', BlankWhenFree', ItAhead', Parsing'
    PROVE  Core'
  <1>1. Shape'
    BY DEF Core, Shape, NodesTyped, NodeRecord, LoopsTyped
  <1>2. Roots'
    <2>1. \A n \in TextName : field[n] \notin cut
      BY FieldReferred DEF CellAssumption
    <2> QED
      BY <2>1 DEF Core, Roots
  <1>3. UsesGiven'
    BY DEF UsesGiven
  <1> QED
    BY <1>1, <1>2, <1>3 DEF Core

\* The references that are no pointers, after a step of the parser.
LEMMA OthersAfter ==
    ASSUME NEW x
    PROVE  Others(x)' = Links(loops', DOMAIN loops', OfLoop, x) + Stacked(x)' + Ind(x \in lost')
                        + held'[x] + Among(field', x)
  BY DEF Others, Links, LinkSet, Ind, Among

\* Nodes that are lost become references.
LEMMA CutCounted ==
    ASSUME CellAssumption, Core, NEW cut, lost' = lost \cup cut, \A y \in cut : Others(y) = 0, NEW x \in Cell
    PROVE  Ind(x \in lost') = Ind(x \in lost) + Ind(x \in cut)
  <1>1. x \in cut => x \notin lost
    <2> SUFFICES ASSUME x \in cut, x \in lost PROVE FALSE
      OBVIOUS
    <2>1. Others(x) = 0 /\ Ind(x \in lost) = 1
      BY DEF Ind
    <2>2. Ind(x \in lost) <= Others(x)
      BY OthersNat DEF Core
    <2> QED
      BY <2>1, <2>2
  <1> QED
    BY <1>1 DEF Ind

\* A group in parentheses: the parser lets go of the group and keeps its first
\* node, the others have each other or are cut.
LEMMA ParenBalance ==
  ASSUME NEW p \in Nat, NEW q \in Nat, NEW l \in Nat, NEW inRest \in Nat, NEW inGroup \in Nat,
         NEW first \in Nat, NEW isLost \in Nat, NEW isCut \in Nat, NEW e \in Nat, NEW f \in Nat,
         q + isCut + first = p + inGroup
  PROVE  p + (l + (inRest + inGroup) + isLost + e + f) =
         q + (l + (inRest + first) + (isLost + isCut) + e + f)
  OBVIOUS

\* A group in parentheses is the list itself.
LEMMA ReduceParenCore ==
    ASSUME CellAssumption, HashAssumption, OverlapAssumption, FlagAssumption, Core,
           job # NULL, job.at <= Len(job.text.ops),
           UNCHANGED <<held, loops, made, ebuild>>,
           ReduceParen(job.text.ops[job.at],
                       SubSeq(job.stack, 1, Len(job.stack) - job.text.ops[job.at].take),
                       SubSeq(job.stack, Len(job.stack) - job.text.ops[job.at].take + 1, Len(job.stack)))
    PROVE  Core'
  <1> DEFINE op == job.text.ops[job.at]
             n == Len(job.stack) - op.take
             rest == SubSeq(job.stack, 1, n)
             group == SubSeq(job.stack, n + 1, Len(job.stack))
             stk == Append(rest, group[1])
             cut == CutOff(group)
  <1>1. PICK Y : Young(Y)
    BY DEF Core, Parsing
  <1>2. /\ op \in Operation /\ n \in 0 .. Len(job.stack) /\ Len(job.stack) \in Nat
        /\ op.take \in Nat /\ job.stack \in Seq(Cell)
    BY ReduceParser
  <1>3. /\ job.stack \in Seq(Cell) /\ Distinct(job.stack)
        /\ \A x \in Cell : Stacked(x) = Ind(In(job.stack, x))
    BY <1>1, YoungFacts
  <1>4. /\ rest \in Seq(Cell) /\ group \in Seq(Cell) /\ Distinct(rest) /\ Distinct(group)
        /\ Len(rest) = n /\ Len(group) = Len(job.stack) - n
        /\ \A x : Ind(In(job.stack, x)) = Ind(In(rest, x)) + Ind(In(group, x))
        /\ \A x : In(rest, x) \/ In(group, x) => In(job.stack, x)
    BY <1>2, <1>3, SplitItems
  <1>5. op.do = "paren" /\ op.take # 0
    <2>1. op.do = "paren"
      BY DEF ReduceParen
    <2> QED
      BY <1>2, <2>1 DEF Operation
  <1>6. /\ node' = Linked(group) /\ lost' = lost \cup cut /\ UNCHANGED <<vars, count>>
        /\ job' = [job EXCEPT !.at = @ + 1, !.stack = stk]
        /\ UNCHANGED <<held, loops, field, file, reading>>
    BY DEF ReduceParen, ebuild
  <1>7. Len(group) = op.take /\ Len(rest) + 1 = Len(job.stack) - op.take + 1
    <2> HIDE DEF op, rest, group
    <2> QED
      BY <1>2, <1>4
  <1>8. \A stack \in Seq(Cell) :
                     Len(stack) = Len(job.stack) - op.take + 1
                     /\ job' = [job EXCEPT !.at = @ + 1, !.stack = stack] =>
                     /\ job' \in ParserState /\ job' # NULL
                     /\ job'.at \in 1 .. Len(job'.text.ops) + 1
                     /\ \E depth : Depths(job'.text, depth) /\ Len(job'.stack) = depth[job'.at - 1]
                     /\ job'.stack = stack /\ job'.self = job.self
    BY ReduceParser
  <1> HIDE DEF op, n, rest, group, cut
  <1>9. /\ group # <<>> /\ FirstOf(group) = group[1] /\ group[1] \in Cell /\ In(group, group[1])
        /\ \A x \in Cell : In(group, x) /\ x = FirstOf(group) <=> x = group[1]
    BY <1>2, <1>4, <1>5, <1>7, FirstOfItems
  <1>10. /\ stk \in Seq(Cell) /\ Len(stk) = Len(rest) + 1
         /\ \A i \in 1 .. Len(rest) : stk[i] = rest[i]
         /\ stk[Len(rest) + 1] = group[1]
    BY <1>4, <1>9, AppendProperties
  <1>11. \A x \in Cell : Among(stk, x) = Ind(In(rest, x)) + Ind(group[1] = x)
    <2>1. \A x \in Cell : Among(stk, x) = Among(rest, x) + Ind(group[1] = x)
      BY <1>4, <1>9, AmongAppend
    <2>2. \A x : Among(rest, x) = Ind(In(rest, x))
      BY <1>4, AmongItems
    <2> QED
      BY <2>1, <2>2
  <1>12. \A i \in 1 .. Len(stk) : In(job.stack, stk[i])
    <2> SUFFICES ASSUME NEW i \in 1 .. Len(stk)
                 PROVE  In(job.stack, stk[i])
      OBVIOUS
    <2>1. Len(rest) \in Nat
      BY <1>4, LenProperties
    <2>2. i \in 1 .. Len(rest) \/ i = Len(rest) + 1
      BY <1>10, <2>1
    <2>3. CASE i \in 1 .. Len(rest)
      <3>1. In(rest, stk[i])
        BY <1>10, <2>3 DEF In
      <3> QED
        BY <1>4, <3>1
    <2>4. CASE i = Len(rest) + 1
      BY <1>4, <1>9, <1>10, <2>4
    <2> QED
      BY <2>2, <2>3, <2>4
  <1> HIDE DEF stk
  <1>13. /\ job' \in ParserState /\ job' # NULL
         /\ job'.at \in 1 .. Len(job'.text.ops) + 1
         /\ \E depth : Depths(job'.text, depth) /\ Len(job'.stack) = depth[job'.at - 1]
         /\ job'.stack = stk /\ job'.self = job.self
    BY <1>6, <1>7, <1>8, <1>10
  <1>14. /\ Linked(group) \in [Cell -> NodeRecord]
         /\ \A c \in Cell \ Y : Linked(group)[c] = node[c]
         /\ \A c \in Y : /\ Linked(group)[c].next \in Maybe(Y) /\ Linked(group)[c].children \in Maybe(Y)
                         /\ Linked(group)[c].it = NULL
         /\ \A c \in Cell : Linked(group)[c].use = node[c].use
         /\ cut \subseteq Y
         /\ \A x \in cut : Others(x) = 0 /\ ~In(job.stack, x)
         /\ \A x \in Cell :
               Links(Linked(group), Cell, Pointer, x) + Ind(x \in cut) + Ind(In(group, x) /\ x = FirstOf(group)) =
               Links(node, Cell, Pointer, x) + Ind(In(group, x))
    BY <1>1, <1>4, GroupLinked DEF cut
  <1>15. /\ Y \subseteq Cell /\ job.self \notin Y
         /\ \A i \in 1 .. Len(job.stack) : job.stack[i] \in Y
         /\ \A c \in Y : count[c] = 1
         /\ \A c \in Cell \ Y : node[c].next \notin Y /\ node[c].children \notin Y
    BY <1>1 DEF Young
  <1>16. CountsExact'
    <2> SUFFICES ASSUME NEW x \in Cell
                 PROVE  count'[x] = Links(node', Cell, Pointer, x) + Others(x)'
      BY DEF CountsExact, Links, LinkSet
    <2>1. count[x] = Links(node, Cell, Pointer, x) + Others(x)
      BY DEF Core, CountsExact
    <2>2. Others(x) = Links(loops, DOMAIN loops, OfLoop, x) + Ind(In(job.stack, x)) + Ind(x \in lost)
                      + held[x] + Among(field, x)
      BY <1>3 DEF Others
    <2>3. Stacked(x)' = Ind(In(rest, x)) + Ind(group[1] = x)
      BY <1>11, <1>13 DEF Stacked, Among
    <2>4. Others(x)' = Links(loops, DOMAIN loops, OfLoop, x) + (Ind(In(rest, x)) + Ind(group[1] = x))
                       + (Ind(x \in lost) + Ind(x \in cut)) + held[x] + Among(field, x)
      BY <1>6, <1>14, <2>3, OthersAfter, CutCounted
    <2>5. Ind(In(job.stack, x)) = Ind(In(rest, x)) + Ind(In(group, x))
      BY <1>4
    <2>6. Links(node', Cell, Pointer, x) + Ind(x \in cut) + Ind(group[1] = x) =
          Links(node, Cell, Pointer, x) + Ind(In(group, x))
      BY <1>6, <1>9, <1>14 DEF Ind
    <2>7. /\ Links(loops, DOMAIN loops, OfLoop, x) \in Nat /\ held[x] \in Nat /\ Among(field, x) \in Nat
          /\ Ind(x \in lost) \in Nat /\ Ind(x \in cut) \in Nat /\ Ind(group[1] = x) \in Nat
          /\ Ind(In(group, x)) \in Nat /\ Ind(In(rest, x)) \in Nat
      BY OthersNat, InRange DEF Core
    <2>8. Links(node, Cell, Pointer, x) \in Nat /\ Links(node', Cell, Pointer, x) \in Nat
      BY LinksFinite, TwoMembers DEF CellAssumption
    <2>9. count'[x] = count[x]
      BY <1>6
    <2> DEFINE p == Links(node, Cell, Pointer, x)
               q == Links(node', Cell, Pointer, x)
               l == Links(loops, DOMAIN loops, OfLoop, x)
               inRest == Ind(In(rest, x))
               inGroup == Ind(In(group, x))
               first == Ind(group[1] = x)
               isLost == Ind(x \in lost)
               isCut == Ind(x \in cut)
               f == Among(field, x)
               e == held[x]
    <2>10. Others(x) = l + (inRest + inGroup) + isLost + e + f
      BY <2>2, <2>5
    <2>11. q + isCut + first = p + inGroup
      BY <2>6
    <2>12. Others(x)' = l + (inRest + first) + (isLost + isCut) + e + f
      BY <2>4
    <2>13. count'[x] = p + Others(x)
      BY <2>1, <2>9
    <2>14. /\ p \in Nat /\ q \in Nat /\ l \in Nat /\ inRest \in Nat /\ inGroup \in Nat /\ first \in Nat
           /\ isLost \in Nat /\ isCut \in Nat /\ f \in Nat /\ e \in Nat
      BY <2>7, <2>8
    <2> HIDE DEF p, q, l, inRest, inGroup, first, isLost, isCut, f, e
    <2>16. p + (l + (inRest + inGroup) + isLost + e + f) =
           q + (l + (inRest + first) + (isLost + isCut) + e + f)
      BY ONLY <2>11, <2>14, ParenBalance
    <2>15. count'[x] = q + Others(x)'
      BY <2>10, <2>12, <2>13, <2>16
    <2> QED
      BY <2>15 DEF q
  <1>17. BlankWhenFree'
    <2> SUFFICES ASSUME NEW c \in Cell, count'[c] = 0
                 PROVE  node'[c] = Blank
      BY DEF BlankWhenFree
    <2>1. count[c] = 0 /\ c \notin Y
      BY <1>6, <1>15
    <2> QED
      BY <1>6, <1>14, <2>1 DEF Core, BlankWhenFree
  <1>18. ItAhead'
    <2>1. \A c \in Cell : node[c].next # NULL => node[c].next \in Cell
      BY DEF Core, Shape, NodesTyped, Maybe
    <2> QED
      BY <1>6, <1>14, <1>15, <2>1, ItAheadKept DEF Core
  <1>19. Young(Y)'
    <2>1. \A i \in 1 .. Len(stk) : stk[i] \in Y
      BY <1>12, <1>15 DEF In
    <2>2. \A c \in Cell \ Y : node'[c].next \notin Y /\ node'[c].children \notin Y
      BY <1>6, <1>14, <1>15
    <2> QED
      BY <1>6, <1>13, <1>14, <1>15, <2>1, <2>2 DEF Young
  <1>20. job.self # NULL => count'[job.self] = count[job.self] /\ node'[job.self] = node[job.self]
    <2>1. job.self \in Maybe(Cell)
      BY DEF Core, Parsing, ParserState
    <2> QED
      BY <1>6, <1>14, <1>15, <2>1 DEF Maybe
  <1>21. Parsing'
    BY <1>6, <1>13, <1>19, <1>20, ReadOn
  <1>22. IInv' /\ given' = given
    BY <1>6, IInvKept DEF Core, vars
  <1>23. \A c \in Cell : node'[c].use # NULL => \E g \in given' : g.id = node'[c].use
    BY <1>6, <1>14, <1>22 DEF Core, UsesGiven
  <1>24. count' \in [Cell -> Nat] /\ cut \subseteq Cell /\ node' \in [Cell -> NodeRecord]
    BY <1>6, <1>14, <1>15 DEF Core, Shape, NodesTyped
  <1> QED
    BY <1>6, <1>14, <1>16, <1>17, <1>18, <1>21, <1>22, <1>23, <1>24, Rebuilt

\* A node that was interned: its flag's id is given out from now on.
LEMMA Interned ==
    ASSUME HashAssumption, OverlapAssumption, FlagAssumption, CellAssumption, Core, NEW flag \in Maybe(Key),
           IF flag = NULL THEN UNCHANGED vars ELSE UseGetGlobal(flag)
    PROVE  /\ IInv' /\ given \subseteq given'
           /\ flag # NULL => /\ GetId(global_flags, flag).id \in Id
                             /\ \E g \in given' : g.id = GetId(global_flags, flag).id
  <1>1. CASE flag = NULL
    BY <1>1, IInvKept DEF Core, vars
  <1>2. CASE flag # NULL
    <2>1. flag \in Key /\ UseGetGlobal(flag)
      BY <1>2 DEF Maybe
    <2>2. IInv'
      <3>1. [Next]_vars
        BY <2>1 DEF Next
      <3> QED
        BY <3>1, NextIInv DEF Core
    <2>3. given' = given \cup {[name |-> flag, id |-> GetId(global_flags, flag).id]}
      BY <2>1 DEF UseGetGlobal
    <2> DEFINE g == [name |-> flag, id |-> GetId(global_flags, flag).id]
    <2>4. g \in given' /\ g.id = GetId(global_flags, flag).id
      BY <2>3
    <2>5. g \in [name : Key, id : Id]
      BY <2>2, <2>4 DEF IInv, TypeOK
    <2>6. g.id \in Id
      BY <2>5
    <2> HIDE DEF g
    <2> QED
      BY <2>2, <2>3, <2>4, <2>6
  <1> QED
    BY <1>1, <1>2

\* The pointers of all cells and of all but one.
LEMMA LinksBut ==
    ASSUME IsFiniteSet(Cell), NEW f, NEW t \in Cell, NEW x
    PROVE  /\ Links(f, Cell, Pointer, x) =
                 Links(f, Cell \ {t}, Pointer, x) + Ind(f[t].next = x) + Ind(f[t].children = x)
           /\ Links(f, Cell \ {t}, Pointer, x) \in Nat
  <1> DEFINE S == Cell \ {t}
  <1>1. IsFiniteSet(S) /\ t \notin S
    BY FS_Subset
  <1>2. S \cup {t} = Cell
    OBVIOUS
  <1> HIDE DEF S
  <1>3. Links(f, S \cup {t}, Pointer, x) =
               Links(f, S, Pointer, x) + Ind(f[t].next = x) + Ind(f[t].children = x)
    BY <1>1, LinksAdd
  <1>4. Links(f, S, Pointer, x) \in Nat
    BY <1>1, LinksFinite, TwoMembers
  <1> QED
    BY <1>2, <1>3, <1>4 DEF S

\* A record that leads nowhere is replaced by one that only has children.
Grown(g, L, t) ==
    /\ \A c \in Cell : c # t => g[c] = L[c]
    /\ L[t].next \notin Cell /\ L[t].children \notin Cell /\ g[t].next \notin Cell

\* One pointer more.
LEMMA LinksGrown ==
    ASSUME IsFiniteSet(Cell), NEW g, NEW L, NEW t \in Cell, Grown(g, L, t), NEW x \in Cell
    PROVE  Links(g, Cell, Pointer, x) = Links(L, Cell, Pointer, x) + Ind(g[t].children = x)
  <1>1. Links(g, Cell, Pointer, x) =
               Links(g, Cell \ {t}, Pointer, x) + Ind(g[t].next = x) + Ind(g[t].children = x)
    BY LinksBut
  <1>2. Links(L, Cell, Pointer, x) =
               Links(L, Cell \ {t}, Pointer, x) + Ind(L[t].next = x) + Ind(L[t].children = x)
    BY LinksBut
  <1>3. Links(g, Cell \ {t}, Pointer, x) = Links(L, Cell \ {t}, Pointer, x)
    <2>1. \A s \in Cell \ {t}, m \in Pointer : g[s][m] = L[s][m]
      BY DEF Grown
    <2> QED
      BY <2>1, LinksSame
  <1>4. Ind(L[t].next = x) = 0 /\ Ind(L[t].children = x) = 0 /\ Ind(g[t].next = x) = 0
    BY DEF Ind, Grown
  <1>5. Links(L, Cell \ {t}, Pointer, x) \in Nat
    BY LinksBut
  <1>6. /\ Links(g, Cell, Pointer, x) = Links(L, Cell \ {t}, Pointer, x) + 0 + Ind(g[t].children = x)
        /\ Links(L, Cell, Pointer, x) = Links(L, Cell \ {t}, Pointer, x) + 0 + 0
    BY <1>1, <1>2, <1>3, <1>4
  <1> QED
    BY <1>5, <1>6, InRange

NodeStep ==
    /\ job # NULL /\ job.at <= Len(job.text.ops)
    /\ ReduceNode(job.text.ops[job.at],
                  SubSeq(job.stack, 1, Len(job.stack) - job.text.ops[job.at].take),
                  SubSeq(job.stack, Len(job.stack) - job.text.ops[job.at].take + 1, Len(job.stack)))

\* A new node takes what it groups.
LEMMA ReduceNodeCore ==
    ASSUME CellAssumption, HashAssumption, OverlapAssumption, FlagAssumption, Core,
           NodeStep, UNCHANGED <<held, loops, made, ebuild>>
    PROVE  Core'
  <1>29. PICK t : t = Fresh
    OBVIOUS
  <1> DEFINE op == job.text.ops[job.at]
             n == Len(job.stack) - op.take
             rest == SubSeq(job.stack, 1, n)
             group == SubSeq(job.stack, n + 1, Len(job.stack))
             stk == Append(rest, t)
             cut == CutOff(group)
             new == [Blank EXCEPT !.children = FirstOf(group),
                        !.use = IF op.flag = NULL THEN NULL ELSE GetId(global_flags, op.flag).id]
  <1>1. PICK Y : Young(Y)
    BY DEF NodeStep, Core, Parsing
  <1>2. /\ op \in Operation /\ n \in 0 .. Len(job.stack) /\ Len(job.stack) \in Nat
        /\ op.take \in Nat /\ job.stack \in Seq(Cell)
    BY ReduceParser DEF NodeStep
  <1>3. /\ job.stack \in Seq(Cell) /\ Distinct(job.stack)
        /\ \A x \in Cell : Stacked(x) = Ind(In(job.stack, x))
    BY <1>1, YoungFacts DEF NodeStep
  <1>4. /\ rest \in Seq(Cell) /\ group \in Seq(Cell) /\ Distinct(rest) /\ Distinct(group)
        /\ Len(rest) = n /\ Len(group) = Len(job.stack) - n
        /\ \A x : Ind(In(job.stack, x)) = Ind(In(rest, x)) + Ind(In(group, x))
        /\ \A x : In(rest, x) \/ In(group, x) => In(job.stack, x)
    BY <1>2, <1>3, SplitItems
  <1>5. op.flag \in Maybe(Key) /\ Unused # {}
    <2>1. op.do = "node" /\ Unused # {}
      BY DEF NodeStep, ReduceNode
    <2> QED
      BY <1>2, <2>1 DEF Operation
  <1>6. /\ node' = [Linked(group) EXCEPT ![t] = new] /\ lost' = lost \cup cut
        /\ count' = [count EXCEPT ![t] = 1]
        /\ job' = [job EXCEPT !.at = @ + 1, !.stack = stk]
        /\ IF op.flag = NULL THEN UNCHANGED vars ELSE UseGetGlobal(op.flag)
        /\ UNCHANGED <<held, loops, field, file, reading>>
    BY <1>29 DEF NodeStep, ReduceNode, ebuild
  <1>7. Len(group) = op.take /\ Len(rest) + 1 = Len(job.stack) - op.take + 1
    <2> HIDE DEF op, rest, group
    <2> QED
      BY <1>2, <1>4
  <1>8. \A stack \in Seq(Cell) :
                     Len(stack) = Len(job.stack) - op.take + 1
                     /\ job' = [job EXCEPT !.at = @ + 1, !.stack = stack] =>
                     /\ job' \in ParserState /\ job' # NULL
                     /\ job'.at \in 1 .. Len(job'.text.ops) + 1
                     /\ \E depth : Depths(job'.text, depth) /\ Len(job'.stack) = depth[job'.at - 1]
                     /\ job'.stack = stack /\ job'.self = job.self
    BY ReduceParser DEF NodeStep
  <1>30. t \in Cell /\ count[t] = 0 /\ t # NULL
    BY <1>5, <1>29, FreshIn DEF Core
  <1>31. node[t] = Blank
    BY <1>30 DEF Core, BlankWhenFree
  <1>32. /\ IInv' /\ given \subseteq given'
         /\ op.flag # NULL => /\ GetId(global_flags, op.flag).id \in Id
                              /\ \E g \in given' : g.id = GetId(global_flags, op.flag).id
    BY <1>5, <1>6, Interned
  <1> HIDE DEF op, n, rest, group, cut
  <1>9. /\ FirstOf(group) \in Maybe(Cell) /\ (FirstOf(group) # NULL => In(group, FirstOf(group)))
        /\ \A x \in Cell : In(group, x) /\ x = FirstOf(group) <=> x = FirstOf(group)
    BY <1>4, FirstOfItems DEF Maybe
  <1>33. /\ new \in NodeRecord /\ new.children = FirstOf(group) /\ new.next = NULL /\ new.it = NULL
         /\ (op.flag = NULL => new.use = NULL)
         /\ (op.flag # NULL => new.use = GetId(global_flags, op.flag).id)
    <2>1. (IF op.flag = NULL THEN NULL ELSE GetId(global_flags, op.flag).id) \in Maybe(Id)
      BY <1>32 DEF Maybe
    <2>2. NULL \in Maybe(Cell)
      BY DEF Maybe
    <2> QED
      BY <1>9, <2>1, <2>2 DEF NodeRecord, Blank
  <1> HIDE DEF new
  <1>10. /\ stk \in Seq(Cell) /\ Len(stk) = Len(rest) + 1
         /\ \A i \in 1 .. Len(rest) : stk[i] = rest[i]
         /\ stk[Len(rest) + 1] = t
    BY <1>4, <1>30, AppendProperties
  <1>11. \A x \in Cell : Among(stk, x) = Ind(In(rest, x)) + Ind(t = x)
    <2>1. \A x \in Cell : Among(stk, x) = Among(rest, x) + Ind(t = x)
      BY <1>4, <1>30, AmongAppend
    <2>2. \A x : Among(rest, x) = Ind(In(rest, x))
      BY <1>4, AmongItems
    <2> QED
      BY <2>1, <2>2
  <1>12. \A i \in 1 .. Len(stk) : In(job.stack, stk[i]) \/ stk[i] = t
    <2> SUFFICES ASSUME NEW i \in 1 .. Len(stk)
                 PROVE  In(job.stack, stk[i]) \/ stk[i] = t
      OBVIOUS
    <2>1. Len(rest) \in Nat
      BY <1>4, LenProperties
    <2>2. i \in 1 .. Len(rest) \/ i = Len(rest) + 1
      BY <1>10, <2>1
    <2>3. CASE i \in 1 .. Len(rest)
      <3>1. In(rest, stk[i])
        BY <1>10, <2>3 DEF In
      <3> QED
        BY <1>4, <3>1
    <2>4. CASE i = Len(rest) + 1
      BY <1>10, <2>4
    <2> QED
      BY <2>2, <2>3, <2>4
  <1> HIDE DEF stk
  <1>13. /\ job' \in ParserState /\ job' # NULL
         /\ job'.at \in 1 .. Len(job'.text.ops) + 1
         /\ \E depth : Depths(job'.text, depth) /\ Len(job'.stack) = depth[job'.at - 1]
         /\ job'.stack = stk /\ job'.self = job.self
    BY <1>6, <1>7, <1>8, <1>10
  <1>14. /\ Linked(group) \in [Cell -> NodeRecord]
         /\ \A c \in Cell \ Y : Linked(group)[c] = node[c]
         /\ \A c \in Y : /\ Linked(group)[c].next \in Maybe(Y) /\ Linked(group)[c].children \in Maybe(Y)
                         /\ Linked(group)[c].it = NULL
         /\ \A c \in Cell : Linked(group)[c].use = node[c].use
         /\ cut \subseteq Y
         /\ \A x \in cut : Others(x) = 0 /\ ~In(job.stack, x)
         /\ \A x \in Cell :
               Links(Linked(group), Cell, Pointer, x) + Ind(x \in cut) + Ind(In(group, x) /\ x = FirstOf(group)) =
               Links(node, Cell, Pointer, x) + Ind(In(group, x))
    BY <1>1, <1>4, GroupLinked DEF cut, NodeStep
  <1>15. /\ Y \subseteq Cell /\ job.self \notin Y
         /\ \A i \in 1 .. Len(job.stack) : job.stack[i] \in Y
         /\ \A c \in Y : count[c] = 1
         /\ \A c \in Cell \ Y : node[c].next \notin Y /\ node[c].children \notin Y
    BY <1>1 DEF Young
  <1>34. t \notin Y /\ ~In(job.stack, t) /\ \A c \in Cell : node[c].next # t /\ node[c].children # t
    <2>1. t \notin Y
      <3>1. \A c \in Y : count[c] = 1
        BY <1>15
      <3>2. count[t] # 1
        BY <1>30
      <3> QED
        BY <3>1, <3>2
    <2>2. \A c \in Cell : node[c].next # t /\ node[c].children # t
      BY <1>30, Referred DEF Core, Live
    <2> QED
      BY <1>15, <2>1, <2>2 DEF In
  <1>35. /\ node' \in [Cell -> NodeRecord] /\ node'[t] = new
         /\ \A c \in Cell : c # t => node'[c] = Linked(group)[c]
         /\ count' \in [Cell -> Nat] /\ count'[t] = 1
         /\ \A c \in Cell : c # t => count'[c] = count[c]
    BY <1>6, <1>14, <1>30, <1>33 DEF Core, Shape, NodesTyped
  <1>36. ASSUME NEW x \in Cell
         PROVE  Links(node', Cell, Pointer, x) = Links(Linked(group), Cell, Pointer, x) + Ind(FirstOf(group) = x)
    <2>1. Linked(group)[t] = Blank
      BY <1>14, <1>30, <1>31, <1>34
    <2>2. NULL \notin Cell
      BY DEF CellAssumption
    <2>3. Linked(group)[t].next \notin Cell /\ Linked(group)[t].children \notin Cell
      BY <2>1, <2>2 DEF Blank
    <2>4. node'[t].next \notin Cell /\ node'[t].children = FirstOf(group)
      BY <1>33, <1>35, <2>2
    <2>5. \A c \in Cell : c # t => node'[c] = Linked(group)[c]
      BY <1>35
    <2>6. Links(node', Cell, Pointer, x) = Links(Linked(group), Cell, Pointer, x) + Ind(node'[t].children = x)
      <3>1. Grown(node', Linked(group), t)
        BY <2>3, <2>4, <2>5 DEF Grown
      <3>2. IsFiniteSet(Cell)
        BY DEF CellAssumption
      <3> QED
        BY <1>30, <3>1, <3>2, LinksGrown
    <2> QED
      BY <2>4, <2>6
  <1>16. CountsExact'
    <2> SUFFICES ASSUME NEW x \in Cell
                 PROVE  count'[x] = Links(node', Cell, Pointer, x) + Others(x)'
      BY DEF CountsExact, Links, LinkSet
    <2>1. count[x] = Links(node, Cell, Pointer, x) + Others(x)
      BY DEF Core, CountsExact
    <2>2. Others(x) = Links(loops, DOMAIN loops, OfLoop, x) + Ind(In(job.stack, x)) + Ind(x \in lost)
                      + held[x] + Among(field, x)
      BY <1>3 DEF Others
    <2>3. Stacked(x)' = Ind(In(rest, x)) + Ind(t = x)
      BY <1>11, <1>13 DEF Stacked, Among, NodeStep
    <2>4. Others(x)' = Links(loops, DOMAIN loops, OfLoop, x) + (Ind(In(rest, x)) + Ind(t = x))
                       + (Ind(x \in lost) + Ind(x \in cut)) + held[x] + Among(field, x)
      BY <1>6, <1>14, <2>3, OthersAfter, CutCounted
    <2>5. Ind(In(job.stack, x)) = Ind(In(rest, x)) + Ind(In(group, x))
      BY <1>4
    <2>6. /\ Links(Linked(group), Cell, Pointer, x) + Ind(x \in cut) + Ind(FirstOf(group) = x) =
             Links(node, Cell, Pointer, x) + Ind(In(group, x))
          /\ Links(node', Cell, Pointer, x) = Links(Linked(group), Cell, Pointer, x) + Ind(FirstOf(group) = x)
      <3>1. Ind(In(group, x) /\ x = FirstOf(group)) = Ind(FirstOf(group) = x)
        BY <1>9 DEF Ind
      <3> QED
        BY <1>14, <1>36, <3>1
    <2>7. /\ Links(loops, DOMAIN loops, OfLoop, x) \in Nat /\ held[x] \in Nat /\ Among(field, x) \in Nat
          /\ Ind(x \in lost) \in Nat /\ Ind(x \in cut) \in Nat /\ Ind(FirstOf(group) = x) \in Nat
          /\ Ind(In(group, x)) \in Nat /\ Ind(In(rest, x)) \in Nat /\ Ind(t = x) \in Nat
      BY OthersNat, InRange DEF Core
    <2>8. /\ Links(node, Cell, Pointer, x) \in Nat /\ Links(node', Cell, Pointer, x) \in Nat
          /\ Links(Linked(group), Cell, Pointer, x) \in Nat
      BY LinksFinite, TwoMembers DEF CellAssumption
    <2>9. count'[x] = count[x] + Ind(t = x)
      <3>1. CASE x = t
        BY <1>30, <1>35, <3>1 DEF Ind
      <3>2. CASE x # t
        BY <1>35, <3>2 DEF Ind, Core, Shape, NodesTyped
      <3> QED
        BY <3>1, <3>2
    <2> DEFINE p == Links(node, Cell, Pointer, x)
               q == Links(node', Cell, Pointer, x)
               r == Links(Linked(group), Cell, Pointer, x)
               l == Links(loops, DOMAIN loops, OfLoop, x)
               inRest == Ind(In(rest, x))
               inGroup == Ind(In(group, x))
               first == Ind(FirstOf(group) = x)
               isNew == Ind(t = x)
               isLost == Ind(x \in lost)
               isCut == Ind(x \in cut)
               f == Among(field, x)
               e == held[x]
               m == l + inRest + isLost + e + f
    <2>10. Others(x) = l + (inRest + inGroup) + isLost + e + f
      BY <2>2, <2>5
    <2>11. r + isCut + first = p + inGroup /\ q = r + first
      BY <2>6
    <2>12. Others(x)' = l + (inRest + isNew) + (isLost + isCut) + e + f
      BY <2>4
    <2>13. count'[x] = p + Others(x) + isNew
      BY <2>1, <2>9
    <2>14. /\ p \in Nat /\ q \in Nat /\ r \in Nat /\ inGroup \in Nat
           /\ first \in Nat /\ isNew \in Nat /\ isCut \in Nat
      BY <2>7, <2>8
    <2>17. l \in Nat /\ inRest \in Nat /\ isLost \in Nat /\ e \in Nat /\ f \in Nat
      BY <2>7, <2>8
    <2> HIDE DEF p, q, r, l, inRest, inGroup, first, isNew, isLost, isCut, e, f
    <2>16. q + isCut = p + inGroup
      BY <2>11, <2>14
    <2>18. Others(x) = m + inGroup
      BY <2>10, <2>14, <2>17
    <2>19. Others(x)' = m + isNew + isCut
      BY <2>12, <2>14, <2>17
    <2>20. m \in Nat
      BY <2>17
    <2> HIDE DEF m
    <2>21. q + (m + isNew + isCut) = p + (m + inGroup) + isNew
      BY <2>14, <2>16, <2>20
    <2>15. count'[x] = q + Others(x)'
      BY <2>13, <2>18, <2>19, <2>21
    <2> QED
      BY <2>15 DEF q
  <1>17. BlankWhenFree'
    <2> SUFFICES ASSUME NEW c \in Cell, count'[c] = 0
                 PROVE  node'[c] = Blank
      BY DEF BlankWhenFree
    <2>1. c # t /\ count[c] = 0 /\ c \notin Y
      BY <1>15, <1>35
    <2> QED
      BY <1>14, <1>35, <2>1 DEF Core, BlankWhenFree
  <1> DEFINE Z == Y \cup {t}
  <1>37. /\ Z \subseteq Cell /\ \A c \in Cell \ Z : node'[c] = node[c]
         /\ \A c \in Cell \ Z : node[c].next \notin Z /\ node[c].children \notin Z
         /\ \A c \in Z : node'[c].it = NULL /\ count'[c] = 1
         /\ \A c \in Z : node'[c].next \in Maybe(Z) /\ node'[c].children \in Maybe(Z)
    <2>1. Z \subseteq Cell /\ \A c \in Cell \ Z : node'[c] = node[c]
      BY <1>14, <1>15, <1>30, <1>35
    <2>2. \A c \in Cell \ Z : node[c].next \notin Z /\ node[c].children \notin Z
      BY <1>15, <1>34
    <2>3. ASSUME NEW c \in Z
          PROVE  /\ node'[c].it = NULL /\ count'[c] = 1
                 /\ node'[c].next \in Maybe(Z) /\ node'[c].children \in Maybe(Z)
      <3>1. CASE c = t
        <4>1. FirstOf(group) \in Maybe(Y)
          <5> SUFFICES ASSUME FirstOf(group) # NULL
                       PROVE  FirstOf(group) \in Y
            BY DEF Maybe
          <5>1. In(job.stack, FirstOf(group))
            BY <1>4, <1>9
          <5> QED
            BY <1>15, <5>1 DEF In
        <4> QED
          BY <1>33, <1>35, <3>1, <4>1 DEF Maybe
      <3>2. CASE c # t
        <4>1. c \in Y /\ c \in Cell
          BY <1>15, <3>2
        <4> QED
          BY <1>14, <1>15, <1>35, <3>2, <4>1 DEF Maybe
      <3> QED
        BY <3>1, <3>2
    <2> HIDE DEF Z
    <2> QED
      BY <2>1, <2>2, <2>3
  <1>38. job.self \notin Z /\ \A i \in 1 .. Len(stk) : stk[i] \in Z
    <2>1. job.self # t
      BY <1>30 DEF Core, Parsing, NodeStep
    <2>2. \A i \in 1 .. Len(stk) : stk[i] \in Z
      BY <1>12, <1>15 DEF In
    <2> QED
      BY <1>15, <2>1, <2>2
  <1> HIDE DEF Z
  <1>18. ItAhead'
    <2>1. \A c \in Cell : node[c].next # NULL => node[c].next \in Cell
      BY DEF Core, Shape, NodesTyped, Maybe
    <2> QED
      BY <1>37, <2>1, ItAheadKept DEF Core
  <1>19. Young(Z)'
    BY <1>13, <1>37, <1>38 DEF Young
  <1>20. job.self # NULL => count'[job.self] = count[job.self] /\ node'[job.self] = node[job.self]
    <2>1. job.self \in Maybe(Cell) /\ job.self # t
      BY <1>30 DEF Core, Parsing, NodeStep, ParserState
    <2>2. job.self # NULL => job.self \in Cell \ Z
      BY <1>38, <2>1 DEF Maybe
    <2> QED
      BY <1>35, <1>37, <2>1, <2>2
  <1>21. Parsing'
    BY <1>6, <1>13, <1>19, <1>20, ReadOn DEF NodeStep
  <1>23. \A c \in Cell : node'[c].use # NULL => \E g \in given' : g.id = node'[c].use
    <2> SUFFICES ASSUME NEW c \in Cell, node'[c].use # NULL
                 PROVE  \E g \in given' : g.id = node'[c].use
      OBVIOUS
    <2>1. CASE c = t
      BY <1>32, <1>33, <1>35, <2>1
    <2>2. CASE c # t
      <3>1. node[c].use = node'[c].use
        BY <1>14, <1>35, <2>2
      <3>2. \E g \in given : g.id = node[c].use
        BY <3>1 DEF Core, UsesGiven
      <3> QED
        BY <1>32, <3>1, <3>2
    <2> QED
      BY <2>1, <2>2
  <1>24. cut \subseteq Cell
    BY <1>14, <1>15
  <1>39. \A x \in cut : Others(x) = 0
    BY <1>14
  <1>40. count' \in [Cell -> Nat] /\ node' \in [Cell -> NodeRecord] /\ IInv' /\ given \subseteq given'
    BY <1>32, <1>35
  <1>41. lost' = lost \cup cut /\ UNCHANGED <<held, loops, field, file, reading>>
    BY <1>6
  <1> QED
    BY <1>16, <1>17, <1>18, <1>21, <1>23, <1>24, <1>39, <1>40, <1>41, Rebuilt DEF NodeStep

\* The end of a text that could be parsed and has something in it.
LEMMA BuiltFacts ==
    ASSUME CellAssumption, Core, AtEnd, Root # NULL
    PROVE  /\ job # NULL /\ job.stack \in Seq(Cell) /\ job.stack # <<>>
           /\ Root = FirstOf(job.stack) /\ Root \in Cell /\ In(job.stack, Root)
           /\ NodesLeft = Linked(job.stack) /\ LostLeft = lost \cup CutOff(job.stack)
           /\ Discarded = <<>>
  <1>1. job # NULL /\ job.text.ok /\ Root = FirstOf(job.stack)
    BY DEF AtEnd, Root
  <1>2. job.stack \in Seq(Cell)
    BY <1>1 DEF Core, Parsing, ParserState
  <1>3. job.stack # <<>>
    BY <1>1 DEF FirstOf
  <1>4. Root \in Cell /\ In(job.stack, Root)
    BY <1>1, <1>2, <1>3, FirstOfItems
  <1> QED
    BY <1>1, <1>2, <1>3, <1>4 DEF NodesLeft, LostLeft, Discarded

\* These items are lost, the others are released.
LostItems(X) ==
    /\ X \in SUBSET Cell /\ LostLeft = lost \cup X
    /\ \A x \in Cell : Stacked(x) = Among(Discarded, x) + Ind(x \in X)
    /\ \A x \in X : x \notin lost /\ held[x] = 0 /\ Among(field, x) = 0

\* The end of a text that is broken or empty: the items that are on the stack are
\* released or lost.
LEMMA DiscardFacts ==
    ASSUME CellAssumption, Core, AtEnd, Root = NULL
    PROVE  /\ job # NULL /\ Discarded \in Seq(Cell)
           /\ \A c \in Cell : NodesLeft[c] = node[c]
           /\ \E X : LostItems(X)
  <1>1. job # NULL /\ job.text.grammar \in {"depend", "required"}
    BY DEF AtEnd, Core, Parsing, ParserState, AnyText
  <1>2. PICK Y : Young(Y)
    BY <1>1 DEF Core, Parsing
  <1>3. /\ job.stack \in Seq(Cell) /\ Distinct(job.stack)
        /\ \A x \in Cell : Stacked(x) = Ind(In(job.stack, x))
    BY <1>1, <1>2, YoungFacts
  <1>4. \A x \in Cell : In(job.stack, x) => x \notin lost /\ held[x] = 0 /\ Among(field, x) = 0
    <2> SUFFICES ASSUME NEW x \in Cell, In(job.stack, x)
                 PROVE  x \notin lost /\ held[x] = 0 /\ Among(field, x) = 0
      OBVIOUS
    <2> QED
      BY <1>1, <1>2, YoungFacts
  <1>5. <<>> \in Seq(Cell) /\ Len(<<>>) = 0
    BY EmptySeq
  <1>6. \A x : Among(<<>>, x) = 0
    BY NoRef
  <1>7. CASE job.text.ok
    <2>1. job.stack = <<>>
      <3>1. FirstOf(job.stack) = NULL
        BY <1>7 DEF Root
      <3> QED
        BY <1>3, <3>1, FirstOfItems DEF CellAssumption
    <2>2. \A c \in Cell : NodesLeft[c] = node[c]
      <3>1. NodesLeft = Linked(<<>>)
        BY <1>7, <2>1 DEF NodesLeft
      <3>2. \A i \in 1 .. 0 - 1 : FALSE
        OBVIOUS
      <3> QED
        BY <1>5, <3>1, <3>2 DEF Linked
    <2>3. LostLeft = lost \cup {} /\ Discarded = <<>>
      <3>1. CutOff(<<>>) = {}
        BY <1>5 DEF CutOff
      <3> QED
        BY <1>7, <2>1, <3>1 DEF LostLeft, Discarded
    <2>4. \A x \in Cell : Stacked(x) = 0
      BY <1>6, <2>1 DEF Stacked
    <2>5. \A x \in Cell : Stacked(x) = Among(Discarded, x) + Ind(x \in {})
      <3>1. \A x : Ind(x \in {}) = 0
        BY DEF Ind
      <3>2. \A x : Among(Discarded, x) = 0
        BY <1>6, <2>3
      <3>3. \A x \in Cell : 0 = Among(Discarded, x) + Ind(x \in {})
        BY <3>1, <3>2
      <3> QED
        BY <2>4, <3>3
    <2>6. LostItems({})
      BY <2>3, <2>5 DEF LostItems
    <2> QED
      BY <1>1, <1>5, <2>2, <2>3, <2>6
  <1>8. CASE ~job.text.ok /\ job.text.grammar = "required"
    <2>1. NodesLeft = node /\ Discarded = job.stack /\ LostLeft = lost \cup {}
      BY <1>8 DEF NodesLeft, Discarded, LostLeft
    <2>2. \A x \in Cell : Stacked(x) = Among(Discarded, x) + Ind(x \in {})
      <3>1. \A x \in Cell : Stacked(x) = Among(job.stack, x) /\ Ind(x \in {}) = 0 /\ Stacked(x) \in Nat
        BY <1>1, <1>3, InRange DEF Stacked, Ind
      <3> QED
        BY <2>1, <3>1
    <2>3. LostItems({})
      BY <2>1, <2>2 DEF LostItems
    <2> QED
      BY <1>1, <1>3, <2>1, <2>3
  <1>9. CASE ~job.text.ok /\ job.text.grammar = "depend"
    <2> DEFINE X == {x \in Cell : In(job.stack, x)}
    <2>1. NodesLeft = node /\ Discarded = <<>> /\ LostLeft = lost \cup Range(job.stack)
      BY <1>9 DEF NodesLeft, Discarded, LostLeft
    <2>2. Range(job.stack) = X
      <3>1. DOMAIN job.stack = 1 .. Len(job.stack) /\ \A i \in 1 .. Len(job.stack) : job.stack[i] \in Cell
        BY <1>3, LenProperties, ElementOfSeq
      <3> QED
        BY <3>1 DEF Range, In
    <2>3. \A x \in Cell : Stacked(x) = Among(Discarded, x) + Ind(x \in X)
      <3>1. \A x \in Cell : Among(Discarded, x) = 0 /\ Ind(x \in X) = Ind(In(job.stack, x))
        BY <1>6, <2>1 DEF Ind
      <3> HIDE DEF X
      <3>2. \A x \in Cell : Ind(x \in X) \in Nat
        BY InRange
      <3> QED
        BY <1>3, <3>1, <3>2
    <2>4. LostItems(X)
      BY <1>4, <2>1, <2>2, <2>3 DEF LostItems
    <2> QED
      BY <1>1, <1>5, <2>1, <2>4
  <1> QED
    BY <1>1, <1>7, <1>8, <1>9

\* All references that are not pointers, as a function.
LEMMA CountDroppable ==
    ASSUME CellAssumption, Core, NEW refs, IsFiniteSet(DOMAIN refs),
           \A c \in Cell : Among(refs, c) <= Others(c)
    PROVE  Droppable(count, refs, [c \in Cell |-> Others(c)])
  <1>1. \A c \in Cell : Others(c) \in Nat
    BY OthersNat DEF Core
  <1>2. [c \in Cell |-> Others(c)] \in [Cell -> Nat]
    BY <1>1
  <1>3. count \in [Cell -> Nat]
    BY DEF Core, Shape, NodesTyped
  <1> QED
    BY <1>2, <1>3 DEF Droppable, Core, CountsExact, BlankWhenFree

\* Nothing is released.
LEMMA HeapKept ==
    ASSUME CellAssumption, Core, NEW nodes, HeapIs(nodes, Drop(count, <<>>))
    PROVE  /\ count' \in [Cell -> Nat] /\ \A c \in Cell : count'[c] = count[c]
           /\ node' = [c \in Cell |-> IF count[c] = 0 THEN Blank ELSE nodes[c]]
  <1>1. IsFiniteSet(DOMAIN <<>>) /\ \A i \in DOMAIN <<>> : FALSE
    BY FS_EmptySet
  <1>2. ASSUME NEW c \in Cell
        PROVE  Among(<<>>, c) <= Others(c)
    <2>1. Others(c) \in Nat
      BY OthersNat DEF Core
    <2>2. Among(<<>>, c) = 0
      BY NoRef
    <2> QED
      BY <2>1, <2>2
  <1>3. Droppable(count, <<>>, [c \in Cell |-> Others(c)])
    BY <1>1, <1>2, CountDroppable
  <1>4. count \in [Cell -> Nat]
    BY DEF Core, Shape, NodesTyped
  <1> DEFINE D == Drop(count, <<>>)
  <1>5. \A c \in Cell : D[c] = count[c]
    <2> DEFINE other == [c \in Cell |-> Others(c)]
    <2>1. \A i \in DOMAIN <<>> : <<>>[i] \notin Cell
      BY <1>1
    <2>2. Droppable(count, <<>>, other)
      BY <1>3
    <2> HIDE DEF other
    <2> QED
      BY <1>4, <2>1, <2>2, DroppedNothing
  <1>6. count' = D /\ node' = [c \in Cell |-> IF D[c] = 0 THEN Blank ELSE nodes[c]]
    BY DEF HeapIs
  <1>7. D = [c \in Cell |-> D[c]]
    BY DEF Drop
  <1> HIDE DEF D
  <1> QED
    BY <1>4, <1>5, <1>6, <1>7

\* A parser has ended without a release.
LEMMA Finished ==
    ASSUME CellAssumption, Core, UNCHANGED <<vars, file, loops>>, job' = NULL, reading' \in Nat,
           lost' \subseteq Cell, held' \in [Cell -> Nat], field' \in [TextName -> Maybe(Cell)], Roots',
           node' \in [Cell -> NodeRecord], count' \in [Cell -> Nat],
           \A c \in Cell : node'[c].use # NULL => \E d \in Cell : node'[c].use = node[d].use,
           CountsExact', BlankWhenFree', ItAhead'
    PROVE  Core'
  <1>1. Shape'
    BY DEF Core, Shape, NodesTyped, NodeRecord, LoopsTyped
  <1>2. IInv' /\ given' = given
    BY IInvKept DEF Core, vars
  <1>3. UsesGiven'
    <2> SUFFICES ASSUME NEW c \in Cell, node'[c].use # NULL
                 PROVE  \E g \in given' : g.id = node'[c].use
      BY DEF UsesGiven
    <2>1. PICK d \in Cell : node'[c].use = node[d].use
      OBVIOUS
    <2> QED
      BY <1>2, <2>1 DEF Core, UsesGiven
  <1>4. Parsing'
    BY DEF Parsing
  <1> QED
    BY <1>1, <1>2, <1>3, <1>4 DEF Core

\* What a text in the file is made of, when it is stored.
LEMMA StoreBuilt ==
    ASSUME CellAssumption, FilesAssumption, Core, StoreText, Root # NULL
    PROVE  Core'
  <1> DEFINE s == job.stack
             cut == CutOff(s)
             L == Linked(s)
  <1>1. /\ AtEnd /\ job.self = NULL /\ HeapIs(NodesLeft, Drop(count, Discarded))
        /\ field' = [field EXCEPT ![Line.name] = Root]
        /\ lost' = LostLeft \cup ({field[Line.name]} \ {NULL})
        /\ job' = NULL /\ UNCHANGED <<vars, file, held, loops>>
        /\ reading' = reading + 1
    BY DEF StoreText
  <1>2. /\ job # NULL /\ s \in Seq(Cell) /\ s # <<>>
        /\ Root = FirstOf(s) /\ Root \in Cell /\ In(s, Root)
        /\ NodesLeft = L /\ LostLeft = lost \cup cut /\ Discarded = <<>>
    BY <1>1, BuiltFacts
  <1>3. PICK Y : Young(Y)
    BY <1>2 DEF Core, Parsing
  <1>4. /\ Distinct(s) /\ \A x \in Cell : Stacked(x) = Ind(In(s, x))
    BY <1>2, <1>3, YoungFacts
  <1>5. /\ L \in [Cell -> NodeRecord]
        /\ \A c \in Cell \ Y : L[c] = node[c]
        /\ \A c \in Y : L[c].it = NULL
        /\ \A c \in Cell : L[c].use = node[c].use
        /\ cut \subseteq Y
        /\ \A x \in cut : Others(x) = 0 /\ ~In(s, x)
        /\ \A x \in Cell : Links(L, Cell, Pointer, x) + Ind(x \in cut) + Ind(In(s, x) /\ x = FirstOf(s)) =
                           Links(node, Cell, Pointer, x) + Ind(In(s, x))
    BY <1>2, <1>3, <1>4, GroupLinked
  <1>6. /\ Y \subseteq Cell /\ \A c \in Y : count[c] = 1
        /\ \A c \in Cell \ Y : node[c].next \notin Y /\ node[c].children \notin Y
    BY <1>3 DEF Young
  <1>7. /\ count' \in [Cell -> Nat] /\ \A c \in Cell : count'[c] = count[c]
        /\ node' = [c \in Cell |-> IF count[c] = 0 THEN Blank ELSE L[c]]
    <2>1. HeapIs(L, Drop(count, <<>>))
      BY <1>1, <1>2
    <2> HIDE DEF L
    <2> QED
      BY <2>1, HeapKept
  <1>8. PICK name \in TextName : name = Line.name
    BY <1>1, <1>2 DEF Core, Parsing
  <1>9. PICK old \in Maybe(Cell) : old = field[name]
    BY DEF Core, Shape
  <1>10. PICK root \in Cell : root = Root
    BY <1>2
  <1> HIDE DEF L, cut, s
  <1>11. node' \in [Cell -> NodeRecord] /\ \A c \in Cell : node'[c] = L[c]
    <2>1. \A c \in Cell : count[c] = 0 => node[c] = Blank
      BY DEF Core, BlankWhenFree
    <2>3. \A c \in Cell : count[c] = 0 => c \notin Y
      BY <1>6
    <2>2. \A c \in Cell : node'[c] = L[c]
      BY <1>5, <1>7, <2>1, <2>3
    <2> QED
      BY <1>5, <1>7, <2>2
  <1>12. /\ field \in [TextName -> Maybe(Cell)] /\ field' = [field EXCEPT ![name] = root]
         /\ field' \in [TextName -> Maybe(Cell)] /\ DOMAIN field = TextName
    BY <1>1, <1>8, <1>10 DEF Core, Shape, Maybe
  \* the one that was stored before is neither lost, nor cut off now
  <1>13. old # NULL => old \notin lost /\ old \notin cut /\ old \in Cell /\ Among(field, old) # 0
    <2> SUFFICES ASSUME old # NULL
                 PROVE  old \notin lost /\ old \notin cut /\ old \in Cell /\ Among(field, old) # 0
      OBVIOUS
    <2>1. old \in Cell /\ Others(old) # 0 /\ Among(field, old) # 0
      BY <1>9, FieldReferred
    <2>2. old \notin lost
      BY <1>9 DEF Core, Roots
    <2> QED
      BY <1>5, <2>1, <2>2
  <1>14. lost' = lost \cup cut \cup ({old} \ {NULL})
    BY <1>1, <1>2, <1>8, <1>9
  <1>15. /\ root \notin lost /\ Among(field, root) = 0 /\ root \notin cut /\ In(s, root)
         /\ root = FirstOf(s)
    <2>1. In(job.stack, root)
      BY <1>2, <1>10 DEF s
    <2>2. root \notin lost /\ Among(field, root) = 0
      BY <1>2, <1>3, <2>1, YoungFacts
    <2> QED
      BY <1>2, <1>5, <1>10, <2>1, <2>2 DEF s
  <1>16. \A n \in TextName : field[n] # root
    BY <1>12, <1>15, TextNames, AmongFinite
  <1>17. Roots'
    <2>1. \A n \in TextName : field'[n] = IF n = name THEN root ELSE field[n]
      BY <1>12
    <2>2. \A n, m \in TextName : field'[n] # NULL /\ field'[n] = field'[m] => n = m
      BY <1>16, <2>1 DEF Core, Roots
    <2>3. ASSUME NEW n \in TextName
          PROVE  field'[n] \notin lost'
      <3>1. CASE n = name
        <4>1. root # old
          BY <1>9, <1>16
        <4> QED
          BY <1>14, <1>15, <2>1, <3>1, <4>1
      <3>2. CASE n # name
        <4>1. field'[n] = field[n] /\ field[n] \notin lost
          BY <2>1, <3>2 DEF Core, Roots
        <4>2. field[n] \notin cut
          <5>1. CASE field[n] = NULL
            BY <1>5, <1>6, <5>1 DEF CellAssumption
          <5>2. CASE field[n] # NULL
            BY <1>5, <5>2, FieldReferred
          <5> QED
            BY <5>1, <5>2
        <4>3. field[n] \notin {old} \ {NULL}
          BY <1>9, <3>2 DEF Core, Roots
        <4> QED
          BY <1>14, <4>1, <4>2, <4>3
      <3> QED
        BY <3>1, <3>2
    <2> QED
      BY <2>2, <2>3 DEF Roots
  <1>18. CountsExact'
    <2> SUFFICES ASSUME NEW x \in Cell
                 PROVE  count'[x] = Links(node', Cell, Pointer, x) + Others(x)'
      BY DEF CountsExact, Links, LinkSet
    <2> DEFINE p == Links(node, Cell, Pointer, x)
               q == Links(node', Cell, Pointer, x)
               l == Links(loops, DOMAIN loops, OfLoop, x)
               a == Ind(In(s, x))
               d == Ind(x \in lost)
               e == Ind(x \in cut)
               f == Among(field, x)
               g == Among(field', x)
               o == Ind(old = x)
               r == Ind(root = x)
    <2>1. count[x] = p + (l + a + d + held[x] + f)
      BY <1>4 DEF Core, CountsExact, Others
    <2>2. q + e + r = p + a
      <3>1. Links(node', Cell, Pointer, x) = Links(L, Cell, Pointer, x)
        BY <1>11, LinksSame
      <3>2. Ind(In(s, x) /\ x = FirstOf(s)) = r
        BY <1>15 DEF Ind
      <3> QED
        BY <1>5, <3>1, <3>2
    <2>3. g + o = f + r
      <3>1. IsFiniteSet(DOMAIN field) /\ name \in DOMAIN field
        BY <1>12, TextNames
      <3>2. Among([field EXCEPT ![name] = root], x) + Ind(field[name] = x) = Among(field, x) + Ind(root = x)
        BY <3>1, AmongReplaced
      <3> QED
        BY <1>9, <1>12, <3>2
    <2>4. Ind(x \in lost') = d + e + o
      <3>1. d = IF x \in lost THEN 1 ELSE 0
        BY DEF Ind
      <3>2. e = IF x \in cut THEN 1 ELSE 0
        BY DEF Ind
      <3>3. o = IF x = old THEN 1 ELSE 0
        BY DEF Ind
      <3>4. x \in cut => x \notin lost
        <4> SUFFICES ASSUME x \in cut, x \in lost PROVE FALSE
          OBVIOUS
        <4>1. Others(x) = 0 /\ Ind(x \in lost) <= Others(x) /\ Ind(x \in lost) = 1
          BY <1>5, OthersNat DEF Core, Ind
        <4> QED
          BY <4>1
      <3>5. x # NULL
        BY DEF CellAssumption
      <3> HIDE DEF d, e, o
      <3> QED
        BY <1>13, <1>14, <3>1, <3>2, <3>3, <3>4, <3>5 DEF Ind
    <2>5. Others(x)' = l + 0 + (d + e + o) + held[x] + g
      <3>1. Stacked(x)' = 0
        BY <1>1 DEF Stacked
      <3>2. Others(x)' = Links(loops', DOMAIN loops', OfLoop, x) + Stacked(x)' + Ind(x \in lost')
                         + held'[x] + Among(field', x)
        BY OthersAfter
      <3> QED
        BY <1>1, <2>4, <3>1, <3>2
    <2>6. /\ l \in Nat /\ d \in Nat /\ e \in Nat /\ o \in Nat /\ r \in Nat /\ a \in Nat
          /\ held[x] \in Nat /\ f \in Nat
      BY OthersNat, InRange DEF Core
    <2>7. p \in Nat /\ q \in Nat
      BY LinksFinite, TwoMembers DEF CellAssumption
    <2>8. g \in Nat
      BY <1>12, TextNames, AmongFinite
    <2> HIDE DEF p, q, l, a, d, e, f, g, o, r
    <2>9. p + (l + a + d + held[x] + f) = q + (l + 0 + (d + e + o) + held[x] + g)
      <3>1. p = q + e + r - a /\ f = g + o - r
        BY <2>2, <2>3, <2>6, <2>7, <2>8
      <3>2. (q + e + r - a) + (l + a + d + held[x] + (g + o - r)) = q + (l + 0 + (d + e + o) + held[x] + g)
        BY <2>6, <2>7, <2>8
      <3> QED
        BY <3>1, <3>2
    <2>10. count'[x] = q + Others(x)'
      BY <1>7, <2>1, <2>5, <2>9
    <2> QED
      BY <2>10 DEF q
  <1>19. BlankWhenFree'
    BY <1>7 DEF BlankWhenFree
  <1>20. ItAhead'
    <2>1. \A c \in Cell : node[c].next # NULL => node[c].next \in Cell
      BY DEF Core, Shape, NodesTyped, Maybe
    <2>2. \A c \in Cell \ Y : node[c].next \notin Y /\ node'[c].next = node[c].next /\ node'[c].it = node[c].it
      BY <1>5, <1>6, <1>11
    <2>3. \A c \in Y : node'[c].it = NULL
      BY <1>5, <1>6, <1>11
    <2> QED
      BY <1>6, <2>1, <2>2, <2>3, ItAheadKept DEF Core
  <1>21. \A c \in Cell : node'[c].use # NULL => \E d \in Cell : node'[c].use = node[d].use
    BY <1>5, <1>11
  <1>22. reading' \in Nat /\ lost' \subseteq Cell /\ held' \in [Cell -> Nat]
    <2>1. {old} \ {NULL} \subseteq Cell
      BY <1>13
    <2>2. reading \in Nat /\ lost \subseteq Cell /\ held \in [Cell -> Nat]
      BY DEF Core, Shape, NodesTyped
    <2>3. cut \subseteq Cell
      BY <1>5, <1>6
    <2>4. lost' \subseteq Cell
      BY <1>14, <2>1, <2>2, <2>3
    <2> QED
      BY <1>1, <2>2, <2>4
  <1>23. UNCHANGED <<vars, file, loops>> /\ job' = NULL
    BY <1>1
  <1> QED
    BY <1>7, <1>11, <1>12, <1>17, <1>18, <1>19, <1>20, <1>21, <1>22, <1>23, Finished

\* The nodes stay as they are but for those that are released.
LEMMA KeptNodes ==
    ASSUME CellAssumption, Core, NEW nodes, \A c \in Cell : nodes[c] = node[c]
    PROVE  SameButIt(nodes) /\ Onward(nodes)
  <1>1. node \in [Cell -> NodeRecord]
    BY DEF Core, Shape, NodesTyped, NodeRecord
  <1>2. SameButIt(nodes)
    BY <1>1 DEF SameButIt
  <1> QED
    BY <1>2 DEF Onward

\* Losing more nodes.
LEMMA LostCounted ==
    ASSUME NEW X, LostItems(X), NEW x \in Cell
    PROVE  Ind(x \in LostLeft) = Ind(x \in lost) + Ind(x \in X)
  <1>1. x \in X => x \notin lost
    BY DEF LostItems
  <1>2. LostLeft = lost \cup X
    BY DEF LostItems
  <1> QED
    BY <1>1, <1>2 DEF Ind

\* What an empty or broken text in the file comes to.
LEMMA StoreDiscarded ==
    ASSUME CellAssumption, FilesAssumption, Core, StoreText, Root = NULL
    PROVE  Core'
  <1>1. /\ AtEnd /\ job.self = NULL /\ HeapIs(NodesLeft, Drop(count, Discarded))
        /\ field' = [field EXCEPT ![Line.name] = NULL]
        /\ lost' = LostLeft \cup ({field[Line.name]} \ {NULL})
        /\ job' = NULL /\ UNCHANGED <<vars, file, held, loops>>
        /\ reading' = IF Line.name = "REQUIRED_USE" THEN Len(file) + 1 ELSE reading + 1
    BY DEF StoreText
  <1>2. /\ job # NULL /\ Discarded \in Seq(Cell) /\ \A c \in Cell : NodesLeft[c] = node[c]
        /\ \E X : LostItems(X)
    BY <1>1, DiscardFacts
  <1>3. PICK X : LostItems(X)
    BY <1>2
  <1>4. PICK name \in TextName : name = Line.name
    BY <1>1, <1>2 DEF Core, Parsing
  <1>5. reading \in 1 .. Len(file)
    BY <1>1, <1>2 DEF Core, Parsing
  <1>6. reading' \in Nat
    <2>1. Len(file) \in Nat /\ reading \in Nat
      BY <1>5, LineRead DEF Core, Shape
    <2> QED
      BY <1>1, <2>1
  <1>7. PICK old \in Maybe(Cell) : old = field[name]
    BY DEF Core, Shape
  <1>8. /\ field \in [TextName -> Maybe(Cell)] /\ field' = [field EXCEPT ![name] = NULL]
        /\ field' \in [TextName -> Maybe(Cell)] /\ DOMAIN field = TextName
    BY <1>1, <1>4 DEF Core, Shape, Maybe
  <1>9. lost' = LostLeft \cup ({old} \ {NULL})
    BY <1>1, <1>4, <1>7
  <1>10. X \subseteq Cell /\ LostLeft = lost \cup X /\ lost \subseteq Cell
    BY <1>3 DEF LostItems, Core, Shape, NodesTyped
  <1>11. old # NULL => old \in Cell /\ old \notin LostLeft
    <2> SUFFICES ASSUME old # NULL
                 PROVE  old \in Cell /\ old \notin LostLeft
      OBVIOUS
    <2>1. old \in Cell /\ Among(field, old) # 0
      BY <1>7, FieldReferred
    <2>2. old \notin lost
      BY <1>7 DEF Core, Roots
    <2>3. old \notin X
      BY <1>3, <2>1 DEF LostItems
    <2> QED
      BY <1>10, <2>1, <2>2, <2>3
  <1>12. lost' \subseteq Cell
    BY <1>9, <1>10, <1>11
  <1>13. Roots'
    <2>1. \A n \in TextName : field'[n] = IF n = name THEN NULL ELSE field[n]
      BY <1>8
    <2>2. ASSUME NEW n \in TextName
          PROVE  field'[n] \notin lost'
      <3>1. CASE field'[n] = NULL
        BY <1>12, <3>1 DEF CellAssumption
      <3>2. CASE field'[n] # NULL
        <4>1. n # name /\ field'[n] = field[n] /\ field[n] # NULL
          BY <2>1, <3>2
        <4>2. field[n] \notin lost /\ field[n] # old
          BY <1>7, <4>1 DEF Core, Roots
        <4>3. field[n] \notin X
          <5>1. field[n] \in Cell /\ Among(field, field[n]) # 0
            BY <4>1, FieldReferred
          <5> QED
            BY <1>3, <5>1 DEF LostItems
        <4> QED
          BY <1>9, <1>10, <4>1, <4>2, <4>3
      <3> QED
        BY <3>1, <3>2
    <2>3. \A n, m \in TextName : field'[n] # NULL /\ field'[n] = field'[m] => n = m
      BY <2>1 DEF Core, Roots
    <2> QED
      BY <2>2, <2>3 DEF Roots
  <1>14. DOMAIN Discarded = 1 .. Len(Discarded) /\ Len(Discarded) \in Nat
    BY <1>2, LenProperties
  <1>15. IsFiniteSet(DOMAIN Discarded)
    BY <1>14, FS_Interval
  <1>16. \A x \in Cell : Among(Discarded, x) \in Nat
    BY <1>15, AmongFinite
  <1>17. \A x \in Cell : Stacked(x) = Among(Discarded, x) + Ind(x \in X)
    BY <1>3 DEF LostItems
  <1>18. \A x \in Cell : Among(Discarded, x) <= Others(x)
    <2> SUFFICES ASSUME NEW x \in Cell
                 PROVE  Among(Discarded, x) <= Others(x)
      OBVIOUS
    <2>1. Stacked(x) <= Others(x) /\ Others(x) \in Nat /\ Ind(x \in X) \in Nat /\ Stacked(x) \in Nat
      BY OthersNat, InRange DEF Core
    <2>2. Stacked(x) = Among(Discarded, x) + Ind(x \in X) /\ Among(Discarded, x) \in Nat
      BY <1>16, <1>17
    <2> QED
      BY <2>1, <2>2
  <1> DEFINE other == [c \in Cell |-> Others(c)]
  <1>19. Droppable(count, Discarded, other)
    BY <1>15, <1>18, CountDroppable
  <1>20. ASSUME NEW x \in Cell
         PROVE  Others(x)' = other[x] - Among(Discarded, x)
    <2> DEFINE l == Links(loops, DOMAIN loops, OfLoop, x)
               a == Among(Discarded, x)
               d == Ind(x \in lost)
               e == Ind(x \in X)
               f == Among(field, x)
               g == Among(field', x)
               o == Ind(old = x)
    <2>1. other[x] = l + (a + e) + d + held[x] + f
      BY <1>17 DEF Others
    <2>2. g + o = f
      <3>1. IsFiniteSet(DOMAIN field) /\ name \in DOMAIN field
        BY <1>8, TextNames
      <3>2. Among([field EXCEPT ![name] = NULL], x) + Ind(field[name] = x) = Among(field, x) + Ind(NULL = x)
        BY <3>1, AmongReplaced
      <3>3. Ind(NULL = x) = 0
        BY DEF Ind, CellAssumption
      <3>4. Among(field, x) \in Nat
        BY OthersNat DEF Core
      <3> QED
        BY <1>7, <1>8, <3>2, <3>3, <3>4
    <2>3. Ind(x \in lost') = d + e + o
      <3>1. Ind(x \in LostLeft) = d + e
        BY <1>3, LostCounted
      <3>2. d \in Nat /\ e \in Nat
        BY InRange
      <3>3. x # NULL
        BY DEF CellAssumption
      <3> HIDE DEF d, e
      <3>4. CASE x = old
        <4>1. x \in lost' /\ x \notin LostLeft
          BY <1>9, <1>11, <3>3, <3>4
        <4>2. Ind(x \in lost') = 1 /\ Ind(x \in LostLeft) = 0 /\ o = 1
          BY <3>4, <4>1 DEF Ind
        <4> HIDE DEF o
        <4> QED
          BY <3>1, <4>2
      <3>5. CASE x # old
        <4>1. Ind(x \in lost') = Ind(x \in LostLeft) /\ o = 0
          BY <1>9, <3>5 DEF Ind
        <4> HIDE DEF o
        <4> QED
          BY <3>1, <3>2, <4>1
      <3> QED
        BY <3>4, <3>5
    <2>4. Others(x)' = l + 0 + (d + e + o) + held[x] + g
      <3>1. Stacked(x)' = 0
        BY <1>1 DEF Stacked
      <3>2. Others(x)' = Links(loops', DOMAIN loops', OfLoop, x) + Stacked(x)' + Ind(x \in lost')
                         + held'[x] + Among(field', x)
        BY OthersAfter
      <3> QED
        BY <1>1, <2>3, <3>1, <3>2
    <2>5. /\ l \in Nat /\ d \in Nat /\ e \in Nat /\ o \in Nat /\ a \in Nat
          /\ held[x] \in Nat /\ f \in Nat
      BY <1>16, OthersNat, InRange DEF Core
    <2>6. g \in Nat
      BY <1>8, TextNames, AmongFinite
    <2> HIDE DEF l, a, d, e, f, g, o, other
    <2>7. Others(x)' = other[x] - a
      <3>1. f = g + o
        BY <2>2
      <3>2. l + 0 + (d + e + o) + held[x] + g = l + (a + e) + d + held[x] + (g + o) - a
        BY <2>5, <2>6
      <3>3. other[x] = l + (a + e) + d + held[x] + (g + o)
        BY <2>1, <3>1
      <3>4. other[x] - a = l + 0 + (d + e + o) + held[x] + g
        BY <2>5, <2>6, <3>2, <3>3
      <3> QED
        BY <2>4, <3>4
    <2> QED
      BY <2>7 DEF a
  <1>21. SameButIt(NodesLeft) /\ Onward(NodesLeft)
    BY <1>2, KeptNodes
  <1>22. LoopsTyped' /\ held' \in [Cell -> Nat]
    BY <1>1 DEF Core, Shape, LoopsTyped, NodesTyped
  <1>23. UNCHANGED <<vars, file>> /\ job' = NULL /\ HeapIs(NodesLeft, Drop(count, Discarded))
    BY <1>1
  <1> HIDE DEF other
  <1> QED
    BY <1>6, <1>8, <1>12, <1>13, <1>19, <1>20, <1>21, <1>22, <1>23, DropStep

\* The pointers of all cells and of all but two.
LEMMA LinksButTwo ==
    ASSUME IsFiniteSet(Cell), NEW f, NEW a \in Cell, NEW b \in Cell \ {a}, NEW x
    PROVE  /\ Links(f, Cell, Pointer, x) =
                  Links(f, (Cell \ {a}) \ {b}, Pointer, x)
                  + Ind(f[b].next = x) + Ind(f[b].children = x) + Ind(f[a].next = x) + Ind(f[a].children = x)
           /\ Links(f, (Cell \ {a}) \ {b}, Pointer, x) \in Nat
  <1> DEFINE S == Cell \ {a}
             R == S \ {b}
  <1>1. IsFiniteSet(S) /\ IsFiniteSet(R) /\ a \notin S /\ b \notin R
    BY FS_Subset
  <1>2. S \cup {a} = Cell /\ R \cup {b} = S
    OBVIOUS
  <1> HIDE DEF S, R
  <1>3. Links(f, S \cup {a}, Pointer, x) =
               Links(f, S, Pointer, x) + Ind(f[a].next = x) + Ind(f[a].children = x)
    BY <1>1, LinksAdd
  <1>4. Links(f, R \cup {b}, Pointer, x) =
               Links(f, R, Pointer, x) + Ind(f[b].next = x) + Ind(f[b].children = x)
    <2>1. IsFiniteSet(R) /\ b \notin R
      BY <1>1
    <2> QED
      BY <2>1, LinksAdd
  <1>5. Links(f, R, Pointer, x) \in Nat
    BY <1>1, LinksFinite, TwoMembers
  <1> QED
    BY <1>2, <1>3, <1>4, <1>5 DEF R, S

\* A record takes over the pointers of another, which becomes blank.
Copied(g, L, a, b) ==
    /\ a # b /\ g[a] = L[b] /\ L[a] = Blank /\ g[b] = Blank
    /\ \A c \in Cell : c # a /\ c # b => g[c] = L[c]

\* Its pointers are the same ones.
LEMMA LinksMoved ==
    ASSUME CellAssumption, NEW g, NEW L, NEW a \in Cell, NEW b \in Cell, Copied(g, L, a, b), NEW x \in Cell
    PROVE  Links(g, Cell, Pointer, x) = Links(L, Cell, Pointer, x)
  <1> DEFINE R == (Cell \ {a}) \ {b}
  <1>1. b \in Cell \ {a} /\ IsFiniteSet(Cell)
    BY DEF Copied, CellAssumption
  <1>2. \A s \in R, m \in Pointer : g[s][m] = L[s][m]
    BY DEF Copied
  <1>3. /\ Links(g, Cell, Pointer, x) =
               Links(g, R, Pointer, x) + Ind(g[b].next = x) + Ind(g[b].children = x)
                                       + Ind(g[a].next = x) + Ind(g[a].children = x)
        /\ Links(g, R, Pointer, x) \in Nat
    BY <1>1, LinksButTwo
  <1>6. Links(L, Cell, Pointer, x) =
               Links(L, R, Pointer, x) + Ind(L[b].next = x) + Ind(L[b].children = x)
                                       + Ind(L[a].next = x) + Ind(L[a].children = x)
    BY <1>1, LinksButTwo
  <1>4. /\ L[a].next # x /\ L[a].children # x /\ g[b].next # x /\ g[b].children # x /\ g[a] = L[b]
    BY DEF Blank, CellAssumption, Copied
  <1> HIDE DEF R
  <1>5. Links(g, R, Pointer, x) = Links(L, R, Pointer, x)
    BY <1>2, LinksSame
  <1>8. /\ Ind(L[a].next = x) = 0 /\ Ind(L[a].children = x) = 0
        /\ Ind(g[b].next = x) = 0 /\ Ind(g[b].children = x) = 0
        /\ Ind(g[a].next = x) = Ind(L[b].next = x) /\ Ind(g[a].children = x) = Ind(L[b].children = x)
    BY <1>4 DEF Ind
  <1>9. Ind(L[b].next = x) \in Nat /\ Ind(L[b].children = x) \in Nat
    BY InRange
  <1>10. Links(g, Cell, Pointer, x) =
            Links(g, R, Pointer, x) + 0 + 0 + Ind(L[b].next = x) + Ind(L[b].children = x)
    BY <1>3, <1>8
  <1>11. Links(L, Cell, Pointer, x) =
            Links(g, R, Pointer, x) + Ind(L[b].next = x) + Ind(L[b].children = x) + 0 + 0
    BY <1>5, <1>6, <1>8
  <1> QED
    BY <1>3, <1>9, <1>10, <1>11

\* The object takes over what the parser returned.
LEMMA ConstructedBuilt ==
    ASSUME CellAssumption, Core, Constructed, UNCHANGED ebuild, Root # NULL
    PROVE  Core'
  <1> DEFINE s == job.stack
             cut == CutOff(s)
             L == Linked(s)
  <1>1. /\ AtEnd /\ job.self # NULL
        /\ HeapIs([NodesLeft EXCEPT ![job.self] = NodesLeft[Root]], [count EXCEPT ![Root] = 0])
        /\ lost' = LostLeft
        /\ job' = NULL /\ UNCHANGED <<vars, file, held, loops, field, reading>>
    BY DEF Constructed, ebuild
  <1>2. /\ job # NULL /\ s \in Seq(Cell) /\ s # <<>>
        /\ Root = FirstOf(s) /\ Root \in Cell /\ In(s, Root)
        /\ NodesLeft = L /\ LostLeft = lost \cup cut
    BY <1>1, BuiltFacts
  <1>3. PICK Y : Young(Y)
    BY <1>2 DEF Core, Parsing
  <1>4. /\ Distinct(s) /\ \A x \in Cell : Stacked(x) = Ind(In(s, x))
    BY <1>2, <1>3, YoungFacts
  <1>5. /\ L \in [Cell -> NodeRecord]
        /\ \A c \in Cell \ Y : L[c] = node[c]
        /\ \A c \in Y : L[c].it = NULL
        /\ \A c \in Cell : L[c].use = node[c].use
        /\ cut \subseteq Y
        /\ \A x \in cut : Others(x) = 0 /\ ~In(s, x)
        /\ \A x \in Cell : Links(L, Cell, Pointer, x) + Ind(x \in cut) + Ind(In(s, x) /\ x = FirstOf(s)) =
                           Links(node, Cell, Pointer, x) + Ind(In(s, x))
    BY <1>2, <1>3, <1>4, GroupLinked
  <1>6. /\ Y \subseteq Cell /\ \A c \in Y : count[c] = 1
        /\ \A c \in Cell \ Y : node[c].next \notin Y /\ node[c].children \notin Y
        /\ job.self \notin Y
    BY <1>3 DEF Young
  <1>7. PICK root \in Cell : root = Root
    BY <1>2
  <1>8. PICK self \in Cell : self = job.self
    BY <1>1, <1>2 DEF Core, Parsing, ParserState, Maybe
  <1>9. /\ held[self] = 1 /\ count[self] = 1 /\ node[self] = Blank
    BY <1>1, <1>2, <1>8 DEF Core, Parsing
  <1>10. root \in Y /\ root # self /\ self \notin Y
    <2>1. root \in Y
      BY <1>2, <1>3, <1>7, YoungFacts
    <2> QED
      BY <1>6, <1>8, <2>1
  <1>11. /\ In(s, root) /\ root = FirstOf(s)
    BY <1>2, <1>7
  <1> HIDE DEF L, cut, s
  <1>12. /\ count' = [count EXCEPT ![root] = 0]
         /\ node' = [c \in Cell |-> IF [count EXCEPT ![root] = 0][c] = 0 THEN Blank
                                    ELSE [L EXCEPT ![self] = L[root]][c]]
    BY <1>1, <1>2, <1>7, <1>8 DEF HeapIs
  <1>13. count \in [Cell -> Nat]
    BY DEF Core, Shape, NodesTyped
  <1>14. /\ count' \in [Cell -> Nat] /\ count'[root] = 0
         /\ \A c \in Cell : c # root => count'[c] = count[c]
    BY <1>12, <1>13
  <1>15. node'[root] = Blank /\ node'[self] = L[root]
    BY <1>5, <1>9, <1>10, <1>12, <1>13
  <1>16. \A c \in Cell : c # root /\ c # self => node'[c] = L[c]
    <2> SUFFICES ASSUME NEW c \in Cell, c # root, c # self
                 PROVE  node'[c] = L[c]
      OBVIOUS
    <2>1. CASE count[c] = 0
      <3>1. node'[c] = Blank /\ node[c] = Blank
        BY <1>12, <1>13, <2>1 DEF Core, BlankWhenFree
      <3>2. c \notin Y
        <4>1. \A d \in Y : count[d] = 1
          BY <1>6
        <4>2. count[c] # 1
          BY <2>1
        <4> QED
          BY <4>1, <4>2
      <3> QED
        BY <1>5, <3>1, <3>2
    <2>2. CASE count[c] # 0
      BY <1>5, <1>12, <1>13, <2>2
    <2> QED
      BY <2>1, <2>2
  <1>17. node' \in [Cell -> NodeRecord]
    <2>1. Blank \in NodeRecord
      BY DEF Blank, NodeRecord, Maybe
    <2>2. \A c \in Cell : node'[c] \in NodeRecord
      BY <1>5, <1>15, <1>16, <2>1
    <2> QED
      BY <1>12, <2>2
  <1>18. \A c \in Cell \ (Y \cup {self}) : node'[c] = node[c] /\ node[c].next \notin Y \cup {self}
    <2> SUFFICES ASSUME NEW c \in Cell, c \notin Y, c # self
                 PROVE  node'[c] = node[c] /\ node[c].next \notin Y \cup {self}
      OBVIOUS
    <2>1. node'[c] = node[c]
      BY <1>5, <1>10, <1>16
    <2>2. Links(node, Cell, Pointer, self) = 0
      <3>1. count[self] = Links(node, Cell, Pointer, self) + Others(self)
        BY DEF Core, CountsExact
      <3>2. held[self] <= Others(self) /\ Others(self) \in Nat
        BY OthersNat DEF Core
      <3>3. Links(node, Cell, Pointer, self) \in Nat
        BY LinksFinite, TwoMembers DEF CellAssumption
      <3> QED
        BY <1>9, <3>1, <3>2, <3>3
    <2>3. node[c].next # self
      <3>1. \A d \in Cell, m \in Pointer : node[d][m] # self
        BY <2>2, LinksFinite, TwoMembers DEF CellAssumption
      <3> QED
        BY <3>1 DEF Pointer
    <2> QED
      BY <1>6, <2>1, <2>3
  <1>19. \A c \in Y \cup {self} : node'[c].it = NULL
    BY <1>5, <1>6, <1>10, <1>15, <1>16 DEF Blank
  <1>20. ItAhead'
    <2>1. \A c \in Cell : node[c].next # NULL => node[c].next \in Cell
      BY DEF Core, Shape, NodesTyped, Maybe
    <2>2. Y \cup {self} \subseteq Cell
      BY <1>6
    <2> QED
      BY <1>18, <1>19, <2>1, <2>2, ItAheadKept DEF Core
  <1>21. CountsExact'
    <2> SUFFICES ASSUME NEW x \in Cell
                 PROVE  count'[x] = Links(node', Cell, Pointer, x) + Others(x)'
      BY DEF CountsExact, Links, LinkSet
    <2> DEFINE p == Links(node, Cell, Pointer, x)
               q == Links(node', Cell, Pointer, x)
               l == Links(loops, DOMAIN loops, OfLoop, x)
               a == Ind(In(s, x))
               d == Ind(x \in lost)
               e == Ind(x \in cut)
               f == Among(field, x)
               r == Ind(root = x)
    <2>1. count[x] = p + (l + a + d + held[x] + f)
      BY <1>4 DEF Core, CountsExact, Others
    <2>2. q + e + r = p + a
      <3>1. Links(node', Cell, Pointer, x) = Links(L, Cell, Pointer, x)
        <4>1. L[self] = Blank
          BY <1>5, <1>9, <1>10
        <4>2. Copied(node', L, self, root)
          BY <1>10, <1>15, <1>16, <4>1 DEF Copied
        <4> QED
          BY <1>10, <4>2, LinksMoved
      <3>2. Ind(In(s, x) /\ x = FirstOf(s)) = r
        BY <1>11 DEF Ind
      <3> QED
        BY <1>5, <3>1, <3>2
    <2>3. Others(x)' = l + 0 + (d + e) + held[x] + f
      <3>1. Stacked(x)' = 0
        BY <1>1 DEF Stacked
      <3>2. Others(x)' = Links(loops', DOMAIN loops', OfLoop, x) + Stacked(x)' + Ind(x \in lost')
                         + held'[x] + Among(field', x)
        BY OthersAfter
      <3>3. Ind(x \in lost') = d + e
        BY <1>1, <1>2, <1>5, CutCounted
      <3> QED
        BY <1>1, <3>1, <3>2, <3>3
    <2>4. /\ l \in Nat /\ d \in Nat /\ e \in Nat /\ r \in Nat /\ a \in Nat
          /\ held[x] \in Nat /\ f \in Nat
      BY OthersNat, InRange DEF Core
    <2>5. p \in Nat /\ q \in Nat
      BY LinksFinite, TwoMembers DEF CellAssumption
    <2>6. count'[x] = count[x] - r
      <3>1. CASE x = root
        <4>1. count[x] = 1 /\ r = 1 /\ count'[x] = 0
          BY <1>6, <1>10, <1>14, <3>1 DEF Ind
        <4> QED
          BY <4>1
      <3>2. CASE x # root
        <4>1. r = 0 /\ count'[x] = count[x] /\ count[x] \in Nat
          BY <1>13, <1>14, <3>2 DEF Ind
        <4> QED
          BY <4>1
      <3> QED
        BY <3>1, <3>2
    <2> HIDE DEF p, q, l, a, d, e, f, r
    <2>7. p = q + e + r - a
      BY <2>2, <2>4, <2>5
    <2>8. (q + e + r - a) + (l + a + d + held[x] + f) - r = q + (l + 0 + (d + e) + held[x] + f)
      BY <2>4, <2>5
    <2>9. count'[x] = q + Others(x)'
      BY <2>1, <2>3, <2>4, <2>5, <2>6, <2>7, <2>8
    <2> QED
      BY <2>9 DEF q
  <1>22. BlankWhenFree'
    BY <1>12, <1>14 DEF BlankWhenFree
  <1>23. \A c \in Cell : node'[c].use # NULL => \E d \in Cell : node'[c].use = node[d].use
    <2> SUFFICES ASSUME NEW c \in Cell, node'[c].use # NULL
                 PROVE  \E d \in Cell : node'[c].use = node[d].use
      OBVIOUS
    <2>1. c # root
      BY <1>15 DEF Blank
    <2>2. CASE c = self
      BY <1>5, <1>15, <2>2
    <2>3. CASE c # self
      BY <1>5, <1>16, <2>1, <2>3
    <2> QED
      BY <2>2, <2>3
  <1>24. Roots' /\ field' \in [TextName -> Maybe(Cell)]
    <2>1. lost' = lost \cup cut
      BY <1>1, <1>2
    <2>2. \A n \in TextName : field[n] \notin cut
      <3> SUFFICES ASSUME NEW n \in TextName, field[n] \in cut
                   PROVE  FALSE
        OBVIOUS
      <3>1. field[n] # NULL /\ Others(field[n]) = 0
        BY <1>5, <1>6 DEF CellAssumption
      <3> QED
        BY <3>1, FieldReferred
    <2> QED
      BY <1>1, <2>1, <2>2 DEF Core, Roots, Shape
  <1>25. reading' \in Nat /\ lost' \subseteq Cell /\ held' \in [Cell -> Nat]
    <2>1. reading \in Nat /\ lost \subseteq Cell /\ held \in [Cell -> Nat]
      BY DEF Core, Shape, NodesTyped
    <2> QED
      BY <1>1, <1>2, <1>5, <1>6, <2>1
  <1>26. UNCHANGED <<vars, file, loops>> /\ job' = NULL
    BY <1>1
  <1> QED
    BY <1>14, <1>17, <1>20, <1>21, <1>22, <1>23, <1>24, <1>25, <1>26, Finished

\* The end of a text: the parser lets go of what it discards and of itself, and
\* what it did not reach is lost.
LEMMA EndBalance ==
  ASSUME NEW l \in Nat, NEW d \in Nat, NEW e \in Nat, NEW o \in Nat, NEW a \in Nat, NEW h \in Nat,
         NEW f \in Nat, o <= h
  PROVE  /\ a + o <= l + (a + e) + d + h + f
         /\ l + 0 + (d + e) + (h - o) + f = l + (a + e) + d + h + f - (a + o)
  OBVIOUS

\* Nothing was parsed: the object is released with the items on the stack.
LEMMA ConstructedDiscarded ==
    ASSUME CellAssumption, Core, Constructed, UNCHANGED ebuild, Root = NULL
    PROVE  Core'
  <1>1. /\ AtEnd /\ job.self # NULL
        /\ HeapIs(NodesLeft, Drop(count, Append(Discarded, job.self)))
        /\ held' = [held EXCEPT ![job.self] = @ - 1]
        /\ lost' = LostLeft
        /\ job' = NULL /\ UNCHANGED <<vars, file, loops, field, reading>>
    BY DEF Constructed, ebuild
  <1>2. /\ job # NULL /\ Discarded \in Seq(Cell) /\ \A c \in Cell : NodesLeft[c] = node[c]
        /\ \E X : LostItems(X)
    BY <1>1, DiscardFacts
  <1>3. PICK X : LostItems(X)
    BY <1>2
  <1>4. PICK self \in Cell : self = job.self
    BY <1>1, <1>2 DEF Core, Parsing, ParserState, Maybe
  <1>5. held[self] = 1 /\ held \in [Cell -> Nat]
    BY <1>1, <1>2, <1>4 DEF Core, Parsing, Shape, NodesTyped
  <1> DEFINE refs == Append(Discarded, self)
             other == [c \in Cell |-> Others(c)]
  <1>6. IsFiniteSet(DOMAIN refs)
    BY <1>2, <1>4, AmongAppend
  <1>7. \A x : Among(refs, x) = Among(Discarded, x) + Ind(self = x)
    BY <1>2, <1>4, AmongAppend
  <1>8. \A x : Among(Discarded, x) \in Nat
    BY <1>2, <1>4, AmongAppend
  <1>9. \A x \in Cell : Stacked(x) = Among(Discarded, x) + Ind(x \in X)
    BY <1>3 DEF LostItems
  <1> HIDE DEF refs
  <1>10. /\ held' \in [Cell -> Nat] /\ \A x \in Cell : Ind(self = x) <= held[x] /\ held'[x] = held[x] - Ind(self = x)
    <2>1. held' \in [Cell -> Nat]
      BY <1>1, <1>4, <1>5
    <2>2. ASSUME NEW x \in Cell
          PROVE  Ind(self = x) <= held[x] /\ held'[x] = held[x] - Ind(self = x)
      <3>1. CASE x = self
        <4>1. Ind(self = x) = 1 /\ held[x] = 1 /\ held'[x] = held[x] - 1
          BY <1>1, <1>4, <1>5, <3>1 DEF Ind
        <4> QED
          BY <4>1
      <3>2. CASE x # self
        <4>1. Ind(self = x) = 0 /\ held'[x] = held[x] /\ held[x] \in Nat
          BY <1>1, <1>4, <1>5, <3>2 DEF Ind
        <4> QED
          BY <4>1
      <3> QED
        BY <3>1, <3>2
    <2> QED
      BY <2>1, <2>2
  <1>11. ASSUME NEW x \in Cell
         PROVE  /\ Among(refs, x) <= Others(x)
                /\ Others(x)' = other[x] - Among(refs, x)
    <2> DEFINE l == Links(loops, DOMAIN loops, OfLoop, x)
               a == Among(Discarded, x)
               d == Ind(x \in lost)
               e == Ind(x \in X)
               f == Among(field, x)
               o == Ind(self = x)
               h == held[x]
    <2>1. Others(x) = l + (a + e) + d + h + f /\ other[x] = Others(x)
      BY <1>9 DEF Others
    <2>2. Among(refs, x) = a + o
      BY <1>7
    <2>3. Others(x)' = l + 0 + (d + e) + (h - o) + f
      <3>1. Stacked(x)' = 0
        BY <1>1 DEF Stacked
      <3>2. Others(x)' = Links(loops', DOMAIN loops', OfLoop, x) + Stacked(x)' + Ind(x \in lost')
                         + held'[x] + Among(field', x)
        BY OthersAfter
      <3>3. Ind(x \in lost') = d + e
        BY <1>1, <1>3, LostCounted
      <3> QED
        BY <1>1, <1>10, <3>1, <3>2, <3>3
    <2>4. /\ l \in Nat /\ d \in Nat /\ e \in Nat /\ o \in Nat /\ a \in Nat /\ h \in Nat /\ f \in Nat
          /\ o <= h
      BY <1>8, <1>10, OthersNat, InRange DEF Core
    <2> HIDE DEF l, a, d, e, f, o, h, other
    <2>5. a + o <= l + (a + e) + d + h + f
      BY ONLY <2>4, EndBalance
    <2>6. l + 0 + (d + e) + (h - o) + f = l + (a + e) + d + h + f - (a + o)
      BY ONLY <2>4, EndBalance
    <2>7. Others(x)' = l + (a + e) + d + h + f - (a + o)
      BY <2>3, <2>6
    <2>8. Others(x)' = other[x] - Among(refs, x)
      BY <2>1, <2>2, <2>4, <2>7
    <2>9. Among(refs, x) <= Others(x)
      BY <2>1, <2>2, <2>5
    <2> QED
      BY <2>8, <2>9
  <1>12. Droppable(count, refs, other)
    BY <1>6, <1>11, CountDroppable
  <1>13. SameButIt(NodesLeft) /\ Onward(NodesLeft)
    BY <1>2, KeptNodes
  <1>14. lost' \subseteq Cell /\ reading' \in Nat /\ LoopsTyped' /\ field' \in [TextName -> Maybe(Cell)]
    BY <1>1, <1>3 DEF LostItems, Core, Shape, LoopsTyped, NodesTyped
  <1>15. Roots'
    <2>1. lost' = lost \cup X
      BY <1>1, <1>3 DEF LostItems
    <2>2. \A n \in TextName : field[n] \notin X
      <3> SUFFICES ASSUME NEW n \in TextName, field[n] \in X
                   PROVE  FALSE
        OBVIOUS
      <3>1. field[n] # NULL /\ Among(field, field[n]) = 0
        BY <1>3 DEF LostItems, CellAssumption
      <3> QED
        BY <3>1, FieldReferred
    <2> QED
      BY <1>1, <2>1, <2>2 DEF Core, Roots
  <1>16. UNCHANGED <<vars, file>> /\ job' = NULL /\ HeapIs(NodesLeft, Drop(count, refs))
    BY <1>1, <1>4 DEF refs
  <1> HIDE DEF other
  <1> QED
    BY <1>10, <1>11, <1>12, <1>13, <1>14, <1>15, <1>16, DropStep

-----------------------------------------------------------------------------
(* The steps of the ebuild, the parser and Python.                         *)

\* Each reduction keeps the invariant,
LEMMA ReduceCore ==
    ASSUME CellAssumption, HashAssumption, OverlapAssumption, FlagAssumption, Core, Reduce, UNCHANGED ebuild
    PROVE  Core'
  <1>1. job # NULL /\ job.at <= Len(job.text.ops) /\ UNCHANGED <<held, loops, made, ebuild>>
    BY DEF Reduce
  <1>2. CASE ReduceNode(job.text.ops[job.at],
                        SubSeq(job.stack, 1, Len(job.stack) - job.text.ops[job.at].take),
                        SubSeq(job.stack, Len(job.stack) - job.text.ops[job.at].take + 1, Len(job.stack)))
    <2>1. NodeStep
      BY <1>1, <1>2 DEF NodeStep
    <2> QED
      BY <1>1, <2>1, ReduceNodeCore
  <1>3. CASE ReduceParen(job.text.ops[job.at],
                         SubSeq(job.stack, 1, Len(job.stack) - job.text.ops[job.at].take),
                         SubSeq(job.stack, Len(job.stack) - job.text.ops[job.at].take + 1, Len(job.stack)))
    BY <1>1, <1>3, ReduceParenCore
  <1> QED
    BY <1>2, <1>3 DEF Reduce

\* each operation of Python does,
LEMMA PythonCore ==
    ASSUME CellAssumption, HashAssumption, OverlapAssumption, FlagAssumption, FilesAssumption, TextsAssumption,
           Core, Python, UNCHANGED ebuild
    PROVE  Core'
  <1>1. ASSUME NEW text \in Texts, Construct(text)
        PROVE  Core'
    BY <1>1, ConstructCore
  <1>2. ASSUME NEW c \in Cell, TakeMember(c, "next") \/ TakeMember(c, "children")
        PROVE  Core'
    BY <1>2, TakeMemberCore
  <1>3. ASSUME NEW c \in Cell, Forget(c)
        PROVE  Core'
    BY <1>3, ForgetCore
  <1>4. ASSUME NEW c \in Cell, NEW l \in Loop, StartLoop(l, c)
        PROVE  Core'
    BY <1>4, StartLoopCore
  <1>5. ASSUME NEW l \in DOMAIN loops, LoopNext(l)
        PROVE  Core'
    BY <1>5, LoopNextCore
  <1>6. ASSUME NEW l \in DOMAIN loops, EndLoop(l)
        PROVE  Core'
    BY <1>6, EndLoopCore
  <1>7. ASSUME NEW l \in DOMAIN loops, ReadCondition(l)
        PROVE  Core'
    BY <1>7, QuietCore
  <1> QED
    BY <1>1, <1>2, <1>3, <1>4, <1>5, <1>6, <1>7 DEF Python

\* and each step of the ebuild.
LEMMA NextCore ==
    ASSUME CellAssumption, HashAssumption, OverlapAssumption, FlagAssumption, FilesAssumption, TextsAssumption
    PROVE  Core /\ [MetadataNext]_all => Core'
  <1> SUFFICES ASSUME Core, [MetadataNext]_all
               PROVE  Core'
    OBVIOUS
  <1>1. CASE Python /\ UNCHANGED ebuild
    BY <1>1, PythonCore
  <1>2. CASE Dealloc
    BY <1>2, DeallocCore
  <1>3. ASSUME NEW name \in TextName, TakeField(name)
        PROVE  Core'
    BY <1>3, TakeFieldCore
  <1>4. CASE Reduce /\ UNCHANGED ebuild
    BY <1>4, ReduceCore
  <1>5. CASE Constructed /\ UNCHANGED ebuild
    BY <1>5, ConstructedBuilt, ConstructedDiscarded
  <1>6. CASE ReadText
    BY <1>6, ReadTextCore
  <1>7. CASE StoreText
    BY <1>7, StoreBuilt, StoreDiscarded
  <1>8. CASE StartReading \/ ReadOther \/ EndReading \/ UNCHANGED all
    BY <1>8, QuietCore
  <1> QED
    BY <1>1, <1>2, <1>3, <1>4, <1>5, <1>6, <1>7, <1>8 DEF MetadataNext

\* The inductive invariant: reference counts, the parser's young nodes, the places of
\* loops and the conditions hold together, whatever the parser, Python and the ebuild do.
THEOREM CoreInvariance == MetadataSpec => []Core
  <1>1. Core /\ [MetadataNext]_all => Core'
    BY NextCore, CellAssumption, HashAssumption, OverlapAssumption, FlagAssumption, FilesAssumption,
       TextsAssumption
  <1> QED
    BY <1>1, InitCore, PTL DEF MetadataSpec

\* What the counts of the cells mean for those in memory.
LEMMA CountsRefer ==
    ASSUME CellAssumption, Core, NEW c \in Cell
    PROVE  count[c] = Referring(c) + Among(field, c)
  <1> DEFINE l == Links(loops, DOMAIN loops, OfLoop, c)
             d == Ind(c \in lost)
             f == Among(field, c)
             st == Stacked(c)
             p == Links(node, Live, Pointer, c)
  <1>1. Links(node, Cell, Pointer, c) = p
    <2>1. Live \subseteq Cell /\ IsFiniteSet(Cell)
      BY DEF Live, CellAssumption
    <2> DEFINE S == Live
    <2>4. S \subseteq Cell /\ IsFiniteSet(Cell) /\ IsFiniteSet(Pointer)
      BY <2>1, TwoMembers
    <2> HIDE DEF S
    <2>5. /\ Links(node, Cell, Pointer, c) =
                Links(node, S, Pointer, c) + Links(node, Cell \ S, Pointer, c)
          /\ Links(node, S, Pointer, c) \in Nat /\ Links(node, Cell \ S, Pointer, c) \in Nat
          /\ Links(node, Cell, Pointer, c) \in Nat
      BY <2>4, LinksFewer, Zenon
    <2>2. /\ Links(node, Cell, Pointer, c) =
                Links(node, Live, Pointer, c) + Links(node, Cell \ Live, Pointer, c)
          /\ Links(node, Live, Pointer, c) \in Nat
      BY <2>5 DEF S
    <2>3. Links(node, Cell \ Live, Pointer, c) = 0
      <3>1. IsFiniteSet(Cell \ Live)
        BY <2>1, FS_Difference
      <3>2. \A s \in Cell \ Live : count[s] = 0
        BY DEF Live, Core, Shape, NodesTyped
      <3>3. \A s \in Cell \ Live : node[s] = Blank
        BY <3>2 DEF Core, BlankWhenFree
      <3>4. \A s \in Cell \ Live, m \in Pointer : node[s][m] # c
        BY <3>3 DEF Blank, Pointer, CellAssumption
      <3> QED
        BY <3>1, <3>4, LinksFinite, TwoMembers
    <2> QED
      BY <2>2, <2>3
  <1>2. Pointing(Live, c) = p
    BY PointingLinks
  <1>3. Cardinality({e \in (DOMAIN loops) \X {"head", "item"} : loops[e[1]][e[2]] = c}) = l
    BY DEF Links, LinkSet, OfLoop
  <1>4. (IF job = NULL THEN 0 ELSE Among(job.stack, c)) = st
    BY DEF Stacked
  <1>5. Cardinality({c} \cap lost) = d
    <2>1. CASE c \in lost
      <3>1. {c} \cap lost = {c}
        BY <2>1
      <3> QED
        BY <2>1, <3>1, FS_Singleton DEF Ind
    <2>2. CASE c \notin lost
      <3>1. {c} \cap lost = {}
        BY <2>2
      <3> QED
        BY <2>2, <3>1, FS_EmptySet DEF Ind
    <2> QED
      BY <2>1, <2>2
  <1>6. count[c] = p + (l + st + d + held[c] + f)
    BY <1>1 DEF Core, CountsExact, Others
  <1>7. Referring(c) = p + l + st + d + held[c]
    BY <1>2, <1>3, <1>4, <1>5 DEF Referring
  <1>8. l \in Nat /\ st \in Nat /\ d \in Nat /\ held[c] \in Nat /\ f \in Nat
    BY OthersNat DEF Core
  <1>9. p \in Nat
    <2>1. IsFiniteSet(Live)
      BY FS_Subset DEF Live, CellAssumption
    <2> QED
      BY <2>1, LinksFinite, TwoMembers
  <1> HIDE DEF l, d, f, st, p
  <1>10. count[c] = p + l + st + d + held[c] + f
    BY <1>6, <1>8, <1>9
  <1> QED
    BY <1>7, <1>10 DEF f

\* Every reference to a node is counted once, through building, looping, overwriting
\* and deallocation: nothing is freed early and nothing that counts is forgotten.
THEOREM CountsHold == MetadataSpec => []NodesCounted
  <1>1. Core => NodesCounted
    <2> SUFFICES ASSUME Core PROVE NodesCounted
      OBVIOUS
    <2>1. TypeOK /\ NodesTyped
      BY DEF Core, IInv, Shape
    <2>2. \A c \in Cell : count[c] = Referring(c) + Among(field, c)
      BY CountsRefer, CellAssumption
    <2> QED
      BY <2>1, <2>2 DEF NodesCounted
  <1> QED
    BY <1>1, CoreInvariance, PTL

-----------------------------------------------------------------------------
(* Flags.                                                                  *)

\* Every step uses the table of flags as its own specification allows, or not at all.
LEMMA FlagsStep == Core /\ [MetadataNext]_all => [Next]_vars
  <1> SUFFICES ASSUME Core, [MetadataNext]_all
               PROVE  [Next]_vars
    OBVIOUS
  <1>1. CASE Reduce
    <2>1. job # NULL /\ job.at <= Len(job.text.ops)
      BY <1>1 DEF Reduce
    <2>2. job.text.ops[job.at] \in Operation
      BY <2>1, ReduceParser, CellAssumption
    <2> DEFINE op == job.text.ops[job.at]
    <2>3. CASE op.do = "node" /\ (IF op.flag = NULL THEN UNCHANGED vars ELSE UseGetGlobal(op.flag))
      <3>1. op.flag \in Maybe(Key)
        BY <2>2, <2>3 DEF Operation
      <3> HIDE DEF op
      <3>2. CASE op.flag = NULL
        BY <2>3, <3>2
      <3>3. CASE op.flag # NULL
        BY <2>3, <3>1, <3>3 DEF Next, Maybe
      <3> QED
        BY <3>2, <3>3
    <2>4. CASE UNCHANGED vars
      BY <2>4
    <2> QED
      BY <1>1, <2>3, <2>4 DEF Reduce, ReduceNode, ReduceParen
  <1>2. CASE Constructed
    BY <1>2 DEF Constructed
  <1>3. ASSUME NEW l \in DOMAIN loops, ReadCondition(l)
        PROVE  [Next]_vars
    <2>1. loops[l].item \in Cell
      BY <1>3 DEF ReadCondition, Core, Shape, LoopsTyped, LoopRecord, Maybe
    <2>2. PICK g \in given : g.id = node[loops[l].item].use
      BY <1>3, <2>1 DEF ReadCondition, Core, UsesGiven
    <2> QED
      BY <1>3, <2>2 DEF ReadCondition, Next
  <1>4. CASE Python
    <2>1. ASSUME NEW text \in Texts, Construct(text) PROVE UNCHANGED vars
      BY <2>1 DEF Construct
    <2>2. ASSUME NEW c \in Cell, NEW m \in {"next", "children"}, TakeMember(c, m) PROVE UNCHANGED vars
      BY <2>2 DEF TakeMember, Idle
    <2>3. ASSUME NEW c \in Cell, Forget(c) \/ \E l \in Loop : StartLoop(l, c) PROVE UNCHANGED vars
      BY <2>3 DEF Forget, StartLoop, Idle
    <2>4. ASSUME NEW l \in DOMAIN loops, LoopNext(l) \/ EndLoop(l) PROVE UNCHANGED vars
      BY <2>4 DEF LoopNext, EndLoop, Idle
    <2> QED
      BY <1>3, <1>4, <2>1, <2>2, <2>3, <2>4 DEF Python
  <1>5. CASE Dealloc \/ \E name \in TextName : TakeField(name)
    BY <1>5 DEF Dealloc, TakeField, Idle
  <1>6. CASE StartReading \/ ReadText \/ ReadOther \/ StoreText \/ EndReading \/ UNCHANGED all
    BY <1>6 DEF StartReading, ReadText, ReadOther, StoreText, EndReading, all
  <1> QED
    BY <1>1, <1>2, <1>4, <1>5, <1>6 DEF MetadataNext

\* Building, looping and reading files use the table of flags as it may be used.
LEMMA FlagsUsed == MetadataSpec => Spec
  <1>1. MetadataInit => Init
    BY DEF MetadataInit
  <1> QED
    BY <1>1, FlagsStep, CoreInvariance, PTL DEF MetadataSpec, Spec

\* The condition of a node is an id that was given out, and it leads to the flag it
\* was made for, for ever.
THEOREM ConditionsResolve == MetadataSpec => [](GivenIdsResolve /\ UsesGiven)
  <1>1. Core => UsesGiven
    BY DEF Core
  <1> QED
    BY <1>1, FlagsUsed, IdsResolve, CoreInvariance, PTL

\* Whatever is parsed, read and asked for, the table implements the dictionary.
THEOREM FlagsRefine == MetadataSpec => ImplementsDictionary
  BY FlagsUsed, Refinement, PTL

-----------------------------------------------------------------------------
(* The order in which loops see the nodes.                                 *)

\* The pointers of nodes do not go round; a loop has seen the nodes from its head on,
\* one after the other, and its place is the one after; each loop has its own head.
Acyclic ==
    \A T \in SUBSET Cell : T # {} => \E c \in T : node[c].next \notin T /\ node[c].children \notin T
Placed(l) ==
    LET h == loops[l].head
        s == loops[l].seen
    IN  IF s = <<>> THEN node[h].it = h
        ELSE /\ s[1] = h /\ node[h].it = node[s[Len(s)]].next
             /\ \A i \in 1 .. Len(s) - 1 : s[i + 1] = node[s[i]].next
OwnHead(l) == \A m \in DOMAIN loops : loops[l].head = loops[m].head => l = m
Ordered == Acyclic /\ \A l \in DOMAIN loops : Placed(l) /\ OwnHead(l)

\* A step that links the items s, to which nothing led, makes the nodes in F, which
\* are led to by nothing and not by themselves, and frees some others.
Items(s) == {s[i] : i \in 1 .. Len(s)}
Relinked(s, F) ==
    /\ s \in Seq(Cell) /\ Distinct(s) /\ F \subseteq Cell /\ Items(s) \cap F = {}
    /\ \A c \in Cell : /\ node[c].next \notin Items(s) \cup F
                       /\ node[c].children \notin Items(s) \cup F
    /\ \A c \in Cell \ (Items(s) \cup F) :
          \/ count'[c] = 0 /\ node'[c] = Blank
          \/ node'[c].next = node[c].next /\ node'[c].children = node[c].children
    /\ \A i \in 1 .. Len(s) :
          /\ node'[s[i]].next \in {NULL, node[s[i]].next} \cup {s[j] : j \in {i + 1} \cap 1 .. Len(s)}
          /\ node'[s[i]].children \in {NULL, node[s[i]].children}
    /\ \A c \in F : node'[c].next \notin F /\ node'[c].children \notin F

\* Such a step makes no circle.
LEMMA AcyclicAfter ==
    ASSUME CellAssumption, Acyclic, NEW s, NEW F, Relinked(s, F)
    PROVE  Acyclic'
  <1> SUFFICES ASSUME NEW T \in SUBSET Cell, T # {}
               PROVE  \E c \in T : node'[c].next \notin T /\ node'[c].children \notin T
    BY DEF Acyclic
  <1>0. Len(s) \in Nat /\ NULL \notin Cell /\ \A i \in 1 .. Len(s) : s[i] \in Cell
    BY LenProperties, ElementOfSeq DEF Relinked, CellAssumption
  <1>1. CASE T \ (Items(s) \cup F) # {}
    <2> DEFINE U == T \ (Items(s) \cup F)
    <2>1. U \in SUBSET Cell /\ U # {}
      BY <1>1
    <2>2. PICK c \in U : node[c].next \notin U /\ node[c].children \notin U
      BY <2>1 DEF Acyclic
    <2>3. node[c].next \notin T /\ node[c].children \notin T
      BY <2>2 DEF Relinked
    <2>4. node'[c] = Blank \/ (node'[c].next = node[c].next /\ node'[c].children = node[c].children)
      BY <2>2 DEF Relinked
    <2>5. NULL \notin T /\ Blank.next = NULL /\ Blank.children = NULL
      BY <1>0 DEF Blank
    <2>6. node'[c].next \notin T /\ node'[c].children \notin T
      BY <2>3, <2>4, <2>5
    <2> QED
      BY <2>2, <2>6
  <1>2. CASE T \subseteq Items(s) \cup F /\ T \cap Items(s) # {}
    <2> DEFINE I == {i \in 1 .. Len(s) : s[i] \in T}
               J == {Len(s) - i : i \in I}
    <2>1. J # {} /\ J \subseteq Nat
      BY <1>0, <1>2 DEF Items
    <2>2. PICK k \in J : \A j \in J : k <= j
      BY <2>1, Least
    <2>3. PICK i \in I : k = Len(s) - i
      OBVIOUS
    <2>4. ASSUME NEW j \in I
          PROVE  j <= i
      <3>1. Len(s) - j \in J /\ i \in Nat /\ j \in Nat
        BY <2>3
      <3>2. Len(s) - i <= Len(s) - j
        BY <2>2, <2>3, <3>1
      <3> QED
        BY <1>0, <3>1, <3>2
    <2> HIDE DEF J
    <2>5. /\ node'[s[i]].next \in {NULL, node[s[i]].next} \cup {s[j] : j \in {i + 1} \cap 1 .. Len(s)}
          /\ node'[s[i]].children \in {NULL, node[s[i]].children}
      BY <2>3 DEF Relinked
    <2>6. /\ node[s[i]].next \notin Items(s) \cup F
          /\ node[s[i]].children \notin Items(s) \cup F
      BY <1>0, <2>3 DEF Relinked
    <2>7. ASSUME NEW j \in {i + 1} \cap 1 .. Len(s)
          PROVE  s[j] \notin T
      <3>1. j = i + 1 /\ i \in Nat
        BY <2>3
      <3> QED
        BY <2>4, <3>1
    <2> QED
      BY <1>0, <1>2, <2>3, <2>5, <2>6, <2>7
  <1>3. CASE T \subseteq F
    BY <1>3 DEF Relinked
  <1> QED
    BY <1>1, <1>2, <1>3

\* What is referred to after a step is in memory after it.
AllLive ==
    /\ \A c, d \in Cell : node[c].next = d => count[d] # 0
    /\ \A l \in DOMAIN loops : count[loops[l].head] # 0
    /\ \A l \in DOMAIN loops, d \in Cell : loops[l].item = d => count[d] # 0

\* Core says so of the next state, too.
LEMMA ReferredNext == Core' => AllLive'
  <1>1. Core => AllLive
    <2> SUFFICES ASSUME Core PROVE AllLive
      OBVIOUS
    <2>1. Shape /\ Parsing /\ CountsExact /\ \A c \in Live : count[c] # 0
      BY DEF Core, Shape, NodesTyped, Live
    <2>2. /\ \A c, d \in Cell : node[c].next = d \/ node[c].children = d => d \in Live
          /\ \A l \in DOMAIN loops : loops[l].head \in Live /\ loops[l].item \in Maybe(Live)
      BY <2>1, Referred, CellAssumption
    <2> QED
      BY <2>1, <2>2, CellAssumption DEF AllLive, Maybe, CellAssumption
  <1> QED
    BY <1>1, PTL

\* The nodes that a loop has seen stay in memory, in their order.
LEMMA SeenKept ==
    ASSUME CellAssumption, Shape, Core', NEW s, NEW F, Relinked(s, F),
           NEW l \in DOMAIN loops, l \in DOMAIN loops', loops'[l].head = loops[l].head, Placed(l),
           loops[l].head \notin Items(s) \cup F
    PROVE  /\ loops[l].seen \in Seq(Cell)
           /\ \A i \in 1 .. Len(loops[l].seen) :
                 node'[loops[l].seen[i]].next = node[loops[l].seen[i]].next
  <1> DEFINE h == loops[l].head
             t == loops[l].seen
             Q == Items(s) \cup F
             Stays(c) == c \in Cell /\ c \notin Q /\ count'[c] # 0
  <1>1. h \in Cell /\ t \in Seq(Cell) /\ Len(t) \in Nat /\ \A i \in 1 .. Len(t) : t[i] \in Cell
    BY LenProperties, ElementOfSeq DEF Shape, LoopsTyped, LoopRecord
  <1>2. ASSUME NEW c, Stays(c)
        PROVE  node'[c].next = node[c].next /\ node[c].next \notin Q
    BY <1>2 DEF Relinked
  <1>3. Stays(h)
    <2>1. count'[loops'[l].head] # 0
      BY ReferredNext DEF AllLive
    <2> QED
      BY <1>1, <2>1
  <1>4. ASSUME NEW c, Stays(c), NEW d \in Cell, node[c].next = d
        PROVE  Stays(d)
    <2>1. node'[c].next = d /\ d \notin Q
      BY <1>2, <1>4
    <2>2. count'[d] # 0
      BY <1>4, <2>1, ReferredNext DEF AllLive
    <2> QED
      BY <2>1, <2>2
  <1> HIDE DEF Q, h, t, Stays
  <1>5. CASE t = <<>>
    BY <1>1, <1>5, EmptySeq DEF t
  <1>6. CASE t # <<>>
    <2>1. /\ t[1] = h /\ node[h].it = node[t[Len(t)]].next
          /\ \A i \in 1 .. Len(t) - 1 : t[i + 1] = node[t[i]].next
      BY <1>6 DEF Placed, h, t
    <2> DEFINE S == {i \in Nat : i + 1 <= Len(t) => Stays(t[i + 1])}
    <2>2. 0 \in S
      BY <1>3, <2>1
    <2>3. ASSUME NEW n \in Nat, n \in S
          PROVE  n + 1 \in S
      <3>1. SUFFICES ASSUME (n + 1) + 1 <= Len(t)
                     PROVE  Stays(t[(n + 1) + 1])
        OBVIOUS
      <3>2. n + 1 \in 1 .. Len(t) - 1 /\ (n + 1) + 1 \in 1 .. Len(t)
        BY <1>1, <3>1
      <3>3. Stays(t[n + 1]) /\ t[(n + 1) + 1] = node[t[n + 1]].next /\ t[(n + 1) + 1] \in Cell
        BY <1>1, <2>1, <2>3, <3>2
      <3> QED
        BY <1>4, <3>3
    <2>4. Nat \subseteq S
      <3> HIDE DEF S
      <3> QED
        BY <2>2, <2>3, SetInduction
    <2>5. ASSUME NEW i \in 1 .. Len(t)
          PROVE  Stays(t[i]) /\ node'[t[i]].next = node[t[i]].next
      <3>1. i - 1 \in Nat /\ (i - 1) + 1 = i /\ i <= Len(t)
        BY <1>1
      <3>2. i - 1 \in S
        BY <2>4, <3>1
      <3>3. Stays(t[i])
        BY <3>1, <3>2
      <3> QED
        BY <1>2, <3>3
    <2> QED
      BY <1>1, <2>5 DEF t
  <1> QED
    BY <1>5, <1>6

\* The place of a loop that does not step stays where it was.
LEMMA PlacedKept ==
    ASSUME CellAssumption, Shape, Core', NEW s, NEW F, Relinked(s, F),
           NEW l \in DOMAIN loops, l \in DOMAIN loops', loops'[l] = loops[l], Placed(l),
           loops[l].head \notin Items(s) \cup F, node'[loops[l].head].it = node[loops[l].head].it
    PROVE  Placed(l)'
  <1> DEFINE h == loops[l].head
             t == loops[l].seen
  <1>1. t \in Seq(Cell) /\ \A i \in 1 .. Len(t) : node'[t[i]].next = node[t[i]].next
    BY SeenKept
  <1>2. node'[h].it = node[h].it /\ loops'[l].head = h /\ loops'[l].seen = t /\ Len(t) \in Nat
    BY <1>1, LenProperties
  <1> HIDE DEF h, t
  <1>3. CASE t = <<>>
    BY <1>2, <1>3 DEF Placed, h, t
  <1>4. CASE t # <<>>
    <2>1. /\ t[1] = h /\ node[h].it = node[t[Len(t)]].next
          /\ \A i \in 1 .. Len(t) - 1 : t[i + 1] = node[t[i]].next
      BY <1>4 DEF Placed, h, t
    <2>2. Len(t) \in 1 .. Len(t) /\ \A i \in 1 .. Len(t) - 1 : i \in 1 .. Len(t)
      BY <1>1, <1>2, <1>4, EmptySeq
    <2> QED
      BY <1>1, <1>2, <1>4, <2>1, <2>2 DEF Placed
  <1> QED
    BY <1>3, <1>4

\* A step that links nothing.
LEMMA RelinkedNone ==
    ASSUME CellAssumption,
           \A c \in Cell : \/ count'[c] = 0 /\ node'[c] = Blank
                           \/ node'[c].next = node[c].next /\ node'[c].children = node[c].children
    PROVE  Relinked(<<>>, {})
  <1>1. <<>> \in Seq(Cell) /\ Len(<<>>) = 0
    BY EmptySeq
  <1> DEFINE s == <<>>
  <1>2. s \in Seq(Cell) /\ Len(s) = 0
    BY <1>1
  <1> HIDE DEF s
  <1>3. Items(s) = {} /\ Distinct(s)
    BY <1>2 DEF Items, Distinct
  <1>4. Relinked(s, {})
    BY <1>2, <1>3 DEF Relinked
  <1> QED
    BY <1>4 DEF s

\* A release links nothing.
LEMMA RelinkedHeap ==
    ASSUME CellAssumption, Shape, NEW nodes, NEW cnt, HeapIs(nodes, cnt), count' \in [Cell -> Nat],
           \A c \in Cell : nodes[c].next = node[c].next /\ nodes[c].children = node[c].children
    PROVE  /\ Relinked(<<>>, {})
           /\ \A c \in Cell : count'[c] # 0 => node'[c] = nodes[c]
  <1>1. \A c \in Cell : node'[c] = IF count'[c] = 0 THEN Blank ELSE nodes[c]
    BY DEF HeapIs
  <1> QED
    BY <1>1, RelinkedNone

\* Such a step of the parser leaves the loops in order,
LEMMA OrderedAfter ==
    ASSUME CellAssumption, Core, Core', Ordered, NEW s, NEW F, Relinked(s, F), loops' = loops,
           \A l \in DOMAIN loops : /\ loops[l].head \notin Items(s) \cup F
                                   /\ node'[loops[l].head].it = node[loops[l].head].it
    PROVE  Ordered'
  <1>1. Acyclic'
    BY AcyclicAfter DEF Ordered
  <1>2. ASSUME NEW l \in DOMAIN loops
        PROVE  Placed(l)'
    BY <1>2, PlacedKept DEF Ordered, Core
  <1>3. ASSUME NEW l \in DOMAIN loops
        PROVE  OwnHead(l)'
    BY <1>3 DEF Ordered, OwnHead
  <1> QED
    BY <1>1, <1>2, <1>3 DEF Ordered

\* as does one that changes no node and no loop,
LEMMA OrderedSame ==
    ASSUME Ordered, UNCHANGED <<node, loops>>
    PROVE  Ordered'
  BY DEF Ordered, Acyclic, Placed, OwnHead

\* and a release.
LEMMA OrderedHeap ==
    ASSUME CellAssumption, Core, Core', Ordered, NEW nodes, NEW cnt, HeapIs(nodes, cnt), loops' = loops,
           \A c \in Cell : /\ nodes[c].next = node[c].next /\ nodes[c].children = node[c].children
                           /\ nodes[c].it = node[c].it
    PROVE  Ordered'
  <1>1. /\ Relinked(<<>>, {})
        /\ \A c \in Cell : count'[c] # 0 => node'[c] = nodes[c]
    BY RelinkedHeap DEF Core, Shape, NodesTyped
  <1>2. Items(<<>>) = {}
    BY EmptySeq DEF Items
  <1>3. ASSUME NEW l \in DOMAIN loops
        PROVE  node'[loops[l].head].it = node[loops[l].head].it
    <2>1. loops[l].head \in Cell
      BY DEF Core, Shape, LoopsTyped, LoopRecord
    <2>2. count'[loops'[l].head] # 0
      BY ReferredNext DEF AllLive
    <2> QED
      BY <1>1, <2>1, <2>2
  <1> DEFINE s == <<>>
  <1>4. Relinked(s, {}) /\ Items(s) = {}
    BY <1>1, <1>2
  <1> HIDE DEF s
  <1> QED
    BY <1>3, <1>4, OrderedAfter

\* The head of a loop is older than what the parser builds.
LEMMA HeadsOld ==
    ASSUME CellAssumption, Core, job # NULL, NEW l \in DOMAIN loops
    PROVE  /\ loops[l].head \in Live /\ loops[l].head # job.self
           /\ ~ In(job.stack, loops[l].head)
  <1> DEFINE h == loops[l].head
             k == Links(loops, DOMAIN loops, OfLoop, h)
  <1>1. Shape /\ Parsing /\ CountsExact /\ LoopsTyped
    BY DEF Core, Shape
  <1>2. h \in Live /\ h \in Cell
    BY <1>1, Referred DEF LoopsTyped, LoopRecord
  <1>3. k # 0 /\ k \in Nat
    <2>1. \E f \in OfLoop : loops[l][f] = h
      BY DEF OfLoop
    <2> QED
      BY <1>1, <2>1, LinksFinite, TwoMembers DEF LoopsTyped
  <1>4. ~ In(job.stack, h)
    <2> SUFFICES ASSUME In(job.stack, h) PROVE FALSE
      OBVIOUS
    <2>1. PICK Y : Young(Y)
      BY <1>1 DEF Parsing
    <2>2. Stacked(h) = 1 /\ Others(h) = 1
      <3>1. \A x \in Cell : Stacked(x) = Ind(In(job.stack, x))
        BY <2>1, YoungFacts
      <3>2. \A x \in Cell : In(job.stack, x) => Others(x) = 1
        BY <2>1, YoungFacts
      <3> QED
        BY <1>2, <3>1, <3>2 DEF Ind
    <2> DEFINE a == Ind(h \in lost)
               b == held[h]
               c == Among(field, h)
    <2>3. a \in Nat /\ b \in Nat /\ c \in Nat
      BY <1>1, <1>2, OthersNat
    <2>4. 1 = k + 1 + a + b + c
      BY <2>2 DEF Others
    <2> HIDE DEF a, b, c, k
    <2> QED
      BY <1>3, <2>3, <2>4
  <1>5. ASSUME h = job.self
        PROVE  FALSE
    <2>1. held[h] = 1 /\ count[h] = 1
      BY <1>1, <1>2, <1>5 DEF Parsing, CellAssumption
    <2> DEFINE a == Ind(h \in lost)
               b == Stacked(h)
               c == Among(field, h)
               p == Links(node, Cell, Pointer, h)
    <2>2. a \in Nat /\ b \in Nat /\ c \in Nat
      BY <1>1, <1>2, OthersNat
    <2>3. p \in Nat
      BY LinksFinite, TwoMembers DEF CellAssumption
    <2>4. 1 = p + (k + b + a + 1 + c)
      BY <1>1, <1>2, <2>1 DEF CountsExact, Others
    <2> HIDE DEF a, b, c, k, p
    <2> QED
      BY <1>3, <2>2, <2>3, <2>4
  <1> QED
    BY <1>2, <1>4, <1>5

\* A loop that is not the one the step is of
LEMMA OtherPlaced ==
    ASSUME CellAssumption, Core, Core', Ordered, Relinked(<<>>, {}),
           NEW m \in DOMAIN loops, m \in DOMAIN loops', loops'[m] = loops[m],
           node'[loops[m].head].it = node[loops[m].head].it
    PROVE  Placed(m)'
  <1> DEFINE s == <<>>
  <1>1. Relinked(s, {}) /\ Items(s) = {}
    BY EmptySeq DEF Items
  <1> HIDE DEF s
  <1> QED
    BY <1>1, PlacedKept DEF Core, Ordered

\* A step that links nothing makes no circle.
LEMMA NothingRelinked ==
    ASSUME CellAssumption, Acyclic, Relinked(<<>>, {})
    PROVE  Acyclic'
  <1> DEFINE s == <<>>
  <1>1. Relinked(s, {})
    OBVIOUS
  <1> HIDE DEF s
  <1> QED
    BY <1>1, AcyclicAfter

\* The end of a loop.
LEMMA EndLoopOrdered ==
    ASSUME CellAssumption, Core, Core', Ordered, NEW l \in DOMAIN loops, EndLoop(l)
    PROVE  Ordered'
  <1>1. /\ loops' = [m \in (DOMAIN loops) \ {l} |-> loops[m]]
        /\ HeapIs(node, Drop(count, <<loops[l].item, loops[l].head>>))
    BY DEF EndLoop
  <1>2. /\ Relinked(<<>>, {})
        /\ \A c \in Cell : count'[c] # 0 => node'[c] = node[c]
    BY <1>1, RelinkedHeap DEF Core, Shape, NodesTyped
  <1>3. Acyclic'
    BY <1>2, NothingRelinked DEF Ordered
  <1>4. ASSUME NEW m \in DOMAIN loops'
        PROVE  Placed(m)' /\ OwnHead(m)'
    <2>1. m \in DOMAIN loops /\ loops'[m] = loops[m] /\ \A k \in DOMAIN loops' : k \in DOMAIN loops /\ loops'[k] = loops[k]
      BY <1>1
    <2>2. loops[m].head \in Cell
      BY <2>1 DEF Core, Shape, LoopsTyped, LoopRecord
    <2>3. count'[loops'[m].head] # 0
      BY ReferredNext DEF AllLive
    <2>4. node'[loops[m].head].it = node[loops[m].head].it
      BY <1>2, <2>1, <2>2, <2>3
    <2>5. Placed(m)'
      BY <1>2, <2>1, <2>4, OtherPlaced
    <2>6. OwnHead(m)'
      BY <2>1 DEF Ordered, OwnHead
    <2> QED
      BY <2>5, <2>6
  <1> QED
    BY <1>3, <1>4 DEF Ordered

\* A loop starts at its head.
LEMMA StartLoopOrdered ==
    ASSUME CellAssumption, Core, Core', Ordered, NEW l \in Loop, NEW c \in Cell, StartLoop(l, c)
    PROVE  Ordered'
  <1>1. /\ l \notin DOMAIN loops
        /\ \A m \in DOMAIN loops : loops[m].head # c
        /\ node' = [node EXCEPT ![c].it = c]
        /\ loops' = [m \in (DOMAIN loops) \cup {l} |->
                        IF m = l THEN [head |-> c, item |-> NULL, seen |-> <<>>] ELSE loops[m]]
    BY DEF StartLoop
  <1>2. node \in [Cell -> NodeRecord]
    BY DEF Core, Shape, NodesTyped, NodeRecord
  <1>3. ASSUME NEW d \in Cell
        PROVE  /\ node'[d].next = node[d].next /\ node'[d].children = node[d].children
               /\ node'[d].it = IF d = c THEN c ELSE node[d].it
    <2>1. node'[d] = IF d = c THEN [node[d] EXCEPT !.it = c] ELSE node[d]
      BY <1>1, <1>2
    <2> QED
      BY <1>2, <2>1 DEF NodeRecord
  <1>4. Relinked(<<>>, {})
    BY <1>3, RelinkedNone
  <1>5. Acyclic'
    BY <1>4, NothingRelinked DEF Ordered
  <1>6. ASSUME NEW m \in DOMAIN loops'
        PROVE  Placed(m)'
    <2>1. CASE m = l
      <3>1. loops'[m].head = c /\ loops'[m].seen = <<>>
        BY <1>1, <2>1
      <3> QED
        BY <1>3, <3>1 DEF Placed
    <2>2. CASE m # l
      <3>1. m \in DOMAIN loops /\ loops'[m] = loops[m] /\ loops[m].head # c
        BY <1>1, <2>2
      <3>2. loops[m].head \in Cell
        BY <3>1 DEF Core, Shape, LoopsTyped, LoopRecord
      <3> QED
        BY <1>3, <1>4, <3>1, <3>2, OtherPlaced
    <2> QED
      BY <2>1, <2>2
  <1>7. ASSUME NEW m \in DOMAIN loops'
        PROVE  OwnHead(m)'
    <2> SUFFICES ASSUME NEW k \in DOMAIN loops', loops'[m].head = loops'[k].head
                 PROVE  m = k
      BY DEF OwnHead
    <2>1. \A j \in DOMAIN loops' : \/ j = l /\ loops'[j].head = c
                                   \/ j \in DOMAIN loops /\ loops'[j] = loops[j] /\ loops[j].head # c
      BY <1>1
    <2> QED
      BY <2>1 DEF Ordered, OwnHead
  <1> QED
    BY <1>5, <1>6, <1>7 DEF Ordered

\* A loop goes one node on.
LEMMA LoopNextOrdered ==
    ASSUME CellAssumption, Core, Core', Ordered, NEW l \in DOMAIN loops, LoopNext(l)
    PROVE  Ordered'
  <1> DEFINE h == loops[l].head
             out == node[h].it
             t == loops[l].seen
             nodes == [node EXCEPT ![h].it = node[out].next]
  <1>1. /\ out # NULL
        /\ loops' = [loops EXCEPT ![l].item = out, ![l].seen = Append(@, out)]
        /\ HeapIs(nodes, Drop([count EXCEPT ![out] = @ + 1], <<loops[l].item>>))
    BY DEF LoopNext
  <1>2. /\ node \in [Cell -> NodeRecord] /\ count' \in [Cell -> Nat]
        /\ h \in Cell /\ t \in Seq(Cell) /\ Len(t) \in Nat /\ loops[l] \in LoopRecord
    BY LenProperties DEF Core, Shape, NodesTyped, NodeRecord, LoopsTyped, LoopRecord
  <1>3. out \in Cell
    BY <1>1, <1>2 DEF NodeRecord, Maybe
  <1> HIDE DEF h, out, t
  <1>4. ASSUME NEW c \in Cell
        PROVE  /\ nodes[c].next = node[c].next /\ nodes[c].children = node[c].children
               /\ nodes[c].it = IF c = h THEN node[out].next ELSE node[c].it
    <2>1. nodes[c] = IF c = h THEN [node[c] EXCEPT !.it = node[out].next] ELSE node[c]
      BY <1>2
    <2> HIDE DEF nodes
    <2> QED
      BY <1>2, <2>1 DEF NodeRecord
  <1> HIDE DEF nodes
  <1>5. Relinked(<<>>, {}) /\ \A c \in Cell : count'[c] # 0 => node'[c] = nodes[c]
    BY <1>1, <1>2, <1>4, RelinkedHeap DEF Core
  <1>6. Acyclic'
    BY <1>5, NothingRelinked DEF Ordered
  <1>7. /\ DOMAIN loops' = DOMAIN loops /\ loops'[l].head = h /\ loops'[l].item = out
        /\ loops'[l].seen = Append(t, out)
        /\ \A m \in DOMAIN loops : m # l => loops'[m] = loops[m]
    BY <1>1, <1>2 DEF h, t, LoopRecord
  <1>8. ASSUME NEW m \in DOMAIN loops, m # l
        PROVE  Placed(m)'
    <2>1. loops'[m] = loops[m] /\ m \in DOMAIN loops' /\ loops[m].head # h
      BY <1>7, <1>8 DEF Ordered, OwnHead, h
    <2>2. loops[m].head \in Cell /\ count'[loops'[m].head] # 0
      BY <1>7, ReferredNext DEF AllLive, Core, Shape, LoopsTyped, LoopRecord
    <2>3. node'[loops[m].head].it = node[loops[m].head].it
      BY <1>4, <1>5, <2>1, <2>2
    <2> QED
      BY <1>5, <2>1, <2>3, OtherPlaced
  <1>9. Placed(l)'
    <2>1. count'[h] # 0
      BY <1>7, ReferredNext DEF AllLive
    <2>2. node'[h].it = node[out].next
      BY <1>2, <1>4, <1>5, <2>1
    <2>3. node'[out].next = node[out].next
      <3>1. count'[out] # 0
        BY <1>3, <1>7, ReferredNext DEF AllLive
      <3> QED
        BY <1>3, <1>4, <1>5, <3>1
    <2>4. \A i \in 1 .. Len(t) : node'[t[i]].next = node[t[i]].next
      <3> DEFINE s == <<>>
      <3>1. Relinked(s, {}) /\ Items(s) = {}
        BY <1>5, EmptySeq DEF Items
      <3> HIDE DEF s
      <3>2. Shape /\ Placed(l) /\ loops'[l].head = loops[l].head /\ l \in DOMAIN loops'
        BY <1>7 DEF Core, Ordered, h
      <3> QED
        BY <3>1, <3>2, SeenKept DEF t
    <2> DEFINE u == Append(t, out)
    <2>5. /\ Len(u) = Len(t) + 1 /\ u[Len(u)] = out /\ \A i \in 1 .. Len(t) : u[i] = t[i]
      BY <1>2, <1>3, AppendProperties
    <2>6. u # <<>>
      BY <1>2, <2>5, EmptySeq
    <2> HIDE DEF u
    <2>7. CASE t = <<>>
      <3>1. out = h /\ Len(t) = 0
        BY <1>2, <2>7, EmptySeq DEF Ordered, Placed, h, t, out
      <3>2. u[1] = h /\ Len(u) = 1 /\ node'[h].it = node'[u[Len(u)]].next
        BY <2>2, <2>3, <2>5, <3>1
      <3> QED
        BY <1>7, <2>6, <3>2 DEF Placed, u
    <2>8. CASE t # <<>>
      <3>1. /\ t[1] = h /\ out = node[t[Len(t)]].next
            /\ \A i \in 1 .. Len(t) - 1 : t[i + 1] = node[t[i]].next
        BY <2>8 DEF Ordered, Placed, h, t, out
      <3>2. Len(t) \in 1 .. Len(t) /\ 1 \in 1 .. Len(t)
        BY <1>2, <2>8, EmptySeq
      <3>3. ASSUME NEW i \in 1 .. Len(u) - 1
            PROVE  u[i + 1] = node'[u[i]].next
        <4>1. i \in 1 .. Len(t)
          BY <1>2, <2>5
        <4>2. CASE i = Len(t)
          BY <2>4, <2>5, <3>1, <4>1, <4>2
        <4>3. CASE i # Len(t)
          <5>1. i \in 1 .. Len(t) - 1 /\ i + 1 \in 1 .. Len(t)
            BY <1>2, <4>1, <4>3
          <5> QED
            BY <2>4, <2>5, <3>1, <4>1, <5>1
        <4> QED
          BY <4>2, <4>3
      <3>4. u[1] = h /\ node'[h].it = node'[u[Len(u)]].next
        BY <2>2, <2>3, <2>5, <3>1, <3>2
      <3> QED
        BY <1>7, <2>6, <3>3, <3>4 DEF Placed, u
    <2> QED
      BY <2>7, <2>8
  <1>10. \A m \in DOMAIN loops' : OwnHead(m)'
    <2>1. \A m \in DOMAIN loops : loops'[m].head = loops[m].head
      BY <1>7 DEF h
    <2> QED
      BY <1>7, <2>1 DEF Ordered, OwnHead
  <1> QED
    BY <1>6, <1>7, <1>8, <1>9, <1>10 DEF Ordered

\* A step that links the items s of the parser's stack and makes the nodes in F, which
\* nothing leads to, and frees some others.
LinkStep(s, F) ==
    /\ s \in Seq(Cell) /\ Distinct(s) /\ \A x \in Cell : In(s, x) => In(job.stack, x)
    /\ F \subseteq Cell /\ \A x \in F : ~ In(s, x)
    /\ \A c \in Cell : node[c].next \notin F /\ node[c].children \notin F
    /\ \A c \in Cell \ F : (count'[c] = 0 /\ node'[c] = Blank) \/ node'[c] = Linked(s)[c]
    /\ \A c \in F : node'[c].next \notin F /\ node'[c].children \notin F
    /\ \A l \in DOMAIN loops : loops[l].head \notin F
    /\ \A name \in TextName : field[name] \notin F

\* Nothing leads to the items, and the nodes other than those stay what they were.
LEMMA LinkOutside ==
    ASSUME CellAssumption, Core, job # NULL, NEW s, NEW F, LinkStep(s, F)
    PROVE  /\ \A c \in Cell : node[c].next \notin Items(s) /\ node[c].children \notin Items(s)
           /\ \A c \in Cell \ (Items(s) \cup F) : (count'[c] = 0 /\ node'[c] = Blank) \/ node'[c] = node[c]
  <1> USE DEF LinkStep
  <1>1. PICK Y : Young(Y)
    BY DEF Core, Parsing
  <1>2. node \in [Cell -> NodeRecord] /\ Len(s) \in Nat /\ \A i \in 1 .. Len(s) : s[i] \in Cell
    BY LenProperties, ElementOfSeq DEF Core, Shape, NodesTyped, NodeRecord
  <1>3. ASSUME NEW c \in Cell
        PROVE  node[c].next \notin Items(s) /\ node[c].children \notin Items(s)
    <2> SUFFICES ASSUME NEW m \in Pointer, node[c][m] \in Items(s)
                 PROVE  FALSE
      BY DEF Pointer
    <2>1. PICK i \in 1 .. Len(s) : node[c][m] = s[i]
      BY DEF Items
    <2>2. PICK x \in Cell : x = s[i]
      BY <1>2
    <2>3. In(job.stack, x)
      BY <2>2 DEF In
    <2>4. Links(node, Cell, Pointer, x) = 0
      <3>1. \A y \in Cell : In(job.stack, y) => Links(node, Cell, Pointer, y) = 0
        BY <1>1, YoungFacts
      <3> QED
        BY <2>3, <3>1
    <2>5. node[c][m] # x
      BY <2>4, LinksFinite, TwoMembers DEF CellAssumption
    <2> QED
      BY <2>1, <2>2, <2>5
  <1> DEFINE L == Linked(s)
  <1>4. /\ \A i \in 1 .. Len(s) - 1 : L[s[i]].next = s[i + 1]
        /\ \A c \in Cell : (\A i \in 1 .. Len(s) - 1 : s[i] # c) => L[c] = node[c]
        /\ \A c \in Cell : L[c].children = node[c].children /\ L[c].it = node[c].it
    BY <1>2, LinkedNodes
  <1>5. \A c \in Cell \ F : (count'[c] = 0 /\ node'[c] = Blank) \/ node'[c] = L[c]
    OBVIOUS
  <1> HIDE DEF L
  <1>6. Items(s) \cap F = {}
    BY DEF Items, In
  <1>7. ASSUME NEW c \in Cell \ (Items(s) \cup F)
        PROVE  (count'[c] = 0 /\ node'[c] = Blank) \/ node'[c] = node[c]
    <2>1. \A i \in 1 .. Len(s) - 1 : s[i] # c
      <3>1. \A i \in 1 .. Len(s) - 1 : i \in 1 .. Len(s)
        BY <1>2
      <3> QED
        BY <1>7, <3>1 DEF Items
    <2> QED
      BY <1>4, <1>5, <2>1
  <1> QED
    BY <1>3, <1>7

\* The parser links some of its items and makes other nodes.
LEMMA LinkedOrdered ==
    ASSUME CellAssumption, Core, Core', Ordered, job # NULL, loops' = loops,
           NEW s, NEW F, LinkStep(s, F)
    PROVE  Ordered'
  <1> USE DEF LinkStep
  <1>2. node \in [Cell -> NodeRecord] /\ Len(s) \in Nat /\ \A i \in 1 .. Len(s) : s[i] \in Cell
    BY LenProperties, ElementOfSeq DEF Core, Shape, NodesTyped, NodeRecord
  <1>3. /\ \A c \in Cell : node[c].next \notin Items(s) /\ node[c].children \notin Items(s)
        /\ \A c \in Cell \ (Items(s) \cup F) : (count'[c] = 0 /\ node'[c] = Blank) \/ node'[c] = node[c]
    BY LinkOutside
  <1> DEFINE L == Linked(s)
  <1>4. /\ \A i \in 1 .. Len(s) - 1 : L[s[i]].next = s[i + 1]
        /\ \A c \in Cell : (\A i \in 1 .. Len(s) - 1 : s[i] # c) => L[c] = node[c]
        /\ \A c \in Cell : L[c].children = node[c].children /\ L[c].it = node[c].it
    BY <1>2, LinkedNodes
  <1>5. \A c \in Cell \ F : (count'[c] = 0 /\ node'[c] = Blank) \/ node'[c] = L[c]
    OBVIOUS
  <1> HIDE DEF L
  <1>6. Items(s) \cap F = {}
    BY DEF Items, In
  <1>8. ASSUME NEW i \in 1 .. Len(s)
        PROVE  /\ node'[s[i]].next \in {NULL, node[s[i]].next} \cup {s[j] : j \in {i + 1} \cap 1 .. Len(s)}
               /\ node'[s[i]].children \in {NULL, node[s[i]].children}
    <2>1. s[i] \in Cell /\ s[i] \notin F
      BY <1>2, <1>6 DEF Items
    <2>2. CASE count'[s[i]] = 0 /\ node'[s[i]] = Blank
      BY <2>2 DEF Blank
    <2>3. CASE node'[s[i]] = L[s[i]]
      <3>1. CASE i \in 1 .. Len(s) - 1
        <4>1. i + 1 \in {i + 1} \cap 1 .. Len(s)
          BY <1>2, <3>1
        <4>2. node'[s[i]].next = s[i + 1]
          BY <1>4, <2>3, <3>1
        <4>3. node'[s[i]].children = node[s[i]].children
          BY <1>4, <2>1, <2>3
        <4> QED
          BY <4>1, <4>2, <4>3
      <3>2. CASE i \notin 1 .. Len(s) - 1
        <4>1. i = Len(s)
          BY <1>2, <3>2
        <4>2. \A j \in 1 .. Len(s) - 1 : j \in 1 .. Len(s) /\ j # i
          BY <1>2, <4>1
        <4>3. \A j \in 1 .. Len(s) - 1 : s[j] # s[i]
          BY <4>2 DEF Distinct
        <4> QED
          BY <1>4, <2>1, <2>3, <4>3
      <3> QED
        BY <3>1, <3>2
    <2> QED
      BY <1>5, <2>1, <2>2, <2>3
  <1>9. Relinked(s, F)
    BY <1>3, <1>6, <1>8 DEF Relinked
  <1>10. ASSUME NEW l \in DOMAIN loops
         PROVE  /\ loops[l].head \notin Items(s) \cup F
                /\ node'[loops[l].head].it = node[loops[l].head].it
    <2> DEFINE h == loops[l].head
    <2>1. h \in Cell /\ h \notin F /\ ~ In(job.stack, h)
      BY HeadsOld DEF Live
    <2>2. h \notin Items(s)
      BY <2>1 DEF Items, In
    <2>3. count'[loops'[l].head] # 0
      BY ReferredNext DEF AllLive
    <2>4. node'[h] = node[h]
      BY <1>3, <2>1, <2>2, <2>3
    <2> QED
      BY <2>1, <2>2, <2>4
  <1> QED
    BY <1>9, <1>10, OrderedAfter

\* Nothing leads to a free cell.
LEMMA FreshAlone ==
    ASSUME CellAssumption, Core, NEW t \in Cell, count[t] = 0
    PROVE  /\ \A c \in Cell : node[c].next # t /\ node[c].children # t
           /\ \A l \in DOMAIN loops : loops[l].head # t
           /\ \A name \in TextName : field[name] # t
           /\ job # NULL => ~ In(job.stack, t)
  <1>1. t \notin Live /\ t # NULL
    BY CellAssumption DEF Live, CellAssumption
  <1>2. Shape /\ Parsing /\ CountsExact
    BY DEF Core
  <1>3. /\ \A c, d \in Cell : node[c].next = d \/ node[c].children = d => d \in Live
        /\ \A l \in DOMAIN loops : loops[l].head \in Live
        /\ \A name \in TextName : field[name] \in Maybe(Live)
    BY <1>2, Referred
  <1>4. job # NULL => ~ In(job.stack, t)
    <2> SUFFICES ASSUME job # NULL PROVE ~ In(job.stack, t)
      OBVIOUS
    <2>1. PICK Y : Young(Y)
      BY <1>2 DEF Parsing
    <2>2. In(job.stack, t) => t \in Y
      BY <2>1, YoungFacts
    <2>3. t \in Y => count[t] = 1
      BY <2>1 DEF Young
    <2>4. t \notin Y
      BY <2>3
    <2> QED
      BY <2>2, <2>4
  <1> QED
    BY <1>1, <1>3, <1>4 DEF Maybe

\* A reduction links items that nothing older leads to.
LEMMA ReduceLinks ==
    ASSUME CellAssumption, Core, Reduce, NEW t, t = Fresh,
           NEW op, op = job.text.ops[job.at], NEW n, n = Len(job.stack) - op.take,
           NEW group, group = SubSeq(job.stack, n + 1, Len(job.stack))
    PROVE  job # NULL /\ loops' = loops /\ LinkStep(group, IF op.do = "node" THEN {t} ELSE {})
  <1> DEFINE rest == SubSeq(job.stack, 1, n)
  <1>1. job # NULL /\ job.at <= Len(job.text.ops) /\ loops' = loops
    BY DEF Reduce
  <1>2. PICK Y : Young(Y)
    BY <1>1 DEF Core, Parsing
  <1>3. /\ n \in 0 .. Len(job.stack) /\ job.stack \in Seq(Cell) /\ Distinct(job.stack)
    BY <1>1, <1>2, ReduceParser, YoungFacts
  <1>4. /\ group \in Seq(Cell) /\ Distinct(group)
        /\ \A x \in Cell : In(group, x) => In(job.stack, x)
    BY <1>3, SplitItems
  <1>5. ReduceNode(op, rest, group) \/ ReduceParen(op, rest, group)
    BY DEF Reduce
  <1> HIDE DEF rest
  <1>6. CASE ReduceParen(op, rest, group)
    <2>1. node' = Linked(group) /\ op.do # "node"
      BY <1>6 DEF ReduceParen
    <2> QED
      BY <1>1, <1>4, <2>1 DEF LinkStep
  <1>7. CASE ReduceNode(op, rest, group)
    <2>2. /\ Unused # {} /\ op.do = "node"
          /\ node' = [Linked(group) EXCEPT ![t] =
                         [Blank EXCEPT !.children = FirstOf(group),
                              !.use = IF op.flag = NULL THEN NULL ELSE GetId(global_flags, op.flag).id]]
      BY <1>7 DEF ReduceNode
    <2>3. t \in Cell /\ count[t] = 0 /\ NULL \notin Cell
      BY <2>2, FreshIn, CellAssumption DEF Core, CellAssumption
    <2>4. /\ \A c \in Cell : node[c].next # t /\ node[c].children # t
          /\ \A l \in DOMAIN loops : loops[l].head # t
          /\ \A name \in TextName : field[name] # t
          /\ ~ In(job.stack, t)
      BY <1>1, <2>3, FreshAlone
    <2>5. ~ In(group, t)
      BY <1>4, <2>3, <2>4
    <2>7. \A c \in Cell \ {t} : node'[c] = Linked(group)[c]
      BY <2>2 DEF Linked
    <2>8. node'[t].next = NULL /\ node'[t].children = FirstOf(group)
      BY <2>2, <2>3 DEF Linked, Blank
    <2>9. FirstOf(group) # t
      <3>1. CASE group = <<>>
        BY <2>3, <3>1 DEF FirstOf
      <3>2. CASE group # <<>>
        <4>1. FirstOf(group) \in Cell /\ In(group, FirstOf(group))
          BY <1>4, <3>2, FirstOfItems
        <4> QED
          BY <2>5, <4>1
      <3> QED
        BY <3>1, <3>2
    <2> DEFINE F == {t}
    <2>10. /\ F \subseteq Cell /\ \A x \in F : ~ In(group, x)
           /\ \A c \in Cell : node[c].next \notin F /\ node[c].children \notin F
           /\ \A c \in Cell \ F : node'[c] = Linked(group)[c]
           /\ \A c \in F : node'[c].next \notin F /\ node'[c].children \notin F
           /\ \A l \in DOMAIN loops : loops[l].head \notin F
      BY <2>3, <2>4, <2>5, <2>7, <2>8, <2>9
    <2>11. \A name \in TextName : field[name] \notin F
      BY <2>4
    <2> HIDE DEF F
    <2>12. LinkStep(group, F)
      BY <1>4, <2>10, <2>11 DEF LinkStep
    <2> QED
      BY <1>1, <2>2, <2>12 DEF F
  <1> QED
    BY <1>5, <1>6, <1>7

\* A reduction keeps the order.
LEMMA ReduceOrdered ==
    ASSUME CellAssumption, Core, Core', Ordered, Reduce
    PROVE  Ordered'
  <1>1. PICK t, op : t = Fresh /\ op = job.text.ops[job.at]
    OBVIOUS
  <1>2. PICK n : n = Len(job.stack) - op.take
    OBVIOUS
  <1>3. PICK group : group = SubSeq(job.stack, n + 1, Len(job.stack))
    OBVIOUS
  <1>4. job # NULL /\ loops' = loops /\ LinkStep(group, IF op.do = "node" THEN {t} ELSE {})
    BY <1>1, <1>2, <1>3, ReduceLinks
  <1> QED
    BY <1>4, LinkedOrdered

\* The text of a line is stored: nothing is released.
LEMMA StoreLinks ==
    ASSUME CellAssumption, Core, StoreText, Root # NULL, NEW s, s = job.stack
    PROVE  /\ job # NULL /\ loops' = loops /\ s \in Seq(Cell) /\ s # <<>> /\ Root = FirstOf(s)
           /\ LinkStep(s, {}) /\ HeapIs(Linked(s), Drop(count, <<>>))
  <1>1. AtEnd /\ HeapIs(NodesLeft, Drop(count, Discarded)) /\ loops' = loops
    BY DEF StoreText
  <1>2. /\ job # NULL /\ s \in Seq(Cell) /\ s # <<>> /\ Root = FirstOf(s)
        /\ NodesLeft = Linked(s) /\ Discarded = <<>>
    BY <1>1, BuiltFacts
  <1>3. PICK Y : Young(Y)
    BY <1>2 DEF Core, Parsing
  <1>4. Distinct(s)
    BY <1>2, <1>3, YoungFacts
  <1>5. \A c \in Cell : (count'[c] = 0 /\ node'[c] = Blank) \/ node'[c] = Linked(s)[c]
    BY <1>1, <1>2 DEF HeapIs
  <1>6. LinkStep(s, {})
    BY <1>2, <1>4, <1>5 DEF LinkStep
  <1> QED
    BY <1>1, <1>2, <1>6

\* Storing keeps the order.
LEMMA StoreOrdered ==
    ASSUME CellAssumption, Core, Core', Ordered, StoreText
    PROVE  Ordered'
  <1>1. CASE Root # NULL
    <2>1. PICK s : s = job.stack
      OBVIOUS
    <2> QED
      BY <1>1, <2>1, StoreLinks, LinkedOrdered
  <1>2. CASE Root = NULL
    <2>1. AtEnd /\ HeapIs(NodesLeft, Drop(count, Discarded)) /\ loops' = loops
      BY DEF StoreText
    <2>2. \A c \in Cell : NodesLeft[c] = node[c]
      BY <1>2, <2>1, DiscardFacts
    <2> QED
      BY <2>1, <2>2, OrderedHeap
  <1> QED
    BY <1>1, <1>2

\* The object takes over the parser's node.
LEMMA ConstructedLinks ==
    ASSUME CellAssumption, Core, Constructed, Root # NULL
    PROVE  /\ job # NULL /\ loops' = loops
           /\ \E s, F : LinkStep(s, F)
  <1>1. AtEnd /\ job # NULL /\ job.self # NULL /\ loops' = loops
    BY DEF Constructed, AtEnd
  <1>3. Root # NULL
    OBVIOUS
  <1>4. \E s, F : LinkStep(s, F)
    <2>1. /\ job.stack \in Seq(Cell) /\ NodesLeft = Linked(job.stack)
          /\ Root \in Cell /\ In(job.stack, Root)
      BY <1>1, <1>3, BuiltFacts
    <2>2. PICK Y : Young(Y)
      BY <1>1 DEF Core, Parsing
    <2>3. Distinct(job.stack)
      BY <1>1, <2>2, YoungFacts
    <2>4. HeapIs([NodesLeft EXCEPT ![job.self] = NodesLeft[Root]], [count EXCEPT ![Root] = 0])
      BY <1>3 DEF Constructed
    <2>5. PICK root \in Cell : root = Root
      BY <2>1
    <2>6. PICK self \in Cell : self = job.self
      BY <1>1 DEF Core, Parsing, ParserState, Maybe
    <2> DEFINE s == job.stack
               L == Linked(s)
    <2>7. held[self] = 1 /\ count[self] = 1
      BY <1>1, <2>6 DEF Core, Parsing
    <2>8. self \notin Y /\ root \in Y /\ ~ In(s, self)
      <3>1. self \notin Y
        BY <2>2, <2>6 DEF Young
      <3>2. \A x \in Cell : In(s, x) => x \in Y
        BY <1>1, <2>2, YoungFacts
      <3> QED
        BY <2>1, <2>5, <3>1, <3>2
    <2>9. \A c \in Cell : node[c].next # self /\ node[c].children # self
      <3> DEFINE p == Links(node, Cell, Pointer, self)
                 k == Links(loops, DOMAIN loops, OfLoop, self)
                 a == Ind(self \in lost)
                 b == Stacked(self)
                 d == Among(field, self)
      <3>1. p \in Nat /\ k \in Nat /\ a \in Nat /\ b \in Nat /\ d \in Nat
        BY OthersNat, LinksFinite, TwoMembers DEF Core, CellAssumption
      <3>2. 1 = p + (k + b + a + 1 + d)
        BY <2>7 DEF Core, CountsExact, Others
      <3>3. p = 0
        <4> HIDE DEF p, k, a, b, d
        <4> QED
          BY <3>1, <3>2
      <3>4. \A c \in Cell, m \in Pointer : node[c][m] # self
        BY <3>3, LinksFinite, TwoMembers DEF CellAssumption
      <3> QED
        BY <3>4 DEF Pointer
    <2>18. \A name \in TextName : field[name] # self
      <3> DEFINE p == Links(node, Cell, Pointer, self)
                 k == Links(loops, DOMAIN loops, OfLoop, self)
                 a == Ind(self \in lost)
                 b == Stacked(self)
                 d == Among(field, self)
      <3>1. p \in Nat /\ k \in Nat /\ a \in Nat /\ b \in Nat /\ d \in Nat
        BY OthersNat, LinksFinite, TwoMembers DEF Core, CellAssumption
      <3>2. 1 = p + (k + b + a + 1 + d)
        BY <2>7 DEF Core, CountsExact, Others
      <3>3. d = 0
        <4> HIDE DEF p, k, a, b, d
        <4> QED
          BY <3>1, <3>2
      <3>4. \A name \in TextName : field[name] # NULL => Among(field, field[name]) # 0
        BY FieldReferred
      <3> QED
        BY <2>6, <3>3, <3>4 DEF CellAssumption
    <2>10. \A l \in DOMAIN loops : loops[l].head # self
      BY <1>1, <2>6, HeadsOld
    <2>11. L \in [Cell -> NodeRecord] /\ L[root].next # self /\ L[root].children # self
      <3>1. /\ L \in [Cell -> NodeRecord]
            /\ \A c \in Y : L[c].next \in Maybe(Y) /\ L[c].children \in Maybe(Y)
        BY <1>1, <2>1, <2>2, <2>3, GroupLinked
      <3> QED
        BY <2>8, <3>1 DEF Maybe, CellAssumption
    <2>12. count \in [Cell -> Nat] /\ root # self
      BY <2>8 DEF Core, Shape, NodesTyped
    <2> HIDE DEF L
    <2>13. /\ count' = [count EXCEPT ![root] = 0]
           /\ node' = [c \in Cell |-> IF [count EXCEPT ![root] = 0][c] = 0 THEN Blank
                                      ELSE [L EXCEPT ![self] = L[root]][c]]
      BY <2>1, <2>4, <2>5, <2>6 DEF HeapIs, L
    <2>14. \A c \in Cell : c # self => (count'[c] = 0 /\ node'[c] = Blank) \/ node'[c] = L[c]
      BY <2>11, <2>12, <2>13
    <2>15. node'[self].next # self /\ node'[self].children # self
      BY <2>7, <2>11, <2>12, <2>13
    <2> DEFINE F == {self}
    <2>16. /\ F \subseteq Cell /\ \A x \in F : ~ In(s, x)
           /\ \A c \in Cell : node[c].next \notin F /\ node[c].children \notin F
           /\ \A c \in Cell \ F : (count'[c] = 0 /\ node'[c] = Blank) \/ node'[c] = Linked(s)[c]
           /\ \A c \in F : node'[c].next \notin F /\ node'[c].children \notin F
           /\ \A l \in DOMAIN loops : loops[l].head \notin F
      BY <2>8, <2>9, <2>10, <2>14, <2>15 DEF L
    <2>17. s \in Seq(Cell) /\ Distinct(s) /\ \A x \in Cell : In(s, x) => In(job.stack, x)
      BY <2>1, <2>3
    <2>19. \A name \in TextName : field[name] \notin F
      BY <2>18
    <2> HIDE DEF F, s
    <2>20. LinkStep(s, F)
      BY <2>16, <2>17, <2>19 DEF LinkStep
    <2> QED
      BY <2>20
  <1> QED
    BY <1>1, <1>4

\* Taking over keeps the order.
LEMMA ConstructedOrdered ==
    ASSUME CellAssumption, Core, Core', Ordered, Constructed
    PROVE  Ordered'
  <1>1. CASE Root = NULL
    <2>1. AtEnd /\ loops' = loops /\ HeapIs(NodesLeft, Drop(count, Append(Discarded, job.self)))
      BY <1>1 DEF Constructed
    <2>2. \A c \in Cell : NodesLeft[c] = node[c]
      BY <1>1, <2>1, DiscardFacts
    <2> QED
      BY <2>1, <2>2, OrderedHeap
  <1>2. CASE Root # NULL
    <2>1. PICK s, F : LinkStep(s, F)
      BY <1>2, ConstructedLinks
    <2> QED
      BY <1>2, <2>1, ConstructedLinks, LinkedOrdered
  <1> QED
    BY <1>1, <1>2

\* Every step keeps the order.
LEMMA NextOrdered ==
    Core /\ Core' /\ Ordered /\ [MetadataNext]_all => Ordered'
  <1> SUFFICES ASSUME Core, Core', Ordered, [MetadataNext]_all
               PROVE  Ordered'
    OBVIOUS
  <1> USE CellAssumption
  <1>1. ASSUME NEW c \in Cell, Forget(c)
        PROVE  Ordered'
    <2>1. HeapIs(node, Drop(count, <<c>>)) /\ loops' = loops
      BY <1>1 DEF Forget
    <2> QED
      BY <2>1, OrderedHeap
  <1>2. CASE Dealloc
    <2>1. HeapIs(node, Drop(count, field)) /\ loops' = loops
      BY <1>2 DEF Dealloc
    <2> QED
      BY <2>1, OrderedHeap
  <1>3. ASSUME NEW text \in Texts, Construct(text)
        PROVE  Ordered'
    BY <1>3, OrderedSame DEF Construct
  <1>4. ASSUME NEW c \in Cell, TakeMember(c, "next") \/ TakeMember(c, "children")
        PROVE  Ordered'
    BY <1>4, OrderedSame DEF TakeMember
  <1>5. ASSUME NEW c \in Cell, NEW l \in Loop, StartLoop(l, c)
        PROVE  Ordered'
    BY <1>5, StartLoopOrdered
  <1>6. ASSUME NEW l \in DOMAIN loops, LoopNext(l) \/ EndLoop(l) \/ ReadCondition(l)
        PROVE  Ordered'
    BY <1>6, LoopNextOrdered, EndLoopOrdered, OrderedSame DEF ReadCondition, exprs
  <1>7. CASE Python
    BY <1>1, <1>3, <1>4, <1>5, <1>6, <1>7 DEF Python
  <1>8. CASE Reduce
    BY <1>8, ReduceOrdered
  <1>9. CASE Constructed
    BY <1>9, ConstructedOrdered
  <1>10. CASE StoreText
    BY <1>10, StoreOrdered
  <1>11. ASSUME NEW name \in TextName, TakeField(name)
         PROVE  Ordered'
    BY <1>11, OrderedSame DEF TakeField
  <1>12. CASE StartReading \/ ReadText \/ ReadOther \/ EndReading \/ UNCHANGED all
    BY <1>12, OrderedSame DEF StartReading, ReadText, ReadOther, EndReading, all, exprs, heap
  <1> QED
    BY <1>2, <1>7, <1>8, <1>9, <1>10, <1>11, <1>12 DEF MetadataNext

\* The pointers of nodes never go round and loops stay in order.
THEOREM OrderInvariance == MetadataSpec => []Ordered
  <1>1. MetadataInit => Ordered
    <2> SUFFICES ASSUME MetadataInit PROVE Ordered
      OBVIOUS
    <2>1. node = [c \in Cell |-> Blank] /\ DOMAIN loops = {}
      BY DEF MetadataInit, NoNodes
    <2>2. Acyclic
      BY <2>1, CellAssumption DEF Acyclic, Blank, CellAssumption
    <2> QED
      BY <2>1, <2>2 DEF Ordered
  <1> QED
    BY <1>1, NextOrdered, CoreInvariance, PTL DEF MetadataSpec

-----------------------------------------------------------------------------
(* Expressions as sequences of nodes.                                      *)

\* The nodes from c on
Listed(c, t) ==
    /\ t \in Seq(Cell)
    /\ c = (IF t = <<>> THEN NULL ELSE t[1])
    /\ \A i \in 1 .. Len(t) : node[t[i]].next = IF i = Len(t) THEN NULL ELSE t[i + 1]

\* Following n pointers at most.
LEMMA Rounds ==
    ASSUME CellAssumption, node \in [Cell -> NodeRecord], NEW c \in Maybe(Cell)
    PROVE  \E from \in [Nat -> [Maybe(Cell) -> Seq(Cell)]] :
              /\ from[0] = [d \in Maybe(Cell) |-> <<>>]
              /\ \A n \in Nat : from[n + 1] =
                    [d \in Maybe(Cell) |-> IF d = NULL THEN <<>> ELSE <<d>> \o from[n][node[d].next]]
              /\ Followers(c) = from[Cardinality(Live)][c]
  <1> DEFINE X == [Maybe(Cell) -> Seq(Cell)]
             none == [d \in Maybe(Cell) |-> <<>>]
             More(f) == [d \in Maybe(Cell) |-> IF d = NULL THEN <<>> ELSE <<d>> \o f[node[d].next]]
             G == [f \in X |-> More(f)]
             from[n \in Nat] ==
                IF n = 0 THEN [d \in Maybe(Cell) |-> <<>>]
                ELSE LET shorter == from[n - 1]
                     IN  [d \in Maybe(Cell) |->
                             IF d = NULL THEN <<>> ELSE <<d>> \o shorter[node[d].next]]
  <1>1. Followers(c) = from[Cardinality(Live)][c]
    BY DEF Followers
  <1>2. none \in X
    BY EmptySeq
  <1>3. ASSUME NEW f \in X
        PROVE  More(f) \in X
    <2>1. ASSUME NEW d \in Maybe(Cell), d # NULL
          PROVE  <<d>> \o f[node[d].next] \in Seq(Cell)
      <3>1. d \in Cell /\ node[d].next \in Maybe(Cell)
        BY <2>1 DEF Maybe, NodeRecord
      <3>2. <<d>> \in Seq(Cell) /\ f[node[d].next] \in Seq(Cell)
        BY <3>1
      <3> QED
        BY <3>2, ConcatProperties
    <2> QED
      BY <2>1, EmptySeq
  <1>4. PICK h \in [Nat -> X] : h[0] = none /\ \A n \in Nat : h[n + 1] = G[h[n]]
    <2>1. G \in [X -> X]
      BY <1>3
    <2> HIDE DEF G, X, none, from, More
    <2>2. \E h : Orbit(h, X, G, none)
      BY <1>2, <2>1, Iterated
    <2> QED
      BY <2>2 DEF Orbit
  <1> HIDE DEF X
  <1>5. \A n \in Nat : h[n] \in X /\ h[n + 1] = More(h[n])
    BY <1>4
  <1>6. h = [n \in Nat |-> IF n = 0 THEN none ELSE More(h[n - 1])]
    <2> SUFFICES ASSUME NEW n \in Nat, n # 0
                 PROVE  h[n] = More(h[n - 1])
      <3> HIDE DEF none, More
      <3> QED
        BY <1>4
    <2>1. n - 1 \in Nat /\ (n - 1) + 1 = n
      OBVIOUS
    <2> HIDE DEF More
    <2> QED
      BY <1>5, <2>1
  <1>7. from = [n \in Nat |-> IF n = 0 THEN none ELSE More(from[n - 1])]
    <2>1. from = CHOOSE g : g = [n \in Nat |-> IF n = 0 THEN none ELSE More(g[n - 1])]
      BY DEF from
    <2>2. \E g : g = [n \in Nat |-> IF n = 0 THEN none ELSE More(g[n - 1])]
      <3> HIDE DEF none, More
      <3> QED
        BY <1>6
    <2> HIDE DEF none, More, from
    <2> QED
      BY <2>1, <2>2
  <1>8. from[0] = none /\ \A n \in Nat : from[n + 1] = More(from[n])
    <2>1. from[0] = none
      <3> HIDE DEF none, More, from
      <3> QED
        BY <1>7
    <2>2. ASSUME NEW n \in Nat
          PROVE  from[n + 1] = More(from[n])
      <3>1. n + 1 \in Nat /\ n + 1 # 0 /\ (n + 1) - 1 = n
        OBVIOUS
      <3> HIDE DEF none, More, from
      <3> QED
        BY <1>7, <3>1
    <2> QED
      BY <2>1, <2>2
  <1>9. \A n \in Nat : from[n] = h[n]
    <2> DEFINE S == {n \in Nat : from[n] = h[n]}
    <2> HIDE DEF none, More, from
    <2>1. 0 \in S
      BY <1>4, <1>8
    <2>2. \A n \in Nat : n \in S => n + 1 \in S
      BY <1>5, <1>8
    <2>3. Nat \subseteq S
      <3> HIDE DEF S
      <3> QED
        BY <2>1, <2>2, SetInduction
    <2> QED
      BY <2>3
  <1>10. Cardinality(Live) \in Nat
    BY FS_Subset, FS_CardinalityType DEF Live, CellAssumption
  <1>11. Followers(c) = h[Cardinality(Live)][c]
    <2> HIDE DEF from
    <2> QED
      BY <1>1, <1>9, <1>10
  <1> HIDE DEF from
  <1> QED
    BY <1>4, <1>5, <1>11 DEF X

\* A chain without its first nodes
LEMMA ChainRest ==
    ASSUME NEW c, NEW t, Listed(c, t), t # <<>>
    PROVE  /\ Len(t) \in Nat \ {0} /\ c = t[1] /\ c \in Cell
           /\ Listed(node[c].next, Tail(t)) /\ Len(Tail(t)) = Len(t) - 1 /\ t = <<c>> \o Tail(t)
  <1>1. t \in Seq(Cell) /\ c = t[1] /\ Len(t) \in Nat \ {0} /\ c \in Cell
    BY EmptySeq, LenProperties, ElementOfSeq DEF Listed
  <1> DEFINE u == Tail(t)
  <1>2. u \in Seq(Cell) /\ Len(u) = Len(t) - 1 /\ \A i \in 1 .. Len(u) : u[i] = t[i + 1]
    BY <1>1, HeadTailProperties
  <1>3. t = <<c>> \o u
    BY <1>1, HeadTailProperties
  <1> HIDE DEF u
  <1>4. node[c].next = (IF u = <<>> THEN NULL ELSE u[1])
    <2>1. 1 \in 1 .. Len(t)
      BY <1>1
    <2>2. node[c].next = IF 1 = Len(t) THEN NULL ELSE t[1 + 1]
      BY <1>1, <2>1 DEF Listed
    <2>3. CASE Len(t) = 1
      BY <1>2, <2>2, <2>3, EmptySeq
    <2>4. CASE Len(t) # 1
      <3>1. u # <<>> /\ 1 \in 1 .. Len(u)
        BY <1>1, <1>2, <2>4, EmptySeq
      <3>2. u[1] = t[1 + 1]
        BY <1>2, <3>1
      <3> QED
        BY <2>2, <2>4, <3>1, <3>2
    <2> QED
      BY <2>3, <2>4
  <1>5. ASSUME NEW i \in 1 .. Len(u)
        PROVE  node[u[i]].next = IF i = Len(u) THEN NULL ELSE u[i + 1]
    <2>1. i + 1 \in 1 .. Len(t) /\ u[i] = t[i + 1] /\ (i + 1 = Len(t) <=> i = Len(u))
      BY <1>1, <1>2
    <2>2. node[t[i + 1]].next = IF i + 1 = Len(t) THEN NULL ELSE t[(i + 1) + 1]
      BY <2>1 DEF Listed
    <2>3. i # Len(u) => u[i + 1] = t[(i + 1) + 1]
      BY <1>1, <1>2
    <2> QED
      BY <2>1, <2>2, <2>3
  <1> QED
    BY <1>1, <1>2, <1>3, <1>4, <1>5 DEF Listed, u

\* Any node starts a chain.
LEMMA ChainExists ==
    ASSUME CellAssumption, node \in [Cell -> NodeRecord], Acyclic, NEW c \in Maybe(Cell)
    PROVE  \E t : Listed(c, t)
  <1>1. Listed(NULL, <<>>)
    BY EmptySeq DEF Listed
  <1> DEFINE T == {d \in Cell : ~ \E t : Listed(d, t)}
  <1>2. T = {}
    <2> SUFFICES ASSUME T # {}
                 PROVE  FALSE
      OBVIOUS
    <2>1. PICK d \in T : node[d].next \notin T
      BY DEF Acyclic
    <2>2. node[d].next \in Maybe(Cell)
      BY <2>1 DEF NodeRecord
    <2>3. PICK t : Listed(node[d].next, t)
      BY <1>1, <2>1, <2>2 DEF Maybe
    <2>4. t \in Seq(Cell) /\ Len(t) \in Nat /\ d \in Cell
      BY <2>3, LenProperties DEF Listed
    <2> DEFINE u == <<d>> \o t
    <2>5. /\ u \in Seq(Cell) /\ Len(u) = Len(t) + 1 /\ u[1] = d
          /\ \A i \in 1 .. Len(t) : u[i + 1] = t[i]
      <3> DEFINE s == <<d>>
      <3>1. s \in Seq(Cell) /\ Len(s) = 1 /\ s[1] = d
        BY <2>4
      <3> HIDE DEF s
      <3>2. /\ s \o t \in Seq(Cell) /\ Len(s \o t) = 1 + Len(t)
            /\ \A i \in 1 .. 1 + Len(t) : (s \o t)[i] = IF i <= 1 THEN s[i] ELSE t[i - 1]
        <4>1. /\ s \o t \in Seq(Cell) /\ Len(s \o t) = Len(s) + Len(t)
              /\ \A i \in 1 .. Len(s) + Len(t) :
                    (s \o t)[i] = IF i <= Len(s) THEN s[i] ELSE t[i - Len(s)]
          BY <2>4, <3>1, ConcatProperties
        <4> QED
          BY <3>1, <4>1
      <3>3. ASSUME NEW i \in 1 .. Len(t)
            PROVE  (s \o t)[i + 1] = t[i]
        <4>1. i + 1 \in 1 .. 1 + Len(t) /\ ~ (i + 1 <= 1) /\ (i + 1) - 1 = i
          BY <2>4
        <4> QED
          BY <3>2, <4>1
      <3>4. (s \o t)[1] = d
        <4>1. 1 \in 1 .. 1 + Len(t)
          BY <2>4
        <4> QED
          BY <3>1, <3>2, <4>1
      <3> QED
        BY <2>4, <3>2, <3>3, <3>4 DEF s
    <2> HIDE DEF u
    <2>6. u # <<>>
      BY <2>4, <2>5, EmptySeq
    <2>7. ASSUME NEW i \in 1 .. Len(u)
          PROVE  node[u[i]].next = IF i = Len(u) THEN NULL ELSE u[i + 1]
      <3>1. CASE i = 1
        <4>1. node[u[i]].next = IF t = <<>> THEN NULL ELSE t[1]
          BY <2>3, <2>5, <3>1 DEF Listed
        <4>2. CASE t = <<>>
          BY <2>4, <2>5, <3>1, <4>1, <4>2, EmptySeq
        <4>3. CASE t # <<>>
          <5>1. 1 \in 1 .. Len(t) /\ 1 # Len(u)
            BY <2>4, <2>5, <4>3, EmptySeq
          <5> QED
            BY <2>5, <3>1, <4>1, <4>3, <5>1
        <4> QED
          BY <4>2, <4>3
      <3>2. CASE i # 1
        <4>1. PICK j \in 1 .. Len(t) : i = j + 1
          <5>1. i - 1 \in 1 .. Len(t) /\ i = (i - 1) + 1
            BY <2>4, <2>5, <3>2
          <5> QED
            BY <5>1
        <4>2. u[i] = t[j] /\ node[t[j]].next = IF j = Len(t) THEN NULL ELSE t[j + 1]
          BY <2>3, <2>5, <4>1 DEF Listed
        <4>3. i = Len(u) <=> j = Len(t)
          BY <2>4, <2>5, <4>1
        <4>4. j # Len(t) => j + 1 \in 1 .. Len(t)
          BY <2>4, <4>1
        <4>5. j # Len(t) => u[i + 1] = t[j + 1]
          BY <2>5, <4>1, <4>4
        <4> QED
          BY <4>2, <4>3, <4>5
      <3> QED
        BY <3>1, <3>2
    <2>8. Listed(d, u)
      BY <2>5, <2>6, <2>7 DEF Listed
    <2> QED
      BY <2>1, <2>8
  <1> QED
    BY <1>1, <1>2 DEF Maybe

\* A chain is in memory and no longer than there are nodes.
LEMMA ChainFits ==
    ASSUME CellAssumption, Core, Acyclic, NEW c \in Maybe(Live), NEW t, Listed(c, t)
    PROVE  /\ t \in Seq(Live) /\ Len(t) \in Nat /\ Len(t) <= Cardinality(Live)
  <1>1. t \in Seq(Cell) /\ Len(t) \in Nat /\ \A i \in 1 .. Len(t) : t[i] \in Cell
    BY LenProperties, ElementOfSeq DEF Listed
  <1>2. /\ \A i \in 1 .. Len(t) : node[t[i]].next = IF i = Len(t) THEN NULL ELSE t[i + 1]
        /\ c = (IF t = <<>> THEN NULL ELSE t[1])
    BY DEF Listed
  <1>3. Live \subseteq Cell /\ IsFiniteSet(Live) /\ NULL \notin Cell
    BY FS_Subset DEF Live, CellAssumption
  <1>4. \A a, b \in Cell : node[a].next = b => b \in Live
    <2>1. \A a, b \in Cell : node[a].next = b \/ node[a].children = b => b \in Live
      BY Referred DEF Core
    <2> QED
      BY <2>1
  <1> HIDE DEF Listed
  <1> DEFINE S == {n \in Nat : n + 1 <= Len(t) => t[n + 1] \in Live}
  <1>5. 0 \in S
    <2> SUFFICES ASSUME 0 + 1 <= Len(t) PROVE t[0 + 1] \in Live
      OBVIOUS
    <2>1. t # <<>>
      BY <1>1, EmptySeq
    <2> QED
      BY <1>1, <1>2, <1>3, <2>1 DEF Maybe
  <1>6. ASSUME NEW n \in Nat, n \in S
        PROVE  n + 1 \in S
    <2> SUFFICES ASSUME (n + 1) + 1 <= Len(t) PROVE t[(n + 1) + 1] \in Live
      OBVIOUS
    <2>1. n + 1 \in 1 .. Len(t) /\ n + 1 # Len(t) /\ (n + 1) + 1 \in 1 .. Len(t)
      BY <1>1
    <2>2. node[t[n + 1]].next = t[(n + 1) + 1]
      BY <1>2, <2>1
    <2> QED
      BY <1>1, <1>4, <2>1, <2>2
  <1>7. Nat \subseteq S
    <2> HIDE DEF S
    <2> QED
      BY <1>5, <1>6, SetInduction
  <1>8. \A i \in 1 .. Len(t) : t[i] \in Live
    <2> SUFFICES ASSUME NEW i \in 1 .. Len(t) PROVE t[i] \in Live
      OBVIOUS
    <2>1. i - 1 \in Nat /\ (i - 1) + 1 = i /\ i <= Len(t)
      BY <1>1
    <2>2. i - 1 \in S
      BY <1>7, <2>1
    <2> QED
      BY <2>1, <2>2
  \* A node that came twice would be on a circle.
  <1>9. ASSUME NEW i \in 1 .. Len(t), NEW j \in 1 .. Len(t), i < j, t[i] = t[j]
        PROVE  FALSE
    <2> DEFINE T == {t[k] : k \in i .. j - 1}
    <2>1. T \in SUBSET Cell /\ T # {}
      <3>1. \A k \in i .. j - 1 : k \in 1 .. Len(t)
        BY <1>1
      <3>2. i \in i .. j - 1
        BY <1>9
      <3> QED
        BY <1>1, <3>1, <3>2
    <2>2. PICK a \in T : node[a].next \notin T
      <3> HIDE DEF T
      <3> QED
        BY <2>1 DEF Acyclic
    <2>3. PICK k \in i .. j - 1 : a = t[k]
      BY <2>2
    <2>4. k \in 1 .. Len(t) /\ k # Len(t)
      BY <1>1, <2>3
    <2>5. node[a].next = t[k + 1]
      BY <1>2, <2>3, <2>4
    <2>6. CASE k + 1 \in i .. j - 1
      BY <2>2, <2>5, <2>6
    <2>7. CASE k + 1 = j
      <3>1. t[k + 1] = t[i] /\ i \in i .. j - 1
        BY <1>9, <2>7
      <3> QED
        BY <2>2, <2>5, <3>1
    <2>8. k + 1 \in i .. j - 1 \/ k + 1 = j
      BY <1>1, <2>3
    <2> QED
      BY <2>6, <2>7, <2>8
  <1>10. ASSUME NEW i \in 1 .. Len(t), NEW j \in 1 .. Len(t), t[i] = t[j]
         PROVE  i = j
    <2>1. i \in Int /\ j \in Int
      OBVIOUS
    <2> QED
      BY <1>9, <1>10, <2>1
  <1> DEFINE f == [i \in 1 .. Len(t) |-> t[i]]
  <1>11. f \in Injection(1 .. Len(t), Live)
    BY <1>8, <1>10 DEF Injection, IsInjective
  <1>12. Cardinality(1 .. Len(t)) <= Cardinality(Live)
    <2> HIDE DEF f
    <2> QED
      BY <1>3, <1>11, FS_Injection
  <1>13. Cardinality(1 .. Len(t)) = Len(t)
    <2>1. 1 \in Int /\ Len(t) \in Int
      BY <1>1
    <2>2. Cardinality(1 .. Len(t)) = IF 1 > Len(t) THEN 0 ELSE Len(t) - 1 + 1
      BY <2>1, FS_Interval
    <2> QED
      BY <1>1, <2>2
  <1>14. t \in Seq(Live)
    <2>1. t = [i \in 1 .. Len(t) |-> t[i]]
      BY <1>1, SeqDef
    <2> QED
      BY <1>1, <1>8, <2>1, SeqDef
  <1> QED
    BY <1>1, <1>12, <1>13, <1>14

\* Followers computes the chain.
LEMMA FollowersChain ==
    ASSUME CellAssumption, Core, Acyclic, NEW c \in Maybe(Live), NEW t, Listed(c, t)
    PROVE  Followers(c) = t
  <1>1. node \in [Cell -> NodeRecord] /\ Live \subseteq Cell /\ NULL \notin Cell
    BY DEF Core, Shape, NodesTyped, NodeRecord, Live, CellAssumption
  <1>2. c \in Maybe(Cell)
    BY <1>1 DEF Maybe
  <1>3. PICK from \in [Nat -> [Maybe(Cell) -> Seq(Cell)]] :
            /\ from[0] = [d \in Maybe(Cell) |-> <<>>]
            /\ \A n \in Nat : from[n + 1] =
                  [d \in Maybe(Cell) |-> IF d = NULL THEN <<>> ELSE <<d>> \o from[n][node[d].next]]
            /\ Followers(c) = from[Cardinality(Live)][c]
    BY <1>1, <1>2, Rounds
  <1> DEFINE Right(n) == \A d \in Maybe(Cell), u \in Seq(Cell) : Listed(d, u) /\ Len(u) <= n => from[n][d] = u
             S == {n \in Nat : Right(n)}
  <1>4. 0 \in S
    <2> SUFFICES ASSUME NEW d \in Maybe(Cell), NEW u \in Seq(Cell), Len(u) <= 0
                 PROVE  from[0][d] = u
      OBVIOUS
    <2>1. u = <<>>
      BY EmptySeq, LenProperties
    <2> QED
      BY <1>3, <2>1
  <1>5. ASSUME NEW n \in Nat, Right(n)
        PROVE  Right(n + 1)
    <2> SUFFICES ASSUME NEW d \in Maybe(Cell), NEW u \in Seq(Cell), Listed(d, u), Len(u) <= n + 1
                 PROVE  from[n + 1][d] = u
      OBVIOUS
    <2>1. from[n + 1][d] = IF d = NULL THEN <<>> ELSE <<d>> \o from[n][node[d].next]
      BY <1>3
    <2>2. CASE u = <<>>
      <3>1. d = NULL
        BY <2>2 DEF Listed
      <3> QED
        BY <2>1, <2>2, <3>1
    <2>3. CASE u # <<>>
      <3> DEFINE r == Tail(u)
      <3>1. /\ Len(u) \in Nat /\ d \in Cell /\ Listed(node[d].next, r) /\ Len(r) = Len(u) - 1
            /\ u = <<d>> \o r
        BY <2>3, ChainRest
      <3>2. r \in Seq(Cell) /\ Len(r) <= n
        <4> HIDE DEF r
        <4>1. r \in Seq(Cell)
          BY <3>1 DEF Listed
        <4>2. Len(u) - 1 <= n
          BY <3>1
        <4> QED
          BY <3>1, <4>1, <4>2
      <3>3. node[d].next \in Maybe(Cell)
        BY <1>1, <3>1 DEF NodeRecord
      <3>4. from[n][node[d].next] = r
        <4> HIDE DEF r
        <4> QED
          BY <1>5, <3>1, <3>2, <3>3
      <3> QED
        BY <1>1, <2>1, <3>1, <3>4
    <2> QED
      BY <2>2, <2>3
  <1>6. Nat \subseteq S
    <2>1. \A n \in Nat : n \in S => n + 1 \in S
      <3> HIDE DEF Right
      <3> QED
        BY <1>5
    <2> HIDE DEF S
    <2> QED
      BY <1>4, <2>1, SetInduction
  <1>7. t \in Seq(Cell) /\ Len(t) <= Cardinality(Live) /\ Cardinality(Live) \in Nat
    <2>1. t \in Seq(Cell) /\ Len(t) <= Cardinality(Live)
      BY ChainFits DEF Listed
    <2>2. IsFiniteSet(Live)
      BY <1>1, FS_Subset DEF CellAssumption
    <2> QED
      BY <2>1, <2>2, FS_CardinalityType
  <1>8. Right(Cardinality(Live))
    BY <1>6, <1>7
  <1> QED
    BY <1>2, <1>3, <1>7, <1>8

\* What a loop has seen and what follows is the whole expression.
LEMMA SeesChain ==
    ASSUME CellAssumption, Core, Ordered, NEW l \in DOMAIN loops
    PROVE  loops[l].seen \o Followers(node[loops[l].head].it) = Followers(loops[l].head)
  <1> DEFINE h == loops[l].head
             s == loops[l].seen
             it == node[h].it
  <1>1. /\ h \in Cell /\ s \in Seq(Cell) /\ Len(s) \in Nat
        /\ \A i \in 1 .. Len(s) : s[i] \in Cell
    BY LenProperties, ElementOfSeq DEF Core, Shape, LoopsTyped, LoopRecord
  <1>2. h \in Live /\ it \in Maybe(Live)
    <2>1. h \in Live
      BY Referred DEF Core
    <2> QED
      BY <2>1, ItLive DEF Core
  <1>3. /\ node \in [Cell -> NodeRecord] /\ Acyclic /\ Placed(l) /\ NULL \notin Cell
        /\ \A d \in Maybe(Live) : d \in Maybe(Cell)
    BY DEF Core, Ordered, Shape, NodesTyped, NodeRecord, Live, Maybe, CellAssumption
  <1>4. PICK t : Listed(h, t)
    BY <1>1, <1>3, ChainExists DEF Maybe
  <1>5. /\ t \in Seq(Cell) /\ Len(t) \in Nat /\ t # <<>> /\ t[1] = h
        /\ \A i \in 1 .. Len(t) : node[t[i]].next = IF i = Len(t) THEN NULL ELSE t[i + 1]
    BY <1>1, <1>3, <1>4, LenProperties DEF Listed
  <1>6. Followers(h) = t
    BY <1>2, <1>3, <1>4, FollowersChain DEF Maybe
  <1> HIDE DEF h, s, it
  <1>7. CASE s = <<>>
    <2>1. it = h
      BY <1>3, <1>7 DEF Placed, h, s, it
    <2> QED
      BY <1>5, <1>6, <1>7, <2>1, ConcatEmptySeq DEF h, s, it
  <1>8. CASE s # <<>>
    <2>1. /\ s[1] = h /\ it = node[s[Len(s)]].next
          /\ \A i \in 1 .. Len(s) - 1 : s[i + 1] = node[s[i]].next
      BY <1>3, <1>8 DEF Placed, h, s, it
    <2> DEFINE S == {n \in Nat : n + 1 <= Len(s) => n + 1 <= Len(t) /\ s[n + 1] = t[n + 1]}
    <2>2. 0 \in S
      <3>1. Len(t) # 0
        BY <1>5, EmptySeq
      <3> QED
        BY <1>5, <2>1, <3>1
    <2>3. ASSUME NEW n \in Nat, n \in S
          PROVE  n + 1 \in S
      <3> SUFFICES ASSUME (n + 1) + 1 <= Len(s)
                   PROVE  (n + 1) + 1 <= Len(t) /\ s[(n + 1) + 1] = t[(n + 1) + 1]
        OBVIOUS
      <3>1. /\ n + 1 \in 1 .. Len(s) - 1 /\ (n + 1) + 1 \in 1 .. Len(s)
            /\ n + 1 \in 1 .. Len(t) /\ s[n + 1] = t[n + 1]
        BY <1>1, <1>5, <2>3
      <3>2. s[(n + 1) + 1] = node[t[n + 1]].next /\ s[(n + 1) + 1] \in Cell
        BY <1>1, <2>1, <3>1
      <3>3. n + 1 # Len(t) /\ s[(n + 1) + 1] = t[(n + 1) + 1]
        BY <1>3, <1>5, <3>1, <3>2
      <3> QED
        BY <1>5, <3>1, <3>3
    <2>4. Nat \subseteq S
      <3> HIDE DEF S
      <3> QED
        BY <2>2, <2>3, SetInduction
    <2>5. ASSUME NEW i \in 1 .. Len(s)
          PROVE  i \in 1 .. Len(t) /\ s[i] = t[i]
      <3>1. i - 1 \in Nat /\ (i - 1) + 1 = i /\ i <= Len(s)
        BY <1>1
      <3>2. i - 1 \in S
        BY <2>4, <3>1
      <3> QED
        BY <1>5, <3>1, <3>2
    <2> DEFINE n == Len(s)
               r == SubSeq(t, n + 1, Len(t))
    <2>6. n \in 1 .. Len(s) /\ n \in 1 .. Len(t)
      <3>1. n \in 1 .. Len(s)
        BY <1>1, <1>8, EmptySeq
      <3> QED
        BY <2>5, <3>1
    <2>7. it = IF n = Len(t) THEN NULL ELSE t[n + 1]
      BY <1>5, <2>1, <2>5, <2>6
    <2>8. /\ r \in Seq(Cell) /\ Len(r) = Len(t) - n
          /\ \A i \in 1 .. Len(t) - n : r[i] = t[n + i]
      <3>1. /\ n + 1 \in Int /\ Len(t) \in Int
            /\ \A i \in n + 1 .. Len(t) : t[i] \in Cell
        BY <1>5, <2>6, ElementOfSeq
      <3>2. /\ r \in Seq(Cell)
            /\ Len(r) = IF n + 1 <= Len(t) THEN Len(t) - (n + 1) + 1 ELSE 0
            /\ \A i \in 1 .. Len(t) - (n + 1) + 1 : r[i] = t[(n + 1) + i - 1]
        BY <3>1, SubSeqProperties
      <3> HIDE DEF r
      <3>3. Len(r) = Len(t) - n
        BY <1>5, <2>6, <3>2
      <3>4. ASSUME NEW i \in 1 .. Len(t) - n
            PROVE  r[i] = t[n + i]
        <4>1. i \in 1 .. Len(t) - (n + 1) + 1 /\ (n + 1) + i - 1 = n + i
          BY <1>5, <2>6
        <4> QED
          BY <3>2, <4>1
      <3> QED
        BY <3>2, <3>3, <3>4
    <2> HIDE DEF r
    <2>9. Listed(it, r)
      <3>1. it = (IF r = <<>> THEN NULL ELSE r[1])
        <4>1. CASE n = Len(t)
          BY <1>5, <2>7, <2>8, <4>1, EmptySeq
        <4>2. CASE n # Len(t)
          <5>1. 1 \in 1 .. Len(t) - n /\ Len(r) # 0
            BY <1>5, <2>6, <2>8, <4>2
          <5>2. r # <<>> /\ r[1] = t[n + 1]
            BY <2>8, <5>1, EmptySeq
          <5> QED
            BY <2>7, <4>2, <5>2
        <4> QED
          BY <4>1, <4>2
      <3>2. ASSUME NEW i \in 1 .. Len(r)
            PROVE  node[r[i]].next = IF i = Len(r) THEN NULL ELSE r[i + 1]
        <4>1. n + i \in 1 .. Len(t) /\ r[i] = t[n + i] /\ (n + i = Len(t) <=> i = Len(r))
          BY <1>5, <2>6, <2>8
        <4>2. node[r[i]].next = IF n + i = Len(t) THEN NULL ELSE t[(n + i) + 1]
          BY <1>5, <4>1
        <4>3. i # Len(r) => i + 1 \in 1 .. Len(t) - n /\ n + (i + 1) = (n + i) + 1
          <5>1. i \in Nat /\ n \in Nat /\ i \in 1 .. Len(t) - n /\ Len(r) = Len(t) - n
            BY <2>6, <2>8
          <5> HIDE DEF n
          <5> QED
            BY <1>5, <5>1
        <4>4. i # Len(r) => r[i + 1] = t[(n + i) + 1]
          BY <2>8, <4>3
        <4> QED
          BY <4>1, <4>2, <4>4
      <3> QED
        BY <2>8, <3>1, <3>2 DEF Listed
    <2>10. Followers(it) = r
      BY <1>2, <1>3, <2>9, FollowersChain
    <2>11. s \o r = t
      <3>1. /\ s \o r \in Seq(Cell) /\ Len(s \o r) = n + Len(r)
            /\ \A i \in 1 .. n + Len(r) : (s \o r)[i] = IF i <= n THEN s[i] ELSE r[i - n]
        BY <1>1, <2>8, ConcatProperties
      <3> DEFINE u == s \o r
      <3> HIDE DEF u
      <3>2. u \in Seq(Cell) /\ Len(u) = Len(t)
        BY <1>5, <2>6, <2>8, <3>1 DEF u
      <3>3. ASSUME NEW i \in 1 .. Len(t)
            PROVE  u[i] = t[i]
        <4>1. u[i] = IF i <= n THEN s[i] ELSE r[i - n]
          BY <1>5, <2>6, <2>8, <3>1 DEF u
        <4>2. CASE i <= n
          <5>1. i \in 1 .. Len(s)
            BY <4>2
          <5> QED
            BY <2>5, <4>1, <4>2, <5>1
        <4>3. CASE ~ (i <= n)
          <5>1. i - n \in 1 .. Len(t) - n /\ n + (i - n) = i
            BY <1>5, <2>6, <4>3
          <5> QED
            BY <2>8, <4>1, <4>3, <5>1
        <4> QED
          BY <4>2, <4>3
      <3>4. u = [i \in 1 .. Len(u) |-> u[i]] /\ t = [i \in 1 .. Len(t) |-> t[i]]
        BY <1>5, <3>2, SeqDef
      <3>5. u = t
        BY <3>2, <3>3, <3>4
      <3> QED
        BY <3>5 DEF u
    <2> QED
      BY <1>6, <2>10, <2>11 DEF h, s, it
  <1> QED
    BY <1>7, <1>8

\* A loop sees every node of its expression once and in order, and its place is never
\* in freed memory.
THEOREM LoopsSeeChains == MetadataSpec => []LoopSeesChain
  <1>1. Core /\ Ordered => LoopSeesChain
    <2> SUFFICES ASSUME Core, Ordered PROVE LoopSeesChain
      OBVIOUS
    <2>1. \A c \in Live : node[c].it \in Maybe(Live)
      BY ItLive, CellAssumption DEF Core
    <2> QED
      BY <2>1, SeesChain, CellAssumption DEF LoopSeesChain
  <1> QED
    BY <1>1, CoreInvariance, OrderInvariance, PTL

-----------------------------------------------------------------------------
(* The words of a line, from the first to the last.                        *)

\* A non-empty set of places of a sequence has a last one.
LEMMA LastPlace ==
    ASSUME NEW n \in Nat, NEW t, t \subseteq 1 .. n, t # {}
    PROVE  Max(t) \in t /\ \A i \in t : i <= Max(t)
  <1> DEFINE T == {k \in Nat : \A i \in t : i <= k}
  <1>1. n \in T
    OBVIOUS
  <1>2. PICK k \in T : \A y \in T : k <= y
    BY <1>1, Least
  <1>3. k \in t
    <2> SUFFICES ASSUME k \notin t
                 PROVE  FALSE
      OBVIOUS
    <2>1. \A i \in t : i < k
      BY <1>2
    <2>2. PICK i \in t : TRUE
      OBVIOUS
    <2>3. k - 1 \in Nat
      BY <1>2, <2>1, <2>2
    <2>4. k - 1 \in T
      BY <2>1, <2>3
    <2> QED
      BY <1>2, <2>4
  <1>4. \E x \in t : \A y \in t : x >= y
    BY <1>2, <1>3
  <1>5. Max(t) \in t /\ \A y \in t : Max(t) >= y
    BY <1>4 DEF Max
  <1> QED
    BY <1>5

\* Two functions on the sets of places of a sequence that treat the last place of a
\* set alike agree on the whole sequence.
LEMMA FoldsAgree ==
    ASSUME NEW n \in Nat, NEW f, NEW h, f[{}] = h[{}],
           \A t \in SUBSET (1 .. n) :
              t # {} /\ f[t \ {Max(t)}] = h[t \ {Max(t)}] => f[t] = h[t]
    PROVE  f[1 .. n] = h[1 .. n]
  <1> DEFINE S == {k \in Nat : \A t \in SUBSET (1 .. n) : (\A i \in t : i <= k) => f[t] = h[t]}
  <1>1. 0 \in S
    <2>1. \A t \in SUBSET (1 .. n) : (\A i \in t : i <= 0) => t = {}
      OBVIOUS
    <2> QED
      BY <2>1
  <1>2. ASSUME NEW k \in Nat, k \in S
        PROVE  k + 1 \in S
    <2> SUFFICES ASSUME NEW t \in SUBSET (1 .. n), \A i \in t : i <= k + 1
                 PROVE  f[t] = h[t]
      OBVIOUS
    <2> SUFFICES ASSUME t # {}
                 PROVE  f[t] = h[t]
      OBVIOUS
    <2> DEFINE m == Max(t)
    <2>1. m \in t /\ \A i \in t : i <= m
      BY LastPlace
    <2> HIDE DEF m
    <2>2. ASSUME NEW i \in t \ {m}
          PROVE  i <= k
      <3>1. i \in Int /\ m \in Int /\ i <= m /\ i # m /\ m <= k + 1
        BY <2>1
      <3> QED
        BY <3>1
    <2>3. f[t \ {m}] = h[t \ {m}]
      BY <1>2, <2>2
    <2> QED
      BY <2>3 DEF m
  <1>3. Nat \subseteq S
    <2> HIDE DEF S
    <2> QED
      BY <1>1, <1>2, SetInduction
  <1>4. n \in S /\ 1 .. n \in SUBSET (1 .. n) /\ \A i \in 1 .. n : i <= n
    BY <1>3
  <1> QED
    BY <1>4

\* The keyword of an architecture is that of the last word for it.
For(words, t, a) == {i \in t : words[i].arch \in {a, "*"}}
KeywordsAt(kw, words, t) ==
    [a \in Arch |-> IF For(words, t, a) = {} THEN kw[a] ELSE words[Max(For(words, t, a))].keyword]
KeywordsOn(f, kw, words) ==
    f = [t \in SUBSET DOMAIN words |->
            IF t = {} THEN kw
            ELSE [a \in Arch |-> IF words[Max(t)].arch \in {a, "*"} THEN words[Max(t)].keyword
                                 ELSE f[t \ {Max(t)}][a]]]

\* Reading a KEYWORDS line does this.
LEMMA KeywordsRead ==
    ASSUME NEW words, words \in Seq(Range(words)), NEW kw, kw = [a \in Arch |-> kw[a]]
    PROVE  Keywords(kw, words) = KeywordsAt(kw, words, DOMAIN words)
  <1> DEFINE n == Len(words)
             f == CHOOSE f : KeywordsOn(f, kw, words)
             h == [t \in SUBSET DOMAIN words |-> KeywordsAt(kw, words, t)]
  <1>1. n \in Nat /\ DOMAIN words = 1 .. n
    BY LenProperties
  <1>2. Keywords(kw, words) = f[1 .. n]
    BY <1>1 DEF Keywords, FoldLeft, MapThenFoldSet, KeywordsOn
  <1> HIDE DEF n, f
  <1>3. h[{}] = kw
    BY DEF KeywordsAt, For
  <1>4. ASSUME NEW t \in SUBSET DOMAIN words, t # {}
        PROVE  h[t] = [a \in Arch |-> IF words[Max(t)].arch \in {a, "*"} THEN words[Max(t)].keyword
                                      ELSE h[t \ {Max(t)}][a]]
    <2> DEFINE m == Max(t)
    <2>1. m \in t /\ \A i \in t : i <= m
      BY <1>1, <1>4, LastPlace
    <2> HIDE DEF m
    <2>2. ASSUME NEW a \in Arch
          PROVE  KeywordsAt(kw, words, t)[a] = IF words[m].arch \in {a, "*"} THEN words[m].keyword
                                               ELSE KeywordsAt(kw, words, t \ {m})[a]
      <3>1. CASE words[m].arch \in {a, "*"}
        <4> DEFINE x == For(words, t, a)
                   y == Max(x)
        <4>1. m \in x /\ x \subseteq t /\ x \subseteq 1 .. n
          BY <1>1, <2>1, <3>1 DEF For
        <4>2. y \in x /\ \A i \in x : i <= y
          <5> HIDE DEF x
          <5> QED
            BY <1>1, <4>1, LastPlace
        <4>3. y = m
          <5> HIDE DEF x, y
          <5>1. y \in Int /\ m \in Int /\ y <= m /\ m <= y
            BY <1>1, <2>1, <4>1, <4>2
          <5> QED
            BY <5>1
        <4> QED
          BY <3>1, <4>1, <4>3 DEF KeywordsAt
      <3>2. CASE words[m].arch \notin {a, "*"}
        <4>1. For(words, t, a) = For(words, t \ {m}, a)
          BY <3>2 DEF For
        <4> QED
          BY <3>2, <4>1 DEF KeywordsAt
      <3> QED
        BY <3>1, <3>2
    <2>3. h[t] = [a \in Arch |-> KeywordsAt(kw, words, t)[a]]
      BY DEF KeywordsAt
    <2> DEFINE p == h[t \ {m}]
               q == h[t]
    <2>4. p = KeywordsAt(kw, words, t \ {m})
      OBVIOUS
    <2> HIDE DEF h, p
    <2>5. q = [a \in Arch |-> IF words[m].arch \in {a, "*"} THEN words[m].keyword ELSE p[a]]
      <3> HIDE DEF q
      <3> QED
        BY <2>2, <2>3, <2>4 DEF q
    <2> QED
      BY <2>5 DEF m, p, q
  <1>5. KeywordsOn(h, kw, words)
    <2>1. h = [t \in SUBSET DOMAIN words |-> h[t]]
      OBVIOUS
    <2> HIDE DEF h
    <2> QED
      BY <1>3, <1>4, <2>1 DEF KeywordsOn
  <1>6. KeywordsOn(f, kw, words)
    <2> HIDE DEF h
    <2> QED
      BY <1>5 DEF f
  <1>7. f[1 .. n] = h[1 .. n]
    <2>1. f[{}] = h[{}]
      BY <1>3, <1>6 DEF KeywordsOn
    <2>2. ASSUME NEW t \in SUBSET (1 .. n), t # {}, f[t \ {Max(t)}] = h[t \ {Max(t)}]
          PROVE  f[t] = h[t]
      <3> HIDE DEF h
      <3>1. f[t] = [a \in Arch |-> IF words[Max(t)].arch \in {a, "*"} THEN words[Max(t)].keyword
                                   ELSE f[t \ {Max(t)}][a]]
        BY <1>1, <1>6, <2>2 DEF KeywordsOn
      <3>2. h[t] = [a \in Arch |-> IF words[Max(t)].arch \in {a, "*"} THEN words[Max(t)].keyword
                                   ELSE h[t \ {Max(t)}][a]]
        BY <1>1, <1>4, <2>2
      <3> DEFINE p == f[t \ {Max(t)}]
                 q == h[t \ {Max(t)}]
      <3>3. p = q
        BY <2>2
      <3> HIDE DEF p, q
      <3> QED
        BY <3>1, <3>2, <3>3 DEF p, q
    <2> HIDE DEF h
    <2> QED
      BY <1>1, <2>1, <2>2, FoldsAgree
  <1> QED
    BY <1>1, <1>2, <1>7

\* The state of a flag is that of the last word for it.
Of(words, t, x) == {i \in t : words[i].flag = x}
IuseAt(flags, words, t) ==
    [x \in (DOMAIN flags) \cup {words[i].flag : i \in t} |->
        IF Of(words, t, x) = {} THEN flags[x] ELSE words[Max(Of(words, t, x))].state]
IuseOn(f, flags, words) ==
    f = [t \in SUBSET DOMAIN words |->
            IF t = {} THEN flags
            ELSE [x \in (DOMAIN f[t \ {Max(t)}]) \cup {words[Max(t)].flag} |->
                     IF x = words[Max(t)].flag THEN words[Max(t)].state
                     ELSE f[t \ {Max(t)}][x]]]

\* Reading an IUSE line does this.
LEMMA IuseRead ==
    ASSUME NEW words, words \in Seq(Range(words)), NEW flags, flags = [x \in DOMAIN flags |-> flags[x]]
    PROVE  Iuse(flags, words) = IuseAt(flags, words, DOMAIN words)
  <1> DEFINE n == Len(words)
             f == CHOOSE f : IuseOn(f, flags, words)
             h == [t \in SUBSET DOMAIN words |-> IuseAt(flags, words, t)]
  <1>1. n \in Nat /\ DOMAIN words = 1 .. n
    BY LenProperties
  <1>2. Iuse(flags, words) = f[1 .. n]
    BY <1>1 DEF Iuse, FoldLeft, MapThenFoldSet, IuseOn
  <1> HIDE DEF n, f
  <1>3. h[{}] = flags
    BY DEF IuseAt, Of
  <1>4. ASSUME NEW t \in SUBSET DOMAIN words, t # {}
        PROVE  h[t] = [x \in (DOMAIN h[t \ {Max(t)}]) \cup {words[Max(t)].flag} |->
                          IF x = words[Max(t)].flag THEN words[Max(t)].state
                          ELSE h[t \ {Max(t)}][x]]
    <2> DEFINE m == Max(t)
    <2>1. m \in t /\ \A i \in t : i <= m
      BY <1>1, <1>4, LastPlace
    <2> HIDE DEF m
    <2> DEFINE D == (DOMAIN flags) \cup {words[i].flag : i \in t}
               p == IuseAt(flags, words, t \ {m})
    <2>2. D = (DOMAIN p) \cup {words[m].flag}
      <3>1. DOMAIN p = (DOMAIN flags) \cup {words[i].flag : i \in t \ {m}}
        BY DEF IuseAt
      <3> HIDE DEF p
      <3> QED
        BY <2>1, <3>1
    <2>3. ASSUME NEW x \in D
          PROVE  (IF Of(words, t, x) = {} THEN flags[x] ELSE words[Max(Of(words, t, x))].state)
                     = IF x = words[m].flag THEN words[m].state ELSE p[x]
      <3>1. CASE x = words[m].flag
        <4> DEFINE u == Of(words, t, x)
                   y == Max(u)
        <4>1. m \in u /\ u \subseteq t /\ u \subseteq 1 .. n
          BY <1>1, <2>1, <3>1 DEF Of
        <4>2. y \in u /\ \A i \in u : i <= y
          <5> HIDE DEF u
          <5> QED
            BY <1>1, <4>1, LastPlace
        <4>3. y = m
          <5> HIDE DEF u, y
          <5>1. y \in Int /\ m \in Int /\ y <= m /\ m <= y
            BY <1>1, <2>1, <4>1, <4>2
          <5> QED
            BY <5>1
        <4> QED
          BY <3>1, <4>1, <4>3
      <3>2. CASE x # words[m].flag
        <4>1. Of(words, t, x) = Of(words, t \ {m}, x)
          BY <3>2 DEF Of
        <4>2. x \in (DOMAIN flags) \cup {words[i].flag : i \in t \ {m}}
          BY <3>2
        <4> QED
          BY <3>2, <4>1, <4>2 DEF IuseAt
      <3> QED
        BY <3>1, <3>2
    <2>4. IuseAt(flags, words, t) = [x \in D |-> IF x = words[m].flag THEN words[m].state ELSE p[x]]
      <3> HIDE DEF p
      <3> QED
        BY <2>3 DEF IuseAt
    <2>5. h[t] = IuseAt(flags, words, t) /\ h[t \ {m}] = p
      OBVIOUS
    <2> HIDE DEF h, D, p
    <2> QED
      BY <2>2, <2>4, <2>5 DEF m
  <1>5. IuseOn(h, flags, words)
    <2>1. h = [t \in SUBSET DOMAIN words |-> h[t]]
      OBVIOUS
    <2> HIDE DEF h
    <2> QED
      BY <1>3, <1>4, <2>1 DEF IuseOn
  <1>6. IuseOn(f, flags, words)
    <2> HIDE DEF h
    <2> QED
      BY <1>5 DEF f
  <1>7. f[1 .. n] = h[1 .. n]
    <2>1. f[{}] = h[{}]
      BY <1>3, <1>6 DEF IuseOn
    <2>2. ASSUME NEW t \in SUBSET (1 .. n), t # {}, f[t \ {Max(t)}] = h[t \ {Max(t)}]
          PROVE  f[t] = h[t]
      <3> HIDE DEF h
      <3>1. f[t] = [x \in (DOMAIN f[t \ {Max(t)}]) \cup {words[Max(t)].flag} |->
                       IF x = words[Max(t)].flag THEN words[Max(t)].state
                       ELSE f[t \ {Max(t)}][x]]
        BY <1>1, <1>6, <2>2 DEF IuseOn
      <3>2. h[t] = [x \in (DOMAIN h[t \ {Max(t)}]) \cup {words[Max(t)].flag} |->
                       IF x = words[Max(t)].flag THEN words[Max(t)].state
                       ELSE h[t \ {Max(t)}][x]]
        BY <1>1, <1>4, <2>2
      <3> QED
        BY <2>2, <3>1, <3>2
    <2> HIDE DEF h
    <2> QED
      BY <1>1, <2>1, <2>2, FoldsAgree
  <1> QED
    BY <1>1, <1>2, <1>7

-----------------------------------------------------------------------------
(* What an ebuild holds while its file is read.                            *)

\* The lines before line r with a name, the words in them, and the last ones.
Before(name, r) == {i \in LinesOf(name) : i < r}
WordsBefore(name, r) == {p \in WordsOf(name) : p[1] < r}
LastIn(m, P) == m \in P /\ \A j \in P : j <= m
LatestIn(p, P) == p \in P /\ \A q \in P : q[1] < p[1] \/ (q[1] = p[1] /\ q[2] <= p[2])
MeantFor(a, r) == {p \in WordsBefore("KEYWORDS", r) : Word(p).arch \in {a, "*"}}
Setting(x, r) == {p \in WordsBefore("IUSE", r) : Word(p).flag = x}

\* What the lines before line r say, if there was no error in them.
LineText(name, m) ==
    /\ file[m].value.ok /\ field[name] # NULL
    /\ Plain(file[m].value) => Unparsed(field[name]) = file[m].value.ops
OneLine(r) == \A name \in DependName : \A i, j \in Before(name, r) : i = j
TextsTold(r) == \A name \in TextName : \A m : LastIn(m, Before(name, r)) => LineText(name, m)
SlotTold(r) == \A m : LastIn(m, Before("SLOT", r)) => slot.slot = file[m].value.slot
KeywordsTold(r) ==
    \A a \in Arch : /\ MeantFor(a, r) = {} => keywords[a] = "NONE"
                    /\ \A p : LatestIn(p, MeantFor(a, r)) => keywords[a] = Word(p).keyword
IuseTold(r) ==
    \A x : /\ Setting(x, r) # {} => x \in DOMAIN iuse
           /\ \A p : LatestIn(p, Setting(x, r)) => iuse[x] = Word(p).state
ReadTo(r) == OneLine(r) /\ TextsTold(r) /\ SlotTold(r) /\ KeywordsTold(r) /\ IuseTold(r)

\* Nothing is held that no line says; as long as there was no error, everything is held
\* that the lines up to the one being read say.
NothingElse ==
    /\ \A name \in TextName : field[name] # NULL => LinesOf(name) # {}
    /\ DOMAIN iuse \subseteq {Word(p).flag : p \in WordsOf("IUSE")}
    /\ iuse = [x \in DOMAIN iuse |-> iuse[x]]
    /\ keywords = [a \in Arch |-> keywords[a]]
Told ==
    /\ reading <= Len(file) + 1
    /\ reading > 0 => ~gone /\ ~metadata_init
    /\ NothingElse
    /\ job # NULL /\ job.self = NULL =>
          job.text = Line.value /\ (Line.name \in DependName => field[Line.name] = NULL)
    /\ reading > 0 /\ error = 0 => ReadTo(reading)
    /\ metadata_init /\ ~gone => ReadTo(Len(file) + 1)

\* An expression that stays in its place stays what it was.
TextsSame ==
    \A name \in TextName :
        field[name] # NULL /\ field'[name] = field[name] =>
            Unparsed(field[name])' = Unparsed(field[name])

\* The lines of a file are numbers, and their words come in order.
LEMMA Numbered ==
    ASSUME FilesAssumption, Core
    PROVE  /\ Len(file) \in Nat /\ DOMAIN file = 1 .. Len(file)
           /\ \A name : LinesOf(name) \subseteq 1 .. Len(file)
           /\ \A i \in LinesOf("IUSE") \cup LinesOf("KEYWORDS") :
                 /\ file[i].value \in Seq(Range(file[i].value))
                 /\ Len(file[i].value) \in Nat /\ DOMAIN file[i].value = 1 .. Len(file[i].value)
  <1>1. file \in Files /\ file \in Seq(Range(file))
    BY DEF Core, Shape, FilesAssumption
  <1>2. Len(file) \in Nat /\ DOMAIN file = 1 .. Len(file)
    BY <1>1, LenProperties
  <1>3. ASSUME NEW i \in LinesOf("IUSE") \cup LinesOf("KEYWORDS")
        PROVE  /\ file[i].value \in Seq(Range(file[i].value))
               /\ Len(file[i].value) \in Nat /\ DOMAIN file[i].value = 1 .. Len(file[i].value)
    <2>1. i \in DOMAIN file /\ file[i].name \in {"IUSE", "KEYWORDS"}
      BY DEF LinesOf
    <2>2. file[i].value \in Seq(Range(file[i].value))
      BY <1>1, <2>1 DEF FilesAssumption
    <2> QED
      BY <2>2, LenProperties
  <1> QED
    BY <1>2, <1>3 DEF LinesOf

\* The last of some lines exists.
LEMMA LastLine ==
    ASSUME FilesAssumption, Core, NEW P, P \subseteq 1 .. Len(file), P # {}
    PROVE  \E m : LastIn(m, P)
  <1>1. Max(P) \in P /\ \A j \in P : j <= Max(P)
    BY Numbered, LastPlace
  <1> QED
    BY <1>1 DEF LastIn

\* One line more.
LEMMA OneMoreLine ==
    ASSUME FilesAssumption, Core, NEW r \in 1 .. Len(file)
    PROVE  /\ \A name : Before(name, r + 1) = Before(name, r) \cup {i \in {r} : file[r].name = name}
           /\ \A name \in {"IUSE", "KEYWORDS"} :
                 WordsBefore(name, r + 1) =
                     WordsBefore(name, r) \cup {p \in {r} \X DOMAIN file[r].value : file[r].name = name}
  <1>1. ASSUME NEW name
        PROVE  Before(name, r + 1) = Before(name, r) \cup {i \in {r} : file[r].name = name}
    <2>1. \A i \in LinesOf(name) : i \in Int /\ (i < r + 1 <=> i < r \/ i = r)
      BY Numbered
    <2>2. r \in LinesOf(name) <=> file[r].name = name
      BY Numbered DEF LinesOf
    <2>3. r < r + 1
      BY Numbered
    <2> QED
      BY <2>1, <2>2, <2>3 DEF Before
  <1>2. ASSUME NEW name \in {"IUSE", "KEYWORDS"}
        PROVE  WordsBefore(name, r + 1) =
                   WordsBefore(name, r) \cup {p \in {r} \X DOMAIN file[r].value : file[r].name = name}
    <2>1. \A p : p \in WordsOf(name) <=> \E i \in LinesOf(name) : \E j \in DOMAIN file[i].value : p = <<i, j>>
      BY DEF WordsOf
    <2>2. \A i \in LinesOf(name) : i \in Int /\ (i < r + 1 <=> i < r \/ i = r)
      BY Numbered
    <2>3. r \in LinesOf(name) <=> file[r].name = name
      BY Numbered DEF LinesOf
    <2>4. \A p : p \in WordsBefore(name, r + 1) <=>
                    p \in WordsBefore(name, r) \/
                    (file[r].name = name /\ \E j \in DOMAIN file[r].value : p = <<r, j>>)
      <3> SUFFICES ASSUME NEW p
                   PROVE  p \in WordsBefore(name, r + 1) <=>
                              p \in WordsBefore(name, r) \/
                              (file[r].name = name /\ \E j \in DOMAIN file[r].value : p = <<r, j>>)
        OBVIOUS
      <3>1. CASE p \notin WordsOf(name)
        BY <2>1, <2>3, <3>1 DEF WordsBefore
      <3>2. CASE p \in WordsOf(name)
        <4>1. PICK i \in LinesOf(name) : \E j \in DOMAIN file[i].value : p = <<i, j>>
          BY <2>1, <3>2
        <4>2. p[1] = i
          BY <4>1
        <4> QED
          BY <2>2, <2>3, <3>2, <4>1, <4>2 DEF WordsBefore
      <3> QED
        BY <3>1, <3>2
    <2> QED
      BY <2>4
  <1> QED
    BY <1>1, <1>2

\* What the first line has before it.
LEMMA NothingBefore ==
    ASSUME FilesAssumption, Core
    PROVE  \A name : Before(name, 1) = {} /\ WordsBefore(name, 1) = {}
  <1> SUFFICES ASSUME NEW name
               PROVE  Before(name, 1) = {} /\ WordsBefore(name, 1) = {}
    OBVIOUS
  <1>1. \A i \in LinesOf(name) : ~ (i < 1)
    BY Numbered
  <1>2. \A p \in WordsOf(name) : p[1] \in LinesOf(name)
    BY DEF WordsOf
  <1> QED
    BY <1>1, <1>2 DEF Before, WordsBefore

\* Lines without a name add nothing to it.
LEMMA NotNamed ==
    ASSUME FilesAssumption, Core, NEW r \in 1 .. Len(file), NEW name, file[r].name # name
    PROVE  /\ Before(name, r + 1) = Before(name, r)
           /\ name \in {"IUSE", "KEYWORDS"} => WordsBefore(name, r + 1) = WordsBefore(name, r)
  <1>1. Before(name, r + 1) = Before(name, r) \cup {i \in {r} : file[r].name = name}
    BY OneMoreLine
  <1>2. name \in {"IUSE", "KEYWORDS"} =>
            WordsBefore(name, r + 1) =
                WordsBefore(name, r) \cup {p \in {r} \X DOMAIN file[r].value : file[r].name = name}
    BY OneMoreLine
  <1> QED
    BY <1>1, <1>2

\* What a line before r says stays said.
LEMMA TextsKept ==
    ASSUME NEW r, TextsTold(r), TextsSame, UNCHANGED <<file, field>>
    PROVE  TextsTold(r)'
  <1> SUFFICES ASSUME NEW name \in TextName, NEW m, LastIn(m, Before(name, r))
               PROVE  LineText(name, m)'
    BY DEF TextsTold, LastIn, Before, LinesOf
  <1>1. LineText(name, m)
    BY DEF TextsTold
  <1>2. Unparsed(field[name])' = Unparsed(field[name])
    BY <1>1 DEF LineText, TextsSame
  <1> QED
    BY <1>1, <1>2 DEF LineText

\* Nothing of the ebuild changes.
LEMMA ReadToKept ==
    ASSUME NEW r, ReadTo(r), TextsSame, UNCHANGED <<file, field, slot, iuse, keywords>>
    PROVE  ReadTo(r)'
  <1>1. TextsTold(r)'
    BY TextsKept DEF ReadTo
  <1>2. OneLine(r)' /\ SlotTold(r)'
    BY DEF ReadTo, OneLine, SlotTold, Before, LinesOf, LastIn
  <1>3. KeywordsTold(r)'
    BY DEF ReadTo, KeywordsTold, MeantFor, WordsBefore, WordsOf, LinesOf, LatestIn, Word
  <1>4. IuseTold(r)'
    BY DEF ReadTo, IuseTold, Setting, WordsBefore, WordsOf, LinesOf, LatestIn, Word
  <1> QED
    BY <1>1, <1>2, <1>3, <1>4 DEF ReadTo

\* A step that leaves the ebuild alone adds nothing that no line says.
LEMMA NothingElseKept ==
    ASSUME NothingElse, UNCHANGED <<file, field, iuse, keywords>>
    PROVE  NothingElse'
  BY DEF NothingElse, LinesOf, WordsOf, Word

\* Steps that the ebuild has no part in.
LEMMA ToldAside ==
    ASSUME Told, TextsSame,
           UNCHANGED <<file, field, slot, iuse, keywords, metadata_init, reading, error, gone>>,
           \/ job' = NULL \/ job'.self # NULL
           \/ job # NULL /\ job.self = NULL /\ job'.text = job.text
    PROVE  Told'
  <1>1. NothingElse'
    BY NothingElseKept DEF Told
  <1>2. (reading > 0 /\ error = 0 => ReadTo(reading))'
    <2>1. PICK r : r = reading
      OBVIOUS
    <2>2. ReadTo(r) => ReadTo(r)'
      BY ReadToKept
    <2> QED
      BY <2>1, <2>2 DEF Told
  <1>3. (metadata_init /\ ~gone => ReadTo(Len(file) + 1))'
    <2>1. PICK r : r = Len(file) + 1
      OBVIOUS
    <2>2. ReadTo(r) => ReadTo(r)'
      BY ReadToKept
    <2> QED
      BY <2>1, <2>2 DEF Told
  <1>4. (job # NULL /\ job.self = NULL =>
          job.text = Line.value /\ (Line.name \in DependName => field[Line.name] = NULL))'
    BY DEF Told, Line
  <1> QED
    BY <1>1, <1>2, <1>3, <1>4 DEF Told

\* The words of a KEYWORDS line are read on top of those before it.
LEMMA KeywordsOfLine ==
    ASSUME FilesAssumption, Core, NEW r \in 1 .. Len(file), KeywordsTold(r), NothingElse,
           file' = file,
           keywords' = IF file[r].name = "KEYWORDS" THEN Keywords(keywords, file[r].value) ELSE keywords
    PROVE  KeywordsTold(r + 1)' /\ keywords' = [a \in Arch |-> keywords'[a]]
  <1>1. CASE file[r].name # "KEYWORDS"
    <2>1. \A a \in Arch : MeantFor(a, r + 1) = MeantFor(a, r)
      BY <1>1, NotNamed DEF MeantFor
    <2>2. \A a \in Arch : MeantFor(a, r + 1)' = MeantFor(a, r)
      BY <2>1 DEF MeantFor, WordsBefore, WordsOf, LinesOf, Word
    <2>3. KeywordsTold(r + 1)'
      <3>1. keywords' = keywords
        BY <1>1
      <3> QED
        BY <2>2, <3>1 DEF KeywordsTold, LatestIn, Word
    <2> QED
      BY <1>1, <2>3 DEF NothingElse
  <1>2. CASE file[r].name = "KEYWORDS"
    <2> DEFINE words == file[r].value
               n == Len(words)
    <2>1. n \in Nat /\ DOMAIN words = 1 .. n /\ words \in Seq(Range(words))
      <3>1. r \in LinesOf("KEYWORDS")
        BY <1>2, Numbered DEF LinesOf
      <3> QED
        BY <3>1, Numbered
    <2>2. keywords' = KeywordsAt(keywords, words, DOMAIN words)
      BY <1>2, <2>1, KeywordsRead DEF NothingElse
    <2>3. keywords' = [a \in Arch |-> keywords'[a]]
      BY <2>2 DEF KeywordsAt
    <2>4. ASSUME NEW a \in Arch
          PROVE  /\ MeantFor(a, r + 1)' = {} => keywords'[a] = "NONE"
                 /\ \A p : LatestIn(p, MeantFor(a, r + 1)') => keywords'[a] = Word(p)'.keyword
      <3> DEFINE x == For(words, DOMAIN words, a)
                 old == MeantFor(a, r)
                 new == MeantFor(a, r + 1)
      <3>1. new = old \cup {<<r, j>> : j \in x}
        <4>1. WordsBefore("KEYWORDS", r + 1) = WordsBefore("KEYWORDS", r) \cup ({r} \X DOMAIN words)
          BY <1>2, OneMoreLine
        <4>2. \A j \in DOMAIN words : Word(<<r, j>>) = words[j]
          BY DEF Word
        <4> HIDE DEF words
        <4> QED
          BY <4>1, <4>2 DEF MeantFor, For
      <3>2. MeantFor(a, r + 1)' = new /\ \A p : Word(p)' = Word(p)
        BY DEF MeantFor, WordsBefore, WordsOf, LinesOf, Word
      <3>3. keywords'[a] = IF x = {} THEN keywords[a] ELSE words[Max(x)].keyword
        BY <2>2 DEF KeywordsAt
      <3>4. /\ old = {} => keywords[a] = "NONE"
            /\ \A p : LatestIn(p, old) => keywords[a] = Word(p).keyword
        BY DEF KeywordsTold
      <3>5. x # {} => Max(x) \in x /\ \A j \in x : j <= Max(x)
        <4>1. x \subseteq 1 .. n
          BY <2>1 DEF For
        <4> HIDE DEF x, words, n
        <4> QED
          BY <2>1, <4>1, LastPlace
      <3>6. \A p \in old : p[1] < r /\ p[1] \in Int
        <4>1. \A p \in WordsOf("KEYWORDS") : p[1] \in LinesOf("KEYWORDS")
          BY DEF WordsOf
        <4>2. \A i \in LinesOf("KEYWORDS") : i \in Int
          BY Numbered
        <4> QED
          BY <4>1, <4>2 DEF MeantFor, WordsBefore
      <3>7. \A j \in x : j \in Int /\ Word(<<r, j>>) = words[j]
        BY <2>1 DEF For, Word
      <3>8. r \in Int
        BY Numbered
      <3> HIDE DEF x, old, new, words
      <3>9. new = {} => keywords'[a] = "NONE"
        BY <3>1, <3>3, <3>4
      <3>10. ASSUME NEW p, LatestIn(p, new)
             PROVE  keywords'[a] = Word(p).keyword
        <4>1. p \in new /\ \A q \in new : q[1] < p[1] \/ (q[1] = p[1] /\ q[2] <= p[2])
          BY <3>10 DEF LatestIn
        <4>2. CASE x = {}
          <5>1. LatestIn(p, old)
            BY <3>1, <4>1, <4>2 DEF LatestIn
          <5> QED
            BY <3>3, <3>4, <4>2, <5>1
        <4>3. CASE x # {}
          <5>1. PICK m \in x : m = Max(x) /\ \A j \in x : j <= m
            BY <3>5, <4>3
          <5>2. <<r, m>> \in new
            BY <3>1
          <5>3. r < p[1] \/ (r = p[1] /\ m <= p[2])
            BY <4>1, <5>2
          <5>4. p \notin old
            BY <3>6, <3>8, <5>3
          <5>5. PICK j \in x : p = <<r, j>>
            BY <3>1, <4>1, <5>4
          <5>6. j = m
            <6>1. j \in Int /\ m \in Int /\ r = p[1] /\ j = p[2]
              BY <3>7, <5>5
            <6>2. m <= j /\ j <= m
              BY <3>8, <5>1, <5>3, <6>1
            <6> QED
              BY <6>1, <6>2
          <5> QED
            BY <3>3, <3>7, <4>3, <5>1, <5>5, <5>6
        <4> QED
          BY <4>2, <4>3
      <3> QED
        BY <3>2, <3>9, <3>10
    <2>5. KeywordsTold(r + 1)'
      BY <2>4 DEF KeywordsTold, LatestIn
    <2> QED
      BY <2>3, <2>5
  <1> QED
    BY <1>1, <1>2

\* The words of an IUSE line are read on top of those before it.
LEMMA IuseOfLine ==
    ASSUME FilesAssumption, Core, NEW r \in 1 .. Len(file), IuseTold(r), NothingElse,
           file' = file,
           iuse' = IF file[r].name = "IUSE" THEN Iuse(iuse, file[r].value) ELSE iuse
    PROVE  IuseTold(r + 1)'
  <1>1. CASE file[r].name # "IUSE"
    <2>1. \A x : Setting(x, r + 1) = Setting(x, r)
      BY <1>1, NotNamed DEF Setting
    <2>2. \A x : Setting(x, r + 1)' = Setting(x, r)
      BY <2>1 DEF Setting, WordsBefore, WordsOf, LinesOf, Word
    <2>3. iuse' = iuse
      BY <1>1
    <2> QED
      BY <2>2, <2>3 DEF IuseTold, LatestIn, Word
  <1>2. CASE file[r].name = "IUSE"
    <2> DEFINE words == file[r].value
               n == Len(words)
    <2>1. n \in Nat /\ DOMAIN words = 1 .. n /\ words \in Seq(Range(words))
      <3>1. r \in LinesOf("IUSE")
        BY <1>2, Numbered DEF LinesOf
      <3> QED
        BY <3>1, Numbered
    <2>2. iuse' = IuseAt(iuse, words, DOMAIN words)
      BY <1>2, <2>1, IuseRead DEF NothingElse
    <2>3. ASSUME NEW f
          PROVE  /\ Setting(f, r + 1)' # {} => f \in DOMAIN iuse'
                 /\ \A p : LatestIn(p, Setting(f, r + 1)') => iuse'[f] = Word(p)'.state
      <3> DEFINE x == Of(words, DOMAIN words, f)
                 old == Setting(f, r)
                 new == Setting(f, r + 1)
      <3>1. new = old \cup {<<r, j>> : j \in x}
        <4>1. WordsBefore("IUSE", r + 1) = WordsBefore("IUSE", r) \cup ({r} \X DOMAIN words)
          BY <1>2, OneMoreLine
        <4>2. \A j \in DOMAIN words : Word(<<r, j>>) = words[j]
          BY DEF Word
        <4> HIDE DEF words
        <4> QED
          BY <4>1, <4>2 DEF Setting, Of
      <3>2. Setting(f, r + 1)' = new /\ \A p : Word(p)' = Word(p)
        BY DEF Setting, WordsBefore, WordsOf, LinesOf, Word
      <3>3. /\ old # {} => f \in DOMAIN iuse
            /\ \A p : LatestIn(p, old) => iuse[f] = Word(p).state
        BY DEF IuseTold
      <3>4. /\ DOMAIN iuse' = (DOMAIN iuse) \cup {words[i].flag : i \in DOMAIN words}
            /\ f \in DOMAIN iuse' => iuse'[f] = IF x = {} THEN iuse[f] ELSE words[Max(x)].state
        BY <2>2 DEF IuseAt
      <3>5. x # {} => Max(x) \in x /\ \A j \in x : j <= Max(x)
        <4>1. x \subseteq 1 .. n
          BY <2>1 DEF Of
        <4> HIDE DEF x, words, n
        <4> QED
          BY <2>1, <4>1, LastPlace
      <3>6. \A p \in old : p[1] < r /\ p[1] \in Int
        <4>1. \A p \in WordsOf("IUSE") : p[1] \in LinesOf("IUSE")
          BY DEF WordsOf
        <4>2. \A i \in LinesOf("IUSE") : i \in Int
          BY Numbered
        <4> QED
          BY <4>1, <4>2 DEF Setting, WordsBefore
      <3>7. \A j \in x : j \in Int /\ Word(<<r, j>>) = words[j]
        BY <2>1 DEF Of, Word
      <3>8. r \in Int
        BY Numbered
      <3>9. new # {} => f \in DOMAIN iuse'
        BY <3>1, <3>3, <3>4 DEF Of
      <3> HIDE DEF x, old, new, words
      <3>10. ASSUME NEW p, LatestIn(p, new)
             PROVE  iuse'[f] = Word(p).state
        <4>1. p \in new /\ \A q \in new : q[1] < p[1] \/ (q[1] = p[1] /\ q[2] <= p[2])
          BY <3>10 DEF LatestIn
        <4>2. CASE x = {}
          <5>1. LatestIn(p, old)
            BY <3>1, <4>1, <4>2 DEF LatestIn
          <5> QED
            BY <3>3, <3>4, <3>9, <4>1, <4>2, <5>1
        <4>3. CASE x # {}
          <5>1. PICK m \in x : m = Max(x) /\ \A j \in x : j <= m
            BY <3>5, <4>3
          <5>2. <<r, m>> \in new
            BY <3>1
          <5>3. r < p[1] \/ (r = p[1] /\ m <= p[2])
            BY <4>1, <5>2
          <5>4. p \notin old
            BY <3>6, <3>8, <5>3
          <5>5. PICK j \in x : p = <<r, j>>
            BY <3>1, <4>1, <5>4
          <5>6. j = m
            <6>1. j \in Int /\ m \in Int /\ r = p[1] /\ j = p[2]
              BY <3>7, <5>5
            <6>2. m <= j /\ j <= m
              BY <3>8, <5>1, <5>3, <6>1
            <6> QED
              BY <6>1, <6>2
          <5> QED
            BY <3>4, <3>7, <3>9, <4>1, <4>3, <5>1, <5>5, <5>6
        <4> QED
          BY <4>2, <4>3
      <3> QED
        BY <3>2, <3>9, <3>10
    <2> QED
      BY <2>3 DEF IuseTold, LatestIn
  <1> QED
    BY <1>1, <1>2

\* The flags of the ebuild are those that IUSE lines name.
LEMMA IuseNamed ==
    ASSUME FilesAssumption, Core, NEW r \in 1 .. Len(file), NothingElse, file' = file,
           iuse' = IF file[r].name = "IUSE" THEN Iuse(iuse, file[r].value) ELSE iuse
    PROVE  /\ (DOMAIN iuse \subseteq {Word(p).flag : p \in WordsOf("IUSE")})'
           /\ iuse' = [x \in DOMAIN iuse' |-> iuse'[x]]
  <1>1. {Word(p).flag : p \in WordsOf("IUSE")}' = {Word(p).flag : p \in WordsOf("IUSE")}
    BY DEF Word, WordsOf, LinesOf
  <1>2. CASE file[r].name # "IUSE"
    <2>1. iuse' = iuse
      BY <1>2
    <2> QED
      BY <1>1, <2>1 DEF NothingElse
  <1>3. CASE file[r].name = "IUSE"
    <2> DEFINE words == file[r].value
    <2>1. r \in LinesOf("IUSE")
      BY <1>3, Numbered DEF LinesOf
    <2>2. words \in Seq(Range(words))
      BY <2>1, Numbered
    <2>3. iuse' = IuseAt(iuse, words, DOMAIN words)
      BY <1>3, <2>2, IuseRead DEF NothingElse
    <2>4. ASSUME NEW j \in DOMAIN words
          PROVE  words[j].flag \in {Word(p).flag : p \in WordsOf("IUSE")}
      <3>1. <<r, j>> \in WordsOf("IUSE") /\ Word(<<r, j>>) = words[j]
        BY <2>1 DEF WordsOf, Word
      <3> QED
        BY <3>1
    <2>5. DOMAIN iuse' = (DOMAIN iuse) \cup {words[i].flag : i \in DOMAIN words}
          /\ iuse' = [x \in DOMAIN iuse' |-> iuse'[x]]
      BY <2>3 DEF IuseAt
    <2> QED
      BY <1>1, <2>4, <2>5 DEF NothingElse
  <1> QED
    BY <1>2, <1>3

\* A slot line
LEMMA SlotOfLine ==
    ASSUME FilesAssumption, Core, NEW r \in 1 .. Len(file), SlotTold(r), file' = file,
           slot' = IF file[r].name = "SLOT" THEN Slot(slot, file[r].value) ELSE slot
    PROVE  SlotTold(r + 1)'
  <1> SUFFICES ASSUME NEW m, LastIn(m, Before("SLOT", r + 1))
               PROVE  slot'.slot = file[m].value.slot
    BY DEF SlotTold, LastIn, Before, LinesOf
  <1>1. CASE file[r].name # "SLOT"
    <2>1. LastIn(m, Before("SLOT", r))
      BY <1>1, NotNamed
    <2> QED
      BY <1>1, <2>1 DEF SlotTold
  <1>2. CASE file[r].name = "SLOT"
    <2>1. m \in LinesOf("SLOT") /\ m < r + 1 /\ r <= m
      <3>1. r \in Before("SLOT", r + 1)
        <4>1. Before("SLOT", r + 1) = Before("SLOT", r) \cup {i \in {r} : file[r].name = "SLOT"}
          BY OneMoreLine
        <4> QED
          BY <1>2, <4>1
      <3> QED
        BY <3>1 DEF LastIn, Before
    <2>2. m = r
      BY <2>1, Numbered
    <2> QED
      BY <1>2, <2>2 DEF Slot
  <1> QED
    BY <1>1, <1>2

\* A line that is not a text adds none.
LEMMA TextsOfOther ==
    ASSUME FilesAssumption, Core, NEW r \in 1 .. Len(file), file[r].name \notin TextName,
           OneLine(r), TextsTold(r)
    PROVE  OneLine(r + 1) /\ TextsTold(r + 1)
  <1>1. \A name \in TextName : Before(name, r + 1) = Before(name, r)
    BY NotNamed
  <1>2. DependName \subseteq TextName
    BY DEF TextName
  <1> QED
    BY <1>1, <1>2 DEF OneLine, TextsTold

\* What is not there was not told of.
LEMMA NotYetTold ==
    ASSUME FilesAssumption, Core, NEW r, TextsTold(r), NEW name \in TextName, field[name] = NULL
    PROVE  Before(name, r) = {}
  <1> SUFFICES ASSUME Before(name, r) # {} PROVE FALSE
    OBVIOUS
  <1>1. Before(name, r) \subseteq 1 .. Len(file)
    BY Numbered DEF Before
  <1>2. PICK m : LastIn(m, Before(name, r))
    BY <1>1, LastLine
  <1> QED
    BY <1>2 DEF TextsTold, LineText

\* A text line adds its text.
LEMMA TextsOfLine ==
    ASSUME FilesAssumption, Core, NEW r \in 1 .. Len(file), file[r].name \in TextName,
           OneLine(r), TextsTold(r), TextsSame, file' = file,
           file[r].name \in DependName => field[file[r].name] = NULL,
           \A name \in TextName : name # file[r].name => field'[name] = field[name],
           LineText(file[r].name, r)'
    PROVE  OneLine(r + 1)' /\ TextsTold(r + 1)'
  <1>1. OneLine(r + 1)'
    <2> SUFFICES ASSUME NEW name \in DependName, NEW i \in Before(name, r + 1), NEW j \in Before(name, r + 1)
                 PROVE  i = j
      BY DEF OneLine, Before, LinesOf
    <2>1. name \in TextName
      BY DEF TextName
    <2>2. CASE name # file[r].name
      BY <2>2, NotNamed DEF OneLine
    <2>3. CASE name = file[r].name
      <3>1. Before(name, r) = {}
        BY <2>1, <2>3, NotYetTold
      <3>2. Before(name, r + 1) = Before(name, r) \cup {k \in {r} : file[r].name = name}
        BY OneMoreLine
      <3> QED
        BY <3>1, <3>2
    <2> QED
      BY <2>2, <2>3
  <1>2. TextsTold(r + 1)'
    <2> SUFFICES ASSUME NEW name \in TextName, NEW m, LastIn(m, Before(name, r + 1))
                 PROVE  LineText(name, m)'
      BY DEF TextsTold, LastIn, Before, LinesOf
    <2>1. CASE name # file[r].name
      <3>1. LineText(name, m)
        BY <2>1, NotNamed DEF TextsTold
      <3>2. field'[name] = field[name]
        BY <2>1
      <3>3. Unparsed(field[name])' = Unparsed(field[name])
        BY <3>1, <3>2 DEF LineText, TextsSame
      <3> QED
        BY <3>1, <3>2, <3>3 DEF LineText
    <2>2. CASE name = file[r].name
      <3>1. r \in Before(name, r + 1)
        <4>1. Before(name, r + 1) = Before(name, r) \cup {i \in {r} : file[r].name = name}
          BY OneMoreLine
        <4> QED
          BY <2>2, <4>1
      <3>2. m \in LinesOf(name) /\ m < r + 1 /\ r <= m
        BY <3>1 DEF LastIn, Before
      <3>3. m = r
        BY <3>2, Numbered
      <3> QED
        BY <2>2, <3>3
    <2> QED
      BY <2>1, <2>2
  <1> QED
    BY <1>1, <1>2

\* Slots, flags and keywords do not come from text lines.
LEMMA WordsOfText ==
    ASSUME FilesAssumption, Core, NEW r \in 1 .. Len(file), file[r].name \in TextName, NothingElse,
           SlotTold(r), KeywordsTold(r), IuseTold(r), UNCHANGED <<file, slot, iuse, keywords>>
    PROVE  SlotTold(r + 1)' /\ KeywordsTold(r + 1)' /\ IuseTold(r + 1)'
  <1>1. file[r].name \notin {"SLOT", "IUSE", "KEYWORDS"}
    BY DEF TextName, DependName
  <1> QED
    BY <1>1, SlotOfLine, KeywordsOfLine, IuseOfLine

\* What the parser returned for a line is stored as its text.
StoredTold ==
    \A name, r : StoreText /\ Root # NULL /\ name = Line.name /\ r = reading => LineText(name, r)'

\* A line is read that is not a text.
LEMMA ReadOtherTold ==
    ASSUME FilesAssumption, Core, Told, TextsSame, ReadOther
    PROVE  Told'
  <1>1. PICK r : r = reading
    OBVIOUS
  <1>2. /\ r \in 1 .. Len(file) /\ job = NULL /\ job' = NULL /\ file[r].name \notin TextName
        /\ reading' = r + 1
        /\ slot' = IF file[r].name = "SLOT" THEN Slot(slot, file[r].value) ELSE slot
        /\ iuse' = IF file[r].name = "IUSE" THEN Iuse(iuse, file[r].value) ELSE iuse
        /\ keywords' = IF file[r].name = "KEYWORDS" THEN Keywords(keywords, file[r].value) ELSE keywords
        /\ UNCHANGED <<file, field, metadata_init, error, gone>>
    BY <1>1 DEF ReadOther, ReadingLine, Line, exprs
  <1>3. r \in Nat /\ Len(file) \in Nat /\ r <= Len(file) /\ r > 0
    BY <1>2, Numbered
  <1>4. ~gone /\ ~metadata_init /\ NothingElse /\ (error = 0 => ReadTo(r))
    BY <1>1, <1>3 DEF Told
  <1>5. error = 0 => ReadTo(r + 1)'
    <2> SUFFICES ASSUME error = 0 PROVE ReadTo(r + 1)'
      OBVIOUS
    <2>1. OneLine(r) /\ TextsTold(r) /\ SlotTold(r) /\ KeywordsTold(r) /\ IuseTold(r)
      BY <1>4 DEF ReadTo
    <2>2. OneLine(r + 1) /\ TextsTold(r + 1)
      BY <1>2, <2>1, TextsOfOther
    <2>3. OneLine(r + 1)'
      BY <1>2, <2>2 DEF OneLine, Before, LinesOf
    <2>4. TextsTold(r + 1)'
      <3>1. PICK n : n = r + 1
        OBVIOUS
      <3>2. TextsTold(n)'
        BY <1>2, <2>2, <3>1, TextsKept
      <3> QED
        BY <3>1, <3>2
    <2>5. SlotTold(r + 1)'
      BY <1>2, <2>1, SlotOfLine
    <2>6. KeywordsTold(r + 1)'
      BY <1>2, <1>4, <2>1, KeywordsOfLine
    <2>7. IuseTold(r + 1)'
      BY <1>2, <1>4, <2>1, IuseOfLine
    <2> QED
      BY <2>3, <2>4, <2>5, <2>6, <2>7 DEF ReadTo
  <1>6. NothingElse'
    <2>1. keywords' = [a \in Arch |-> keywords'[a]]
      <3>1. CASE file[r].name # "KEYWORDS"
        BY <1>2, <1>4, <3>1 DEF NothingElse
      <3>2. CASE file[r].name = "KEYWORDS"
        <4>1. file[r].value \in Seq(Range(file[r].value))
          <5>1. r \in LinesOf("KEYWORDS")
            BY <1>2, <3>2, Numbered DEF LinesOf
          <5> QED
            BY <5>1, Numbered
        <4>2. keywords' = KeywordsAt(keywords, file[r].value, DOMAIN file[r].value)
          BY <1>2, <1>4, <3>2, <4>1, KeywordsRead DEF NothingElse
        <4> QED
          BY <4>2 DEF KeywordsAt
      <3> QED
        BY <3>1, <3>2
    <2>2. /\ (DOMAIN iuse \subseteq {Word(p).flag : p \in WordsOf("IUSE")})'
          /\ iuse' = [x \in DOMAIN iuse' |-> iuse'[x]]
      BY <1>2, <1>4, IuseNamed
    <2>3. (\A name \in TextName : field[name] # NULL => LinesOf(name) # {})'
      BY <1>2, <1>4 DEF NothingElse, LinesOf
    <2> QED
      BY <2>1, <2>2, <2>3 DEF NothingElse
  <1>7. reading' <= Len(file') + 1 /\ ~gone' /\ ~metadata_init' /\ job' = NULL
    BY <1>2, <1>3, <1>4
  <1>8. (reading > 0 /\ error = 0 => ReadTo(reading))'
    BY <1>2, <1>5
  <1> QED
    BY <1>6, <1>7, <1>8 DEF Told

\* The parser is called for a line, or it is passed over with an error.
LEMMA ReadTextTold ==
    ASSUME FilesAssumption, Core, Told, TextsSame, ReadText
    PROVE  Told'
  <1>1. /\ reading \in 1 .. Len(file) /\ job = NULL /\ Line.name \in TextName
        /\ UNCHANGED <<file, field, slot, iuse, keywords, metadata_init, gone>>
    BY DEF ReadText, ReadingLine
  <1>2. reading \in Nat /\ Len(file) \in Nat /\ reading <= Len(file) /\ reading > 0
    BY <1>1, Numbered
  <1>3. NothingElse' /\ ~gone' /\ ~metadata_init'
    BY <1>1, <1>2, NothingElseKept DEF Told
  <1>4. CASE Line.name \in DependName /\ field[Line.name] # NULL
    <2>1. error' = 1 /\ reading' = reading + 1 /\ job' = NULL
      BY <1>1, <1>4 DEF ReadText
    <2> QED
      BY <1>1, <1>2, <1>3, <2>1 DEF Told
  <1>5. CASE ~ (Line.name \in DependName /\ field[Line.name] # NULL)
    <2>1. job' = Parser(Line.value, NULL) /\ error' = error /\ reading' = reading
      BY <1>5 DEF ReadText
    <2>2. job'.text = Line.value /\ Line' = Line
      BY <1>1, <2>1 DEF Parser, Line
    <2>3. error = 0 => ReadTo(reading)'
      <3>1. PICK r : r = reading
        OBVIOUS
      <3>2. ReadTo(r) => ReadTo(r)'
        BY <1>1, ReadToKept
      <3> QED
        BY <1>2, <2>1, <3>1, <3>2 DEF Told
    <2> QED
      BY <1>1, <1>2, <1>3, <1>5, <2>1, <2>2, <2>3 DEF Told
  <1> QED
    BY <1>4, <1>5

\* What the parser returned is stored, or was an error.
LEMMA StoreTold ==
    ASSUME FilesAssumption, Core, Told, TextsSame, StoredTold, StoreText
    PROVE  Told'
  <1>1. PICK r : r = reading
    OBVIOUS
  <1>2. PICK name : name = Line.name
    OBVIOUS
  <1>3. /\ job # NULL /\ job.self = NULL /\ job' = NULL
        /\ field' = [field EXCEPT ![name] = Root]
        /\ error' = IF Root # NULL THEN error ELSE IF name \in DependName THEN 2 ELSE 3
        /\ reading' = IF Root = NULL /\ name = "REQUIRED_USE" THEN Len(file) + 1 ELSE r + 1
        /\ UNCHANGED <<file, slot, iuse, keywords, metadata_init, gone>>
    BY <1>1, <1>2 DEF StoreText, AtEnd
  <1>4. r \in 1 .. Len(file) /\ name \in TextName /\ name = file[r].name
    BY <1>1, <1>2, <1>3 DEF Core, Parsing, Line
  <1>5. r \in Nat /\ Len(file) \in Nat /\ r <= Len(file) /\ r > 0 /\ r \in LinesOf(name)
    BY <1>4, Numbered DEF LinesOf
  <1>6. ~gone /\ ~metadata_init /\ NothingElse /\ (error = 0 => ReadTo(r))
    BY <1>1, <1>5 DEF Told
  <1>7. DOMAIN field = TextName
    BY DEF Core, Shape
  <1>8. NothingElse'
    <2>1. (\A n \in TextName : field[n] # NULL => LinesOf(n) # {})'
      BY <1>3, <1>5, <1>6, <1>7 DEF NothingElse, LinesOf
    <2> QED
      BY <1>3, <1>6, <2>1 DEF NothingElse, WordsOf, LinesOf, Word
  <1>9. error' = 0 => ReadTo(r + 1)' /\ reading' = r + 1
    <2> SUFFICES ASSUME error' = 0 PROVE ReadTo(r + 1)' /\ reading' = r + 1
      OBVIOUS
    <2>1. Root # NULL /\ error = 0 /\ reading' = r + 1
      <3>1. Root # NULL
        BY <1>3
      <3> QED
        BY <1>3, <3>1
    <2>2. OneLine(r) /\ TextsTold(r) /\ SlotTold(r) /\ KeywordsTold(r) /\ IuseTold(r)
      BY <1>6, <2>1 DEF ReadTo
    <2>3. LineText(name, r)'
      BY <1>1, <1>2, <2>1 DEF StoredTold
    <2>4. name \in DependName => field[name] = NULL
      BY <1>2, <1>3 DEF Told
    <2>5. \A n \in TextName : n # name => field'[n] = field[n]
      BY <1>3, <1>7
    <2>6. OneLine(r + 1)' /\ TextsTold(r + 1)'
      BY <1>3, <1>4, <2>2, <2>3, <2>4, <2>5, TextsOfLine
    <2>7. SlotTold(r + 1)' /\ KeywordsTold(r + 1)' /\ IuseTold(r + 1)'
      BY <1>3, <1>4, <1>6, <2>2, WordsOfText
    <2> QED
      BY <2>1, <2>6, <2>7 DEF ReadTo
  <1>10. reading' <= Len(file') + 1
    BY <1>3, <1>5
  <1>11. ~gone' /\ ~metadata_init' /\ job' = NULL
    BY <1>3, <1>6
  <1>12. (reading > 0 /\ error = 0 => ReadTo(reading))'
    BY <1>9
  <1> QED
    BY <1>8, <1>10, <1>11, <1>12 DEF Told

\* Reading starts, or starts again.
LEMMA StartTold ==
    ASSUME FilesAssumption, Core, Told, StartReading
    PROVE  Told'
  <1>1. /\ reading' = 1 /\ job' = NULL /\ ~gone' /\ ~metadata_init'
        /\ keywords' = [a \in Arch |-> "NONE"]
        /\ UNCHANGED <<file, field, slot, iuse>>
    BY DEF StartReading, exprs
  <1>2. \A name : Before(name, 1)' = {} /\ WordsBefore(name, 1)' = {}
    BY <1>1, NothingBefore DEF Before, WordsBefore, WordsOf, LinesOf
  <1>3. ReadTo(1)'
    <2>1. \A m : ~ LastIn(m, {}) /\ ~ LatestIn(m, {})
      BY DEF LastIn, LatestIn
    <2>2. \A a, x : MeantFor(a, 1)' = {} /\ Setting(x, 1)' = {}
      BY <1>2 DEF MeantFor, Setting
    <2>3. OneLine(1)'
      BY <1>2 DEF OneLine
    <2>4. TextsTold(1)'
      BY <1>2, <2>1 DEF TextsTold, LastIn
    <2>5. SlotTold(1)'
      BY <1>2, <2>1 DEF SlotTold, LastIn
    <2>6. KeywordsTold(1)' /\ IuseTold(1)'
      BY <1>1, <2>1, <2>2 DEF KeywordsTold, IuseTold, LatestIn
    <2> QED
      BY <2>3, <2>4, <2>5, <2>6 DEF ReadTo
  <1>4. NothingElse'
    BY <1>1 DEF Told, NothingElse, WordsOf, LinesOf, Word
  <1>5. reading' <= Len(file') + 1
    BY <1>1, Numbered
  <1>6. (reading > 0 /\ error = 0 => ReadTo(reading))'
    BY <1>1, <1>3
  <1> QED
    BY <1>1, <1>4, <1>5, <1>6 DEF Told

\* Reading ends.
LEMMA EndTold ==
    ASSUME FilesAssumption, Core, Told, TextsSame, EndReading
    PROVE  Told'
  <1>1. /\ reading > Len(file) /\ reading' = 0 /\ job' = NULL
        /\ metadata_init' = (metadata_init \/ error = 0)
        /\ UNCHANGED <<file, field, slot, iuse, keywords, gone>>
    BY DEF EndReading, exprs
  <1>2. reading = Len(file) + 1 /\ reading > 0 /\ Len(file) \in Nat
    <2>1. reading \in Nat /\ Len(file) \in Nat
      BY Numbered DEF Core, Shape
    <2> QED
      BY <1>1, <2>1 DEF Told
  <1>3. NothingElse' /\ ~metadata_init
    BY <1>1, <1>2, NothingElseKept DEF Told
  <1>4. (metadata_init /\ ~gone => ReadTo(Len(file) + 1))'
    <2> SUFFICES ASSUME metadata_init' PROVE ReadTo(Len(file) + 1)'
      OBVIOUS
    <2>1. PICK r : r = Len(file) + 1
      OBVIOUS
    <2>2. ReadTo(r)
      BY <1>1, <1>2, <1>3, <2>1 DEF Told
    <2>3. ReadTo(r)' /\ r = Len(file') + 1
      BY <1>1, <2>1, <2>2, ReadToKept
    <2> QED
      BY <2>3
  <1> QED
    BY <1>1, <1>2, <1>3, <1>4 DEF Told

\* The ebuild is deallocated.
LEMMA DeallocTold ==
    ASSUME FilesAssumption, Core, Told, reading = 0, Dealloc
    PROVE  Told'
  <1>1. /\ gone' /\ reading' = 0 /\ job' = NULL /\ field' = [name \in TextName |-> NULL]
        /\ UNCHANGED <<file, iuse, keywords>>
    BY DEF Dealloc, Idle
  <1>2. NothingElse'
    BY <1>1 DEF Told, NothingElse, WordsOf, LinesOf, Word
  <1>3. reading' <= Len(file') + 1
    BY <1>1, Numbered
  <1> QED
    BY <1>1, <1>2, <1>3 DEF Told

\* Every step keeps what was read.
LEMMA NextTold ==
    ASSUME FilesAssumption, Core, Told, TextsSame, StoredTold, [MetadataNext]_all
    PROVE  Told'
  <1>1. CASE Python /\ UNCHANGED ebuild
    <2>1. /\ UNCHANGED <<file, field, slot, iuse, keywords, metadata_init, reading, error, gone>>
          /\ \A text, c : Parser(text, c).self = c
      BY <1>1 DEF ebuild, Parser
    <2>2. job' = NULL \/ job'.self # NULL
      <3>1. ASSUME NEW text \in Texts, Construct(text)
            PROVE  job'.self # NULL
        <4>1. Fresh \in Cell
          BY <3>1, FreshIn, CellAssumption DEF Construct, Core
        <4>2. job'.self = Fresh
          BY <2>1, <3>1 DEF Construct
        <4> QED
          BY <4>1, <4>2, CellAssumption DEF CellAssumption
      <3>2. ASSUME NEW l \in DOMAIN loops, ReadCondition(l)
            PROVE  job' = NULL
        BY <3>2 DEF ReadCondition, exprs
      <3> QED
        BY <1>1, <3>1, <3>2 DEF Python, TakeMember, Forget, StartLoop, LoopNext, EndLoop, Idle
    <2> QED
      BY <2>1, <2>2, ToldAside
  <1>2. CASE reading = 0 /\ Dealloc
    BY <1>2, DeallocTold
  <1>3. ASSUME NEW name \in TextName, TakeField(name)
        PROVE  Told'
    <2>1. UNCHANGED <<file, field, slot, iuse, keywords, metadata_init, reading, error, gone>> /\ job' = NULL
      BY <1>3 DEF TakeField, Idle, ebuild
    <2> QED
      BY <2>1, ToldAside
  <1>4. CASE Reduce /\ UNCHANGED ebuild
    <2>1. UNCHANGED <<file, field, slot, iuse, keywords, metadata_init, reading, error, gone>>
      BY <1>4 DEF ebuild
    <2>2. job # NULL /\ job'.text = job.text /\ job'.self = job.self
      <3>1. job # NULL /\ job \in ParserState
        BY <1>4 DEF Reduce, Core, Parsing
      <3> QED
        BY <1>4, <3>1 DEF Reduce, ReduceNode, ReduceParen, ParserState
    <2> QED
      BY <2>1, <2>2, ToldAside
  <1>5. CASE Constructed /\ UNCHANGED ebuild
    <2>1. UNCHANGED <<file, field, slot, iuse, keywords, metadata_init, reading, error, gone>> /\ job' = NULL
      BY <1>5 DEF ebuild, Constructed
    <2> QED
      BY <2>1, ToldAside
  <1>6. CASE StartReading
    BY <1>6, StartTold
  <1>7. CASE ReadText
    BY <1>7, ReadTextTold
  <1>8. CASE ReadOther
    BY <1>8, ReadOtherTold
  <1>9. CASE StoreText
    BY <1>9, StoreTold
  <1>10. CASE EndReading
    BY <1>10, EndTold
  <1>11. CASE UNCHANGED all
    <2>1. UNCHANGED <<file, field, slot, iuse, keywords, metadata_init, reading, error, gone, job>>
      BY <1>11 DEF all, exprs, ebuild
    <2> QED
      BY <2>1, ToldAside
  <1> QED
    BY <1>1, <1>2, <1>3, <1>4, <1>5, <1>6, <1>7, <1>8, <1>9, <1>10, <1>11 DEF MetadataNext

\* The invariant holds at the start,
LEMMA InitTold ==
    ASSUME FilesAssumption, Core, MetadataInit
    PROVE  Told
  <1>1. /\ job = NULL /\ field = [name \in TextName |-> NULL] /\ iuse = <<>>
        /\ keywords = [a \in Arch |-> "NONE"] /\ ~metadata_init /\ reading = 0
    BY DEF MetadataInit, NoNodes
  <1>2. iuse = [x \in {} |-> iuse[x]] /\ DOMAIN iuse = {}
    BY <1>1
  <1>3. NothingElse
    BY <1>1, <1>2 DEF NothingElse
  <1>4. reading <= Len(file) + 1
    BY <1>1, Numbered
  <1> QED
    BY <1>1, <1>3, <1>4 DEF Told

\* and says what the whole file says once it was read.
LEMMA WholeTold ==
    ASSUME FilesAssumption, Core, Told
    PROVE  MetadataWhole
  <1> SUFFICES ASSUME metadata_init, ~gone
               PROVE  /\ \A name \in DependName : \A i, j \in LinesOf(name) : i = j
                      /\ \A name \in TextName : TextWhole(name)
                      /\ LinesOf("SLOT") # {} => slot.slot = LastOf("SLOT").slot
                      /\ \A a \in Arch : KeywordWhole(a)
                      /\ IuseWhole
    BY DEF MetadataWhole
  <1> DEFINE r == Len(file) + 1
  <1>1. OneLine(r) /\ TextsTold(r) /\ SlotTold(r) /\ KeywordsTold(r) /\ IuseTold(r) /\ NothingElse
    BY DEF Told, ReadTo
  <1>2. \A name : Before(name, r) = LinesOf(name)
    <2>1. \A name : \A i \in LinesOf(name) : i < r
      BY Numbered
    <2> QED
      BY <2>1 DEF Before
  <1>3. \A name : WordsBefore(name, r) = WordsOf(name)
    <2>1. \A name : \A p \in WordsOf(name) : p[1] \in LinesOf(name)
      BY DEF WordsOf
    <2> QED
      BY <1>2, <2>1 DEF Before, WordsBefore
  <1> HIDE DEF r
  <1>4. ASSUME NEW name, LinesOf(name) # {}
        PROVE  \E m : LastIn(m, LinesOf(name)) /\ LastOf(name) = file[m].value
    <2>1. \E m : LastIn(m, LinesOf(name))
      BY <1>4, LastLine, Numbered
    <2> QED
      BY <2>1 DEF LastIn, LastOf
  <1>5. \A name \in DependName : \A i, j \in LinesOf(name) : i = j
    BY <1>1, <1>2 DEF OneLine
  <1>6. ASSUME NEW name \in TextName
        PROVE  TextWhole(name)
    <2>1. CASE LinesOf(name) = {}
      BY <1>1, <2>1 DEF TextWhole, NothingElse
    <2>2. CASE LinesOf(name) # {}
      <3>1. PICK m : LastIn(m, LinesOf(name)) /\ LastOf(name) = file[m].value
        BY <1>4, <2>2
      <3>2. LineText(name, m)
        BY <1>1, <1>2, <3>1 DEF TextsTold
      <3> QED
        BY <2>2, <3>1, <3>2 DEF TextWhole, LineText
    <2> QED
      BY <2>1, <2>2
  <1>7. LinesOf("SLOT") # {} => slot.slot = LastOf("SLOT").slot
    BY <1>1, <1>2, <1>4 DEF SlotTold
  <1>8. ASSUME NEW P, P \subseteq WordsOf("KEYWORDS") \/ P \subseteq WordsOf("IUSE"), P # {}
        PROVE  \E p : LatestIn(p, P) /\ LastWord(P) = Word(p)
    <2>1. \A q \in P : /\ q[1] \in 1 .. Len(file) /\ q[1] \in LinesOf("IUSE") \cup LinesOf("KEYWORDS")
                       /\ q[2] \in DOMAIN file[q[1]].value
      BY <1>8, Numbered DEF WordsOf
    <2> DEFINE A == {q[1] : q \in P}
    <2>2. A \subseteq 1 .. Len(file) /\ A # {} /\ Len(file) \in Nat
      BY <1>8, <2>1, Numbered
    <2>3. PICK i \in A : \A k \in A : k <= i
      <3> HIDE DEF A
      <3> QED
        BY <2>2, LastPlace
    <2> DEFINE B == {q[2] : q \in {u \in P : u[1] = i}}
    <2>4. Len(file[i].value) \in Nat /\ DOMAIN file[i].value = 1 .. Len(file[i].value)
      BY <2>1, <2>3, Numbered
    <2>5. B \subseteq 1 .. Len(file[i].value) /\ B # {}
      BY <2>1, <2>3, <2>4
    <2>6. PICK j \in B : \A k \in B : k <= j
      <3> HIDE DEF B
      <3> QED
        BY <2>4, <2>5, LastPlace
    <2>7. PICK p \in P : p[1] = i /\ p[2] = j
      BY <2>6
    <2>8. LatestIn(p, P)
      <3> SUFFICES ASSUME NEW q \in P
                   PROVE  q[1] < p[1] \/ (q[1] = p[1] /\ q[2] <= p[2])
        BY DEF LatestIn
      <3>1. q[1] \in Int /\ i \in Int /\ q[1] <= i
        BY <2>1, <2>2, <2>3
      <3>2. q[1] = i => q[2] <= j
        BY <2>6
      <3> QED
        BY <2>7, <3>1, <3>2
    <2> QED
      BY <2>8 DEF LatestIn, LastWord
  <1>9. ASSUME NEW a \in Arch
        PROVE  KeywordWhole(a)
    <2> DEFINE P == {p \in WordsOf("KEYWORDS") : Word(p).arch \in {a, "*"}}
    <2>1. MeantFor(a, r) = P
      BY <1>3 DEF MeantFor
    <2>2. P # {} => \E p : LatestIn(p, P) /\ LastWord(P) = Word(p)
      BY <1>8
    <2> HIDE DEF P
    <2>3. keywords[a] = IF P = {} THEN "NONE" ELSE LastWord(P).keyword
      BY <1>1, <2>1, <2>2 DEF KeywordsTold
    <2> QED
      BY <2>3 DEF KeywordWhole, P
  <1>10. IuseWhole
    <2>1. ASSUME NEW p \in WordsOf("IUSE")
          PROVE  Word(p).flag \in DOMAIN iuse
      <3>1. p \in Setting(Word(p).flag, r)
        BY <1>3 DEF Setting
      <3> QED
        BY <1>1, <3>1 DEF IuseTold
    <2>2. ASSUME NEW f \in DOMAIN iuse
          PROVE  iuse[f] = LastWord({p \in WordsOf("IUSE") : Word(p).flag = f}).state
      <3> DEFINE P == {p \in WordsOf("IUSE") : Word(p).flag = f}
      <3>1. Setting(f, r) = P /\ P # {}
        BY <1>1, <1>3 DEF Setting, NothingElse
      <3>2. PICK p : LatestIn(p, P) /\ LastWord(P) = Word(p)
        BY <1>8, <3>1
      <3> HIDE DEF P
      <3>3. iuse[f] = LastWord(P).state
        BY <1>1, <3>1, <3>2 DEF IuseTold
      <3> QED
        BY <3>3 DEF P
    <2> QED
      BY <1>1, <2>1, <2>2 DEF IuseWhole, NothingElse
  <1> QED
    BY <1>5, <1>6, <1>7, <1>9, <1>10

-----------------------------------------------------------------------------
(* The text of an expression.                                              *)

\* Writing down the nodes from d on, given how that is done for shorter ones.
Shown == {OperationOf(node[d]) : d \in Cell}
Written(f) ==
    [d \in Maybe(Cell) |->
        IF d = NULL THEN <<>>
        ELSE f[node[d].children] \o <<OperationOf(node[d])>> \o f[node[d].next]]
Nothing == [d \in Maybe(Cell) |-> <<>>]

\* The rounds of Unparsed.
LEMMA TextRounds ==
    ASSUME CellAssumption, node \in [Cell -> NodeRecord]
    PROVE  \E text : /\ text \in [Nat -> [Maybe(Cell) -> Seq(Shown)]]
                     /\ text[0] = Nothing /\ \A n \in Nat : text[n + 1] = Written(text[n])
                     /\ \A c \in Maybe(Cell) : Unparsed(c) = text[Cardinality(Live)][c]
  <1> DEFINE X == [Maybe(Cell) -> Seq(Shown)]
             G == [f \in X |-> Written(f)]
             text[n \in Nat] ==
                IF n = 0 THEN [d \in Maybe(Cell) |-> <<>>]
                ELSE LET inner == text[n - 1]
                     IN  [d \in Maybe(Cell) |->
                             IF d = NULL THEN <<>>
                             ELSE inner[node[d].children] \o <<OperationOf(node[d])>>
                                  \o inner[node[d].next]]
  <1>1. \A c : Unparsed(c) = text[Cardinality(Live)][c]
    BY DEF Unparsed
  <1>2. Nothing \in X
    BY EmptySeq DEF Nothing
  <1>3. ASSUME NEW f \in X
        PROVE  Written(f) \in X
    <2>1. ASSUME NEW d \in Maybe(Cell), d # NULL
          PROVE  f[node[d].children] \o <<OperationOf(node[d])>> \o f[node[d].next] \in Seq(Shown)
      <3> DEFINE o == OperationOf(node[d])
                 a == f[node[d].children]
                 b == f[node[d].next]
      <3>1. d \in Cell /\ node[d].next \in Maybe(Cell) /\ node[d].children \in Maybe(Cell)
        BY <2>1 DEF Maybe, NodeRecord
      <3>2. a \in Seq(Shown) /\ b \in Seq(Shown) /\ o \in Shown
        BY <3>1 DEF Shown
      <3> HIDE DEF a, b, o
      <3>3. <<o>> \in Seq(Shown)
        BY <3>2
      <3>4. a \o <<o>> \in Seq(Shown)
        BY <3>2, <3>3, ConcatProperties
      <3>5. (a \o <<o>>) \o b \in Seq(Shown)
        BY <3>2, <3>4, ConcatProperties
      <3> QED
        BY <3>5 DEF a, b, o
    <2> QED
      BY <2>1, EmptySeq DEF Written
  <1>4. PICK h \in [Nat -> X] : h[0] = Nothing /\ \A n \in Nat : h[n + 1] = G[h[n]]
    <2>1. G \in [X -> X]
      BY <1>3
    <2> HIDE DEF G, X, text
    <2>2. \E h : Orbit(h, X, G, Nothing)
      BY <1>2, <2>1, Iterated
    <2> QED
      BY <2>2 DEF Orbit
  <1> HIDE DEF X
  <1>5. \A n \in Nat : h[n] \in X /\ h[n + 1] = Written(h[n])
    BY <1>4
  <1> HIDE DEF G
  <1>6. h = [n \in Nat |-> IF n = 0 THEN Nothing ELSE Written(h[n - 1])]
    <2> SUFFICES ASSUME NEW n \in Nat, n # 0
                 PROVE  h[n] = Written(h[n - 1])
      BY <1>4
    <2>1. n - 1 \in Nat /\ (n - 1) + 1 = n
      OBVIOUS
    <2> QED
      BY <1>5, <2>1
  <1>7. text = [n \in Nat |-> IF n = 0 THEN Nothing ELSE Written(text[n - 1])]
    <2>1. text = CHOOSE g : g = [n \in Nat |-> IF n = 0 THEN Nothing ELSE Written(g[n - 1])]
      BY DEF text, Nothing, Written
    <2>2. \E g : g = [n \in Nat |-> IF n = 0 THEN Nothing ELSE Written(g[n - 1])]
      BY <1>6
    <2> HIDE DEF text
    <2> QED
      BY <2>1, <2>2
  <1> HIDE DEF text
  <1>8. text[0] = Nothing
    BY <1>7
  <1>9. \A n \in Nat : text[n + 1] = Written(text[n])
    <2> SUFFICES ASSUME NEW n \in Nat
                 PROVE  text[n + 1] = Written(text[n])
      OBVIOUS
    <2>1. n + 1 \in Nat /\ n + 1 # 0 /\ (n + 1) - 1 = n
      OBVIOUS
    <2> QED
      BY <1>7, <2>1
  <1>10. \A n \in Nat : text[n] = h[n]
    <2> DEFINE S == {n \in Nat : text[n] = h[n]}
    <2>1. 0 \in S
      BY <1>4, <1>8
    <2>2. \A n \in Nat : n \in S => n + 1 \in S
      BY <1>5, <1>9
    <2>3. Nat \subseteq S
      <3> HIDE DEF S
      <3> QED
        BY <2>1, <2>2, SetInduction
    <2> QED
      BY <2>3
  <1>11. Cardinality(Live) \in Nat
    BY FS_Subset, FS_CardinalityType DEF Live, CellAssumption
  <1>12. \A c : Unparsed(c) = h[Cardinality(Live)][c]
    BY <1>1, <1>10, <1>11
  <1> QED
    BY <1>4, <1>5, <1>12 DEF X

\* Nodes point to nodes in memory.
LEMMA PointersLive ==
    ASSUME CellAssumption, Core, NEW c \in Cell
    PROVE  node[c].next \in Maybe(Live) /\ node[c].children \in Maybe(Live)
  <1>1. node[c].next \in Maybe(Cell) /\ node[c].children \in Maybe(Cell)
    BY DEF Core, Shape, NodesTyped
  <1>2. \A b, d \in Cell : node[b].next = d \/ node[b].children = d => d \in Live
    BY Referred DEF Core
  <1> QED
    BY <1>1, <1>2 DEF Maybe

\* A node is written with what hangs from it before it and what follows after it.
TextRule ==
    /\ Unparsed(NULL) = <<>>
    /\ \A c \in Cell : Unparsed(c) \in Seq(Shown)
    /\ \A c \in Cell : count[c] # 0 =>
          Unparsed(c) = Unparsed(node[c].children) \o <<OperationOf(node[c])>> \o Unparsed(node[c].next)

\* Unparsed goes far enough.
LEMMA TextRuleHolds ==
    ASSUME CellAssumption, Core, Acyclic
    PROVE  TextRule
  <1>1. node \in [Cell -> NodeRecord] /\ Live \subseteq Cell /\ NULL \notin Cell
    BY DEF Core, Shape, NodesTyped, NodeRecord, Live, CellAssumption
  <1>2. PICK text : /\ text \in [Nat -> [Maybe(Cell) -> Seq(Shown)]]
                    /\ text[0] = Nothing /\ \A n \in Nat : text[n + 1] = Written(text[n])
                    /\ \A c \in Maybe(Cell) : Unparsed(c) = text[Cardinality(Live)][c]
    BY <1>1, TextRounds
  <1> DEFINE N == Cardinality(Live)
             D(k) == {c \in Live : \A n \in Nat : n >= k => text[n][c] = text[k][c]}
  <1>3. IsFiniteSet(Live) /\ N \in Nat
    <2>1. IsFiniteSet(Live)
      BY <1>1, FS_Subset DEF CellAssumption
    <2> QED
      BY <2>1, FS_CardinalityType
  <1>4. \A n \in Nat : text[n][NULL] = <<>>
    <2>1. NULL \in Maybe(Cell)
      BY DEF Maybe
    <2>2. text[0][NULL] = <<>>
      BY <1>2, <2>1 DEF Nothing
    <2>3. \A n \in Nat : text[n + 1][NULL] = <<>>
      BY <1>2, <2>1 DEF Written
    <2> SUFFICES ASSUME NEW n \in Nat, n # 0
                 PROVE  text[n][NULL] = <<>>
      BY <2>2
    <2>4. n - 1 \in Nat /\ (n - 1) + 1 = n
      OBVIOUS
    <2> QED
      BY <2>3, <2>4
  <1>5. \A n \in Nat, c \in Cell :
           text[n + 1][c] = text[n][node[c].children] \o <<OperationOf(node[c])>> \o text[n][node[c].next]
    <2> SUFFICES ASSUME NEW n \in Nat, NEW c \in Cell
                 PROVE  text[n + 1][c] = text[n][node[c].children] \o <<OperationOf(node[c])>> \o text[n][node[c].next]
      OBVIOUS
    <2>1. c \in Maybe(Cell) /\ c # NULL
      BY <1>1 DEF Maybe
    <2>2. text[n + 1] = Written(text[n])
      BY <1>2
    <2>3. Written(text[n])[c] = text[n][node[c].children] \o <<OperationOf(node[c])>> \o text[n][node[c].next]
      BY <2>1, Zenon DEF Written
    <2> QED
      BY <2>2, <2>3
  \* One more settles in each round, or all have.
  <1>6. ASSUME NEW k \in Nat, D(k) # Live
        PROVE  \E c \in Live \ D(k) : D(k) \cup {c} \subseteq D(k + 1)
    <2> DEFINE T == Live \ D(k)
    <2>1. T # {} /\ T \in SUBSET Cell
      BY <1>1, <1>6
    <2>2. PICK c \in T : node[c].next \notin T /\ node[c].children \notin T
      <3> HIDE DEF T
      <3> QED
        BY <2>1 DEF Acyclic
    <2>3. c \in Live /\ c \in Cell /\ c \notin D(k)
      BY <1>1, <2>2
    <2>4. ASSUME NEW m \in {"next", "children"}, NEW n \in Nat, n >= k
          PROVE  text[n][node[c][m]] = text[k][node[c][m]]
      <3>1. node[c][m] \in Maybe(Live)
        BY <2>3, PointersLive
      <3>2. CASE node[c][m] = NULL
        BY <1>4, <3>2
      <3>3. CASE node[c][m] # NULL
        <4>1. node[c][m] \in D(k)
          BY <2>2, <3>1, <3>3 DEF Maybe
        <4> QED
          BY <2>4, <4>1
      <3> QED
        BY <3>2, <3>3
    <2>5. ASSUME NEW n \in Nat, n >= k + 1
          PROVE  text[n][c] = text[k + 1][c]
      <3>1. n - 1 \in Nat /\ (n - 1) + 1 = n /\ n - 1 >= k
        BY <2>5
      <3>2. /\ text[n - 1][node[c].next] = text[k][node[c].next]
            /\ text[n - 1][node[c].children] = text[k][node[c].children]
        <4>1. /\ text[n - 1][node[c]["next"]] = text[k][node[c]["next"]]
              /\ text[n - 1][node[c]["children"]] = text[k][node[c]["children"]]
          BY <2>4, <3>1
        <4> QED
          BY <4>1
      <3>3. text[(n - 1) + 1][c] = text[k + 1][c]
        <4>1. text[(n - 1) + 1][c] =
                  text[n - 1][node[c].children] \o <<OperationOf(node[c])>> \o text[n - 1][node[c].next]
          BY <1>5, <2>3, <3>1
        <4>2. text[k + 1][c] = text[k][node[c].children] \o <<OperationOf(node[c])>> \o text[k][node[c].next]
          BY <1>5, <2>3
        <4> QED
          BY <3>2, <4>1, <4>2
      <3> QED
        BY <3>1, <3>3
    <2>6. c \in D(k + 1)
      BY <2>3, <2>5
    <2>7. ASSUME NEW d \in D(k)
          PROVE  d \in D(k + 1)
      <3>1. \A n \in Nat : n >= k + 1 => n >= k
        OBVIOUS
      <3>2. k + 1 \in Nat /\ k + 1 >= k
        OBVIOUS
      <3>3. d \in Live /\ \A n \in Nat : n >= k => text[n][d] = text[k][d]
        OBVIOUS
      <3>4. text[k + 1][d] = text[k][d]
        BY <3>2, <3>3
      <3>5. ASSUME NEW n \in Nat, n >= k + 1
            PROVE  text[n][d] = text[k + 1][d]
        <4>1. text[n][d] = text[k][d]
          BY <3>1, <3>3, <3>5
        <4> QED
          BY <3>4, <4>1
      <3> QED
        BY <3>3, <3>5
    <2> HIDE DEF D, T
    <2>8. D(k) \cup {c} \subseteq D(k + 1)
      BY <2>6, <2>7
    <2> QED
      BY <2>3, <2>8
  <1>7. ASSUME NEW k \in Nat, D(k) = Live
        PROVE  D(k + 1) = Live
    <2>1. \A n \in Nat : n >= k + 1 => n >= k
      OBVIOUS
    <2>2. k + 1 \in Nat /\ k + 1 >= k
      OBVIOUS
    <2> QED
      BY <1>7, <2>1, <2>2
  <1>8. \A k \in Nat : D(k) \subseteq Live
    OBVIOUS
  <1> HIDE DEF N
  <1>9. D(N) = Live
    <2> DEFINE S == {k \in Nat : D(k) = Live \/ Cardinality(D(k)) >= k}
    <2> HIDE DEF D
    <2>1. \A k \in Nat : IsFiniteSet(D(k)) /\ Cardinality(D(k)) \in Nat
      <3>1. \A k \in Nat : IsFiniteSet(D(k))
        BY <1>3, <1>8, FS_Subset
      <3> QED
        BY <3>1, FS_CardinalityType
    <2>2. 0 \in S
      BY <2>1
    <2>3. ASSUME NEW k \in Nat, k \in S
          PROVE  k + 1 \in S
      <3>1. CASE D(k) = Live
        BY <1>7, <3>1
      <3>2. CASE D(k) # Live
        <4>1. PICK c \in Live \ D(k) : D(k) \cup {c} \subseteq D(k + 1)
          BY <1>6, <3>2
        <4>2. Cardinality(D(k) \cup {c}) = Cardinality(D(k)) + 1
          BY <2>1, <4>1, FS_AddElement
        <4>3. Cardinality(D(k) \cup {c}) <= Cardinality(D(k + 1))
          <5>1. IsFiniteSet(D(k + 1))
            BY <2>1
          <5> QED
            BY <4>1, <5>1, FS_Subset
        <4>4. Cardinality(D(k)) >= k
          BY <2>3, <3>2
        <4>5. Cardinality(D(k)) \in Nat /\ Cardinality(D(k + 1)) \in Nat
          BY <2>1
        <4>6. Cardinality(D(k + 1)) >= k + 1
          BY <4>2, <4>3, <4>4, <4>5
        <4> QED
          BY <4>6
      <3> QED
        BY <3>1, <3>2
    <2>4. Nat \subseteq S
      <3> HIDE DEF S
      <3> QED
        BY <2>2, <2>3, SetInduction
    <2>5. CASE Cardinality(D(N)) >= N
      <3>1. D(N) \subseteq Live /\ Cardinality(D(N)) \in Nat /\ Cardinality(D(N)) <= N
        BY <1>3, <1>8, <2>1, FS_Subset DEF N
      <3>2. Cardinality(D(N)) = Cardinality(Live)
        BY <1>3, <2>5, <3>1 DEF N
      <3> QED
        BY <1>3, <3>1, <3>2, FS_Subset
    <2> QED
      BY <1>3, <2>4, <2>5
  <1>10. \A c \in Maybe(Cell) : Unparsed(c) = text[N][c]
    BY <1>2 DEF N
  <1>11. ASSUME NEW c \in Cell, count[c] # 0
         PROVE  Unparsed(c) = Unparsed(node[c].children) \o <<OperationOf(node[c])>> \o Unparsed(node[c].next)
    <2>1. c \in Live
      BY <1>11 DEF Live, Core, Shape, NodesTyped
    <2>2. text[N + 1][c] = text[N][c]
      <3>1. c \in D(N) /\ N + 1 \in Nat /\ N + 1 >= N
        BY <1>3, <1>9, <2>1
      <3> QED
        BY <3>1
    <2>3. node[c].next \in Maybe(Cell) /\ node[c].children \in Maybe(Cell) /\ c \in Maybe(Cell)
      BY <1>1 DEF NodeRecord, Maybe
    <2> HIDE DEF D
    <2> QED
      BY <1>3, <1>5, <1>10, <2>2, <2>3
  <1>12. Unparsed(NULL) = <<>> /\ \A c \in Cell : Unparsed(c) \in Seq(Shown)
    <2>1. \A c \in Cell : c \in Maybe(Cell)
      BY DEF Maybe
    <2>2. NULL \in Maybe(Cell) /\ N \in Nat /\ text[N] \in [Maybe(Cell) -> Seq(Shown)]
      BY <1>2, <1>3 DEF Maybe
    <2> QED
      BY <1>4, <1>10, <2>1, <2>2
  <1> QED
    BY <1>11, <1>12 DEF TextRule

\* The rule for written and for listed nodes, with what the node holds given names.
Shows(a, u) ==
    [do |-> "node", take |-> Len(Followers(a)),
     flag |-> IF u = NULL THEN NULL ELSE Get(global_flags, u)]
Rule(c, a, b, u) ==
    /\ Unparsed(c) = Unparsed(a) \o <<Shows(a, u)>> \o Unparsed(b)
    /\ Shows(a, u) \in Shown
    /\ Followers(c) = <<c>> \o Followers(b)
Rules ==
    /\ Unparsed(NULL) = <<>> /\ Followers(NULL) = <<>>
    /\ \A c \in Cell : Unparsed(c) \in Seq(Shown)
    /\ \A c \in Cell : \A a, b, u :
          count[c] # 0 /\ a = node[c].children /\ b = node[c].next /\ u = node[c].use => Rule(c, a, b, u)

\* The rules hold as no pointers go round.
LEMMA RulesHold ==
    ASSUME CellAssumption, Core, Acyclic
    PROVE  Rules
  <1>1. TextRule
    BY TextRuleHolds
  <1>2. node \in [Cell -> NodeRecord] /\ NULL \in Maybe(Live)
    BY DEF Core, Shape, NodesTyped, NodeRecord, Maybe
  <1>3. Followers(NULL) = <<>>
    <2>1. Listed(NULL, <<>>)
      BY EmptySeq DEF Listed
    <2> QED
      BY <1>2, <2>1, FollowersChain
  <1>4. ASSUME NEW c \in Cell, count[c] # 0
        PROVE  /\ Unparsed(c) = Unparsed(node[c].children) \o
                      <<Shows(node[c].children, node[c].use)>> \o Unparsed(node[c].next)
               /\ Shows(node[c].children, node[c].use) \in Shown
               /\ Followers(c) = <<c>> \o Followers(node[c].next)
    <2>1. OperationOf(node[c]) = Shows(node[c].children, node[c].use)
      BY DEF OperationOf, Shows
    <2>2. c \in Maybe(Live) /\ c \in Maybe(Cell) /\ c # NULL
      BY <1>4, CellAssumption DEF Live, Maybe, Core, Shape, NodesTyped, CellAssumption
    <2>3. PICK t : Listed(c, t)
      BY <1>2, <2>2, ChainExists
    <2>4. t # <<>>
      BY <2>2, <2>3 DEF Listed
    <2> DEFINE r == Tail(t)
    <2>5. Listed(node[c].next, r) /\ t = <<c>> \o r
      BY <2>3, <2>4, ChainRest
    <2> HIDE DEF r
    <2>6. Followers(c) = t
      BY <2>2, <2>3, FollowersChain
    <2>7. Followers(node[c].next) = r
      BY <2>5, PointersLive, FollowersChain
    <2>8. Shows(node[c].children, node[c].use) \in Shown
      BY <2>1 DEF Shown
    <2>9. Unparsed(c) = Unparsed(node[c].children) \o <<OperationOf(node[c])>> \o Unparsed(node[c].next)
      BY <1>1, <1>4 DEF TextRule
    <2> QED
      BY <2>1, <2>5, <2>6, <2>7, <2>8, <2>9
  <1> QED
    BY <1>1, <1>3, <1>4 DEF TextRule, Rules, Rule

\* and in the next state.
LEMMA RulesNext == CellAssumption /\ Core' /\ Acyclic' => Rules'
  <1>1. CellAssumption /\ Core /\ Acyclic => Rules
    BY RulesHold
  <1> QED
    BY <1>1, CellAssumption, PTL

\* The rule for one node, in this state
LEMMA RuleFor ==
    ASSUME Rules, NEW c \in Cell, count[c] # 0,
           NEW a, NEW b, NEW u, a = node[c].children, b = node[c].next, u = node[c].use
    PROVE  Rule(c, a, b, u)
  BY DEF Rules

\* and in the next.
LEMMA RuleForNext ==
    ASSUME Rules', NEW c \in Cell, count'[c] # 0,
           NEW a, NEW b, NEW u, a = node'[c].children, b = node'[c].next, u = node'[c].use
    PROVE  Rule(c, a, b, u)'
  BY DEF Rules

\* The next state's conditions and pointers, too.
LEMMA ResolveNext == IInv' => GivenIdsResolve'
  BY StoredResolve, PTL

PointersAlive == \A c \in Cell : node[c].next \in Maybe(Live) /\ node[c].children \in Maybe(Live)
\* They are in memory in the next state.
LEMMA PointersNext == Core' => PointersAlive'
  <1>1. Core => PointersAlive
    BY PointersLive, CellAssumption DEF PointersAlive
  <1> QED
    BY <1>1, PTL

\* The ids in nodes lead to the flags they did.
FlagsStay ==
    \A c \in Cell : \A u : u = node[c].use /\ u # NULL => Get(global_flags', u) = Get(global_flags, u)

\* An id that was given out is never given to another flag.
LEMMA FlagsStayed ==
    ASSUME Core, IInv', given \subseteq given'
    PROVE  FlagsStay
  <1>1. GivenIdsResolve /\ GivenIdsResolve'
    BY StoredResolve, ResolveNext DEF Core
  <1> SUFFICES ASSUME NEW c \in Cell, NEW u, u = node[c].use, u # NULL
               PROVE  Get(global_flags', u) = Get(global_flags, u)
    BY DEF FlagsStay
  <1>3. PICK g \in given : g.id = u
    BY DEF Core, UsesGiven
  <1> QED
    BY <1>1, <1>3 DEF GivenIdsResolve

\* A step that changes the cells in K, which nothing outside leads to, and frees some.
Changes(K) ==
    \A c \in Cell \ K :
        /\ node[c].next \notin K /\ node[c].children \notin K
        /\ \/ count'[c] = 0
           \/ /\ node'[c].next = node[c].next /\ node'[c].children = node[c].children
              /\ node'[c].use = node[c].use

\* Expressions outside of K that stay in memory stay what they are.
Alike(c) == Unparsed(c)' = Unparsed(c) /\ Followers(c)' = Followers(c)

\* No text changes outside of what a step changes.
LEMMA TextStays ==
    ASSUME CellAssumption, Core, Core', Acyclic, Acyclic', FlagsStay, NEW K, Changes(K),
           NEW c \in Cell, c \notin K, count[c] # 0, count'[c] # 0
    PROVE  Alike(c)
  <1>1. Rules
    BY RulesHold
  <1>2. Rules'
    BY RulesNext
  <1> DEFINE S == {d \in Cell \ K : count[d] # 0 /\ count'[d] # 0}
             T == {d \in S : ~Alike(d)}
  <1>3. ASSUME NEW d \in S, NEW m \in {"next", "children"}
        PROVE  node'[d][m] = node[d][m] /\ node[d][m] \in Maybe(S)
    <2>1. node'[d][m] = node[d][m] /\ node[d][m] \notin K
      BY DEF Changes
    <2>2. node[d][m] \in Maybe(Live)
      BY PointersLive
    <2>3. node'[d][m] \in Maybe(Live)'
      BY PointersNext DEF PointersAlive
    <2> QED
      BY <2>1, <2>2, <2>3 DEF Maybe, Live
  <1>4. T = {}
    <2> SUFFICES ASSUME T # {} PROVE FALSE
      OBVIOUS
    <2>1. PICK d \in T : node'[d].next \notin T /\ node'[d].children \notin T
      <3>1. T \in SUBSET Cell
        OBVIOUS
      <3> HIDE DEF T
      <3> QED
        BY <3>1 DEF Acyclic
    <2>2. PICK a : a = node[d].children
      OBVIOUS
    <2>3. PICK b : b = node[d].next
      OBVIOUS
    <2>4. PICK u : u = node[d].use
      OBVIOUS
    <2>5. /\ d \in S /\ d \in Cell /\ count[d] # 0 /\ count'[d] # 0
          /\ a = node'[d].children /\ b = node'[d].next /\ u = node'[d].use
      <3>1. d \in S
        OBVIOUS
      <3>2. node'[d]["next"] = node[d]["next"] /\ node'[d]["children"] = node[d]["children"]
        BY <1>3, <3>1
      <3>3. node'[d].use = node[d].use
        BY <3>1 DEF Changes
      <3> QED
        BY <2>2, <2>3, <2>4, <3>1, <3>2, <3>3
    <2>6. (a = NULL \/ a \in S \ T) /\ (b = NULL \/ b \in S \ T)
      <3>1. node[d]["next"] \in Maybe(S) /\ node[d]["children"] \in Maybe(S)
        BY <1>3, <2>5
      <3> HIDE DEF S
      <3> QED
        BY <2>1, <2>2, <2>3, <2>5, <3>1 DEF Maybe
    <2>7. Alike(a) /\ Alike(b)
      <3>1. Alike(NULL)
        BY <1>1, <1>2 DEF Rules, Alike
      <3> QED
        BY <2>6, <3>1
    <2>8. Shows(a, u)' = Shows(a, u)
      BY <2>4, <2>5, <2>7 DEF Shows, Alike, FlagsStay
    <2>9. Rule(d, a, b, u) /\ Rule(d, a, b, u)'
      BY <1>1, <1>2, <2>2, <2>3, <2>4, <2>5, RuleFor, RuleForNext
    <2>10. Alike(d)
      BY <2>7, <2>8, <2>9 DEF Alike, Rule
    <2> QED
      BY <2>10
  <1> QED
    BY <1>4

\* The ebuild's expressions are in memory.
FieldsAlive == \A name \in TextName, c \in Cell : field[name] = c => count[c] # 0
\* They are in this state,
LEMMA FieldsLive ==
    ASSUME CellAssumption, Core
    PROVE  FieldsAlive /\ \A name \in TextName : field[name] \in Maybe(Cell)
  <1>1. \A name \in TextName : field[name] \in Maybe(Live)
    BY Referred DEF Core
  <1> QED
    BY <1>1 DEF FieldsAlive, Live, Maybe, Core, Shape, NodesTyped, CellAssumption

\* and in the next.
LEMMA FieldsNext == Core' => FieldsAlive'
  <1>1. Core => FieldsAlive
    BY FieldsLive, CellAssumption
  <1> QED
    BY <1>1, PTL

\* If nothing of them is changed, they stay what they are.
LEMMA FieldTexts ==
    ASSUME CellAssumption, Core, Core', Acyclic, Acyclic', FlagsStay, NEW K, Changes(K),
           \A name \in TextName : field[name] \notin K
    PROVE  TextsSame
  <1> SUFFICES ASSUME NEW name \in TextName, NEW c, c = field[name], c # NULL, field'[name] = c
               PROVE  Unparsed(c)' = Unparsed(c)
    BY DEF TextsSame
  <1>1. c \in Cell /\ count[c] # 0 /\ count'[c] # 0
    <2>1. c \in Cell /\ count[c] # 0
      BY FieldsLive DEF FieldsAlive, Maybe
    <2> QED
      BY <2>1, FieldsNext DEF FieldsAlive
  <1>2. Alike(c)
    BY <1>1, TextStays
  <1> QED
    BY <1>2 DEF Alike

\* The parser changes its items and what it makes of them.
LEMMA LinkChanges ==
    ASSUME CellAssumption, Core, job # NULL, NEW s, NEW F, LinkStep(s, F)
    PROVE  /\ Changes(Items(s) \cup F)
           /\ \A name \in TextName : field[name] \notin Items(s) \cup F
  <1>1. /\ \A c \in Cell : node[c].next \notin Items(s) /\ node[c].children \notin Items(s)
        /\ \A c \in Cell \ (Items(s) \cup F) : (count'[c] = 0 /\ node'[c] = Blank) \/ node'[c] = node[c]
    BY LinkOutside
  <1>2. /\ \A c \in Cell : node[c].next \notin F /\ node[c].children \notin F
        /\ \A name \in TextName : field[name] \notin F
        /\ s \in Seq(Cell) /\ \A x \in Cell : In(s, x) => In(job.stack, x)
    BY DEF LinkStep
  <1>3. Changes(Items(s) \cup F)
    BY <1>1, <1>2 DEF Changes
  <1>4. PICK Y : Young(Y)
    BY DEF Core, Parsing
  <1>5. \A x \in Cell : In(job.stack, x) => Among(field, x) = 0
    BY <1>4, YoungFacts
  <1>6. ASSUME NEW name \in TextName
        PROVE  field[name] \notin Items(s)
    <2> SUFFICES ASSUME field[name] \in Items(s)
                 PROVE  FALSE
      OBVIOUS
    <2>1. \A i \in 1 .. Len(s) : s[i] \in Cell
      BY <1>2, ElementOfSeq
    <2>2. field[name] \in Cell /\ In(s, field[name])
      BY <2>1 DEF Items, In
    <2>3. Among(field, field[name]) = 0
      BY <1>2, <1>5, <2>2
    <2>4. Among(field, field[name]) # 0
      BY <2>2, FieldReferred DEF CellAssumption
    <2> QED
      BY <2>3, <2>4
  <1> QED
    BY <1>2, <1>3, <1>6

\* Releasing changes nothing else.
LEMMA HeapChanges ==
    ASSUME NEW nodes, NEW cnt, HeapIs(nodes, cnt),
           \A c \in Cell : /\ nodes[c].next = node[c].next /\ nodes[c].children = node[c].children
                           /\ nodes[c].use = node[c].use
    PROVE  Changes({})
  BY DEF Changes, HeapIs

\* Every step but those that build, which make other nodes.
LEMMA NextChanges ==
    ASSUME CellAssumption, Core, [MetadataNext]_all
    PROVE  \/ Changes({})
           \/ job # NULL /\ \E s, F : LinkStep(s, F)
  <1>1. node \in [Cell -> NodeRecord]
    BY DEF Core, Shape, NodesTyped, NodeRecord
  <1>2. UNCHANGED node => Changes({})
    BY DEF Changes
  <1>3. ASSUME NEW c \in Cell, Forget(c)
        PROVE  Changes({})
    BY <1>3, HeapChanges DEF Forget
  <1>4. CASE Dealloc
    BY <1>4, HeapChanges DEF Dealloc
  <1>5. ASSUME NEW c \in Cell, NEW l \in Loop, StartLoop(l, c)
        PROVE  Changes({})
    <2>1. node' = [node EXCEPT ![c].it = c]
      BY <1>5 DEF StartLoop
    <2>2. \A d \in Cell : /\ node'[d].next = node[d].next /\ node'[d].children = node[d].children
                          /\ node'[d].use = node[d].use
      BY <1>1, <2>1 DEF NodeRecord
    <2> QED
      BY <2>2 DEF Changes
  <1>6. ASSUME NEW l \in DOMAIN loops, LoopNext(l)
        PROVE  Changes({})
    <2> DEFINE h == loops[l].head
               v == node[node[h].it].next
               nodes == [node EXCEPT ![h].it = v]
    <2>1. HeapIs(nodes, Drop([count EXCEPT ![node[h].it] = @ + 1], <<loops[l].item>>))
      BY <1>6 DEF LoopNext
    <2> HIDE DEF v, h
    <2>2. \A d \in Cell : /\ nodes[d].next = node[d].next /\ nodes[d].children = node[d].children
                          /\ nodes[d].use = node[d].use
      BY <1>1 DEF NodeRecord
    <2> HIDE DEF nodes
    <2> QED
      BY <2>1, <2>2, HeapChanges
  <1>7. ASSUME NEW l \in DOMAIN loops, EndLoop(l)
        PROVE  Changes({})
    BY <1>7, HeapChanges DEF EndLoop
  <1>8. CASE Python
    <2>1. ASSUME NEW text \in Texts, Construct(text) PROVE Changes({})
      BY <1>2, <2>1 DEF Construct
    <2>2. ASSUME NEW c \in Cell, TakeMember(c, "next") \/ TakeMember(c, "children") PROVE Changes({})
      BY <1>2, <2>2 DEF TakeMember
    <2>3. ASSUME NEW l \in DOMAIN loops, ReadCondition(l) PROVE Changes({})
      BY <1>2, <2>3 DEF ReadCondition, exprs
    <2> QED
      BY <1>3, <1>5, <1>6, <1>7, <1>8, <2>1, <2>2, <2>3 DEF Python
  <1>9. CASE \E name \in TextName : TakeField(name)
    BY <1>2, <1>9 DEF TakeField
  <1>10. CASE Reduce
    <2>1. PICK t, op : t = Fresh /\ op = job.text.ops[job.at]
      OBVIOUS
    <2>2. PICK n : n = Len(job.stack) - op.take
      OBVIOUS
    <2>3. PICK group : group = SubSeq(job.stack, n + 1, Len(job.stack))
      OBVIOUS
    <2> QED
      BY <1>10, <2>1, <2>2, <2>3, ReduceLinks
  <1>11. CASE Constructed
    <2>1. CASE Root # NULL
      BY <1>11, <2>1, ConstructedLinks
    <2>2. CASE Root = NULL
      <3>1. AtEnd /\ HeapIs(NodesLeft, Drop(count, Append(Discarded, job.self)))
        BY <1>11, <2>2 DEF Constructed
      <3>2. \A c \in Cell : NodesLeft[c] = node[c]
        BY <2>2, <3>1, DiscardFacts
      <3> QED
        BY <3>1, <3>2, HeapChanges
    <2> QED
      BY <2>1, <2>2
  <1>12. CASE StoreText
    <2>1. CASE Root # NULL
      <3>1. PICK s : s = job.stack
        OBVIOUS
      <3> QED
        BY <1>12, <2>1, <3>1, StoreLinks
    <2>2. CASE Root = NULL
      <3>1. AtEnd /\ HeapIs(NodesLeft, Drop(count, Discarded))
        BY <1>12 DEF StoreText
      <3>2. \A c \in Cell : NodesLeft[c] = node[c]
        BY <2>2, <3>1, DiscardFacts
      <3> QED
        BY <3>1, <3>2, HeapChanges
    <2> QED
      BY <2>1, <2>2
  <1>13. CASE StartReading \/ ReadText \/ ReadOther \/ EndReading \/ UNCHANGED all
    BY <1>2, <1>13 DEF StartReading, ReadText, ReadOther, EndReading, all, exprs, heap
  <1> QED
    BY <1>4, <1>8, <1>9, <1>10, <1>11, <1>12, <1>13 DEF MetadataNext

\* The ids in nodes lead where they led.
LEMMA NextFlagsStay ==
    ASSUME Core, Core', [MetadataNext]_all
    PROVE  FlagsStay
  <1>1. [Next]_vars
    BY FlagsStep
  <1>2. given \subseteq given'
    BY <1>1 DEF Next, vars, UseGetGlobal, GetUseFlag
  <1> QED
    BY <1>2, FlagsStayed DEF Core

\* The condition of a node is an id that was given to a flag, and leads to it.
ConditionsLead ==
    \A c \in Cell : node[c].use # NULL =>
        \E g \in given : /\ g.id = node[c].use /\ g.name \in Key
                         /\ Get(global_flags, node[c].use) = g.name
LEMMA CoreLeads == Core => ConditionsLead
  <1> SUFFICES ASSUME Core, NEW c \in Cell, node[c].use # NULL
               PROVE  \E g \in given : /\ g.id = node[c].use /\ g.name \in Key
                                       /\ Get(global_flags, node[c].use) = g.name
    BY DEF ConditionsLead
  <1>1. GivenIdsResolve
    BY StoredResolve DEF Core
  <1>2. PICK g \in given : g.id = node[c].use
    BY DEF Core, UsesGiven
  <1>3. g.name \in Key
    BY DEF Core, IInv, TypeOK
  <1> QED
    BY <1>1, <1>2, <1>3 DEF GivenIdsResolve

\* What use.c keeps of a condition is an id.  It always leads to a flag, and no
\* step of parsers, readers, loops or Python, nor any flag interned or table
\* enlarged by them, makes it lead to another one.
THEOREM ConditionsLeadOn ==
    /\ MetadataSpec => []ConditionsLead
    /\ MetadataSpec => [][FlagsStay]_all
  <1>1. MetadataSpec => []ConditionsLead
    BY CoreLeads, CoreInvariance, PTL
  <1>2. Core /\ Core' /\ [MetadataNext]_all => [FlagsStay]_all
    BY NextFlagsStay
  <1>3. MetadataSpec => [][FlagsStay]_all
    BY <1>2, CoreInvariance, PTL DEF MetadataSpec
  <1> QED
    BY <1>1, <1>3

\* Expressions of the ebuild stay what they are.
LEMMA NextTextsSame ==
    ASSUME CellAssumption, Core, Core', Ordered, Ordered', [MetadataNext]_all
    PROVE  TextsSame
  <1>1. FlagsStay /\ Acyclic /\ Acyclic'
    BY NextFlagsStay DEF Ordered
  <1>2. CASE Changes({})
    BY <1>1, <1>2, FieldTexts
  <1>3. ASSUME job # NULL, NEW s, NEW F, LinkStep(s, F)
        PROVE  TextsSame
    <2>1. /\ Changes(Items(s) \cup F)
          /\ \A name \in TextName : field[name] \notin Items(s) \cup F
      BY <1>3, LinkChanges
    <2> QED
      BY <1>1, <2>1, FieldTexts
  <1> QED
    BY <1>2, <1>3, NextChanges

-----------------------------------------------------------------------------
(* What is on the parser's stack.                                          *)

\* Pieces of a sequence, one after the other, make up a piece.
Joined(N, ops, b, s, U, W) ==
    /\ N \in Nat /\ b \in [0 .. N -> 0 .. Len(ops)] /\ \A i \in 1 .. N : s[i] \in Cell
    /\ U[N + 1] = <<>> /\ W[N + 1] = <<>>
    /\ \A i \in 1 .. N : /\ b[i - 1] <= b[i]
                          /\ U[i] = SubSeq(ops, b[i - 1] + 1, b[i]) \o U[i + 1]
                          /\ W[i] = <<s[i]>> \o W[i + 1]
\* Their texts and lengths add up.
LEMMA JoinedPieces ==
    ASSUME NEW N, NEW O, NEW ops \in Seq(O), NEW b, NEW s, NEW U, NEW W, Joined(N, ops, b, s, U, W)
    PROVE  b[0] <= b[N] /\ U[1] = SubSeq(ops, b[0] + 1, b[N]) /\ Len(W[1]) = N
  <1> DEFINE Q(i) == /\ b[i - 1] <= b[N] /\ U[i] = SubSeq(ops, b[i - 1] + 1, b[N])
                     /\ W[i] \in Seq(Cell) /\ Len(W[i]) = N + 1 - i
             S == {k \in Nat : k <= N => Q(N + 1 - k)}
  <1>9. /\ N \in Nat /\ b \in [0 .. N -> 0 .. Len(ops)] /\ \A i \in 1 .. N : s[i] \in Cell
        /\ U[N + 1] = <<>> /\ W[N + 1] = <<>>
        /\ \A i \in 1 .. N : /\ b[i - 1] <= b[i]
                              /\ U[i] = SubSeq(ops, b[i - 1] + 1, b[i]) \o U[i + 1]
                              /\ W[i] = <<s[i]>> \o W[i + 1]
    BY DEF Joined
  <1>1. Len(ops) \in Nat /\ \A i \in 0 .. N : b[i] \in 0 .. Len(ops) /\ b[i] \in Nat
    <2>1. Len(ops) \in Nat
      BY LenProperties
    <2> QED
      BY <1>9, <2>1
  <1>2. Q(N + 1)
    <2>1. (N + 1) - 1 = N /\ N \in 0 .. N
      BY <1>9
    <2>2. SubSeq(ops, b[N] + 1, b[N]) = <<>>
      BY <1>1, <2>1, SubSeqEmpty
    <2>3. <<>> \in Seq(Cell) /\ Len(<<>>) = 0
      BY EmptySeq
    <2>4. b[N] \in Nat
      BY <1>1, <2>1
    <2> QED
      BY <1>9, <2>1, <2>2, <2>3, <2>4
  <1>3. ASSUME NEW i \in 1 .. N, Q(i + 1)
        PROVE  Q(i)
    <2>1. (i + 1) - 1 = i /\ i \in 0 .. N /\ i - 1 \in 0 .. N /\ N \in 0 .. N /\ s[i] \in Cell
      BY <1>9
    <2>2. PICK x, y, z, m : x = b[i - 1] /\ y = b[i] /\ z = b[N] /\ m = Len(ops)
      OBVIOUS
    <2>9. /\ b[i] <= b[N] /\ U[i + 1] = SubSeq(ops, b[i] + 1, b[N])
          /\ W[i + 1] \in Seq(Cell) /\ Len(W[i + 1]) = N + 1 - (i + 1)
      BY <1>3, <2>1
    <2>10. /\ b[i - 1] <= b[i] /\ U[i] = SubSeq(ops, b[i - 1] + 1, b[i]) \o U[i + 1]
           /\ W[i] = <<s[i]>> \o W[i + 1]
      BY <1>9
    <2> HIDE DEF Q
    <2>3. /\ x \in Nat /\ y \in Nat /\ z \in Nat /\ m \in Nat /\ x <= m /\ y <= m /\ z <= m
          /\ x <= y /\ y <= z
      BY <1>1, <2>1, <2>2, <2>9, <2>10
    <2>4. SubSeq(ops, x + 1, y) \o SubSeq(ops, y + 1, z) = SubSeq(ops, x + 1, z)
      <3>1. x + 1 \in 1 .. m + 1 /\ y \in (x + 1) - 1 .. m /\ z \in y .. m
        BY <2>3
      <3> QED
        BY <2>2, <3>1, ConcatAdjacentSubSeq
    <2>6. W[i] \in Seq(Cell) /\ Len(W[i]) = 1 + (N + 1 - (i + 1))
      <3>1. PICK v, w : v = <<s[i]>> /\ w = W[i + 1]
        OBVIOUS
      <3>2. v \in Seq(Cell) /\ Len(v) = 1
        BY <2>1, <3>1
      <3>3. v \o w \in Seq(Cell) /\ Len(v \o w) = Len(v) + Len(w)
        BY <2>9, <3>1, <3>2, ConcatProperties
      <3> QED
        BY <2>9, <2>10, <3>1, <3>2, <3>3
    <2>7. 1 + (N + 1 - (i + 1)) = N + 1 - i
      BY <1>9
    <2>8. x <= z
      BY <2>3
    <2>11. U[i] = SubSeq(ops, b[i - 1] + 1, b[N]) /\ b[i - 1] <= b[N]
      BY <2>2, <2>4, <2>8, <2>9, <2>10
    <2> QED
      BY <2>6, <2>7, <2>11 DEF Q
  <1> HIDE DEF Q
  <1>4. 0 \in S
    BY <1>2
  <1>5. ASSUME NEW k \in Nat, k \in S
        PROVE  k + 1 \in S
    <2> SUFFICES ASSUME k + 1 <= N
                 PROVE  Q(N + 1 - (k + 1))
      OBVIOUS
    <2>1. N + 1 - (k + 1) \in 1 .. N /\ (N + 1 - (k + 1)) + 1 = N + 1 - k /\ k <= N
      BY <1>9
    <2> QED
      BY <1>3, <1>5, <2>1
  <1>6. Nat \subseteq S
    <2> HIDE DEF S
    <2> QED
      BY <1>4, <1>5, SetInduction
  <1>7. Q(1)
    <2>1. N \in S
      BY <1>6, <1>9
    <2>2. N <= N /\ N + 1 - N = 1
      BY <1>9
    <2>3. Q(N + 1 - N)
      BY <2>1, <2>2
    <2> QED
      BY <2>2, <2>3
  <1>8. 1 - 1 = 0 /\ N + 1 - 1 = N
    BY <1>9
  <1> QED
    BY <1>7, <1>8 DEF Q

\* Items are texts of pieces of the operations, from the first to the last of which they
\* go without a gap.
Pieces(s, ops, b) ==
    /\ s \in Seq(Cell) /\ b \in [0 .. Len(s) -> 0 .. Len(ops)]
    /\ \A i \in 1 .. Len(s) :
          /\ b[i - 1] <= b[i] /\ node[s[i]].next = NULL /\ count[s[i]] # 0
          /\ Unparsed(s[i]) = SubSeq(ops, b[i - 1] + 1, b[i])

\* An item that is linked to another one is written before that.
LEMMA ItemText ==
    ASSUME CellAssumption, Core, Core', Ordered, Ordered', FlagsStay, job # NULL,
           NEW s, NEW F, LinkStep(s, F), NEW c \in Cell, NEW d, In(s, c),
           count[c] # 0, count'[c] # 0, node[c].next = NULL, node'[c].next = d
    PROVE  Unparsed(c)' = Unparsed(c) \o Unparsed(d)' /\ Followers(c)' = <<c>> \o Followers(d)'
  <1>1. Rules /\ Rules'
    BY RulesHold, RulesNext DEF Ordered
  <1>2. node \in [Cell -> NodeRecord] /\ s \in Seq(Cell) /\ Distinct(s) /\ c \notin F
    BY DEF Core, Shape, NodesTyped, NodeRecord, LinkStep
  <1>3. node'[c] = Linked(s)[c]
    BY <1>2 DEF LinkStep
  <1>4. PICK a, u : a = node[c].children /\ u = node[c].use
    OBVIOUS
  <1>5. a = node'[c].children /\ u = node'[c].use
    BY <1>2, <1>3, <1>4, LinkedNodes
  <1>6. Rule(c, a, NULL, u) /\ Rule(c, a, d, u)'
    BY <1>1, <1>4, <1>5, RuleFor, RuleForNext
  <1>7. Alike(a)
    <2>1. CASE a = NULL
      BY <1>1, <2>1 DEF Rules, Alike
    <2>2. CASE a # NULL
      <3>1. PICK K : K = Items(s) \cup F
        OBVIOUS
      <3>2. Changes(K) /\ a \notin K
        <4>1. node[c].children \notin Items(s) /\ node[c].children \notin F
          BY LinkOutside DEF LinkStep
        <4> QED
          BY <1>4, <3>1, <4>1, LinkChanges
      <3>3. a \in Cell /\ count[a] # 0 /\ count'[a] # 0
        <4>1. node[c].children \in Maybe(Live) /\ node'[c].children \in Maybe(Live)'
          BY PointersLive, PointersNext DEF PointersAlive
        <4> QED
          BY <1>4, <1>5, <2>2, <4>1 DEF Maybe, Live
      <3> QED
        BY <3>2, <3>3, TextStays DEF Ordered
    <2> QED
      BY <2>1, <2>2
  <1>8. Shows(a, u)' = Shows(a, u)
    BY <1>4, <1>7 DEF Shows, Alike, FlagsStay
  <1>9. Unparsed(c) = Unparsed(a) \o <<Shows(a, u)>>
    <2>1. Unparsed(a) \in Seq(Shown)
      <3>1. a = NULL \/ a \in Cell
        BY <1>2, <1>4 DEF NodeRecord, Maybe
      <3>2. CASE a = NULL
        BY <1>1, <3>2, EmptySeq DEF Rules
      <3>3. CASE a \in Cell
        BY <1>1, <3>3 DEF Rules
      <3> QED
        BY <3>1, <3>2, <3>3
    <2>2. <<Shows(a, u)>> \in Seq(Shown)
      BY <1>6 DEF Rule
    <2>3. PICK x, y : x = Unparsed(a) /\ y = <<Shows(a, u)>>
      OBVIOUS
    <2>4. x \o y \in Seq(Shown)
      BY <2>1, <2>2, <2>3, ConcatProperties
    <2>5. (x \o y) \o <<>> = x \o y
      BY <2>4, ConcatEmptySeq
    <2>6. Unparsed(c) = (x \o y) \o <<>>
      BY <1>1, <1>6, <2>3 DEF Rule, Rules
    <2> QED
      BY <2>3, <2>5, <2>6
  <1>10. Unparsed(c)' = (Unparsed(a) \o <<Shows(a, u)>>) \o Unparsed(d)'
    BY <1>6, <1>7, <1>8 DEF Rule, Alike
  <1> QED
    BY <1>6, <1>9, <1>10 DEF Rule

\* Linked items are written one after the other.
LEMMA GroupText ==
    ASSUME CellAssumption, Core, Core', Ordered, Ordered', FlagsStay, job # NULL,
           NEW s, NEW F, LinkStep(s, F), NEW O, NEW ops \in Seq(O), NEW b, Pieces(s, ops, b),
           \A c \in Cell : In(s, c) => count'[c] # 0,
           NEW f, f = FirstOf(s)
    PROVE  /\ b[0] <= b[Len(s)] /\ Unparsed(f)' = SubSeq(ops, b[0] + 1, b[Len(s)])
           /\ Len(Followers(f)') = Len(s)
  <1>1. PICK N : N = Len(s)
    OBVIOUS
  <1>2. /\ N \in Nat /\ s \in Seq(Cell) /\ b \in [0 .. N -> 0 .. Len(ops)]
        /\ \A i \in 1 .. N : s[i] \in Cell
        /\ Distinct(s) /\ node \in [Cell -> NodeRecord]
    BY <1>1, LenProperties, ElementOfSeq DEF Pieces, LinkStep, Core, Shape, NodesTyped, NodeRecord
  <1>3. PICK e : e = [i \in 1 .. N + 1 |-> IF i = N + 1 THEN NULL ELSE s[i]]
    OBVIOUS
  <1>4. PICK U, W : /\ U = [i \in 1 .. N + 1 |-> Unparsed(e[i])']
                    /\ W = [i \in 1 .. N + 1 |-> Followers(e[i])']
    OBVIOUS
  <1>5. e[N + 1] = NULL /\ e[1] = f /\ \A i \in 1 .. N : e[i] = s[i]
    <2>1. N + 1 \in 1 .. N + 1 /\ 1 \in 1 .. N + 1
      BY <1>2
    <2>2. \A i \in 1 .. N : i \in 1 .. N + 1 /\ i # N + 1
      BY <1>2
    <2>3. s = <<>> <=> N = 0
      BY <1>1, <1>2, EmptySeq
    <2> QED
      BY <1>2, <1>3, <2>1, <2>2, <2>3 DEF FirstOf
  <1>6. U[N + 1] = <<>> /\ W[N + 1] = <<>>
    <2>1. N + 1 \in 1 .. N + 1
      BY <1>2
    <2>2. Unparsed(NULL)' = <<>> /\ Followers(NULL)' = <<>>
      BY RulesNext DEF Rules, Ordered
    <2>3. U[N + 1] = Unparsed(e[N + 1])' /\ W[N + 1] = Followers(e[N + 1])'
      BY <1>4, <2>1
    <2> QED
      BY <1>5, <2>2, <2>3
  <1>7. ASSUME NEW i \in 1 .. N
        PROVE  /\ b[i - 1] <= b[i]
               /\ U[i] = SubSeq(ops, b[i - 1] + 1, b[i]) \o U[i + 1]
               /\ W[i] = <<s[i]>> \o W[i + 1]
    <2>1. PICK c, d : c = e[i] /\ d = e[i + 1]
      OBVIOUS
    <2>2. i \in 1 .. N + 1 /\ i + 1 \in 1 .. N + 1
      BY <1>2
    <2>3. c = s[i] /\ c \in Cell /\ In(s, c)
      BY <1>1, <1>2, <1>5, <2>1 DEF In
    <2>4. U[i] = Unparsed(c)' /\ U[i + 1] = Unparsed(d)' /\ W[i] = Followers(c)' /\ W[i + 1] = Followers(d)'
      BY <1>4, <2>1, <2>2
    <2>5. /\ b[i - 1] <= b[i] /\ node[c].next = NULL /\ count[c] # 0
          /\ Unparsed(c) = SubSeq(ops, b[i - 1] + 1, b[i])
      BY <1>1, <2>3 DEF Pieces
    <2>6. node'[c] = Linked(s)[c]
      <3>1. c \notin F /\ count'[c] # 0
        BY <2>3 DEF LinkStep
      <3> QED
        BY <2>3, <3>1 DEF LinkStep
    <2>7. node'[c].next = d
      <3>1. CASE i = N
        <4>1. \A j \in 1 .. N - 1 : j \in 1 .. N /\ j # i
          BY <1>2, <3>1
        <4>2. \A j \in 1 .. N - 1 : s[j] # c
          BY <1>1, <1>2, <2>3, <4>1 DEF Distinct
        <4>3. Linked(s)[c] = node[c]
          BY <1>1, <1>2, <2>3, <4>2, LinkedNodes
        <4> QED
          BY <1>5, <2>1, <2>5, <2>6, <3>1, <4>3
      <3>2. CASE i # N
        <4>1. i \in 1 .. N - 1 /\ i + 1 \in 1 .. N
          BY <1>2, <3>2
        <4>2. Linked(s)[s[i]].next = s[i + 1]
          BY <1>1, <1>2, <4>1, LinkedNodes
        <4> QED
          BY <1>5, <2>1, <2>3, <2>6, <4>1, <4>2
      <3> QED
        BY <3>1, <3>2
    <2>8. c \in Cell /\ In(s, c) /\ count'[c] # 0
      BY <2>3
    <2>9. Unparsed(c)' = Unparsed(c) \o Unparsed(d)' /\ Followers(c)' = <<c>> \o Followers(d)'
      <3>1. count[c] # 0 /\ node[c].next = NULL
        BY <2>5
      <3> QED
        BY <2>7, <2>8, <3>1, ItemText
    <2> QED
      BY <2>3, <2>4, <2>5, <2>9
  <1>8. b[0] <= b[N] /\ U[1] = SubSeq(ops, b[0] + 1, b[N]) /\ Len(W[1]) = N
    <2>1. Joined(N, ops, b, s, U, W)
      BY <1>2, <1>6, <1>7 DEF Joined
    <2> QED
      BY <2>1, JoinedPieces
  <1>9. U[1] = Unparsed(f)' /\ W[1] = Followers(f)'
    <2>1. 1 \in 1 .. N + 1
      BY <1>2
    <2> QED
      BY <1>4, <1>5, <2>1
  <1> QED
    BY <1>1, <1>8, <1>9

\* What the parser has reduced of a text without parentheses is on its stack.
Reduced(b) ==
    /\ Pieces(job.stack, job.text.ops, b)
    /\ b[0] = 0 /\ b[Len(job.stack)] = job.at - 1
StackTold == job # NULL /\ Plain(job.text) => \E b : Reduced(b)

\* The pieces of the last items.
PiecesFrom(s, ops, from, to) == \E b : Pieces(s, ops, b) /\ b[0] = from /\ b[Len(s)] = to
\* They are pieces, too.
LEMMA LastPieces ==
    ASSUME NEW s, NEW ops, NEW b, Pieces(s, ops, b), NEW n, n \in 0 .. Len(s),
           NEW group, group = SubSeq(s, n + 1, Len(s))
    PROVE  PiecesFrom(group, ops, b[n], b[Len(s)])
  <1>1. /\ s \in Seq(Cell) /\ b \in [0 .. Len(s) -> 0 .. Len(ops)]
        /\ \A i \in 1 .. Len(s) :
              /\ b[i - 1] <= b[i] /\ node[s[i]].next = NULL /\ count[s[i]] # 0
              /\ Unparsed(s[i]) = SubSeq(ops, b[i - 1] + 1, b[i])
    BY DEF Pieces
  <1>2. PICK N : N = Len(s)
    OBVIOUS
  <1>3. N \in Nat /\ n \in Nat /\ n <= N /\ \A i \in 1 .. N : s[i] \in Cell
    BY <1>1, <1>2, LenProperties, ElementOfSeq
  <1>4. PICK m : m = N - n
    OBVIOUS
  <1>5. group \in Seq(Cell) /\ Len(group) = m /\ \A i \in 1 .. m : group[i] = s[n + i]
    <2>1. \A i \in n + 1 .. N : s[i] \in Cell
      BY <1>3
    <2>2. /\ group \in Seq(Cell)
          /\ Len(group) = IF n + 1 <= N THEN N - (n + 1) + 1 ELSE 0
          /\ \A i \in 1 .. N - (n + 1) + 1 : group[i] = s[(n + 1) + i - 1]
      BY <1>2, <1>3, <2>1, SubSeqProperties
    <2>3. \A i \in 1 .. m : i \in 1 .. N - (n + 1) + 1 /\ (n + 1) + i - 1 = n + i
      BY <1>3, <1>4
    <2>4. (IF n + 1 <= N THEN N - (n + 1) + 1 ELSE 0) = m
      BY <1>3, <1>4
    <2> QED
      BY <2>2, <2>3, <2>4
  <1>6. PICK d : d = [i \in 0 .. m |-> b[n + i]]
    OBVIOUS
  <1>7. m \in Nat /\ n + 0 = n /\ n + m = N /\ \A i \in 0 .. m : n + i \in 0 .. N
    BY <1>3, <1>4
  <1>8. d \in [0 .. m -> 0 .. Len(ops)] /\ d[0] = b[n] /\ d[m] = b[N]
    <2>1. 0 \in 0 .. m /\ m \in 0 .. m
      BY <1>7
    <2> QED
      BY <1>1, <1>2, <1>6, <1>7, <2>1
  <1>9. ASSUME NEW i \in 1 .. m
        PROVE  /\ d[i - 1] <= d[i] /\ node[group[i]].next = NULL /\ count[group[i]] # 0
               /\ Unparsed(group[i]) = SubSeq(ops, d[i - 1] + 1, d[i])
    <2>1. PICK j : j = n + i
      OBVIOUS
    <2>2. j \in 1 .. N /\ n + (i - 1) = j - 1 /\ i \in 0 .. m /\ i - 1 \in 0 .. m
      BY <1>3, <1>4, <2>1
    <2>3. d[i] = b[j] /\ d[i - 1] = b[j - 1] /\ group[i] = s[j]
      BY <1>5, <1>6, <2>1, <2>2
    <2> QED
      BY <1>1, <1>2, <2>2, <2>3
  <1> QED
    BY <1>2, <1>5, <1>8, <1>9 DEF Pieces, PiecesFrom

\* The flag of a node that was made leads to the flag that was read.
LEMMA FlagMeant ==
    ASSUME HashAssumption, OverlapAssumption, FlagAssumption, CellAssumption, Core, NEW flag \in Maybe(Key),
           IF flag = NULL THEN UNCHANGED vars ELSE UseGetGlobal(flag),
           NEW u, u = IF flag = NULL THEN NULL ELSE GetId(global_flags, flag).id
    PROVE  (IF u = NULL THEN NULL ELSE Get(global_flags', u)) = flag
  <1>1. CASE flag = NULL
    BY <1>1
  <1>2. CASE flag # NULL
    <2>1. IInv' /\ u \in Id
      BY <1>2, Interned
    <2>2. u # NULL
      BY <2>1 DEF CellAssumption
    <2>3. [name |-> flag, id |-> u] \in given'
      BY <1>2 DEF UseGetGlobal
    <2>4. \A g \in given' : Get(global_flags', g.id) = g.name
      BY <2>1, ResolveNext DEF GivenIdsResolve
    <2>5. PICK g : g = [name |-> flag, id |-> u]
      OBVIOUS
    <2>6. Get(global_flags', g.id) = g.name /\ g.id = u /\ g.name = flag
      BY <2>3, <2>4, <2>5
    <2> QED
      BY <2>2, <2>6
  <1> QED
    BY <1>1, <1>2

\* A reduction puts the piece that its items make up, and itself, on the stack.
LEMMA ReduceTold ==
    ASSUME CellAssumption, HashAssumption, OverlapAssumption, FlagAssumption, Core, Core', Ordered, Ordered',
           FlagsStay, StackTold, Reduce, Plain(job.text)
    PROVE  StackTold'
  <1>1. PICK t, op, stk, at, ops :
            t = Fresh /\ op = job.text.ops[job.at] /\ stk = job.stack /\ at = job.at /\ ops = job.text.ops
    OBVIOUS
  <1>2. PICK N, n : N = Len(stk) /\ n = N - op.take
    OBVIOUS
  <1>3. PICK rest, group : rest = SubSeq(stk, 1, n) /\ group = SubSeq(stk, n + 1, N)
    OBVIOUS
  <1>4. job # NULL /\ at <= Len(ops)
    BY <1>1 DEF Reduce
  <1>5. /\ op \in Operation /\ n \in 0 .. N /\ N \in Nat /\ op.take \in Nat /\ stk \in Seq(Cell)
    BY <1>1, <1>2, <1>4, ReduceParser
  <1>6. ops \in Seq(Operation) /\ at \in 1 .. Len(ops) /\ Len(ops) \in Nat
    <2>1. job.text \in AnyText /\ job.at \in 1 .. Len(job.text.ops) + 1
      BY <1>4 DEF Core, Parsing, ParserState
    <2>2. ops \in Seq(Operation)
      BY <1>1, <2>1 DEF AnyText
    <2> QED
      BY <1>1, <1>4, <2>1, <2>2, LenProperties
  <1>7. op = ops[at] /\ op.do = "node"
    <2>1. at \in DOMAIN ops
      BY <1>6, LenProperties
    <2> QED
      BY <1>1, <2>1 DEF Plain
  <1>8. PICK b : Pieces(stk, ops, b) /\ b[0] = 0 /\ b[N] = at - 1
    BY <1>1, <1>2, <1>4 DEF StackTold, Reduced
  <1>9. ReduceNode(op, rest, group)
    <2>1. ReduceNode(op, rest, group) \/ ReduceParen(op, rest, group)
      BY <1>1, <1>2, <1>3 DEF Reduce
    <2> QED
      BY <1>7, <2>1 DEF ReduceParen
  <1>10. PICK u : u = IF op.flag = NULL THEN NULL ELSE GetId(global_flags, op.flag).id
    OBVIOUS
  <1>11. /\ Unused # {}
         /\ node' = [Linked(group) EXCEPT ![t] = [Blank EXCEPT !.children = FirstOf(group), !.use = u]]
         /\ count' = [count EXCEPT ![t] = 1]
         /\ job' = [job EXCEPT !.at = @ + 1, !.stack = Append(rest, t)]
         /\ IF op.flag = NULL THEN UNCHANGED vars ELSE UseGetGlobal(op.flag)
    BY <1>1, <1>9, <1>10 DEF ReduceNode
  <1>12. t \in Cell /\ count[t] = 0
    BY <1>1, <1>11, FreshIn DEF Core
  <1>13. PICK F : F = {t}
    OBVIOUS
  <1>14. LinkStep(group, F)
    <2>1. LinkStep(group, IF op.do = "node" THEN {t} ELSE {})
      <3>1. Len(job.stack) = N /\ n = Len(job.stack) - op.take /\ group = SubSeq(job.stack, n + 1, Len(job.stack))
        BY <1>1, <1>2, <1>3
      <3> QED
        BY <1>1, <3>1, ReduceLinks
    <2> QED
      BY <1>7, <1>13, <2>1
  <1>15. PICK Y : Young(Y)
    BY <1>4 DEF Core, Parsing
  <1>16. Distinct(stk)
    BY <1>1, <1>4, <1>15, YoungFacts
  <1>17. /\ rest \in Seq(Cell) /\ group \in Seq(Cell) /\ Len(rest) = n /\ Len(group) = N - n
         /\ \A x : Ind(In(stk, x)) = Ind(In(rest, x)) + Ind(In(group, x))
         /\ \A x : In(rest, x) \/ In(group, x) => In(stk, x)
    <2>1. n \in 0 .. Len(stk) /\ rest = SubSeq(stk, 1, n) /\ group = SubSeq(stk, n + 1, Len(stk))
      BY <1>2, <1>3, <1>5
    <2>2. /\ SubSeq(stk, 1, n) \in Seq(Cell) /\ SubSeq(stk, n + 1, Len(stk)) \in Seq(Cell)
          /\ Len(SubSeq(stk, 1, n)) = n /\ Len(SubSeq(stk, n + 1, Len(stk))) = Len(stk) - n
          /\ \A x : Ind(In(stk, x)) = Ind(In(SubSeq(stk, 1, n), x)) + Ind(In(SubSeq(stk, n + 1, Len(stk)), x))
          /\ \A x : In(SubSeq(stk, 1, n), x) \/ In(SubSeq(stk, n + 1, Len(stk)), x) => In(stk, x)
      BY <1>5, <1>16, <2>1, SplitItems
    <2> QED
      BY <1>2, <2>1, <2>2
  <1>18. count \in [Cell -> Nat] /\ node \in [Cell -> NodeRecord] /\ NULL \notin Cell
    BY DEF Core, Shape, NodesTyped, NodeRecord, CellAssumption
  <1>19. count'[t] = 1 /\ \A c \in Cell : count[c] # 0 => c # t /\ count'[c] # 0
    BY <1>11, <1>12, <1>18
  <1>20. \A c \in Cell : In(stk, c) => count[c] # 0
    BY <1>2, <1>8 DEF Pieces, In
  <1>21. PICK d : Pieces(group, ops, d) /\ d[0] = b[n] /\ d[Len(group)] = at - 1
    <2>1. n \in 0 .. Len(stk) /\ group = SubSeq(stk, n + 1, Len(stk)) /\ b[Len(stk)] = at - 1
      BY <1>2, <1>3, <1>5, <1>8
    <2>2. Pieces(stk, ops, b)
      BY <1>8
    <2>3. PiecesFrom(group, ops, b[n], b[Len(stk)])
      BY <2>1, <2>2, LastPieces
    <2> QED
      BY <2>1, <2>3 DEF PiecesFrom
  <1>22. PICK f : f = FirstOf(group)
    OBVIOUS
  <1>23. /\ b[n] <= at - 1 /\ Unparsed(f)' = SubSeq(ops, b[n] + 1, at - 1)
         /\ Len(Followers(f)') = Len(group)
    <2>1. \A c \in Cell : In(group, c) => count'[c] # 0
      BY <1>17, <1>19, <1>20
    <2>2. /\ d[0] <= d[Len(group)] /\ Unparsed(f)' = SubSeq(ops, d[0] + 1, d[Len(group)])
          /\ Len(Followers(f)') = Len(group)
      BY <1>4, <1>6, <1>14, <1>21, <1>22, <2>1, GroupText
    <2> QED
      BY <1>21, <2>2
  <1>24. node'[t].children = f /\ node'[t].next = NULL /\ node'[t].use = u
    <2>1. node'[t] = [Blank EXCEPT !.children = FirstOf(group), !.use = u]
      BY <1>11, <1>12 DEF Linked
    <2> QED
      BY <1>22, <2>1 DEF Blank
  <1>25. Rules' /\ Unparsed(NULL)' = <<>>
    BY RulesNext DEF Ordered, Rules
  <1>26. Rule(t, f, NULL, u)'
    <2>1. count'[t] # 0
      BY <1>19
    <2> QED
      BY <1>12, <1>24, <1>25, <2>1, RuleForNext
  <1>27. Shows(f, u)' = op
    <2>1. op.flag \in Maybe(Key) /\ op = [do |-> "node", take |-> op.take, flag |-> op.flag]
      BY <1>5, <1>7 DEF Operation
    <2>2. (IF u = NULL THEN NULL ELSE Get(global_flags', u)) = op.flag
      BY <1>10, <1>11, <2>1, FlagMeant
    <2>3. Len(Followers(f)') = op.take
      BY <1>2, <1>5, <1>17, <1>23
    <2>4. Shows(f, u)' = [do |-> "node", take |-> Len(Followers(f)'),
                          flag |-> IF u = NULL THEN NULL ELSE Get(global_flags', u)]
      BY DEF Shows
    <2> QED
      BY <2>1, <2>2, <2>3, <2>4
  <1>28. PICK x : x = b[n]
    OBVIOUS
  <1>29. x \in Nat /\ x <= at - 1
    <2>1. b \in [0 .. N -> 0 .. Len(ops)]
      BY <1>2, <1>8 DEF Pieces
    <2> QED
      BY <1>5, <1>23, <1>28, <2>1
  <1>30. Unparsed(t)' = SubSeq(ops, x + 1, at)
    <2>1. PICK p : p = SubSeq(ops, x + 1, at - 1)
      OBVIOUS
    <2>2. p \o <<op>> = SubSeq(ops, x + 1, at)
      <3>1. x + 1 \in 1 .. Len(ops) /\ at \in x + 1 .. Len(ops)
        BY <1>6, <1>29
      <3> QED
        BY <1>6, <1>7, <2>1, <3>1, SubSeqRecursiveSecond
    <2>3. Unparsed(t)' = (p \o <<op>>) \o <<>>
      BY <1>23, <1>25, <1>26, <1>27, <1>28, <2>1 DEF Rule
    <2>4. SubSeq(ops, x + 1, at) \in Seq(Operation)
      <3>1. \A i \in x + 1 .. at : ops[i] \in Operation
        <4>1. \A i \in x + 1 .. at : i \in 1 .. Len(ops)
          BY <1>6, <1>29
        <4> QED
          BY <1>6, <4>1, ElementOfSeq
      <3>2. x + 1 \in Int /\ at \in Int
        BY <1>6, <1>29
      <3> QED
        BY <3>1, <3>2, SubSeqProperties
    <2> QED
      BY <2>2, <2>3, <2>4, ConcatEmptySeq
  <1>31. PICK stk2, b2 : stk2 = Append(rest, t) /\ b2 = [i \in 0 .. n + 1 |-> IF i <= n THEN b[i] ELSE at]
    OBVIOUS
  <1>32. /\ stk2 \in Seq(Cell) /\ Len(stk2) = n + 1 /\ stk2[n + 1] = t
         /\ \A i \in 1 .. n : stk2[i] = stk[i]
    <2>1. \A i \in 1 .. n : rest[i] = stk[i]
      <3>1. 1 \in Int /\ n \in Int /\ \A i \in 1 .. n : stk[i] \in Cell
        <4>1. \A i \in 1 .. n : i \in 1 .. N
          BY <1>5
        <4> QED
          BY <1>2, <1>5, <4>1, ElementOfSeq
      <3>2. \A i \in 1 .. n - 1 + 1 : rest[i] = stk[1 + i - 1]
        BY <1>3, <3>1, SubSeqProperties
      <3>3. \A i \in 1 .. n : i \in 1 .. n - 1 + 1 /\ 1 + i - 1 = i
        BY <1>5
      <3> QED
        BY <3>2, <3>3
    <2>2. /\ stk2 \in Seq(Cell) /\ Len(stk2) = Len(rest) + 1 /\ stk2[Len(rest) + 1] = t
          /\ \A i \in 1 .. Len(rest) : stk2[i] = rest[i]
      <3>1. /\ Append(rest, t) \in Seq(Cell) /\ Len(Append(rest, t)) = Len(rest) + 1
            /\ Append(rest, t)[Len(rest) + 1] = t
            /\ \A i \in 1 .. Len(rest) : Append(rest, t)[i] = rest[i]
        BY <1>12, <1>17, AppendProperties
      <3> QED
        BY <1>31, <3>1
    <2> QED
      BY <1>17, <2>1, <2>2
  <1>33. /\ b2 \in [0 .. n + 1 -> 0 .. Len(ops)] /\ b2[0] = 0 /\ b2[n + 1] = at
         /\ \A i \in 0 .. n : b2[i] = b[i]
    <2>1. b \in [0 .. N -> 0 .. Len(ops)]
      BY <1>2, <1>8 DEF Pieces
    <2>2. \A i \in 0 .. n : i \in 0 .. n + 1 /\ i <= n /\ i \in 0 .. N
      BY <1>5
    <2>3. 0 \in 0 .. n /\ n + 1 \in 0 .. n + 1 /\ ~ (n + 1 <= n) /\ at \in 0 .. Len(ops)
      BY <1>5, <1>6
    <2>4. \A i \in 0 .. n + 1 : i <= n => i \in 0 .. N
      BY <1>5
    <2> QED
      BY <1>8, <1>31, <2>1, <2>2, <2>3, <2>4
  <1>34. ASSUME NEW i \in 1 .. n + 1
         PROVE  /\ b2[i - 1] <= b2[i] /\ node'[stk2[i]].next = NULL /\ count'[stk2[i]] # 0
                /\ Unparsed(stk2[i])' = SubSeq(ops, b2[i - 1] + 1, b2[i])
    <2>1. PICK c : c = stk2[i]
      OBVIOUS
    <2>2. CASE i = n + 1
      <3>1. c = t /\ b2[i] = at /\ b2[i - 1] = x
        <4>1. i - 1 = n /\ n \in 0 .. n
          BY <1>5, <2>2
        <4> QED
          BY <1>28, <1>32, <1>33, <2>1, <2>2, <4>1
      <3>2. x <= at
        BY <1>6, <1>29
      <3>3. Unparsed(c)' = SubSeq(ops, x + 1, at) /\ node'[c].next = NULL /\ count'[c] # 0
        BY <1>19, <1>24, <1>30, <3>1
      <3> QED
        BY <2>1, <3>1, <3>2, <3>3
    <2>3. CASE i # n + 1
      <3>1. i \in 1 .. n /\ i \in 0 .. n /\ i - 1 \in 0 .. n /\ i \in 1 .. N
        BY <1>5, <2>3
      <3>2. c = stk[i] /\ b2[i] = b[i] /\ b2[i - 1] = b[i - 1]
        BY <1>32, <1>33, <2>1, <3>1
      <3>3. /\ b[i - 1] <= b[i] /\ node[c].next = NULL /\ count[c] # 0
            /\ Unparsed(c) = SubSeq(ops, b[i - 1] + 1, b[i])
        BY <1>2, <1>8, <3>1, <3>2 DEF Pieces
      <3>4. c \in Cell /\ c # t /\ count'[c] # 0
        <4>1. c \in Cell
          BY <1>2, <1>5, <3>1, <3>2, ElementOfSeq
        <4> QED
          BY <1>19, <3>3, <4>1
      <3>5. ~ In(group, c)
        <4>1. \A j \in 1 .. Len(group) : group[j] = stk[n + j] /\ n + j \in 1 .. N /\ n + j # i
          <5>1. /\ n + 1 \in Int /\ N \in Int /\ \A j \in n + 1 .. N : stk[j] \in Cell
            <6>1. \A j \in n + 1 .. N : j \in 1 .. N
              BY <1>5
            <6> QED
              BY <1>2, <1>5, <6>1, ElementOfSeq
          <5>2. \A j \in 1 .. N - (n + 1) + 1 : group[j] = stk[(n + 1) + j - 1]
            BY <1>3, <5>1, SubSeqProperties
          <5>3. \A j \in 1 .. N - n : /\ j \in 1 .. N - (n + 1) + 1 /\ (n + 1) + j - 1 = n + j
                                      /\ n + j \in 1 .. N /\ n + j # i
            BY <1>5, <3>1
          <5> QED
            BY <1>17, <5>2, <5>3
        <4> QED
          BY <1>2, <1>16, <3>1, <3>2, <4>1 DEF In, Distinct
      <3>6. PICK K : K = Items(group) \cup F
        OBVIOUS
      <3>7. Changes(K) /\ c \notin K
        <4>1. c \notin Items(group) /\ c \notin F
          BY <1>13, <3>4, <3>5 DEF Items, In
        <4> QED
          BY <1>4, <1>14, <3>6, <4>1, LinkChanges
      <3>8. Alike(c)
        BY <3>3, <3>4, <3>7, TextStays DEF Ordered
      <3>9. node'[c].next = NULL
        BY <3>3, <3>4, <3>7 DEF Changes
      <3> QED
        BY <2>1, <3>2, <3>3, <3>4, <3>8, <3>9 DEF Alike
    <2> QED
      BY <2>2, <2>3
  <1>35. Pieces(stk2, ops, b2)'
    <2>1. b2 \in [0 .. Len(stk2) -> 0 .. Len(ops)]
      BY <1>32, <1>33
    <2> QED
      BY <1>32, <1>34, <2>1 DEF Pieces
  <1>36. job'.stack = stk2 /\ job'.at = at + 1 /\ job'.text.ops = ops
    <2>1. job \in ParserState
      BY <1>4 DEF Core, Parsing
    <2> QED
      BY <1>1, <1>11, <1>31, <2>1 DEF ParserState
  <1>37. Reduced(b2)'
    <2>1. (at + 1) - 1 = at
      BY <1>6
    <2> QED
      BY <1>32, <1>33, <1>35, <1>36, <2>1 DEF Reduced
  <1> QED
    BY <1>37 DEF StackTold

\* What is stored is the text of the line.
LEMMA StoredIsText ==
    ASSUME CellAssumption, Core, Core', Ordered, Ordered', FlagsStay, StackTold, Told, StoreText, Root # NULL,
           NEW name, NEW r, name = Line.name, r = reading
    PROVE  LineText(name, r)'
  <1>1. PICK s, ops, f, v : s = job.stack /\ ops = job.text.ops /\ f = Root /\ v = job.text
    OBVIOUS
  <1>2. /\ AtEnd /\ job.self = NULL /\ file' = file /\ field' = [field EXCEPT ![Line.name] = Root]
    BY DEF StoreText
  <1>3. /\ job # NULL /\ s \in Seq(Cell) /\ f = FirstOf(s) /\ LinkStep(s, {})
        /\ HeapIs(Linked(s), Drop(count, <<>>))
    BY <1>1, StoreLinks
  <1>4. v.ok /\ job.at > Len(ops)
    BY <1>1, <1>2 DEF AtEnd, Root
  <1>5. f # NULL /\ v = file[r].value /\ name \in TextName
    BY <1>1, <1>2, <1>3 DEF Told, Line, Core, Parsing
  <1>6. field'[name] = f
    BY <1>1, <1>2, <1>5 DEF Core, Shape
  <1>7. ASSUME Plain(v)
        PROVE  Unparsed(f)' = ops
    <2>1. PICK b : Pieces(s, ops, b) /\ b[0] = 0 /\ b[Len(s)] = job.at - 1
      BY <1>1, <1>3, <1>7 DEF StackTold, Reduced
    <2>2. ops \in Seq(Operation) /\ job.at = Len(ops) + 1 /\ Len(ops) \in Nat
      <3>1. job.text \in AnyText /\ job.at \in 1 .. Len(job.text.ops) + 1
        BY <1>3 DEF Core, Parsing, ParserState
      <3>2. ops \in Seq(Operation)
        BY <1>1, <3>1 DEF AnyText
      <3> QED
        BY <1>1, <1>4, <3>1, <3>2, LenProperties
    <2>3. \A c \in Cell : In(s, c) => count'[c] # 0
      <3>1. \A c \in Cell : In(s, c) => count[c] # 0
        BY <2>1 DEF Pieces, In
      <3>2. \A c \in Cell : count'[c] = count[c]
        BY <1>3, HeapKept
      <3> QED
        BY <3>1, <3>2
    <2>4. Unparsed(f)' = SubSeq(ops, b[0] + 1, b[Len(s)])
      BY <1>3, <2>1, <2>2, <2>3, GroupText
    <2>5. b[0] + 1 = 1 /\ b[Len(s)] = Len(ops)
      BY <2>1, <2>2
    <2> QED
      BY <2>2, <2>4, <2>5, SubSeqFull
  <1>8. file'[r].value = v /\ v.ops = ops
    BY <1>1, <1>2, <1>5
  <1> QED
    BY <1>4, <1>5, <1>6, <1>7, <1>8 DEF LineText

\* A new parser has nothing on its stack.
LEMMA ParserTold ==
    ASSUME NEW text \in AnyText, NEW self, job' = Parser(text, self)
    PROVE  StackTold'
  <1>1. PICK ops : ops = text.ops
    OBVIOUS
  <1>2. job'.stack = <<>> /\ job'.at = 1 /\ job'.text.ops = ops
    BY <1>1 DEF Parser
  <1>3. Len(<<>>) = 0 /\ <<>> \in Seq(Cell) /\ Len(ops) \in Nat
    BY <1>1, EmptySeq, LenProperties DEF AnyText
  <1>4. PICK b : b = [i \in 0 .. 0 |-> 0]
    OBVIOUS
  <1>5. b \in [0 .. 0 -> 0 .. Len(ops)] /\ b[0] = 0
    BY <1>3, <1>4
  <1>6. Pieces(<<>>, ops, b)'
    <2>1. \A i \in 1 .. 0 : FALSE
      OBVIOUS
    <2> QED
      BY <1>3, <1>5, <2>1 DEF Pieces
  <1>7. Reduced(b)'
    BY <1>2, <1>3, <1>5, <1>6 DEF Reduced
  <1> QED
    BY <1>7 DEF StackTold

\* Every step keeps what is on the stack.
LEMMA NextStackTold ==
    ASSUME Core, Core', Ordered, Ordered', StackTold, [MetadataNext]_all
    PROVE  StackTold'
  <1> USE CellAssumption
  <1>1. CASE Reduce
    <2>1. CASE Plain(job.text)
      BY <1>1, <2>1, ReduceTold, NextFlagsStay, HashAssumption, OverlapAssumption, FlagAssumption
    <2>2. CASE ~ Plain(job.text)
      <3>1. job # NULL
        BY <1>1 DEF Reduce
      <3>2. job'.text = job.text
        <4>1. job \in ParserState
          BY <3>1 DEF Core, Parsing
        <4> QED
          BY <1>1, <4>1 DEF Reduce, ReduceNode, ReduceParen, ParserState
      <3> QED
        BY <2>2, <3>2 DEF StackTold, Plain
    <2> QED
      BY <2>1, <2>2
  <1>2. ASSUME job' = NULL
        PROVE  StackTold'
    BY <1>2 DEF StackTold
  <1>3. CASE Constructed \/ StoreText
    BY <1>2, <1>3 DEF Constructed, StoreText
  <1>4. ASSUME NEW text \in Texts, Construct(text)
        PROVE  StackTold'
    <2>1. text \in AnyText /\ job' = Parser(text, Fresh)
      BY <1>4, TextsAssumption DEF Construct, IsText
    <2>2. PICK t : t = Fresh
      OBVIOUS
    <2> QED
      BY <2>1, <2>2, ParserTold
  <1>5. CASE Python
    <2>1. ASSUME NEW c \in Cell, TakeMember(c, "next") \/ TakeMember(c, "children") \/ Forget(c)
          PROVE  StackTold'
      BY <1>2, <2>1 DEF TakeMember, Forget, Idle
    <2>2. ASSUME NEW c \in Cell, NEW l \in Loop, StartLoop(l, c)
          PROVE  StackTold'
      BY <1>2, <2>2 DEF StartLoop, Idle
    <2>3. ASSUME NEW l \in DOMAIN loops, LoopNext(l) \/ EndLoop(l) \/ ReadCondition(l)
          PROVE  StackTold'
      BY <1>2, <2>3 DEF LoopNext, EndLoop, ReadCondition, Idle, exprs
    <2> QED
      BY <1>4, <1>5, <2>1, <2>2, <2>3 DEF Python
  <1>6. CASE Dealloc \/ \E name \in TextName : TakeField(name)
    BY <1>2, <1>6 DEF Dealloc, TakeField, Idle
  <1>7. CASE ReadText
    <2>1. CASE job' = NULL
      BY <1>2, <2>1
    <2>2. CASE job' # NULL
      <3>1. job' = Parser(Line.value, NULL) /\ Line.name \in TextName /\ reading \in 1 .. Len(file) /\ job = NULL
        BY <1>7, <2>2 DEF ReadText, ReadingLine
      <3>2. Line.value \in AnyText
        <4>1. file \in Files /\ reading \in DOMAIN file
          BY <3>1, LenProperties, FilesAssumption DEF Core, Shape, FilesAssumption
        <4> QED
          BY <3>1, <4>1, FilesAssumption DEF FilesAssumption, Line, IsText
      <3>3. PICK text : text = Line.value
        OBVIOUS
      <3> QED
        BY <3>1, <3>2, <3>3, ParserTold
    <2> QED
      BY <2>1, <2>2
  <1>8. CASE StartReading \/ ReadOther \/ EndReading
    BY <1>2, <1>8 DEF StartReading, ReadOther, ReadingLine, EndReading, exprs
  <1>9. CASE UNCHANGED all
    <2>1. UNCHANGED <<node, count, job>>
      BY <1>9 DEF all, exprs
    <2>2. Changes({})
      BY <2>1 DEF Changes
    <2>3. \A c \in Cell : count[c] # 0 => Alike(c)
      BY <2>1, <2>2, TextStays, NextFlagsStay DEF Ordered
    <2> SUFFICES ASSUME job # NULL, Plain(job.text)
                 PROVE  \E b : Reduced(b)'
      BY <2>1 DEF StackTold
    <2>4. PICK s, ops : s = job.stack /\ ops = job.text.ops
      OBVIOUS
    <2>5. PICK b : Pieces(s, ops, b) /\ b[0] = 0 /\ b[Len(s)] = job.at - 1
      BY <2>4 DEF StackTold, Reduced
    <2>6. ASSUME NEW i \in 1 .. Len(s)
          PROVE  Unparsed(s[i])' = Unparsed(s[i])
      <3>1. s[i] \in Cell /\ count[s[i]] # 0
        BY <2>5, ElementOfSeq DEF Pieces
      <3> QED
        BY <2>3, <3>1 DEF Alike
    <2>7. Pieces(s, ops, b)'
      BY <2>1, <2>5, <2>6 DEF Pieces
    <2>8. Reduced(b)'
      BY <2>1, <2>4, <2>5, <2>7 DEF Reduced
    <2> QED
      BY <2>8
  <1> QED
    BY <1>1, <1>3, <1>5, <1>6, <1>7, <1>8, <1>9 DEF MetadataNext

\* What the lines that were read say is held.
WholeInv == Told /\ StackTold

\* Every step keeps that.
LEMMA NextWhole ==
    Core /\ Core' /\ Ordered /\ Ordered' /\ WholeInv /\ [MetadataNext]_all => WholeInv'
  <1> SUFFICES ASSUME Core, Core', Ordered, Ordered', Told, StackTold, [MetadataNext]_all
               PROVE  Told' /\ StackTold'
    BY DEF WholeInv
  <1>1. TextsSame /\ FlagsStay
    BY NextTextsSame, NextFlagsStay, CellAssumption
  <1>2. StoredTold
    BY <1>1, StoredIsText, CellAssumption DEF StoredTold
  <1> QED
    BY <1>1, <1>2, NextTold, NextStackTold, FilesAssumption

\* An ebuild that says it was read holds what its whole file says.
THEOREM WholeFileRead == MetadataSpec => []MetadataWhole
  <1>1. MetadataInit /\ Core => WholeInv
    <2> SUFFICES ASSUME MetadataInit, Core
                 PROVE  Told /\ StackTold
      BY DEF WholeInv
    <2>1. job = NULL
      BY DEF MetadataInit, NoNodes
    <2> QED
      BY <2>1, InitTold, FilesAssumption DEF StackTold
  <1>2. Core /\ WholeInv => MetadataWhole
    BY WholeTold, FilesAssumption DEF WholeInv
  <1> QED
    BY <1>1, <1>2, NextWhole, CoreInvariance, OrderInvariance, PTL DEF MetadataSpec
===============================================================================
