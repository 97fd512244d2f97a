---------------------------- MODULE RegistryProofs ----------------------------
(***************************************************************************)
(* Proofs about Registry for any keys, hashes, packages and atoms.  That   *)
(* references are counted exactly and no assertion fails is proved for any *)
(* number of Portage objects, though they use each other's ids.            *)
(***************************************************************************)
EXTENDS Registry, LUTProofs

-----------------------------------------------------------------------------
(* The references of several tables together.                              *)

Places(pk, L, x) == UNION {{p} \X Uses(pk[p], x) : p \in L}
RegularIn(pk, L) == IsFiniteSet(L) /\ \A p \in L : Regular(pk[p])

LEMMA PlacesFinite ==
    ASSUME NEW pk, NEW L, RegularIn(pk, L), NEW x
    PROVE  /\ IsFiniteSet(Places(pk, L, x)) /\ Cardinality(Places(pk, L, x)) \in Nat
           /\ \A p \in L : /\ IsFiniteSet(Uses(pk[p], x))
                           /\ Cardinality(Uses(pk[p], x)) \in Nat
  <1> USE DEF RegularIn
  <1> DEFINE of(p) == {p} \X Uses(pk[p], x)
             T == {of(p) : p \in L}
             f == [p \in L |-> of(p)]
  <1>1. ASSUME NEW p \in L
        PROVE  /\ IsFiniteSet(Uses(pk[p], x)) /\ Cardinality(Uses(pk[p], x)) \in Nat
               /\ IsFiniteSet(of(p))
    <2>1. Uses(pk[p], x) \in SUBSET pk[p].nodes /\ IsFiniteSet(pk[p].nodes)
      BY DEF Uses, Regular
    <2>2. IsFiniteSet(Uses(pk[p], x)) /\ Cardinality(Uses(pk[p], x)) \in Nat
      BY <2>1, FS_Subset, FS_CardinalityType
    <2>3. IsFiniteSet({p})
      BY FS_Singleton
    <2> QED
      BY <2>2, <2>3, FS_Product
  <1> HIDE DEF of
  <1>2. f \in Surjection(L, T)
    BY DEF Surjection
  <1>3. IsFiniteSet(T)
    BY <1>2, FS_Surjection, Zenon
  <1>4. \A S \in T : IsFiniteSet(S)
    BY <1>1
  <1>5. IsFiniteSet(UNION T)
    BY <1>3, <1>4, FS_UNION
  <1>6. Places(pk, L, x) = UNION T
    BY DEF Places, of
  <1> QED
    BY <1>1, <1>5, <1>6, FS_CardinalityType

LEMMA PlacesSplit ==
    ASSUME NEW pk, NEW L, RegularIn(pk, L), NEW p \in L, NEW x
    PROVE  Cardinality(Places(pk, L, x))
              = Cardinality(Places(pk, L \ {p}, x)) + Cardinality(Uses(pk[p], x))
  <1> DEFINE A == Places(pk, L \ {p}, x)
             B == {p} \X Uses(pk[p], x)
  <1>1. RegularIn(pk, L \ {p})
    BY FS_RemoveElement DEF RegularIn
  <1>2. IsFiniteSet(A) /\ Cardinality(A) \in Nat /\ IsFiniteSet(Uses(pk[p], x))
        /\ Cardinality(Uses(pk[p], x)) \in Nat
    BY <1>1, PlacesFinite
  <1>3. IsFiniteSet({p}) /\ Cardinality({p}) = 1
    BY FS_Singleton
  <1>4. IsFiniteSet(B) /\ Cardinality(B) = Cardinality(Uses(pk[p], x))
    <2>1. IsFiniteSet(B) /\ Cardinality(B) = Cardinality({p}) * Cardinality(Uses(pk[p], x))
      BY <1>2, <1>3, FS_Product
    <2> QED
      BY <2>1, <1>2, <1>3
  <1>5. Places(pk, L, x) = A \cup B /\ A \cap B = {}
    BY DEF Places
  <1>6. Cardinality(A \cup B) = Cardinality(A) + Cardinality(B) - Cardinality(A \cap B)
    BY <1>2, <1>4, FS_Union
  <1>7. Cardinality(A \cap B) = 0
    BY <1>5, FS_EmptySet
  <1> HIDE DEF A, B
  <1> QED
    BY <1>2, <1>4, <1>5, <1>6, <1>7 DEF A

\* The table of p changes.
LEMMA PlacesExcept ==
    ASSUME NEW pk, NEW pl, NEW L, RegularIn(pk, L), RegularIn(pl, L), NEW p \in L,
           \A q \in L \ {p} : pl[q] = pk[q], NEW x
    PROVE  Cardinality(Places(pl, L, x))
              = Cardinality(Places(pk, L, x)) - Cardinality(Uses(pk[p], x))
                + Cardinality(Uses(pl[p], x))
  <1> DEFINE R == L \ {p}
  <1>1. RegularIn(pk, R)
    BY FS_RemoveElement DEF RegularIn
  <1>2. Places(pl, R, x) = Places(pk, R, x)
    BY DEF Places
  <1>3. Cardinality(Places(pl, L, x)) = Cardinality(Places(pl, R, x)) + Cardinality(Uses(pl[p], x))
    BY PlacesSplit
  <1>4. Cardinality(Places(pk, L, x)) = Cardinality(Places(pk, R, x)) + Cardinality(Uses(pk[p], x))
    BY PlacesSplit
  <1>5. /\ Cardinality(Uses(pk[p], x)) \in Nat /\ Cardinality(Uses(pl[p], x)) \in Nat
        /\ Cardinality(Places(pl, L, x)) \in Nat /\ Cardinality(Places(pk, L, x)) \in Nat
        /\ Cardinality(Places(pk, R, x)) \in Nat
    BY <1>1, PlacesFinite
  <1> HIDE DEF R
  <1> QED
    BY <1>2, <1>3, <1>4, <1>5

-----------------------------------------------------------------------------
(* Reference counts.                                                       *)

LEMMA LivingFinite ==
    ASSUME ObjectAssumption, FiniteAssumption, TypeOK
    PROVE  /\ Living \subseteq Portage /\ IsFiniteSet(Living)
           /\ \A p \in Portage : p \in Living <=> p \in owned \/ p = global_portage
  <1>1. /\ Living \subseteq Portage
        /\ \A p \in Portage : p \in Living <=> p \in owned \/ p = global_portage
    BY DEF TypeOK, Living, ObjectAssumption
  <1> QED
    BY <1>1, FS_Subset DEF FiniteAssumption

LEMMA InitCount == Init => CountInv
  <1> USE ObjectAssumption, SizeAssumption, FiniteAssumption
  <1> SUFFICES ASSUME Init PROVE CountInv
    OBVIOUS
  <1>1. ASSUME NEW p \in Portage
        PROVE  /\ packages[p] \in PackageTable /\ Regular(packages[p])
               /\ packages[p].nodes = {}
    BY NewRegular DEF Init, PackageTable, SizeAssumption
  <1>2. TypeOK
    <2>1. packages \in [Portage -> PackageTable]
      BY <1>1 DEF Init
    <2> QED
      BY <2>1 DEF Init, TypeOK
  <1>3. ASSUME NEW x
        PROVE  \A p \in Portage : Uses(packages[p], x) = {}
    BY <1>1 DEF Uses
  <1>4. ASSUME NEW x \in Package
        PROVE  refs[x] = held[x] + Cardinality(Stored(x))
    <2>1. Living \subseteq Portage
      BY <1>2, LivingFinite
    <2>2. Stored(x) = {}
      BY <2>1, <1>3 DEF Stored
    <2> QED
      BY <2>2, FS_EmptySet DEF Init
  <1> QED
    BY <1>1, <1>2, <1>3, <1>4 DEF CountInv, RefsExact, TablesRegular, OnlyAllocated, Init

\* lut_insert_id on the table of p, a Portage object in use: its part of
\* CountInv, whatever package and id come with it.
Inserts(p, k, x, id, flag) ==
    /\ packages' = [packages EXCEPT ![p] = InsertId(@, k, x, id, flag)]
    /\ refs' = RefsAfter(packages[p], x, id, flag, 0)

CountedAfter(x) ==
    /\ packages' \in [Portage -> PackageTable] /\ TablesRegular'
    /\ refs' \in [Package -> Nat]
    /\ \A y \in Package : refs'[y] = held'[y] + Cardinality(Stored(y)')
    /\ \A y \in Package : y # x /\ (\A q \in Portage : Uses(packages[q], y) = {})
          => \A q \in Portage : Uses(packages'[q], y) = {}

LEMMA InsertKeepsCount ==
    ASSUME HashAssumption, ObjectAssumption, FiniteAssumption, CountInv,
           NEW p \in Living, NEW x \in Package, NEW k \in Key, NEW id \in Id,
           NEW flag \in {"EXISTS", "NOT_FOUND"},
           flag = "EXISTS" => WithId(Enlarged(packages[p]), id) # {},
           Inserts(p, k, x, id, flag), UNCHANGED <<owned, global_portage, held>>
    PROVE  CountedAfter(x)
  <1> DEFINE t == packages[p]
             r == InsertId(t, k, x, id, flag)
  <1>1. /\ TypeOK /\ packages \in [Portage -> PackageTable] /\ p \in Portage
        /\ Living \subseteq Portage /\ IsFiniteSet(Living)
        /\ \A q \in Portage : Regular(packages[q])
        /\ held \in [Package -> Nat] /\ refs \in [Package -> Nat]
        /\ \A y \in Package : refs[y] = held[y] + Cardinality(Stored(y))
    BY LivingFinite DEF CountInv, RefsExact, TablesRegular, TypeOK
  <1>2. NULL \notin Package /\ t \in Table(Package) /\ Regular(t)
    BY <1>1 DEF PackageTable, ObjectAssumption
  <1>3. /\ r \in Table(Package) /\ Regular(r)
        /\ \A y \in Package :
              /\ y # x /\ Uses(t, y) = {} => Uses(r, y) = {}
              /\ Cardinality(Uses(r, y))
                    = Cardinality(Uses(t, y)) + (IF y = x /\ Gains(t, x, id, flag) THEN 1 ELSE 0)
                                              - (IF y \in Loses(t, x, id, flag) THEN 1 ELSE 0)
    BY <1>2, InsertRegular
  <1> HIDE DEF r
  <1>4. packages' = [packages EXCEPT ![p] = r] /\ packages' \in [Portage -> PackageTable]
    BY <1>1, <1>3 DEF r, PackageTable, Inserts
  <1>5. TablesRegular'
    BY <1>1, <1>3, <1>4 DEF TablesRegular
  <1>6. Living' = Living
    BY DEF Living
  <1>A. RegularIn(packages, Living) /\ RegularIn(packages', Living)
    BY <1>1, <1>5 DEF RegularIn, TablesRegular
  <1>7. ASSUME NEW y \in Package
        PROVE  refs'[y] = held'[y] + Cardinality(Stored(y)')
    <2> DEFINE gain == IF y = x /\ Gains(t, x, id, flag) THEN 1 ELSE 0
               loss == IF y \in Loses(t, x, id, flag) THEN 1 ELSE 0
    <2>1. refs'[y] = refs[y] + (IF y = x THEN 0 ELSE 0) + gain - loss
      BY DEF RefsAfter, Inserts
    <2>2. Stored(y)' = Places(packages', Living, y) /\ Stored(y) = Places(packages, Living, y)
      BY <1>6 DEF Stored, Places
    <2>3. Cardinality(Places(packages', Living, y))
             = Cardinality(Places(packages, Living, y)) - Cardinality(Uses(t, y))
               + Cardinality(Uses(r, y))
      <3>1. packages'[p] = r /\ \A q \in Living \ {p} : packages'[q] = packages[q]
        BY <1>1, <1>4
      <3> DEFINE pl == packages' pk == packages L == Living
      <3>2. /\ RegularIn(pk, L) /\ RegularIn(pl, L) /\ p \in L
            /\ \A q \in L \ {p} : pl[q] = pk[q]
        BY <1>A, <3>1
      <3> HIDE DEF pl, pk, L
      <3>3. Cardinality(Places(pl, L, y))
               = Cardinality(Places(pk, L, y)) - Cardinality(Uses(pk[p], y))
                 + Cardinality(Uses(pl[p], y))
        BY <3>2, PlacesExcept
      <3> QED
        BY <3>1, <3>3 DEF pl, pk, L
    <2>4. Cardinality(Uses(r, y)) = Cardinality(Uses(t, y)) + gain - loss
      BY <1>3
    <2>5. Cardinality(Places(packages, Living, y)) \in Nat /\ Cardinality(Uses(t, y)) \in Nat
      BY <1>A, PlacesFinite
    <2>6. refs[y] = held[y] + Cardinality(Places(packages, Living, y))
          /\ held[y] \in Nat /\ held'[y] = held[y]
      BY <1>1, <2>2
    <2>7. gain \in Int /\ loss \in Int
      OBVIOUS
    <2> HIDE DEF gain, loss, t
    <2> QED
      BY <2>1, <2>2, <2>3, <2>4, <2>5, <2>6, <2>7
  <1>8. refs' \in [Package -> Nat]
    <2>1. refs' = [y \in Package |-> refs'[y]]
      BY DEF RefsAfter, Inserts
    <2>2. ASSUME NEW y \in Package
          PROVE  refs'[y] \in Nat
      <3>1. refs'[y] = held'[y] + Cardinality(Places(packages', Living, y)) /\ held'[y] \in Nat
        BY <1>1, <1>6, <1>7 DEF Stored, Places
      <3>2. Cardinality(Places(packages', Living, y)) \in Nat
        BY <1>A, PlacesFinite
      <3> QED
        BY <3>1, <3>2
    <2> QED
      BY <2>1, <2>2
  <1>9. ASSUME NEW y \in Package, y # x, \A q \in Portage : Uses(packages[q], y) = {},
               NEW q \in Portage
        PROVE  Uses(packages'[q], y) = {}
    BY <1>3, <1>4, <1>9, <1>1
  <1> QED
    BY <1>4, <1>5, <1>7, <1>8, <1>9 DEF CountedAfter

-----------------------------------------------------------------------------
(* CountInv is inductive.                                                  *)

LEMMA StoredNat ==
    ASSUME ObjectAssumption, FiniteAssumption, CountInv, NEW x
    PROVE  Stored(x) = Places(packages, Living, x) /\ Cardinality(Stored(x)) \in Nat
  <1>1. RegularIn(packages, Living)
    BY LivingFinite DEF CountInv, RefsExact, TablesRegular, RegularIn
  <1>2. Cardinality(Places(packages, Living, x)) \in Nat
    BY <1>1, PlacesFinite
  <1>3. Stored(x) = Places(packages, Living, x)
    BY DEF Stored, Places
  <1> QED
    BY <1>2, <1>3

\* Actions that leave the tables and the Portage objects alone: they may only
\* give the program references to packages that are allocated.
LEMMA CountKept ==
    ASSUME ObjectAssumption, FiniteAssumption, CountInv, UNCHANGED portages, TypeOK',
           \A y \in Package : refs'[y] - held'[y] = refs[y] - held[y],
           \A y \in Package : key'[y] = NULL => key[y] = NULL /\ held'[y] = 0
    PROVE  CountInv'
  <1>1. \A y \in Package : refs'[y] = held'[y] + Cardinality(Stored(y)')
    <2> TAKE y \in Package
    <2>1. Stored(y)' = Stored(y)
      BY DEF portages, Stored, Living
    <2>2. Cardinality(Stored(y)) \in Nat
      BY StoredNat
    <2>3. refs[y] = held[y] + Cardinality(Stored(y))
      BY DEF CountInv, RefsExact
    <2>4. refs[y] \in Nat /\ held[y] \in Nat /\ refs'[y] \in Nat /\ held'[y] \in Nat
      BY DEF CountInv, RefsExact, TypeOK
    <2>5. refs'[y] - held'[y] = refs[y] - held[y]
      OBVIOUS
    <2> QED
      BY <2>1, <2>2, <2>3, <2>4, <2>5
  <1>2. TablesRegular' /\ OnlyAllocated'
    BY DEF CountInv, TablesRegular, OnlyAllocated, portages
  <1> QED
    BY <1>1, <1>2 DEF CountInv, RefsExact

LEMMA NewPackageCount ==
    ASSUME ObjectAssumption, FiniteAssumption, CountInv,
           NEW x \in Package, NEW k \in Key, NewPackage(x, k)
    PROVE  CountInv'
  <1>1. TypeOK /\ k # NULL
    BY DEF CountInv, RefsExact, ObjectAssumption
  <1>2. TypeOK'
    BY <1>1 DEF NewPackage, TypeOK, portages
  <1>3. refs[x] = 0 /\ held[x] = 0
    <2>1. held[x] = 0 /\ \A p \in Portage : Uses(packages[p], x) = {}
      BY DEF CountInv, OnlyAllocated, NewPackage
    <2>2. Stored(x) = {}
      BY <1>1, <2>1, LivingFinite DEF Stored
    <2> QED
      BY <2>1, <2>2, FS_EmptySet DEF CountInv, RefsExact
  <1>4. ASSUME NEW y \in Package
        PROVE  /\ refs'[y] - held'[y] = refs[y] - held[y]
               /\ key'[y] = NULL => key[y] = NULL /\ held'[y] = 0
    <2>1. CASE y = x
      BY <1>1, <1>3, <2>1 DEF NewPackage, TypeOK
    <2>2. CASE y # x
      BY <1>1, <2>2 DEF NewPackage, TypeOK, CountInv, OnlyAllocated
    <2> QED
      BY <2>1, <2>2
  <1> QED
    BY <1>2, <1>4, CountKept DEF NewPackage

LEMMA DropPackageCount ==
    ASSUME ObjectAssumption, FiniteAssumption, CountInv, NEW x \in Package, DropPackage(x)
    PROVE  CountInv'
  <1>1. TypeOK
    BY DEF CountInv, RefsExact
  <1>2. refs[x] >= held[x]
    <2>2. Cardinality(Stored(x)) \in Nat
      BY StoredNat
    <2>3. refs[x] = held[x] + Cardinality(Stored(x)) /\ held[x] \in Nat
      BY <1>1 DEF CountInv, RefsExact, TypeOK
    <2> QED
      BY <2>2, <2>3
  <1>3. TypeOK'
    BY <1>1, <1>2 DEF DropPackage, TypeOK, portages
  <1>4. ASSUME NEW y \in Package
        PROVE  /\ refs'[y] - held'[y] = refs[y] - held[y]
               /\ key'[y] = NULL => key[y] = NULL /\ held'[y] = 0
    BY <1>1 DEF DropPackage, TypeOK, CountInv, OnlyAllocated
  <1> QED
    BY <1>3, <1>4, CountKept DEF DropPackage

\* The lookups: what they answer is a package or an error.
LEMMA LookupCount ==
    ASSUME HashAssumption, OverlapAssumption, ObjectAssumption, FiniteAssumption, CountInv,
           \/ \E a \in Atom, k \in Key : NewAtom(a, k)
           \/ \E p \in Portage, k \in Key : LoadKnown(p, k)
           \/ \E p \in Portage, a \in Atom : MatchAtom(p, a)
    PROVE  CountInv'
  <1>1. TypeOK /\ NULL \notin Package
    BY DEF CountInv, RefsExact, ObjectAssumption
  <1>2. ASSUME NEW q \in Portage
        PROVE  /\ packages[q] \in Table(Package) /\ Regular(packages[q])
               /\ \A id : Get(packages[q], id) \in Package \cup {NULL}
               /\ \A k \in Key : /\ GetId(packages[q], k).id \in Id
                                 /\ GetId(packages[q], k).flag \in {"EXISTS", "NOT_FOUND"}
    <2>1. packages[q] \in Table(Package) /\ Regular(packages[q])
      BY <1>1 DEF TypeOK, PackageTable, CountInv, TablesRegular
    <2> QED
      BY <1>1, <2>1, GetIn, GetIdRegular
  <1>3. TypeOK' /\ UNCHANGED portages /\ UNCHANGED objects
    <2>1. ASSUME NEW a \in Atom, NEW k \in Key, NewAtom(a, k)
          PROVE  TypeOK' /\ UNCHANGED portages /\ UNCHANGED objects
      <3>1. global_portage \in Portage
        BY <1>1, <2>1 DEF NewAtom, TypeOK
      <3>2. PICK g \in [id : Id, flag : {"EXISTS", "NOT_FOUND"}] :
               atoms' = [atoms EXCEPT ![a] = [key |-> k, id |-> g.id, flag |-> g.flag]]
        <4> DEFINE h == GetId(packages[global_portage], k)
                   g == [id |-> h.id, flag |-> h.flag]
        <4>1. g \in [id : Id, flag : {"EXISTS", "NOT_FOUND"}]
          BY <1>2, <3>1
        <4> QED
          BY <2>1, <4>1 DEF NewAtom
      <3>3. \A b \in Atom : \/ atoms'[b] = NULL
                           \/ atoms'[b] \in [key : Key, id : Id, flag : {"EXISTS", "NOT_FOUND"}]
        BY <1>1, <3>2 DEF TypeOK
      <3> QED
        BY <1>1, <2>1, <3>3 DEF NewAtom, TypeOK, portages, objects
    <2>2. ASSUME NEW p \in Portage, NEW k \in Key, LoadKnown(p, k)
          PROVE  TypeOK' /\ UNCHANGED portages /\ UNCHANGED objects
      <3>1. global_portage \in Portage
        BY <1>1, <2>2 DEF LoadKnown, TypeOK
      <3>2. answer' \in Package \cup {NULL, "KeyError", "SystemError"}
        BY <1>2, <2>2, <3>1 DEF LoadKnown
      <3> QED
        BY <1>1, <2>2, <3>2 DEF LoadKnown, TypeOK, portages, objects
    <2>3. ASSUME NEW p \in Portage, NEW a \in Atom, MatchAtom(p, a)
          PROVE  TypeOK' /\ UNCHANGED portages /\ UNCHANGED objects
      <3>1. answer' \in Package \cup {NULL, "KeyError", "SystemError"}
        BY <1>2, <2>3 DEF MatchAtom
      <3> QED
        BY <1>1, <2>3, <3>1 DEF MatchAtom, TypeOK, portages, objects
    <2> QED
      BY <2>1, <2>2, <2>3
  <1>4. ASSUME NEW y \in Package
        PROVE  /\ refs'[y] - held'[y] = refs[y] - held[y]
               /\ key'[y] = NULL => key[y] = NULL /\ held'[y] = 0
    BY <1>3 DEF objects, CountInv, OnlyAllocated
  <1> QED
    BY <1>3, <1>4, CountKept

LEMMA GetPackageCount ==
    ASSUME ObjectAssumption, FiniteAssumption, CountInv,
           NEW p \in Portage, NEW id, GetPackage(p, id)
    PROVE  CountInv'
  <1>1. TypeOK /\ NULL \notin Package /\ global_portage \in Portage
        /\ packages[global_portage] \in Table(Package)
    BY DEF CountInv, RefsExact, ObjectAssumption, GetPackage, TypeOK, PackageTable
  <1>2. /\ answer' \in Package \cup {NULL}
        /\ answer' # NULL => key[answer'] # NULL
    <2>1. answer' = Get(packages[global_portage], id)
      BY DEF GetPackage
    <2>2. Get(packages[global_portage], id) \in Package \cup {NULL}
          /\ (Get(packages[global_portage], id) # NULL =>
                \E nd \in packages[global_portage].nodes :
                   nd.data = Get(packages[global_portage], id))
      BY <1>1, GetIn
    <2>3. answer' # NULL => Uses(packages[global_portage], answer') # {}
      BY <2>1, <2>2 DEF Uses
    <2> QED
      BY <1>1, <2>1, <2>2, <2>3 DEF CountInv, OnlyAllocated
  <1>3. TypeOK'
    BY <1>1, <1>2 DEF GetPackage, TypeOK, portages
  <1>4. ASSUME NEW y \in Package
        PROVE  /\ refs'[y] - held'[y] = refs[y] - held[y]
               /\ key'[y] = NULL => key[y] = NULL /\ held'[y] = 0
    <2>1. CASE answer' = NULL
      BY <1>1, <2>1 DEF GetPackage, TypeOK, CountInv, OnlyAllocated
    <2>2. CASE answer' # NULL
      BY <1>1, <1>2, <2>2 DEF GetPackage, TypeOK, CountInv, OnlyAllocated
    <2> QED
      BY <2>1, <2>2
  <1> QED
    BY <1>3, <1>4, CountKept DEF GetPackage

\* The two ways into lut_insert_id.
LEMMA AddPackageCount ==
    ASSUME HashAssumption, OverlapAssumption, ObjectAssumption, FiniteAssumption, CountInv,
           NEW p \in Portage, NEW x \in Package, AddPackage(p, x)
    PROVE  CountInv'
  <1> DEFINE k == key[x]
             g == GetId(packages[p], k)
  <1>1. TypeOK /\ p \in Living /\ packages[p] \in Table(Package) /\ Regular(packages[p])
    BY LivingFinite DEF CountInv, RefsExact, TablesRegular, TypeOK, PackageTable, AddPackage
  <1>2. k \in Key
    BY <1>1 DEF CountInv, OnlyAllocated, AddPackage, TypeOK
  <1>3. /\ g.id \in Id /\ g.flag \in {"EXISTS", "NOT_FOUND"}
        /\ g.flag = "EXISTS" => WithId(Enlarged(packages[p]), g.id) # {}
    BY <1>1, <1>2, GetIdRegular
  <1>4. Inserts(p, k, x, g.id, g.flag)
    BY <1>1 DEF AddPackage, Insert, Inserts, TypeOK
  <1>5. UNCHANGED <<owned, global_portage, key, held, atoms, answer>>
        /\ package_id' = [package_id EXCEPT ![x] = g.id] /\ held[x] > 0
    BY DEF AddPackage
  <1> HIDE DEF g, k
  <1>6. CountedAfter(x)
    <2> DEFINE id == g.id flag == g.flag
    <2>1. /\ id \in Id /\ flag \in {"EXISTS", "NOT_FOUND"} /\ p \in Living /\ k \in Key
          /\ flag = "EXISTS" => WithId(Enlarged(packages[p]), id) # {}
          /\ Inserts(p, k, x, id, flag) /\ UNCHANGED <<owned, global_portage, held>>
      BY <1>1, <1>2, <1>3, <1>4, <1>5
    <2> HIDE DEF id, flag
    <2> QED
      BY <2>1, InsertKeepsCount
  <1>7. TypeOK'
    BY <1>1, <1>3, <1>5, <1>6 DEF TypeOK, CountedAfter
  <1>8. OnlyAllocated'
    <2>1. key[x] # NULL
      BY <1>1, <1>5 DEF CountInv, OnlyAllocated, TypeOK
    <2> QED
      BY <1>5, <1>6, <2>1 DEF CountInv, OnlyAllocated, CountedAfter
  <1> QED
    BY <1>6, <1>7, <1>8 DEF CountInv, RefsExact, CountedAfter

LEMMA LoadNewCount ==
    ASSUME HashAssumption, OverlapAssumption, ObjectAssumption, FiniteAssumption, CountInv,
           NEW p \in Portage, NEW k \in Key, NEW x \in Package, LoadNew(p, k, x)
    PROVE  CountInv'
  <1> DEFINE g == GetId(packages[global_portage], k)
  <1>1. TypeOK /\ p \in Living /\ packages[p] \in Table(Package) /\ Regular(packages[p])
        /\ global_portage \in Portage
        /\ packages[global_portage] \in Table(Package) /\ Regular(packages[global_portage])
    BY LivingFinite DEF CountInv, RefsExact, TablesRegular, TypeOK, PackageTable, LoadNew
  <1>2. g.id \in Id /\ g.flag \in {"EXISTS", "NOT_FOUND"}
    BY <1>1, GetIdRegular
  <1>3. g.flag = "NOT_FOUND"
    BY DEF LoadNew
  <1>4. Inserts(p, k, x, g.id, g.flag)
    BY DEF LoadNew, Inserts
  <1>5. UNCHANGED <<owned, global_portage, held, atoms>> /\ answer' = x
        /\ key' = [key EXCEPT ![x] = k]
        /\ package_id' = [package_id EXCEPT ![x] = g.id]
    BY DEF LoadNew
  <1> HIDE DEF g
  <1>6. CountedAfter(x)
    <2> DEFINE id == g.id flag == g.flag
    <2>1. /\ id \in Id /\ flag \in {"EXISTS", "NOT_FOUND"} /\ p \in Living /\ k \in Key
          /\ flag = "EXISTS" => WithId(Enlarged(packages[p]), id) # {}
          /\ Inserts(p, k, x, id, flag) /\ UNCHANGED <<owned, global_portage, held>>
      BY <1>1, <1>2, <1>3, <1>4, <1>5
    <2> HIDE DEF id, flag
    <2> QED
      BY <2>1, InsertKeepsCount
  <1>7. TypeOK'
    BY <1>1, <1>2, <1>5, <1>6 DEF TypeOK, CountedAfter
  <1>8. OnlyAllocated'
    <2>1. ASSUME NEW y \in Package, key'[y] = NULL
          PROVE  y # x /\ key[y] = NULL
      BY <1>1, <1>5, <2>1 DEF TypeOK, ObjectAssumption
    <2> QED
      BY <1>5, <1>6, <2>1 DEF CountInv, OnlyAllocated, CountedAfter
  <1> QED
    BY <1>6, <1>7, <1>8 DEF CountInv, RefsExact, CountedAfter

\* A Portage object g that is nobody's any more takes its table along.
LEMMA DeallocCount ==
    ASSUME ObjectAssumption, FiniteAssumption, CountInv,
           NEW g \in Living, refs' = RefsAfterDealloc(g), Living' = Living \ {g},
           UNCHANGED <<packages, key, package_id, held, atoms, answer>>,
           owned' \subseteq Portage, global_portage' \in Portage \cup {NULL}
    PROVE  CountInv'
  <1>1. TypeOK /\ RegularIn(packages, Living) /\ RegularIn(packages, Living \ {g})
    BY LivingFinite, FS_RemoveElement
    DEF CountInv, RefsExact, TablesRegular, RegularIn
  <1>2. ASSUME NEW y \in Package
        PROVE  refs'[y] = held'[y] + Cardinality(Stored(y)') /\ refs'[y] \in Nat
    <2>1. refs'[y] = refs[y] - Cardinality(Uses(packages[g], y))
      BY DEF RefsAfterDealloc
    <2>2. Stored(y)' = Places(packages, Living \ {g}, y)
      BY DEF Stored, Places
    <2>3. Cardinality(Places(packages, Living \ {g}, y)) \in Nat
          /\ Cardinality(Uses(packages[g], y)) \in Nat
      BY <1>1, PlacesFinite
    <2>4. Cardinality(Places(packages, Living, y))
             = Cardinality(Places(packages, Living \ {g}, y))
               + Cardinality(Uses(packages[g], y))
      BY <1>1, PlacesSplit
    <2>5. refs[y] = held[y] + Cardinality(Stored(y)) /\ held[y] \in Nat /\ held' = held
      BY <1>1 DEF CountInv, RefsExact, TypeOK
    <2>6. Stored(y) = Places(packages, Living, y)
      BY StoredNat
    <2> QED
      BY <2>1, <2>2, <2>3, <2>4, <2>5, <2>6
  <1>3. TypeOK'
    <2>1. refs' \in [Package -> Nat]
      BY <1>2 DEF RefsAfterDealloc
    <2> QED
      BY <1>1, <2>1 DEF TypeOK
  <1> QED
    BY <1>2, <1>3 DEF CountInv, RefsExact, TablesRegular, OnlyAllocated

LEMMA OwnersCount ==
    ASSUME ObjectAssumption, FiniteAssumption, CountInv,
           NEW p \in Portage, SetGlobal(p) \/ DropPortage(p)
    PROVE  CountInv'
  <1>1. TypeOK /\ NULL \notin Portage /\ owned \subseteq Portage
        /\ global_portage \in Portage \cup {NULL} /\ p \in owned
        /\ UNCHANGED <<packages, key, package_id, held, atoms, answer>>
        /\ owned' \subseteq Portage /\ global_portage' \in Portage \cup {NULL}
    BY DEF CountInv, RefsExact, TypeOK, ObjectAssumption, SetGlobal, DropPortage
  <1>2. CASE refs' = refs /\ Living' = Living
    <2>1. \A y \in Package : Stored(y)' = Stored(y)
      BY <1>1, <1>2 DEF Stored
    <2> QED
      BY <1>1, <1>2, <2>1 DEF CountInv, RefsExact, TypeOK, TablesRegular, OnlyAllocated
  <1>3. CASE SetGlobal(p)
    <2>1. CASE global_portage \in Portage \ (owned \cup {p})
      <3>1. refs' = RefsAfterDealloc(global_portage) /\ global_portage \in Living
            /\ Living' = Living \ {global_portage}
        BY <1>1, <1>3, <2>1 DEF SetGlobal, Living
      <3> QED
        BY <1>1, <3>1, DeallocCount
    <2>2. CASE ~ (global_portage \in Portage \ (owned \cup {p}))
      BY <1>1, <1>2, <1>3, <2>2 DEF SetGlobal, Living
    <2> QED
      BY <2>1, <2>2
  <1>4. CASE DropPortage(p)
    <2>1. CASE p # global_portage
      <3>1. refs' = RefsAfterDealloc(p) /\ p \in Living /\ Living' = Living \ {p}
        BY <1>1, <1>4, <2>1 DEF DropPortage, Living
      <3> QED
        BY <1>1, <3>1, DeallocCount
    <2>2. CASE p = global_portage
      BY <1>1, <1>2, <1>4, <2>2 DEF DropPortage, Living
    <2> QED
      BY <2>1, <2>2
  <1> QED
    BY <1>3, <1>4

LEMMA CountStep == CountInv /\ [Next]_vars => CountInv'
  <1> USE HashAssumption, OverlapAssumption, ObjectAssumption, SizeAssumption, FiniteAssumption
  <1> SUFFICES ASSUME CountInv, [Next]_vars PROVE CountInv'
    OBVIOUS
  <1>1. ASSUME NEW x \in Package, NEW k \in Key, NewPackage(x, k) PROVE CountInv'
    BY <1>1, NewPackageCount
  <1>2. ASSUME NEW x \in Package, DropPackage(x) PROVE CountInv'
    BY <1>2, DropPackageCount
  <1>3. CASE \/ \E a \in Atom, k \in Key : NewAtom(a, k)
             \/ \E p \in Portage, k \in Key : LoadKnown(p, k)
             \/ \E p \in Portage, a \in Atom : MatchAtom(p, a)
    BY <1>3, LookupCount
  <1>4. ASSUME NEW p \in Portage, NEW x \in Package, AddPackage(p, x) PROVE CountInv'
    BY <1>4, AddPackageCount
  <1>5. ASSUME NEW p \in Portage, NEW k \in Key, NEW x \in Package, LoadNew(p, k, x)
        PROVE  CountInv'
    BY <1>5, LoadNewCount
  <1>6. ASSUME NEW p \in Portage, NEW id \in KnownIds, GetPackage(p, id) PROVE CountInv'
    BY <1>6, GetPackageCount
  <1>7. ASSUME NEW p \in Portage, SetGlobal(p) \/ DropPortage(p) PROVE CountInv'
    BY <1>7, OwnersCount
  <1>8. CASE UNCHANGED vars
    BY <1>8, CountKept DEF vars, portages, objects, CountInv, RefsExact, TypeOK, OnlyAllocated
  <1> QED
    BY <1>1, <1>2, <1>3, <1>4, <1>5, <1>6, <1>7, <1>8 DEF Next

\* CountInv holds of every reachable state, however many Portage objects the
\* program makes, drops and sets globally.
THEOREM CountHolds == Spec => []CountInv
  BY InitCount, CountStep, PTL DEF Spec

\* Reference counting is exact: a package is freed exactly when neither the
\* program nor a living table has it.
THEOREM RefsAlwaysExact == Spec => []RefsExact
  <1>1. CountInv => RefsExact
    BY DEF CountInv
  <1> QED
    BY <1>1, CountHolds, PTL

\* No assertion of lut_realloc or lut_insert_id can fail in add_package.
THEOREM AssertsSafe == Spec => []AssertsNeverFail
  <1>1. CountInv => AssertsNeverFail
    <2> SUFFICES ASSUME CountInv, NEW p \in Portage, NEW k \in Key
                 PROVE  AssertsHold(packages[p], GetId(packages[p], k).id,
                                                 GetId(packages[p], k).flag)
      BY DEF AssertsNeverFail
    <2>1. packages[p] \in Table(Package) /\ Regular(packages[p])
      BY DEF CountInv, RefsExact, TypeOK, PackageTable, TablesRegular
    <2> QED
      BY <2>1, GetIdRegular, HashAssumption, OverlapAssumption
  <1> QED
    BY <1>1, CountHolds, PTL

-----------------------------------------------------------------------------
(* One Portage object.                                                     *)

\* Actions that leave the table alone and no registered package's names.
LEMMA NamesKept ==
    ASSUME ObjectAssumption, NameInv, CountInv', UNCHANGED <<packages, atoms>>,
           \A y \in Package : key[y] # NULL =>
              key'[y] = key[y] /\ package_id'[y] = package_id[y]
    PROVE  NameInv'
  <1>1. TablesSound' /\ AtomsKnown'
    BY DEF NameInv, TablesSound, AtomsKnown, Known
  <1>2. NodesNamed'
    <2> SUFFICES ASSUME NEW p \in Portage, NEW nd \in packages[p].nodes
                 PROVE  key'[nd.data] = nd.key /\ package_id'[nd.data] = nd.id
      BY DEF NodesNamed
    <2>1. nd.data \in Package /\ nd.key # NULL
      BY DEF NameInv, CountInv, RefsExact, TypeOK, PackageTable, Table, Node, ObjectAssumption
    <2> QED
      BY <2>1 DEF NameInv, NodesNamed
  <1> QED
    BY <1>1, <1>2 DEF NameInv

LEMMA InsertNames ==
    ASSUME HashAssumption, OverlapAssumption, ObjectAssumption, FiniteAssumption,
           OnePortage, NameInv, CountInv', UNCHANGED atoms,
           NEW p \in Portage, NEW k \in Key, NEW x \in Package, key[x] \in {NULL, k},
           NEW g, g = GetId(packages[p], k),
           packages' = [packages EXCEPT ![p] = InsertId(@, k, x, g.id, g.flag)],
           key'[x] = k, package_id'[x] = g.id,
           \A y \in Package \ {x} : key'[y] = key[y] /\ package_id'[y] = package_id[y]
    PROVE  NameInv'
  <1> DEFINE t == packages[p]
             r == InsertId(t, k, x, g.id, g.flag)
  <1>1. /\ t \in Table(Package) /\ Sound(t) /\ \A q \in Portage : q = p
        /\ packages \in [Portage -> PackageTable]
    BY DEF NameInv, CountInv, RefsExact, TypeOK, PackageTable, TablesSound, OnePortage
  <1>2. /\ r \in Table(Package) /\ Sound(r)
        /\ \A nd \in r.nodes :
              \/ nd.key = k /\ nd.id = g.id /\ nd.data = x
              \/ nd.key # k /\ \E m \in t.nodes :
                    m.id = nd.id /\ m.key = nd.key /\ m.data = nd.data
        /\ \A m \in t.nodes : \E nd \in r.nodes : nd.id = m.id /\ nd.key = m.key
    BY <1>1, InsertSound DEF FiniteAssumption
  <1>3. packages'[p] = r
    BY <1>1
  <1> HIDE DEF r
  <1>4. TablesSound'
    BY <1>1, <1>2, <1>3 DEF TablesSound
  <1>5. NodesNamed'
    <2> SUFFICES ASSUME NEW nd \in r.nodes
                 PROVE  key'[nd.data] = nd.key /\ package_id'[nd.data] = nd.id
      BY <1>1, <1>3 DEF NodesNamed
    <2>1. CASE nd.key = k /\ nd.id = g.id /\ nd.data = x
      BY <2>1
    <2>2. CASE nd.key # k
      <3>1. PICK m \in t.nodes : m.id = nd.id /\ m.key = nd.key /\ m.data = nd.data
        BY <1>2, <2>2
      <3>2. m.key # NULL /\ m.data \in Package
        BY <1>1 DEF Table, Node, ObjectAssumption
      <3>3. key[m.data] = m.key /\ package_id[m.data] = m.id
        BY DEF NameInv, NodesNamed
      <3>4. m.data # x
        BY <2>2, <3>1, <3>2, <3>3
      <3> QED
        BY <3>1, <3>2, <3>3, <3>4
    <2> QED
      BY <1>2, <2>1, <2>2
  <1>6. AtomsKnown'
    <2> SUFFICES ASSUME NEW a \in Atom, atoms[a] # NULL
                 PROVE  Known(p, atoms[a])'
      BY <1>1 DEF AtomsKnown
    <2>1. Known(p, atoms[a])
      BY DEF NameInv, AtomsKnown
    <2> DEFINE atom == atoms[a]
    <2>2. atom' = atom
      OBVIOUS
    <2> QED
      BY <1>2, <1>3, <2>1, <2>2 DEF Known
  <1> QED
    BY <1>4, <1>5, <1>6 DEF NameInv

LEMMA NewAtomNames ==
    ASSUME HashAssumption, OverlapAssumption, ObjectAssumption, FiniteAssumption,
           OnePortage, NameInv, CountInv', NEW a \in Atom, NEW k \in Key, NewAtom(a, k)
    PROVE  NameInv'
  <1> DEFINE p == global_portage
             t == packages[p]
             g == GetId(t, k)
             atom == [key |-> k, id |-> g.id, flag |-> g.flag]
  <1>1. /\ p \in Portage /\ t \in Table(Package) /\ Sound(t) /\ \A q \in Portage : q = p
        /\ UNCHANGED <<packages, key, package_id>>
    BY DEF NameInv, CountInv, RefsExact, TypeOK, PackageTable, TablesSound, OnePortage, NewAtom,
           portages, objects
  <1>2. Known(p, atom)
    <2>1. CASE k \in Keys(t)
      <3>1. PICK nd \in t.nodes : nd.key = k
        BY <2>1 DEF Keys
      <3>2. g = [id |-> nd.id, flag |-> "EXISTS"]
        BY <1>1, <3>1, GetIdKnown
      <3>3. nd.id.hash = Hash[k]
        BY <1>1, <3>1 DEF Sound, Findable
      <3>4. atom.key = k /\ atom.id = nd.id
        BY <3>2
      <3> HIDE DEF atom
      <3> QED
        BY <3>1, <3>3, <3>4 DEF Known
    <2>2. CASE k \notin Keys(t)
      <3> DEFINE group == {m \in t.nodes : m.id.hash = Hash[k]}
      <3>1. /\ g.flag = "NOT_FOUND"
            /\ g.id = [hash |-> Hash[k], overlap |-> Cardinality(group)]
        BY <1>1, <2>2, GetIdNew DEF FiniteAssumption
      <3>2. ASSUME \A j \in Key \ {k} : Hash[j] # Hash[k]
            PROVE  Cardinality(group) = 0
        <4>1. \A m \in t.nodes : m.key \in Key /\ m.key # k /\ m.id.hash = Hash[m.key]
          BY <1>1, <2>2 DEF Keys, Table, Node, Sound, Findable
        <4>2. group = {}
          BY <3>2, <4>1
        <4> QED
          BY <4>2, FS_EmptySet
      <3>3. atom.key = k /\ atom.id.hash = Hash[k] /\ atom.flag = "NOT_FOUND"
            /\ atom.id.overlap = Cardinality(group)
        BY <3>1
      <3> HIDE DEF atom, group, g
      <3> QED
        BY <3>2, <3>3 DEF Known
    <2> QED
      BY <2>1, <2>2
  <1>3. atoms' = [atoms EXCEPT ![a] = atom]
    BY DEF NewAtom
  <1> HIDE DEF atom
  <1>4. AtomsKnown'
    <2> SUFFICES ASSUME NEW q \in Portage, NEW b \in Atom, atoms'[b] # NULL
                 PROVE  Known(q, atoms[b])'
      BY DEF AtomsKnown
    <2>1. atoms'[b] = atom \/ atoms'[b] = atoms[b]
      BY <1>3
    <2>2. CASE atoms'[b] = atom
      <3>1. Known(q, atom)
        BY <1>1, <1>2
      <3> QED
        BY <1>1, <2>2, <3>1 DEF Known
    <2>3. CASE atoms'[b] = atoms[b]
      <3>1. Known(q, atoms[b])
        BY <2>3 DEF NameInv, AtomsKnown
      <3> QED
        BY <1>1, <2>3, <3>1 DEF Known
    <2> QED
      BY <2>1, <2>2, <2>3
  <1> QED
    BY <1>1, <1>4 DEF NameInv, TablesSound, NodesNamed

LEMMA InitNames == Init => NameInv
  <1> USE SizeAssumption
  <1> SUFFICES ASSUME Init PROVE NameInv
    OBVIOUS
  <1>1. \A p \in Portage : Sound(packages[p]) /\ packages[p].nodes = {}
    BY NewSound DEF Init, New, SizeAssumption
  <1> QED
    BY <1>1, InitCount DEF Init, NameInv, TablesSound, NodesNamed, AtomsKnown

LEMMA NameStep ==
    ASSUME OnePortage
    PROVE  NameInv /\ [Next]_vars => NameInv'
  <1> USE HashAssumption, OverlapAssumption, ObjectAssumption, FiniteAssumption
  <1> SUFFICES ASSUME NameInv, [Next]_vars PROVE NameInv'
    OBVIOUS
  <1>1. CountInv /\ TypeOK /\ CountInv'
    BY CountStep DEF NameInv, CountInv, RefsExact
  <1>2. ASSUME NEW x \in Package, NEW k \in Key, NewPackage(x, k) PROVE NameInv'
    BY <1>1, <1>2, NamesKept DEF NewPackage, portages, TypeOK
  <1>3. ASSUME NEW x \in Package, DropPackage(x) PROVE NameInv'
    BY <1>1, <1>3, NamesKept DEF DropPackage, portages
  <1>4. ASSUME NEW a \in Atom, NEW k \in Key, NewAtom(a, k) PROVE NameInv'
    BY <1>1, <1>4, NewAtomNames
  <1>5. ASSUME NEW p \in Portage, NEW x \in Package, AddPackage(p, x) PROVE NameInv'
    <2> DEFINE k == key[x]
               g == GetId(packages[p], k)
    <2>1. /\ k \in Key /\ key[x] \in {NULL, k} /\ UNCHANGED atoms
          /\ packages' = [packages EXCEPT ![p] = InsertId(@, k, x, g.id, g.flag)]
          /\ key'[x] = k /\ package_id'[x] = g.id
          /\ \A y \in Package \ {x} : key'[y] = key[y] /\ package_id'[y] = package_id[y]
      BY <1>1, <1>5 DEF AddPackage, Insert, TypeOK, CountInv, OnlyAllocated
    <2>2. g = GetId(packages[p], k)
      OBVIOUS
    <2> HIDE DEF g, k
    <2> QED
      BY <1>1, <2>1, <2>2, InsertNames, ZenonT(30)
  <1>6. ASSUME NEW p \in Portage, NEW k \in Key, NEW x \in Package, LoadNew(p, k, x)
        PROVE  NameInv'
    <2> DEFINE g == GetId(packages[p], k)
    <2>1. global_portage = p
      BY <1>1, <1>6 DEF LoadNew, TypeOK, OnePortage
    <2>2. /\ key[x] \in {NULL, k} /\ UNCHANGED atoms
          /\ packages' = [packages EXCEPT ![p] = InsertId(@, k, x, g.id, g.flag)]
          /\ key'[x] = k /\ package_id'[x] = g.id
          /\ \A y \in Package \ {x} : key'[y] = key[y] /\ package_id'[y] = package_id[y]
      BY <1>1, <1>6, <2>1 DEF LoadNew, TypeOK
    <2>3. g = GetId(packages[p], k)
      OBVIOUS
    <2> HIDE DEF g
    <2> QED
      BY <1>1, <2>2, <2>3, InsertNames, ZenonT(30)
  <1>7. ASSUME NEW p \in Portage, NEW k \in Key, LoadKnown(p, k) PROVE NameInv'
    BY <1>1, <1>7, NamesKept DEF LoadKnown, portages, objects
  <1>8. ASSUME NEW p \in Portage, NEW id \in KnownIds, GetPackage(p, id) PROVE NameInv'
    BY <1>1, <1>8, NamesKept DEF GetPackage, portages
  <1>9. ASSUME NEW p \in Portage, NEW a \in Atom, MatchAtom(p, a) PROVE NameInv'
    BY <1>1, <1>9, NamesKept DEF MatchAtom, portages, objects
  <1>10. ASSUME NEW p \in Portage, SetGlobal(p) PROVE NameInv'
    BY <1>1, <1>10, NamesKept DEF SetGlobal
  <1>11. ASSUME NEW p \in Portage, DropPortage(p) PROVE NameInv'
    BY <1>1, <1>11, NamesKept DEF DropPortage
  <1>12. CASE UNCHANGED vars
    BY <1>1, <1>12, NamesKept DEF vars, portages, objects
  <1> QED
    BY <1>2, <1>3, <1>4, <1>5, <1>6, <1>7, <1>8, <1>9, <1>10, <1>11, <1>12 DEF Next

\* NameInv holds of every reachable state of a program with one Portage object.
THEOREM NamesHold ==
    ASSUME OnePortage
    PROVE  Spec => []NameInv
  BY InitNames, NameStep, PTL DEF Spec

\* A registered package's package_id member leads back to it for ever, however
\* many packages collide with it, replace others or enlarge the table later.
THEOREM PackageIdsLeadBack ==
    ASSUME OnePortage
    PROVE  Spec => []PackageIdLeadsBack
  <1>1. NameInv => PackageIdLeadsBack
    BY FoundById DEF NameInv, TablesSound, NodesNamed, PackageIdLeadsBack
  <1> QED
    BY <1>1, NamesHold, PTL

\* An atom that was made when its key was known, or whose hash is its own,
\* resolves to the package of its key for ever.
THEOREM AtomsResolve ==
    ASSUME OnePortage
    PROVE  Spec => []CachedIdsResolve
  <1>1. NameInv => CachedIdsResolve
    <2> SUFFICES ASSUME NameInv, NEW p \in Portage, NEW a \in Atom, atoms[a] # NULL,
                        \/ atoms[a].flag = "EXISTS"
                        \/ \A k \in Key \ {atoms[a].key} : Hash[k] # Hash[atoms[a].key]
                 PROVE  Resolves(p, a)
      BY DEF CachedIdsResolve
    <2> DEFINE t == packages[p]
               atom == atoms[a]
    <2>1. /\ t \in Table(Package) /\ Sound(t) /\ Known(p, atom) /\ NULL \notin Package
          /\ atom.key \in Key /\ atom.id \in Id
      BY ObjectAssumption
      DEF NameInv, CountInv, RefsExact, TypeOK, PackageTable, TablesSound, AtomsKnown,
          ObjectAssumption
    <2>2. CASE \E nd \in t.nodes : nd.id = atom.id /\ nd.key = atom.key
      <3>1. PICK nd \in t.nodes : nd.id = atom.id /\ nd.key = atom.key
        BY <2>2
      <3>2. Get(t, atom.id) = nd.data /\ nd.data \in Package /\ atom.key \in Keys(t)
        BY <2>1, <3>1, FoundById DEF Table, Node, Keys
      <3>3. key[nd.data] = atom.key
        BY <3>1 DEF NameInv, NodesNamed
      <3> QED
        BY <2>1, <3>2, <3>3 DEF Resolves
    <2>3. CASE ~ \E nd \in t.nodes : nd.id = atom.id /\ nd.key = atom.key
      <3>1. /\ \A k \in Key \ {atom.key} : Hash[k] # Hash[atom.key]
            /\ atom.id.overlap = 0 /\ atom.id.hash = Hash[atom.key]
        BY <2>1, <2>3 DEF Known
      <3>2. ASSUME NEW nd \in t.nodes, nd.id.hash = Hash[atom.key]
            PROVE  FALSE
        <4>1. /\ nd.key \in Key /\ nd.id \in Id /\ nd.id.hash = Hash[nd.key]
          BY <2>1 DEF Table, Node, Sound, Findable
        <4>2. nd.key = atom.key
          BY <3>1, <3>2, <4>1
        <4>3. \A m \in t.nodes : m.id.hash = nd.id.hash => m = nd
          <5> TAKE m \in t.nodes
          <5> HAVE m.id.hash = nd.id.hash
          <5>1. m.key \in Key /\ m.id.hash = Hash[m.key]
            BY <2>1 DEF Table, Node, Sound, Findable
          <5>2. m.key = nd.key
            BY <3>1, <3>2, <4>2, <5>1
          <5> QED
            BY <2>1, <5>2 DEF Sound, Findable
        <4>4. {m \in t.nodes : m.id.hash = nd.id.hash} = {nd}
          BY <4>3
        <4>5. nd.id.overlap < 1
          BY <2>1, <4>4, FS_Singleton DEF Sound, Spread
        <4>6. nd.id.overlap \in Nat
          BY <4>1, OverlapAssumption DEF Id, OverlapAssumption
        <4>7. nd.id.overlap = 0
          BY <4>5, <4>6
        <4>8. nd.id = atom.id
          BY <2>1, <3>1, <3>2, <4>1, <4>7 DEF Id
        <4> QED
          BY <2>3, <4>2, <4>8
      <3>3. WithId(t, atom.id) = {} /\ atom.key \notin Keys(t)
        BY <2>1, <3>1, <3>2 DEF WithId, Chain, Keys, Sound, Findable
      <3> QED
        BY <3>3 DEF Resolves, Get
    <2> QED
      BY <2>2, <2>3
  <1> QED
    BY <1>1, NamesHold, PTL

\* Loading an ebuild of a known package finds the package of the ebuild's key.
THEOREM LoadsFind ==
    ASSUME OnePortage
    PROVE  Spec => LoadFindsPackage
  <1>1. ASSUME NameInv, [Next]_vars
        PROVE  [\A p \in Portage, k \in Key :
                   LoadKnown(p, k) => answer' \in Package /\ key[answer'] = k]_vars
    <2> SUFFICES ASSUME NEW p \in Portage, NEW k \in Key, LoadKnown(p, k)
                 PROVE  answer' \in Package /\ key[answer'] = k
      OBVIOUS
    <2> DEFINE t == packages[p]
               g == GetId(t, k)
    <2>1. /\ t \in Table(Package) /\ Sound(t) /\ NULL \notin Package
          /\ global_portage = p
      BY <1>1, ObjectAssumption
      DEF NameInv, CountInv, RefsExact, TypeOK, PackageTable, TablesSound, OnePortage,
          ObjectAssumption, LoadKnown
    <2>2. g.flag = "EXISTS" /\ answer' = IF Get(t, g.id) = NULL THEN "SystemError" ELSE Get(t, g.id)
      BY <2>1 DEF LoadKnown
    <2>3. k \in Keys(t)
      <3>1. k \notin Keys(t) => g.flag = "NOT_FOUND"
        BY <2>1, GetIdNew, HashAssumption, OverlapAssumption, FiniteAssumption
        DEF FiniteAssumption
      <3> QED
        BY <2>2, <3>1
    <2>4. PICK nd \in t.nodes : nd.key = k
      BY <2>3 DEF Keys
    <2>5. g.id = nd.id
      <3>1. GetId(t, nd.key) = [id |-> nd.id, flag |-> "EXISTS"]
        BY <2>1, <2>4, GetIdKnown
      <3> QED
        BY <2>4, <3>1
    <2>6. Get(t, nd.id) = nd.data /\ nd.data \in Package
      BY <2>1, FoundById DEF Table, Node
    <2>7. key[nd.data] = k
      BY <1>1, <2>4 DEF NameInv, NodesNamed
    <2> QED
      BY <2>1, <2>2, <2>5, <2>6, <2>7
  <1> QED
    BY <1>1, NamesHold, PTL DEF Spec, LoadFindsPackage

-----------------------------------------------------------------------------
(* The abstract dictionary.                                                *)

\* lut_insert, seen through Ids and Values: a new key takes an id nobody has,
\* a known key is bound to the new value.
LEMMA InsertBinds ==
    ASSUME HashAssumption, OverlapAssumption, FiniteAssumption,
           NEW t \in Table(Package), Sound(t), NEW k \in Key, NEW x \in Package
    PROVE  LET g == GetId(t, k)
               r == InsertId(t, k, x, g.id, g.flag)
           IN  \/ /\ k \notin DOMAIN Ids(t) /\ g.id \in Id
                  /\ \A j \in DOMAIN Ids(t) : Ids(t)[j] # g.id
                  /\ Ids(r) = [j \in DOMAIN Ids(t) \cup {k} |->
                                  IF j = k THEN g.id ELSE Ids(t)[j]]
                  /\ Values(r) = [j \in DOMAIN Ids(t) \cup {k} |->
                                     IF j = k THEN x ELSE Values(t)[j]]
               \/ /\ k \in DOMAIN Ids(t) /\ Ids(r) = Ids(t)
                  /\ Values(r) = [Values(t) EXCEPT ![k] = x]
  <1> DEFINE g == GetId(t, k)
             i == g.id
             r == InsertId(t, k, x, g.id, g.flag)
             new == [id |-> i, key |-> k, data |-> x]
  <1>1. /\ i \in Id /\ Sound(r) /\ new \in Entries(r)
        /\ \/ /\ k \notin Keys(t) /\ \A e \in Entries(t) : e.id # i /\ e.key # k
              /\ Entries(r) = Entries(t) \cup {new}
           \/ \E old \in Entries(t) : /\ old.key = k /\ old.id = i
                                     /\ Entries(r) = (Entries(t) \ {old}) \cup {new}
    <2>1. CASE k \in Keys(t)
      <3>1. PICK nd \in t.nodes : nd.key = k
        BY <2>1 DEF Keys
      <3> DEFINE g2 == GetId(t, nd.key)
                 r2 == InsertId(t, nd.key, x, g2.id, g2.flag)
                 old == [id |-> nd.id, key |-> nd.key, data |-> nd.data]
      <3>2. /\ g2 = [id |-> nd.id, flag |-> "EXISTS"] /\ Sound(r2)
            /\ Entries(r2) = (Entries(t) \ {old})
                             \cup {[id |-> nd.id, key |-> nd.key, data |-> x]}
        BY InsertKnown
      <3>3. g2 = g /\ r2 = r /\ old \in Entries(t) /\ nd.id \in Id
        BY <3>1 DEF Entries, Table, Node
      <3>4. old.key = k /\ old.id = i /\ i = nd.id
        BY <3>1, <3>2, <3>3
      <3>5. Entries(r) = (Entries(t) \ {old}) \cup {new}
        BY <3>1, <3>2, <3>3, <3>4
      <3> HIDE DEF g, r, old, g2, r2, i, new
      <3>6. new \in Entries(r) /\ i \in Id /\ Sound(r)
        BY <3>2, <3>3, <3>4, <3>5
      <3> QED
        BY <3>3, <3>4, <3>5, <3>6
    <2>2. CASE k \notin Keys(t)
      <3>1. /\ g.id \in Id /\ \A e \in Entries(t) : e.id # g.id /\ e.key # k
            /\ Sound(r) /\ Entries(r) = Entries(t) \cup {[id |-> g.id, key |-> k, data |-> x]}
        BY <2>2, InsertNew DEF FiniteAssumption
      <3> HIDE DEF g, r
      <3> QED
        BY <2>2, <3>1
    <2> QED
      BY <2>1, <2>2
  <1>2. new.id = i /\ new.key = k /\ new.data = x
    OBVIOUS
  <1> HIDE DEF g, i, r, new
  <1>3. /\ Keys(t) = {e.key : e \in Entries(t)} /\ Keys(r) = {e.key : e \in Entries(r)}
        /\ DOMAIN Ids(t) = Keys(t) /\ DOMAIN Values(t) = Keys(t)
        /\ DOMAIN Ids(r) = Keys(r) /\ DOMAIN Values(r) = Keys(r)
        /\ Ids(t) = [j \in Keys(t) |-> Ids(t)[j]]
        /\ Values(t) = [j \in Keys(t) |-> Values(t)[j]]
        /\ Ids(r) = [j \in Keys(r) |-> Ids(r)[j]]
        /\ Values(r) = [j \in Keys(r) |-> Values(r)[j]]
        /\ \A e \in Entries(t) : Ids(t)[e.key] = e.id /\ Values(t)[e.key] = e.data
        /\ \A e \in Entries(r) : Ids(r)[e.key] = e.id /\ Values(r)[e.key] = e.data
    BY <1>1, Bindings
  <1>4. Keys(r) = Keys(t) \cup {k} /\ Ids(r)[k] = i /\ Values(r)[k] = x
    <2>1. Ids(r)[k] = i /\ Values(r)[k] = x
      BY <1>1, <1>2, <1>3
    <2>2. ASSUME NEW j \in Keys(r) PROVE j \in Keys(t) \cup {k}
      <3>1. PICK e \in Entries(r) : e.key = j
        BY <1>3
      <3> QED
        BY <1>1, <1>2, <1>3, <3>1
    <2>3. ASSUME NEW j \in Keys(t) PROVE j \in Keys(r)
      <3>1. PICK e \in Entries(t) : e.key = j
        BY <1>3
      <3>2. \E d \in Entries(r) : d.key = j
        BY <1>1, <1>2, <3>1
      <3> QED
        BY <1>3, <3>2
    <2>4. k \in Keys(r)
      BY <1>1, <1>2, <1>3
    <2> QED
      BY <2>1, <2>2, <2>3, <2>4
  <1>5. ASSUME NEW j \in Keys(t), j # k
        PROVE  Ids(r)[j] = Ids(t)[j] /\ Values(r)[j] = Values(t)[j]
    <2>1. PICK e \in Entries(t) : e.key = j
      BY <1>3
    <2>2. e \in Entries(r)
      BY <1>1, <1>5, <2>1
    <2> QED
      BY <1>3, <2>1, <2>2
  <1>6. CASE k \notin Keys(t) /\ \A e \in Entries(t) : e.id # i
    <2>1. \A j \in Keys(t) : Ids(t)[j] # i
      <3> TAKE j \in Keys(t)
      <3>1. PICK e \in Entries(t) : e.key = j
        BY <1>3
      <3> QED
        BY <1>3, <1>6, <3>1
    <2>2. Ids(r) = [j \in Keys(t) \cup {k} |-> IF j = k THEN i ELSE Ids(t)[j]]
      BY <1>3, <1>4, <1>5
    <2>3. Values(r) = [j \in Keys(t) \cup {k} |-> IF j = k THEN x ELSE Values(t)[j]]
      BY <1>3, <1>4, <1>5
    <2> QED
      BY <1>1, <1>3, <1>6, <2>1, <2>2, <2>3 DEF i, r, g
  <1>7. CASE \E old \in Entries(t) : old.key = k /\ old.id = i
    <2>1. k \in Keys(t) /\ Ids(t)[k] = i
      BY <1>3, <1>7
    <2>2. Keys(r) = Keys(t)
      BY <1>4, <2>1
    <2>3. Ids(r) = Ids(t)
      BY <1>3, <1>4, <1>5, <2>1, <2>2
    <2>4. Values(r) = [Values(t) EXCEPT ![k] = x]
      BY <1>3, <1>4, <1>5, <2>1, <2>2
    <2> QED
      BY <1>3, <2>1, <2>3, <2>4 DEF r, g
  <1> QED
    BY <1>1, <1>6, <1>7

LEMMA DictInsert ==
    ASSUME HashAssumption, OverlapAssumption, FiniteAssumption,
           NEW p \in Portage, packages[p] \in Table(Package), Sound(packages[p]),
           NEW k \in Key, NEW x \in Package, NEW g, g = GetId(packages[p], k),
           packages'[p] = InsertId(packages[p], k, x, g.id, g.flag)
    PROVE  Dict(p)!Next
  <1> DEFINE t == packages[p]
             r == packages'[p]
             i == g.id
  <1>1. \/ /\ k \notin DOMAIN Ids(t) /\ i \in Id
           /\ \A j \in DOMAIN Ids(t) : Ids(t)[j] # i
           /\ Ids(r) = [j \in DOMAIN Ids(t) \cup {k} |-> IF j = k THEN i ELSE Ids(t)[j]]
           /\ Values(r) = [j \in DOMAIN Ids(t) \cup {k} |-> IF j = k THEN x ELSE Values(t)[j]]
        \/ /\ k \in DOMAIN Ids(t) /\ Ids(r) = Ids(t)
           /\ Values(r) = [Values(t) EXCEPT ![k] = x]
    BY InsertBinds
  <1>2. Ids(packages[p])' = Ids(r) /\ Values(packages[p])' = Values(r)
    BY DEF Ids, Values, Keys, NodeOf
  <1> HIDE DEF i
  <1>3. CASE k \notin DOMAIN Ids(t)
    <2>1. i \notin Dict(p)!Range(Ids(t))
      BY <1>1, <1>3 DEF Dict!Range
    <2>2. Dict(p)!Add(k, i, x)
      BY <1>1, <1>2, <1>3, <2>1 DEF Dict!Add
    <2> QED
      BY <1>1, <1>3, <2>2 DEF Dict!Next
  <1>4. CASE k \in DOMAIN Ids(t)
    BY <1>1, <1>2, <1>4 DEF Dict!Rebind, Dict!Next
  <1> QED
    BY <1>3, <1>4

DictNext ==
    \A p \in Portage :
        Dict(p)!Next \/ UNCHANGED <<Ids(packages[p]), Values(packages[p])>>

LEMMA DictStep ==
    ASSUME OnePortage
    PROVE  NameInv /\ [Next]_vars => [DictNext]_vars
  <1> USE HashAssumption, OverlapAssumption, ObjectAssumption, FiniteAssumption
  <1> SUFFICES ASSUME NameInv, Next, NEW p \in Portage
               PROVE  Dict(p)!Next \/ UNCHANGED <<Ids(packages[p]), Values(packages[p])>>
    BY DEF DictNext
  <1>1. /\ packages[p] \in Table(Package) /\ Sound(packages[p]) /\ TypeOK
        /\ packages \in [Portage -> PackageTable]
    BY DEF NameInv, CountInv, RefsExact, TypeOK, PackageTable, TablesSound
  <1>2. CASE packages'[p] = packages[p]
    BY <1>2 DEF Ids, Values, Keys, NodeOf
  <1>3. ASSUME NEW q \in Portage, NEW x \in Package, AddPackage(q, x),
               packages'[p] # packages[p]
        PROVE  Dict(p)!Next
    <2> DEFINE k == key[x]
               g == GetId(packages[p], k)
    <2>1. q = p /\ k \in Key
      BY <1>1, <1>3 DEF AddPackage, TypeOK, NameInv, CountInv, OnlyAllocated
    <2>2. packages'[p] = InsertId(packages[p], k, x, g.id, g.flag)
      BY <1>1, <1>3, <2>1 DEF AddPackage, Insert
    <2>3. g = GetId(packages[p], k)
      OBVIOUS
    <2> HIDE DEF g, k
    <2> QED
      BY <1>1, <2>1, <2>2, <2>3, DictInsert
  <1>4. ASSUME NEW q \in Portage, NEW k \in Key, NEW x \in Package, LoadNew(q, k, x),
               packages'[p] # packages[p]
        PROVE  Dict(p)!Next
    <2> DEFINE g == GetId(packages[p], k)
    <2>1. q = p /\ global_portage = p
      BY <1>1, <1>4 DEF LoadNew, TypeOK, OnePortage
    <2>2. packages'[p] = InsertId(packages[p], k, x, g.id, g.flag)
      BY <1>1, <1>4, <2>1 DEF LoadNew
    <2>3. g = GetId(packages[p], k)
      OBVIOUS
    <2> HIDE DEF g
    <2> QED
      BY <1>1, <2>2, <2>3, DictInsert
  <1>5. CASE UNCHANGED packages
    BY <1>2, <1>5
  <1> QED
    BY <1>2, <1>3, <1>4, <1>5
    DEF Next, NewPackage, DropPackage, NewAtom, LoadKnown, GetPackage, MatchAtom, SetGlobal,
        DropPortage, portages

\* The table is a dictionary: a key takes an id that no other has, keeps it for
\* ever, and a lookup yields the last package registered for it.
THEOREM IsDictionary ==
    ASSUME OnePortage
    PROVE  Spec => ImplementsDictionary
  <1>1. Init => \A p \in Portage : Dict(p)!Init
    <2> SUFFICES ASSUME Init, NEW p \in Portage PROVE Dict(p)!Init
      OBVIOUS
    <2>1. Keys(packages[p]) = {}
      BY DEF Init, New, Keys
    <2> QED
      BY <2>1 DEF Dict!Init, Ids, Values
  <1> QED
    BY <1>1, DictStep, NamesHold, PTL DEF Spec, ImplementsDictionary, DictNext

==============================================================================
