------------------------------ MODULE Registry -------------------------------
(***************************************************************************)
(* The packages of cportage/portage.c: every Portage object has a lookup   *)
(* table from package keys to Package objects, and atoms remember the id   *)
(* and the flag they got when they were made (cportage/atom.c).  The       *)
(* objects are counted Python objects; all calls run under the GIL.        *)
(*                                                                         *)
(* `refs' is the object's reference count as the C code keeps it, `held'   *)
(* the references the Python program itself owns.                          *)
(***************************************************************************)
EXTENDS LUT

CONSTANTS
    Portage,      \* the Portage objects the program makes
    Package,      \* the Package objects ever allocated
    Atom,         \* the Atom objects ever made
    InitialSize,  \* PORTAGE_INITIAL_PKG_LUT_SIZE
    MaxHeld       \* bound: references the program keeps to one package

ASSUME ObjectAssumption == NULL \notin Portage \cup Package \cup Atom \cup Key
ASSUME SizeAssumption == InitialSize \in Nat /\ InitialSize >= 2 /\ MaxHeld \in Nat \ {0}
ASSUME FiniteAssumption ==
    IsFiniteSet(Portage) /\ IsFiniteSet(Key) /\ Cardinality(Key) <= OverlapSpan

VARIABLES
    packages,         \* portage -> its table
    owned,            \* the Portage objects the program holds
    global_portage,   \* set by cportage.init
    key, package_id,  \* package -> its key (NULL: not allocated) and id member
    refs, held,       \* package -> reference count, references of the program
    atoms,            \* atom -> its key, cached id and flag; NULL: not made
    answer            \* what the last lookup found

portages == <<packages, owned, global_portage>>
objects == <<key, package_id, refs, held>>
vars == <<portages, objects, atoms, answer>>

PackageTable == Table(Package)

TypeOK ==
    /\ packages \in [Portage -> PackageTable]
    /\ owned \subseteq Portage /\ global_portage \in Portage \cup {NULL}
    /\ key \in [Package -> Key \cup {NULL}]
    /\ package_id \in [Package -> Id \cup {NULL}]
    /\ refs \in [Package -> Nat] /\ held \in [Package -> Nat]
    /\ \A a \in Atom : \/ atoms[a] = NULL
                       \/ atoms[a] \in [key : Key, id : Id, flag : {"EXISTS", "NOT_FOUND"}]
    /\ answer \in Package \cup {NULL, "KeyError", "SystemError"}

Init ==
    /\ packages = [p \in Portage |-> New(InitialSize)]
    /\ owned = Portage /\ global_portage = NULL
    /\ key = [x \in Package |-> NULL] /\ package_id = [x \in Package |-> NULL]
    /\ refs = [x \in Package |-> 0] /\ held = [x \in Package |-> 0]
    /\ atoms = [a \in Atom |-> NULL] /\ answer = NULL

\* A Portage object lives while the program or the module holds it.
Living == owned \cup ({global_portage} \ {NULL})
Stored(x) == UNION {{p} \X Uses(packages[p], x) : p \in Living}

\* The references after inserting x under id: Gains and Loses of the table,
\* and the reference the caller gives up, if any.
\* A slip: the overwritten package keeps the table's reference.
RefsAfterNoDecref(t, x, id, flag, created) ==
    [y \in Package |->
        refs[y] + (IF y = x THEN created ELSE 0)
                + (IF y = x /\ Gains(t, x, id, flag) THEN 1 ELSE 0)]
RefsAfter(t, x, id, flag, created) ==
    [y \in Package |->
        refs[y] + (IF y = x THEN created ELSE 0)
                + (IF y = x /\ Gains(t, x, id, flag) THEN 1 ELSE 0)
                - (IF y \in Loses(t, x, id, flag) THEN 1 ELSE 0)]

\* PyPortage_dealloc: the table's nodes are freed and drop their packages.
RefsAfterDealloc(p) ==
    [x \in Package |-> refs[x] - Cardinality(Uses(packages[p], x))]

-----------------------------------------------------------------------------
(* The Package and Atom objects.                                           *)

\* Package(key) in Python
NewPackage(x, k) ==
    /\ key[x] = NULL
    /\ key' = [key EXCEPT ![x] = k]
    /\ refs' = [refs EXCEPT ![x] = 1] /\ held' = [held EXCEPT ![x] = 1]
    /\ UNCHANGED <<portages, package_id, atoms, answer>>

DropPackage(x) ==
    /\ held[x] > 0
    /\ refs' = [refs EXCEPT ![x] = @ - 1] /\ held' = [held EXCEPT ![x] = @ - 1]
    /\ UNCHANGED <<portages, key, package_id, atoms, answer>>

\* Atom(key): atom_init caches the id of the global table; it fails as long
\* as there is none.
NewAtom(a, k) ==
    /\ atoms[a] = NULL /\ global_portage # NULL
    /\ LET g == GetId(packages[global_portage], k)
       IN  atoms' = [atoms EXCEPT ![a] = [key |-> k, id |-> g.id, flag |-> g.flag]]
    /\ UNCHANGED <<portages, objects, answer>>

-----------------------------------------------------------------------------
(* The methods of Portage.                                                 *)

\* A slip: the package is not told its id.
AddPackageNoId(p, x) ==
    /\ p \in owned /\ held[x] > 0
    /\ LET t == packages[p]
           g == GetId(t, key[x])
       IN  /\ packages' = [packages EXCEPT ![p] = Insert(t, key[x], x)]
           /\ refs' = RefsAfter(t, x, g.id, g.flag, 0)
    /\ UNCHANGED <<owned, global_portage, key, package_id, held, atoms, answer>>

\* add_package
AddPackage(p, x) ==
    /\ p \in owned /\ held[x] > 0
    /\ LET t == packages[p]
           g == GetId(t, key[x])
       IN  /\ packages' = [packages EXCEPT ![p] = Insert(t, key[x], x)]
           /\ package_id' = [package_id EXCEPT ![x] = g.id]
           /\ refs' = RefsAfter(t, x, g.id, g.flag, 0)
    /\ UNCHANGED <<owned, global_portage, key, held, atoms, answer>>

\* One ebuild of initialize_repository: the id and the flag come with the
\* ebuild's atom, so from the global table; an unknown package is created as
\* x and inserted under that id, a known one is looked up by it.
LoadNew(p, k, x) ==
    /\ p \in owned /\ global_portage # NULL /\ key[x] = NULL
    /\ LET g == GetId(packages[global_portage], k)
       IN  /\ g.flag = "NOT_FOUND"
           /\ packages' = [packages EXCEPT ![p] = InsertId(@, k, x, g.id, g.flag)]
           /\ key' = [key EXCEPT ![x] = k]
           /\ package_id' = [package_id EXCEPT ![x] = g.id]
           /\ refs' = RefsAfter(packages[p], x, g.id, g.flag, 0)
    /\ answer' = x
    /\ UNCHANGED <<owned, global_portage, held, atoms>>

LoadKnown(p, k) ==
    /\ p \in owned /\ global_portage # NULL
    /\ LET g == GetId(packages[global_portage], k)
           pkg == Get(packages[p], g.id)
       IN  /\ g.flag = "EXISTS"
           /\ answer' = IF pkg = NULL THEN "SystemError" ELSE pkg
    /\ UNCHANGED <<portages, objects, atoms>>

\* get_package: the caller gets a reference of its own.
GetPackage(p, id) ==
    /\ p \in owned /\ global_portage # NULL
    /\ answer' = Get(packages[global_portage], id)
    /\ IF answer' = NULL THEN UNCHANGED <<refs, held>>
       ELSE /\ held[answer'] < MaxHeld
            /\ refs' = [refs EXCEPT ![answer'] = @ + 1]
            /\ held' = [held EXCEPT ![answer'] = @ + 1]
    /\ UNCHANGED <<portages, key, package_id, atoms>>

\* match_atom, up to the choice of an ebuild of the package found
MatchAtom(p, a) ==
    /\ p \in owned /\ atoms[a] # NULL
    /\ LET pkg == Get(packages[p], atoms[a].id)
       IN  answer' = IF pkg = NULL THEN "KeyError" ELSE pkg
    /\ UNCHANGED <<portages, objects, atoms>>

\* cportage.init: the old global object is dropped, the new one held.
SetGlobal(p) ==
    /\ p \in owned
    /\ global_portage' = p
    /\ refs' = IF global_portage \in Portage \ (owned \cup {p})
               THEN RefsAfterDealloc(global_portage) ELSE refs
    /\ UNCHANGED <<packages, owned, key, package_id, held, atoms, answer>>

DropPortage(p) ==
    /\ p \in owned
    /\ owned' = owned \ {p}
    /\ refs' = IF p # global_portage THEN RefsAfterDealloc(p) ELSE refs
    /\ UNCHANGED <<packages, global_portage, key, package_id, held, atoms, answer>>

KnownIds == {package_id[x] : x \in Package} \ {NULL}

Next ==
    \/ \E x \in Package, k \in Key : NewPackage(x, k)
    \/ \E x \in Package : DropPackage(x)
    \/ \E a \in Atom, k \in Key : NewAtom(a, k)
    \/ \E p \in Portage, x \in Package : AddPackage(p, x)
    \/ \E p \in Portage, k \in Key, x \in Package : LoadNew(p, k, x)
    \/ \E p \in Portage, k \in Key : LoadKnown(p, k)
    \/ \E p \in Portage, id \in KnownIds : GetPackage(p, id)
    \/ \E p \in Portage, a \in Atom : MatchAtom(p, a)
    \/ \E p \in Portage : SetGlobal(p)
    \/ \E p \in Portage : DropPortage(p)

Spec == Init /\ [][Next]_vars

-----------------------------------------------------------------------------
(* Safety                                                                  *)

\* Reference counting is exact through every insertion, replacement, lookup
\* and release: a package is freed exactly when neither the program nor a
\* living table has it.
RefsExact == TypeOK /\ \A x \in Package : refs[x] = held[x] + Cardinality(Stored(x))

\* What makes it inductive, for any number of Portage objects: the tables are
\* regular, and nobody refers to a package before it is allocated.
TablesRegular == \A p \in Portage : Regular(packages[p])
OnlyAllocated ==
    \A x \in Package : key[x] = NULL =>
        held[x] = 0 /\ \A p \in Portage : Uses(packages[p], x) = {}
CountInv == RefsExact /\ TablesRegular /\ OnlyAllocated

\* No assertion of lut_realloc or lut_insert_id can fail, whatever package is
\* registered next.
AssertsNeverFail ==
    \A p \in Portage, k \in Key :
        LET g == GetId(packages[p], k) IN AssertsHold(packages[p], g.id, g.flag)

\* The package_id member of a registered package keeps leading to it, so that
\* get_package(pkg.package_id) is pkg (test_package) after any later growth.
PackageIdLeadsBack ==
    \A p \in Portage : \A nd \in packages[p].nodes :
        package_id[nd.data] = nd.id /\ Get(packages[p], nd.id) = nd.data

\* What match_atom should find for an atom: the package of the atom's key.
Resolves(p, a) ==
    LET pkg == Get(packages[p], atoms[a].id)
    IN  IF atoms[a].key \in Keys(packages[p])
        THEN pkg # NULL /\ key[pkg] = atoms[a].key
        ELSE pkg = NULL

\* An id that was cached when the key was known, or whose hash no other key
\* has, resolves to the atom's own package for ever: growing the table and
\* replacing packages never redirect it.
CachedIdsResolve ==
    \A p \in Portage, a \in Atom :
        atoms[a] # NULL /\ (\/ atoms[a].flag = "EXISTS"
                            \/ \A k \in Key \ {atoms[a].key} : Hash[k] # Hash[atoms[a].key])
        => Resolves(p, a)

\* Loading an ebuild of a known package never fails, and the package that
\* gets the ebuild is the one of the ebuild's key.
LoadFindsPackage ==
    [][\A p \in Portage, k \in Key :
          LoadKnown(p, k) => answer' \in Package /\ key[answer'] = k]_vars

\* What makes these inductive, as long as the program makes one Portage object
\* (with two, one table is given the ids of the other): the table is sound, a
\* package knows the key and the id of its node, and an atom either has the id
\* of its key or the first one of a hash.
OnePortage == \A p, q \in Portage : p = q
TablesSound == \A p \in Portage : Sound(packages[p])
NodesNamed ==
    \A p \in Portage : \A nd \in packages[p].nodes :
        key[nd.data] = nd.key /\ package_id[nd.data] = nd.id
Known(p, atom) ==
    /\ atom.id.hash = Hash[atom.key]
    /\ \/ \E nd \in packages[p].nodes : nd.id = atom.id /\ nd.key = atom.key
       \/ /\ atom.flag = "NOT_FOUND"
          /\ (\A k \in Key \ {atom.key} : Hash[k] # Hash[atom.key]) => atom.id.overlap = 0
AtomsKnown ==
    \A p \in Portage, a \in Atom : atoms[a] # NULL => Known(p, atoms[a])
NameInv == CountInv /\ TablesSound /\ NodesNamed /\ AtomsKnown

\* The table of every Portage object is a dictionary: a key keeps its id for
\* ever, ids are not shared, and a lookup yields the last package registered.
Dict(p) == INSTANCE Dictionary WITH Value <- Package,
               ids <- Ids(packages[p]), values <- Values(packages[p])
ImplementsDictionary ==
    /\ \A p \in Portage : Dict(p)!Init
    /\ [][\A p \in Portage :
             Dict(p)!Next \/ UNCHANGED <<Ids(packages[p]), Values(packages[p])>>]_vars
==============================================================================
