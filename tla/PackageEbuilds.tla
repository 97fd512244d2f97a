---------------------------- MODULE PackageEbuilds ----------------------------
(***************************************************************************)
(* Package and Ebuild objects (cportage/package.c, ebuild.c): a package    *)
(* owns a list of its ebuilds, newest first, linked through `older'.  All  *)
(* of them are counted Python objects, and calls run under the GIL.  An    *)
(* ebuild points back to its package without owning it.                    *)
(***************************************************************************)
EXTENDS Version

CONSTANTS
    Package, Ebuild,  \* the objects; a package stands for its key, too
    Keys, Versions,   \* bounds: the keys and the versions of the ebuilds
    Atoms,            \* the atoms asked for: [key, version, range]
    MaxHeld           \* bound: references the program keeps to one ebuild

ASSUME ObjectAssumption ==
    /\ IsFiniteSet(Package) /\ IsFiniteSet(Ebuild) /\ NULL \notin Package \cup Ebuild
    /\ MaxHeld \in Nat \ {0}
ASSUME VersionAssumption ==
    /\ Keys \subseteq Package /\ Versions \subseteq Version /\ NULL \notin Versions
    /\ \A a \in Atoms : a.key \in Package /\ a.version \in Version \cup {NULL} /\ a.range \in Ranges

VARIABLES
    packages,  \* the packages the program holds
    ebuilds,   \* package -> its newest ebuild
    version,   \* ebuild -> its version; NULL: not allocated
    package_key,  \* ebuild -> the key of the package it is an ebuild of
    older,     \* ebuild -> the next in its package's list
    package,   \* ebuild -> the package it was added to
    refs,      \* ebuild -> reference count
    held,      \* ebuild -> references of the program
    answer     \* what the last call returned

vars == <<packages, ebuilds, version, package_key, older, package, refs, held, answer>>

TypeOK ==
    /\ packages \subseteq Package
    /\ ebuilds \in [Package -> Ebuild \cup {NULL}]
    /\ version \in [Ebuild -> Versions \cup {NULL}]
    /\ package_key \in [Ebuild -> Package \cup {NULL}]
    /\ older \in [Ebuild -> Ebuild \cup {NULL}]
    /\ package \in [Ebuild -> Package \cup {NULL}]
    /\ refs \in [Ebuild -> Nat] /\ held \in [Ebuild -> 0 .. MaxHeld]
    /\ answer \in Ebuild \cup {NULL, "RuntimeError"}

Init ==
    /\ packages = Package /\ ebuilds = [p \in Package |-> NULL]
    /\ version = [e \in Ebuild |-> NULL] /\ package_key = [e \in Ebuild |-> NULL]
    /\ older = [e \in Ebuild |-> NULL] /\ package = [e \in Ebuild |-> NULL]
    /\ refs = [e \in Ebuild |-> 0] /\ held = [e \in Ebuild |-> 0]
    /\ answer = NULL

\* The list that starts at e.
Chain(e) ==
    LET walk[i \in 0 .. Cardinality(Ebuild)] ==
            IF i = 0 THEN e ELSE IF walk[i - 1] = NULL THEN NULL ELSE older[walk[i - 1]]
        length == Cardinality({i \in DOMAIN walk : walk[i] # NULL})
    IN  [i \in 1 .. length |-> walk[i - 1]]
List(p) == Chain(ebuilds[p])

\* Ebuild(...): a new object, held by the program.
NewEbuild(e, key, v) ==
    /\ version[e] = NULL
    /\ version' = [version EXCEPT ![e] = v] /\ package_key' = [package_key EXCEPT ![e] = key]
    /\ older' = [older EXCEPT ![e] = NULL] /\ package' = [package EXCEPT ![e] = NULL]
    /\ refs' = [refs EXCEPT ![e] = 1] /\ held' = [held EXCEPT ![e] = 1]
    /\ answer' = e
    /\ UNCHANGED <<packages, ebuilds>>

\* A slip: the comparison is turned round.
PassedNewer(list, v) ==
    {i \in DOMAIN list : \A j \in 1 .. i : Compare(v, version[list[j]]) > 0}

\* The ebuilds of a list that add_ebuild walks past.
Passed(list, v) ==
    {i \in DOMAIN list : \A j \in 1 .. i : Compare(v, version[list[j]]) <= 0}

\* A slip: the list takes no reference of its own.
AddEbuildBorrowed(p, e) ==
    /\ p \in packages /\ held[e] > 0 /\ package[e] = NULL
    /\ LET list == List(p)
           k == Cardinality(Passed(list, version[e]))
           current == IF k = Len(list) THEN NULL ELSE list[k + 1]
       IN  /\ IF k = 0
              THEN /\ ebuilds' = [ebuilds EXCEPT ![p] = e]
                   /\ older' = [older EXCEPT ![e] = current]
              ELSE /\ older' = [older EXCEPT ![e] = current, ![list[k]] = e]
                   /\ UNCHANGED ebuilds
           /\ package' = [package EXCEPT ![e] = p]
           /\ answer' = NULL
    /\ UNCHANGED <<packages, version, package_key, held, refs>>

\* A slip: an ebuild that has a package is not refused.
AddEbuildAnyway(p, e) ==
    /\ p \in packages /\ held[e] > 0
    /\ e \notin {List(p)[i] : i \in DOMAIN List(p)}
    /\ LET list == List(p)
           k == Cardinality(Passed(list, version[e]))
           current == IF k = Len(list) THEN NULL ELSE list[k + 1]
       IN  /\ IF k = 0
              THEN /\ ebuilds' = [ebuilds EXCEPT ![p] = e]
                   /\ older' = [older EXCEPT ![e] = current]
              ELSE /\ older' = [older EXCEPT ![e] = current, ![list[k]] = e]
                   /\ UNCHANGED ebuilds
           /\ refs' = [refs EXCEPT ![e] = @ + 1]
           /\ package' = [package EXCEPT ![e] = p]
           /\ answer' = NULL
    /\ UNCHANGED <<packages, version, package_key, held>>

\* add_ebuild, refused for an ebuild that has a package or is met on the way
AddEbuild(p, e) ==
    /\ p \in packages /\ held[e] > 0
    /\ LET list == List(p)
           k == Cardinality(Passed(list, version[e]))
           current == IF k = Len(list) THEN NULL ELSE list[k + 1]
           met == {list[i] : i \in {i \in DOMAIN list : i <= k + 1}}
       IN  IF package[e] # NULL \/ e \in met
           THEN answer' = "RuntimeError" /\ UNCHANGED <<ebuilds, older, package, refs>>
           ELSE /\ IF k = 0
                   THEN /\ ebuilds' = [ebuilds EXCEPT ![p] = e]
                        /\ older' = [older EXCEPT ![e] = current]
                   ELSE /\ older' = [older EXCEPT ![e] = current, ![list[k]] = e]
                        /\ UNCHANGED ebuilds
                /\ refs' = [refs EXCEPT ![e] = @ + 1]
                /\ package' = [package EXCEPT ![e] = p]
                /\ answer' = NULL
    /\ UNCHANGED <<packages, version, package_key, held>>

\* match_atom walks the list and gives up too early for some operators.
Meets(e, atom) == Outcome(Compare(version[e], atom.version)) \in atom.range
\* A slip: it gives up for the operators that look for older ebuilds, too.
GivesUpAlways(e, atom) == Compare(version[e], atom.version) > 0
GivesUp(e, atom) == Compare(version[e], atom.version) > 0 /\ L \notin atom.range
Match(p, atom) ==
    LET list == List(p)
        stop == {i \in DOMAIN list : Meets(list[i], atom) \/ GivesUp(list[i], atom)}
        first == CHOOSE i \in stop : \A j \in stop : i <= j
    IN  IF stop = {} THEN NULL ELSE IF Meets(list[first], atom) THEN list[first] ELSE NULL

MatchAtom(p, atom) ==
    /\ p \in packages
    /\ answer' = Match(p, atom)
    /\ IF answer' = NULL THEN UNCHANGED <<refs, held>>
       ELSE /\ held[answer'] < MaxHeld
            /\ refs' = [refs EXCEPT ![answer'] = @ + 1]
            /\ held' = [held EXCEPT ![answer'] = @ + 1]
    /\ UNCHANGED <<packages, ebuilds, version, package_key, older, package>>

\* PyEbuild_dealloc drops the next older ebuild, which may be freed in turn:
\* one reference to e is given up by the program (h = 1) or by the list.
Release(e, h) ==
    LET list == Chain(e)
        gone == {list[i] : i \in {i \in DOMAIN list : \A j \in 1 .. i : refs[list[j]] = 1}}
        next == {list[i] : i \in {i \in DOMAIN list : Cardinality(gone) + 1 = i}}
    IN  /\ version' = [x \in Ebuild |-> IF x \in gone THEN NULL ELSE version[x]]
        /\ package_key' = [x \in Ebuild |-> IF x \in gone THEN NULL ELSE package_key[x]]
        /\ refs' = [x \in Ebuild |-> IF x \in gone THEN 0
                                     ELSE IF x \in next THEN refs[x] - 1 ELSE refs[x]]
        /\ held' = [held EXCEPT ![e] = @ - h]

DropEbuild(e) ==
    /\ held[e] > 0
    /\ Release(e, 1)
    /\ answer' = NULL
    /\ UNCHANGED <<packages, ebuilds, older, package>>

\* PyPackage_dealloc: the list loses its owner; the ebuilds are not told.
DropPackage(p) ==
    /\ p \in packages
    /\ packages' = packages \ {p}
    /\ IF ebuilds[p] # NULL THEN Release(ebuilds[p], 0)
       ELSE UNCHANGED <<version, package_key, refs, held>>
    /\ answer' = NULL
    /\ UNCHANGED <<ebuilds, older, package>>

Next ==
    \/ \E e \in Ebuild, key \in Keys, v \in Versions : NewEbuild(e, key, v)
    \/ \E p \in Package, e \in Ebuild : AddEbuild(p, e)
    \/ \E p \in Package, atom \in Atoms : MatchAtom(p, atom)
    \/ \E e \in Ebuild : DropEbuild(e)
    \/ \E p \in Package : DropPackage(p)

Spec == Init /\ [][Next]_vars

-----------------------------------------------------------------------------
(* Safety                                                                  *)

InUse == {e \in Ebuild : version[e] # NULL}

\* Insertion hands references over along the list and never doubles or loses
\* one, whatever is dropped in whatever order: an ebuild is in use exactly as
\* long as the program, a package or a newer ebuild has it.
Pointing(e) == Cardinality({p \in packages : ebuilds[p] = e})
               + Cardinality({x \in InUse : older[x] = e})
RefsExact ==
    \A e \in Ebuild : /\ refs[e] = held[e] + Pointing(e)
                      /\ refs[e] > 0 <=> e \in InUse

\* An ebuild is in one list at most, the one of the package it was added to,
\* and every list ends.
InOwnList ==
    /\ TypeOK
    /\ \A p \in packages : \A i \in DOMAIN List(p) : package[List(p)[i]] = p
    /\ \A p \in packages : \A i, j \in DOMAIN List(p) : List(p)[i] = List(p)[j] => i = j
    /\ \A p \in packages : ebuilds[p] # NULL =>
          \E e \in InUse : older[e] = NULL /\ e = List(p)[Len(List(p))]

\* atom_version_compare puts 7b before 1.05 and 1.05 before 6, but not 7b before
\* 6: what is said of the order of a list is said of lists without such circles.
Ordered(p) ==
    LET V == {version[List(p)[i]] : i \in DOMAIN List(p)}
    IN  \A u, v, w \in V : Compare(u, v) <= 0 /\ Compare(v, w) <= 0 => Compare(u, w) <= 0

\* Whatever the order in which the ebuilds were added, nothing newer follows
\* in a list, even at a distance: `older' leads to older ebuilds.
NewestFirst ==
    \A p \in packages : Ordered(p) =>
        \A i, j \in DOMAIN List(p) :
            i < j => Compare(version[List(p)[j]], version[List(p)[i]]) <= 0

\* What match_atom is for: of the ebuilds that meet the atom, one that none
\* of the others is newer than.
Candidates(p, atom) == {e \in {List(p)[i] : i \in DOMAIN List(p)} : Meets(e, atom)}
FindsNewest(p, atom) ==
    IF Candidates(p, atom) = {} THEN Match(p, atom) = NULL
    ELSE /\ Match(p, atom) \in Candidates(p, atom)
         /\ \A e \in Candidates(p, atom) :
               Compare(version[e], version[Match(p, atom)]) <= 0

\* It is found for every operator that an ebuild newer than the atom's version
\* can meet or that looks for older ones: all but = and ~.
OpenMatchIsNewest ==
    \A p \in packages : Ordered(p) =>
        \A atom \in Atoms : atom.range \cap {L, G} # {} => FindsNewest(p, atom)

\* match_atom gives up "if packages get too old", so what it gives up on is
\* not there.  For = and ~ it gives up at the first ebuild that is newer.
MatchIsNewest == \A p \in packages, atom \in Atoms : Ordered(p) => FindsNewest(p, atom)

\* Comparing is antisymmetric, and a version equals itself (as the test of
\* AtomVersion has it), unless a letter is followed by another part: 2a_p1 is
\* before itself.
Inner(v) == \E i \in DOMAIN v.parts : i < Len(v.parts) /\ v.parts[i].letter # 0
CompareConsistent ==
    \A u, v \in {version[e] : e \in InUse} :
        LET c == Compare(u, v)
            d == Compare(v, u)
        IN  ~Inner(u) /\ ~Inner(v) => (c > 0 <=> d < 0) /\ (u = v => c = 0)

\* Atom.matches and Package.match_atom agree on what an atom means, though
\* they compare in opposite directions: an atom matches an ebuild that was added
\* to the package of its key exactly if the atom has that key, so that this
\* package is the one asked, and match_atom takes the ebuild.  As above, versions
\* where a letter is followed by another part are left out.
MatchersAgree ==
    \A e \in InUse, atom \in Atoms :
        /\ package_key[e] = package[e]
        /\ ~Inner(version[e]) /\ (atom.version # NULL => ~Inner(atom.version))
        => (Matches(atom, package_key[e], version[e]) <=> atom.key = package[e] /\ Meets(e, atom))
==============================================================================
