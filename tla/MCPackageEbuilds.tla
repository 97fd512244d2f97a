--------------------------- MODULE MCPackageEbuilds ---------------------------
(***************************************************************************)
(* Small instances of PackageEbuilds and the versions they are about.      *)
(***************************************************************************)
EXTENDS PackageEbuilds, TLC

CONSTANTS p1, p2

Number(value) == Digits(1, value, 0, FALSE)
Plain(parts) == [parts |-> parts, revision |-> 0]
Atom(key, range, v) == [key |-> key, version |-> v, range |-> range]

\* 1.5, 1.05, 1_alpha1, 7b and 6: 7b, 1.05 and 6 compare in a circle
MCVersions == {
    Plain(<<Number(1), Number(5)>>), Plain(<<Number(1), Digits(2, 5, 0, FALSE)>>),
    Plain(<<Number(1), Suffix(ALPHA, 1)>>),
    Plain(<<Digits(1, 7, 2, FALSE)>>), Plain(<<Number(6)>>)}

\* Every operator with 1.05, =1.0* and no version at all; two atoms of the other key
MCAtoms ==
    LET v == Plain(<<Number(1), Digits(2, 5, 0, FALSE)>>)
    IN  {Atom(p1, r, v) : r \in Ranges}
        \cup {Atom(p1, {E}, Plain(<<Number(1), Digits(1, 0, 0, TRUE)>>)), Atom(p2, {E, G}, v)}
        \cup {Atom(key, {E, L, G}, NULL) : key \in {p1, p2}}

Symmetry == Permutations(Ebuild)
==============================================================================
