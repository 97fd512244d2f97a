------------------------------- MODULE Version --------------------------------
(***************************************************************************)
(* Version numbers as cportage/atom.c keeps and compares them, and what an *)
(* atom's operator asks of them.                                           *)
(*                                                                         *)
(* A version is its parts, as cut at `.' and `_', and its revision.  A     *)
(* part is a prefix and the rest of its text: `width' digits of value      *)
(* `value', then perhaps a letter (1 to 26), then, in an atom, perhaps a   *)
(* star.                                                                   *)
(***************************************************************************)
EXTENDS Integers, Sequences, FiniteSets

CONSTANTS
    NULL,
    IntHalf   \* 2^31: numbers are compared as I32

ASSUME IntAssumption == IntHalf \in Nat \ {0} /\ NULL \notin Int

\* atom_version_pre_t
ALPHA == 0
BETA == 1
PRE == 2
RC == 3
NONE == 4
P == 5

Part == [prefix : ALPHA .. P, width : Nat, value : Nat, letter : 0 .. 26, star : BOOLEAN]
Version == [parts : Seq(Part), revision : Nat]

\* atom_version_init.  A suffix without a number keeps its name as its text and
\* loses its prefix: only the name's last letter will matter.
Digits(width, value, letter, star) ==
    [prefix |-> NONE, width |-> width, value |-> value, letter |-> letter, star |-> star]
LastLetter == [prefix \in {ALPHA, BETA, PRE, RC, P} |->
    CASE prefix \in {ALPHA, BETA} -> 1 [] prefix = PRE -> 5 [] prefix = RC -> 3 [] prefix = P -> 16]
\* (Numbers of suffixes have one digit here.)
Suffix(prefix, value) ==
    IF value = NULL THEN Digits(0, 0, LastLetter[prefix], FALSE)
    ELSE [Digits(1, value, 0, FALSE) EXCEPT !.prefix = prefix]

-----------------------------------------------------------------------------
(* atom_version_compare.  One of the two may end in a star.                *)

\* (I32) of a long
ToI32(x) == ((x + IntHalf) % (2 * IntHalf)) - IntHalf

\* A number that starts with a zero, and has more text, is read as a decimal
\* fraction: both texts are filled up with zeros to the same length.  Nothing
\* is read past a letter.
Length(c) == c.width + (IF c.letter = 0 THEN 0 ELSE 1)
Fraction(c) == c.width > 0 /\ c.value < 10 ^ (c.width - 1) /\ Length(c) > 1
Filled(c, length) ==
    IF c.letter # 0 THEN c.value ELSE c.value * 10 ^ (length - c.width)

\* A slip: only the first text is looked at.
DifferenceByFirst(a, b) ==
    LET length == IF Length(a) > Length(b) THEN Length(a) ELSE Length(b)
    IN  IF Fraction(a)
        THEN ToI32(ToI32(Filled(a, length)) - ToI32(Filled(b, length)))
        ELSE ToI32(ToI32(a.value) - ToI32(b.value))

Difference(a, b) ==
    LET length == IF Length(a) > Length(b) THEN Length(a) ELSE Length(b)
    IN  IF Fraction(a) \/ Fraction(b)
        THEN ToI32(ToI32(Filled(a, length)) - ToI32(Filled(b, length)))
        ELSE ToI32(ToI32(a.value) - ToI32(b.value))

\* What the i-th parts decide; NULL: nothing yet.
Decided(first, second, i) ==
    LET a == first.parts[i]
        b == second.parts[i]
    IN  IF a.prefix # b.prefix THEN a.prefix - b.prefix
        ELSE IF i < Len(second.parts) /\ a.letter # 0 THEN -1
        ELSE IF i < Len(first.parts) /\ b.letter # 0 THEN 1
        ELSE IF Difference(a, b) # 0 THEN Difference(a, b)
        ELSE IF a.star \/ b.star THEN 0
        ELSE IF a.letter # b.letter THEN a.letter - b.letter
        ELSE NULL

\* A version with more parts than the other is the greater one, and greater
\* than the missing version of an atom without one.
Compare(first, second) ==
    IF second = NULL THEN 1
    ELSE IF first = NULL THEN -1
    ELSE LET f == Len(first.parts)
             s == Len(second.parts)
             decisive == {i \in 1 .. f : i <= s /\ Decided(first, second, i) # NULL}
         IN  IF decisive # {}
             THEN Decided(first, second, CHOOSE i \in decisive : \A j \in decisive : i <= j)
             ELSE IF f > s THEN 1
             ELSE IF f < s THEN -1
             ELSE first.revision - second.revision

-----------------------------------------------------------------------------
(* The operators of an atom: atom_version_t as a set of outcomes, and      *)
(* whether an atom matches an ebuild.  REV carries a flag that nothing     *)
(* reads.                                                                  *)

E == "E"
L == "L"
G == "G"
Ranges == {{E}, {E, "rev"}, {L}, {G}, {E, G}, {E, L}, {E, L, G}}

\* The outcome that a comparison of an ebuild's version with an atom's asks for.
Outcome(compare) == IF compare = 0 THEN E ELSE IF compare > 0 THEN G ELSE L

\* A slip: the outcome is read as match_atom reads it.
MatchesUnturned(atom, package_key, version) ==
    atom.key = package_key /\ Outcome(Compare(atom.version, version)) \in atom.range

\* atom_matches compares the keys, and the versions the other way round.
Matches(atom, package_key, version) ==
    LET compare == Compare(atom.version, version)
    IN  /\ atom.key = package_key
        /\ (IF compare = 0 THEN E ELSE IF compare > 0 THEN L ELSE G) \in atom.range
==============================================================================
