------------------------------ MODULE MCMetadata ------------------------------
(***************************************************************************)
(* Five flags, three of which collide, in a table that is enlarged twice;  *)
(* six nodes; metadata files that are good, doubled and broken.          *)
(***************************************************************************)
EXTENDS Metadata

CONSTANTS f1, f2, f3, f4, f5

\* Loops differ in nothing but their names.
MCLoops == Permutations(Loop)

MCKey == {f1, f2, f3, f4, f5}
MCHash == [f \in MCKey |-> CASE f \in {f1, f2, f3} -> 3 [] f = f4 -> 11 [] f = f5 -> 8]
MCCell == 1 .. 6

Flag(f, n) == [do |-> "node", flag |-> f, take |-> n]
Atom == Flag(NULL, 0)
Group(n) == Flag(NULL, n)
Paren(n) == [do |-> "paren", take |-> n]
Text(grammar, ops) == [grammar |-> grammar, ops |-> ops, ok |-> TRUE]
Broken(text) == [text EXCEPT !.ok = FALSE]

\* f1? ( atom ) atom
Depends == Text("depend", <<Atom, Flag(f1, 1), Atom>>)
\* ( f4? ( atom ) ), the end missing
DependsBroken == Broken(Text("depend", <<Atom, Flag(f4, 1), Group(1)>>))
\* f2? ( f3 f1 )
Requires == Text("required", <<Flag(f3, 0), Flag(f1, 0), Flag(f2, 2)>>)
\* ( f5 f4 ) f3
RequiresParen == Text("required", <<Flag(f5, 0), Flag(f4, 0), Paren(2), Flag(f3, 0)>>)
RequiresBroken == Broken(Text("required", <<Flag(f5, 0), Flag(f2, 1)>>))

MCTexts == {DependsBroken, RequiresParen, RequiresBroken}

Lined(name, value) == [name |-> name, value |-> value]
Slots(s, sub) == Lined("SLOT", [slot |-> s, sub_slot |-> sub])
UseWord(flag, state) == [flag |-> flag, state |-> state]
KeyWord(arch, keyword) == [arch |-> arch, keyword |-> keyword]

MCFiles == {
    << Lined("DEPEND", Depends),
       Slots("0", "2"),
       Lined("KEYWORDS", <<KeyWord("*", "BROKEN"), KeyWord("amd64", "STABLE")>>),
       Lined("IUSE", <<UseWord(f1, "ENABLED"), UseWord(f2, "DISABLED")>>),
       Lined("REQUIRED_USE", Requires),
       Slots("1", NULL),
       Lined("KEYWORDS", <<KeyWord("amd64", "UNSTABLE")>>),
       Lined("IUSE", <<UseWord(f1, "DISABLED")>>) >>,
    << Lined("DEPEND", Depends), Lined("DEPEND", DependsBroken), Lined("RDEPEND", Depends) >>,
    << Lined("RDEPEND", DependsBroken), Lined("REQUIRED_USE", Requires) >>,
    << Lined("REQUIRED_USE", RequiresParen), Lined("REQUIRED_USE", Requires) >>,
    << Lined("REQUIRED_USE", RequiresBroken), Slots("0", NULL) >> }
==============================================================================
