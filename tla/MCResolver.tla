------------------------------ MODULE MCResolver ------------------------------
(***************************************************************************)
(* Repositories for the resolver, in four families: graphs (three packages *)
(* of one ebuild, every graph of dependencies), slots (a package with      *)
(* ebuilds in two slots), flags (use dependencies on one package) and      *)
(* required (one package with a REQUIRED_USE).                             *)
(***************************************************************************)
EXTENDS Resolver, TLC

CONSTANTS a1, b1, c1, d1, d2, d3, a, b, c, d, f, g, s0, s1

R == INSTANCE RequiredUse

MCEbuild == {a1, b1, c1, d1, d2, d3}
MCKey == {a, b, c, d}
MCFlag == {f, g}
MCSlot == {s0, s1}
MCListing == a :> <<a1>> @@ b :> <<b1>> @@ c :> <<c1>> @@ d :> <<d3, d2, d1>>
MCSlotOf == [e \in MCEbuild |-> IF e \in {d1, d3} THEN s1 ELSE s0]
MCVerdict(required, use) == R!VerdictOf(required.chain, use)

UpTo(S, n) == UNION {[1 .. k -> S] : k \in 0 .. n}
Atom(key, admits, uses) ==
    [key |-> key, admits |-> admits, exact |-> FALSE, blocks |-> FALSE, uses |-> uses]
AnyOf(key) == Atom(key, Range(MCListing[key]), <<>>)
NoneOf(key) == Atom(key, {}, <<>>)
Exactly(key, e) == [Atom(key, {e}, <<>>) EXCEPT !.exact = TRUE]
Needs(atom) == [atom |-> atom, flag |-> NULL]
MCRequests == {AnyOf(a), AnyOf(b)}

\* a1, b1, c1 depend on x, y, z; flags are b1's, the others have f on.
Depending(x, y, z) ==
    [e \in MCEbuild |-> CASE e = a1 -> x [] e = b1 -> y [] e = c1 -> z [] OTHER -> <<>>]
Parsed(exprs) == [written |-> exprs, chain |-> R!Parse(exprs)]
Repo(depends, flags, required, known) ==
    [depends |-> depends, known |-> known,
     iuse |-> [e \in MCEbuild |-> IF e = b1 THEN flags ELSE f :> TRUE],
     required |-> [e \in MCEbuild |-> Parsed(IF e = b1 THEN required ELSE <<>>)]]
Flags == f :> FALSE @@ g :> TRUE

\* Cycles, a dependency named twice, one that no ebuild meets
Leaves == {Needs(AnyOf(a)), Needs(AnyOf(b)), Needs(AnyOf(c))}
Graphs ==
    {Repo(Depending(x, y, z), Flags, <<>>, {}) :
        x \in UpTo(Leaves \cup {Needs(NoneOf(c))}, 2), y \in UpTo(Leaves, 1), z \in UpTo(Leaves, 1)}

\* d3 and d1 share a slot, d2 has the other; metadata read or not.  Of d every
\* version, what is older or newer than one of them, and one exactly.
Older == Atom(d, {d1}, <<>>)
Versions == {AnyOf(d), Older, Atom(d, {d1, d2}, <<>>), Atom(d, {d2, d3}, <<>>),
             Atom(d, {d3}, <<>>), Exactly(d, d2), Exactly(d, d3)}
Slots ==
    {Repo(Depending(x, <<Needs(Older)>>, <<>>), Flags, <<>>, known) :
        x \in UpTo({Needs(v) : v \in Versions \cup {AnyOf(b)}}, 2),
        known \in {{}, MCEbuild, {d2}}}

\* b1 has f off and g on, not both may be on; a1 and c1 ask for flags of b1.
Leaf(op, name) == [op |-> op, name |-> name, group |-> <<>>]
Over(op, name, group) == [op |-> op, name |-> name, group |-> group]
All(group) == Over("ALL", NULL, group)
Use(option, default) == [name |-> f, option |-> option, default |-> default]
Demands ==
    {<<Use(option, NULL)>> : option \in Option}
    \cup {<<[name |-> g, option |-> "DISABLE", default |-> NULL]>>, <<Use("ENABLE", TRUE)>>}
Using(uses) == Needs(Atom(b, {b1}, uses))
Conditional == [atom |-> NULL, flag |-> f, value |-> TRUE, then |-> AnyOf(c)]
Complex == [atom |-> NULL, flag |-> NULL]
Blocker == Needs([AnyOf(c) EXCEPT !.blocks = TRUE])
UseRepos ==
    {Repo(Depending(<<Using(x), Needs(AnyOf(c))>>, <<>>, <<Using(y), Blocker, Conditional, Complex>>),
          Flags, <<Over("MOST_ONE", NULL, <<Leaf("ENABLE", f), Leaf("ENABLE", g)>>)>>, known) :
        x, y \in Demands, known \in {{}, MCEbuild}}

\* Every operator over f and g, beside and inside another, and groups in parentheses
\* at both ends of every list; with every default, or g unknown
Heads == {<<"LEAST_ONE", NULL>>, <<"EXACT_ONE", NULL>>, <<"MOST_ONE", NULL>>,
          <<"ENABLE", f>>, <<"DISABLE", g>>}
Lists == {<<Leaf("ENABLE", f)>>, <<Leaf("ENABLE", f), Leaf("ENABLE", g)>>,
          <<Leaf("DISABLE", f), Leaf("ENABLE", g)>>}
Groups == {Over(h[1], h[2], l) : h \in Heads, l \in Lists}
Written ==
    {<<x, Leaf("ENABLE", g)>> : x \in Groups}
    \cup {<<Over(h[1], h[2], <<x, Leaf("DISABLE", f)>>)>> : h \in Heads, x \in Groups}
    \cup {<<Leaf("ENABLE", g), All(l)>> : l \in Lists}
    \cup {<<All(l), Leaf("ENABLE", g)>> : l \in Lists}
    \cup {<<Over(h[1], h[2], <<All(l), Leaf("DISABLE", f)>>)>> : h \in Heads, l \in Lists}
    \cup {<<Over(h[1], h[2], <<Leaf("DISABLE", f), All(l)>>)>> : h \in Heads, l \in Lists}
Requireds ==
    {Repo(Depending(<<Needs(AnyOf(b))>>, <<>>, <<>>), flags, required, MCEbuild) :
        required \in Written, flags \in [MCFlag -> BOOLEAN] \cup [{f} -> BOOLEAN]}

MCRepository == Graphs \cup Slots \cup UseRepos \cup Requireds
MCExpr == {Needs(atom) : atom \in MCRequests}
          \cup UNION {UNION {Range(r.depends[e]) : e \in MCEbuild} : r \in MCRepository}

-----------------------------------------------------------------------------
RequiredOf(s) == repo.required[sel[s].ebuild].written
Lawful(s) == R!Holds(RequiredOf(s), UseOf(s, sel[s].useflags))
Mentions(s, kinds) == R!Uses(RequiredOf(s), kinds)
Kept(s) == R!Kept(RequiredOf(s), TRUE)

\* In a resolution that went well every ebuild satisfies its REQUIRED_USE, if
\* the parser keeps its groups in parentheses and it does not limit how many of
\* several conditions may hold.
RequiredUseHolds ==
    Well => \A s \in session :
                Kept(s) /\ ~Lawful(s) => /\ Mentions(s, {"EXACT_ONE", "MOST_ONE"})
                                         /\ Mentions(s, {"CONDITION"})

\* Flags nobody asked for are only refused if they violate a REQUIRED_USE; one
\* with conditions, or with groups that the parser does not keep, may refuse more.
RefusedRightly ==
    outcome = "RequiredUseException" /\ (\A s \in DOMAIN sel : sel[s].hooks = <<>>) =>
        \E s \in DOMAIN sel : ~Lawful(s) \/ Mentions(s, {"CONDITION"}) \/ ~Kept(s)
==============================================================================
