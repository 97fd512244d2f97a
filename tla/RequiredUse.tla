----------------------------- MODULE RequiredUse ------------------------------
(***************************************************************************)
(* REQUIRED_USE: the chain of nodes the parser builds from the expressions *)
(* as written (requireduse.y), its evaluation by the hook that runs when a *)
(* use flag changes (evaluate_required_use in portage/resolve.py), and what *)
(* the expressions mean.  An expression is a flag, on or off, a condition  *)
(* on a flag, a group under || ^^ or ??, or a group in parentheses.        *)
(***************************************************************************)
EXTENDS Integers, Sequences, FiniteSets

\* An expression as written: op is one of "ENABLE", "DISABLE" (with a name, and
\* a condition if there is a group), "LEAST_ONE", "EXACT_ONE", "MOST_ONE" and
\* "ALL"; a node the parser built is the same without "ALL".
IsFlag(expr) == expr.op \in {"ENABLE", "DISABLE"}

-----------------------------------------------------------------------------
(* The parser.  A group in parentheses is the chain of what is inside, and *)
(* what follows the group replaces everything after its first node.        *)

RECURSIVE Parse(_)
Link(chain, rest) ==
    IF rest = <<>> THEN chain ELSE <<Head(chain)>> \o rest
Parse(exprs) ==
    IF exprs = <<>> THEN <<>>
    ELSE LET first == Head(exprs)
             inside == Parse(first.group)
         IN  Link(IF first.op = "ALL" THEN inside ELSE <<[first EXCEPT !.group = inside]>>,
                  Parse(Tail(exprs)))

-----------------------------------------------------------------------------
(* evaluate_required_use                                                   *)

\* use: the flags of IUSE and of useflags with their values; get_use raises a
\* KeyError for any other.  All of a list are evaluated, but what a condition
\* guards only if the flag is as the condition says.
RECURSIVE AsksUnknown(_, _)
AsksUnknown(chain, use) ==
    \E i \in DOMAIN chain :
        LET node == chain[i]
        IN  \/ IsFlag(node) /\ node.name \notin DOMAIN use
            \/ /\ IsFlag(node) => use[node.name] = (node.op = "ENABLE")
               /\ AsksUnknown(node.group, use)

RECURSIVE NumTrue(_, _)
\* A slip: of alternatives, only one may hold.
CountsOnly(node, use) ==
    LET k == NumTrue(node.group, use)
    IN  CASE IsFlag(node) -> /\ use[node.name] = (node.op = "ENABLE")
                             /\ k = Len(node.group)
          [] node.op \in {"LEAST_ONE", "EXACT_ONE"} -> k = 1
          [] node.op = "MOST_ONE" -> k <= 1

\* Whether one node counts as true; the flag of a condition has to be as the
\* condition says, too.
Counts(node, use) ==
    LET k == NumTrue(node.group, use)
    IN  CASE IsFlag(node) -> /\ use[node.name] = (node.op = "ENABLE")
                             /\ k = Len(node.group)
          [] node.op = "LEAST_ONE" -> k >= 1
          [] node.op = "EXACT_ONE" -> k = 1
          [] node.op = "MOST_ONE" -> k <= 1
NumTrue(chain, use) == Cardinality({i \in DOMAIN chain : Counts(chain[i], use)})

\* What the hook says of the whole chain: "fine" or the exception it raises
VerdictOf(chain, use) ==
    IF AsksUnknown(chain, use) THEN "KeyError"
    ELSE IF NumTrue(chain, use) = Len(chain) THEN "fine" ELSE "RequiredUseException"

-----------------------------------------------------------------------------
(* What it means                                                           *)

RECURSIVE Satisfied(_, _)
Satisfied(expr, on) ==
    LET sat == {i \in DOMAIN expr.group : Satisfied(expr.group[i], on)}
        all == sat = DOMAIN expr.group
        met == (expr.name \in on) = (expr.op = "ENABLE")
    IN  CASE IsFlag(expr) -> IF expr.group = <<>> THEN met ELSE met => all
          [] expr.op = "ALL" -> all
          [] expr.op = "LEAST_ONE" -> sat # {}
          [] expr.op = "EXACT_ONE" -> Cardinality(sat) = 1
          [] expr.op = "MOST_ONE" -> Cardinality(sat) <= 1
Holds(exprs, use) == \A i \in DOMAIN exprs : Satisfied(exprs[i], {f \in DOMAIN use : use[f]})

\* The parser keeps what a group in parentheses means only if the group comes down
\* to one node, or ends a list of which everything has to hold (every): anywhere
\* else the group is cut or its members are counted one by one.
RECURSIVE Kept(_, _)
Kept(exprs, every) ==
    \A i \in DOMAIN exprs :
        LET expr == exprs[i]
        IN  IF expr.op = "ALL"
            THEN /\ Len(Parse(expr.group)) = 1 \/ (every /\ i = Len(exprs))
                 /\ Kept(expr.group, every)
            ELSE Kept(expr.group, IsFlag(expr))

\* An expression uses one of some kinds of nodes, at any depth.
RECURSIVE Uses(_, _)
Kind(expr) == IF IsFlag(expr) /\ expr.group # <<>> THEN "CONDITION" ELSE expr.op
Uses(exprs, kinds) ==
    \E i \in DOMAIN exprs : Kind(exprs[i]) \in kinds \/ Uses(exprs[i].group, kinds)
==============================================================================
