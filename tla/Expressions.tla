----------------------------- MODULE Expressions ------------------------------
(***************************************************************************)
(* The expressions of dependencies and of REQUIRED_USE: nodes that the     *)
(* parsers build (depend.y, requireduse.y, dependency.c, use.c), linked by *)
(* `next' and `children' (`depend' in a RequiredUse), counted by Python,   *)
(* and looped over by resolve.py.  A node's condition is the id of a flag  *)
(* that the parser interned, see UseFlags.                                 *)
(*                                                                         *)
(* A text stands for the reductions the parser makes for it, in order:     *)
(*   "node"   a flag, an atom (no flag) or a group of the last `take' items*)
(*   "paren"  a group in parentheses of a REQUIRED_USE, which has no node  *)
(* followed by its end, or by an error if the text is not ok.              *)
(***************************************************************************)
EXTENDS UseFlags, SequencesExt

CONSTANTS
    Cell,     \* memory for nodes, as numbers: the lowest free one is used
    Loop,     \* the for statements that may run at one time
    Texts,    \* the texts Python makes expressions of
    MaxHeld,  \* bound: references held by Python variables
    MaxMade   \* bound: expressions made by Python

Maybe(S) == S \cup {NULL}

\* A text is reduced as long as there are items to take; after n reductions depth[n]
\* are on the parser's stack.
Operation == [do : {"node"}, take : Nat, flag : Maybe(Key)] \cup [do : {"paren"}, take : Nat \ {0}]
AnyText == [grammar : {"depend", "required"}, ops : Seq(Operation), ok : BOOLEAN]
IsText(text) ==
    /\ text \in AnyText
    /\ \E depth \in [0 .. Len(text.ops) -> 0 .. Len(text.ops)] :
          /\ depth[0] = 0
          /\ \A n \in 1 .. Len(text.ops) :
                /\ text.ops[n].take <= depth[n - 1]
                /\ depth[n] = depth[n - 1] - text.ops[n].take + 1

ASSUME CellAssumption ==
    /\ IsFiniteSet(Cell) /\ Cell \subseteq Nat
    /\ NULL \notin Cell /\ NULL \notin Id
    /\ NULL \notin [text : AnyText, at : Nat, stack : Seq(Cell), self : Maybe(Cell)]
ASSUME TextsAssumption == \A text \in Texts : IsText(text)

VARIABLES
    node,   \* the contents of the cells
    count,  \* their reference counts, zero for a free cell
    held,   \* not in the program: how many are Python's variables
    lost,   \* not in the program: nodes nobody will ever release
    loops,  \* each for statement: the iterator, the current item, those seen
    job,    \* the parser at work, or NULL
    made    \* not in the program: how many expressions Python made

heap == <<node, count, lost>>
exprs == <<node, count, held, lost, loops, job, made>>

Blank == [use |-> NULL, children |-> NULL, next |-> NULL, it |-> NULL]
Live == {c \in Cell : count[c] > 0}
Unused == Cell \ Live
Fresh == CHOOSE c \in Unused : \A d \in Unused : c <= d

NodesTyped ==
    /\ node \in [Cell -> [use : Maybe(Id), children : Maybe(Cell), next : Maybe(Cell), it : Maybe(Cell)]]
    /\ count \in [Cell -> Nat] /\ held \in [Cell -> Nat] /\ lost \subseteq Cell
    /\ DOMAIN loops \subseteq Loop

NoNodes ==
    /\ node = [c \in Cell |-> Blank]
    /\ count = [c \in Cell |-> 0] /\ held = [c \in Cell |-> 0]
    /\ lost = {} /\ loops = <<>> /\ job = NULL /\ made = 0

-----------------------------------------------------------------------------
(* Releasing.  PyDependency_dealloc and PyRequiredUse_dealloc release what *)
(* the node refers to.                                                     *)

\* How many of the pointers in the cells of S lead to x, and how many of some
\* references, a function or sequence of cells and NULL, are to x.
Pointing(S, x) == Cardinality({e \in S \X {"next", "children"} : node[e[1]][e[2]] = x})
Among(refs, x) == Cardinality({i \in DOMAIN refs : refs[i] = x})

\* The nodes that are freed when cnt references are left and these are dropped: of
\* those that are loose, held by nodes at most, the ones without any other reference,
\* then those that only freed nodes refer to, and so on.
Freed(cnt, refs) ==
    LET loose == {c \in Live : cnt[c] <= Among(refs, c) + Pointing(Live, c)}
        gone[n \in Nat] ==
            IF n = 0 THEN {}
            ELSE LET before == gone[n - 1]
                 IN  {c \in loose : cnt[c] <= Among(refs, c) + Pointing(before, c)}
    IN  gone[Cardinality(loose)]

\* A slip: only the node itself is freed.
DropShallow(cnt, refs) == [x \in Cell |-> cnt[x] - Among(refs, x)]
\* Py_XDECREF of each of the references: the counts that are left
Drop(cnt, refs) ==
    LET gone == Freed(cnt, refs)
    IN  [x \in Cell |-> IF x \in gone THEN 0
                        ELSE cnt[x] - Among(refs, x) - Pointing(gone, x)]

\* The heap becomes these nodes with these counts; freed cells are blank.
HeapIs(nodes, cnt) ==
    /\ count' = cnt
    /\ node' = [c \in Cell |-> IF cnt[c] = 0 THEN Blank ELSE nodes[c]]

-----------------------------------------------------------------------------
(* The parser.  Items wait on its stack with the reference they were built *)
(* with; the rule for a list links them from the last to the first.        *)

Parser(text, self) == [text |-> text, at |-> 1, stack |-> <<>>, self |-> self]

\* $$->next = $2, for each of s but the last; what a node in parentheses was
\* linked to is overwritten.
Linked(s) == [c \in Cell |->
                 IF \E i \in 1 .. Len(s) - 1 : s[i] = c
                 THEN [node[c] EXCEPT !.next = s[SelectInSeq(s, LAMBDA x : x = c) + 1]]
                 ELSE node[c]]
CutOff(s) == {node[s[i]].next : i \in 1 .. Len(s) - 1} \ {NULL}
FirstOf(s) == IF s = <<>> THEN NULL ELSE s[1]

\* dependency_build_atom, _grouping, _use and use_build_required_use: a new
\* node takes over the references to what it groups.
ReduceNode(op, rest, group) ==
    /\ op.do = "node" /\ Unused # {}
    /\ node' = [Linked(group) EXCEPT ![Fresh] =
                   [Blank EXCEPT !.children = FirstOf(group),
                        !.use = IF op.flag = NULL THEN NULL ELSE GetId(global_flags, op.flag).id]]
    /\ count' = [count EXCEPT ![Fresh] = 1]
    /\ lost' = lost \cup CutOff(group)
    /\ job' = [job EXCEPT !.at = @ + 1, !.stack = Append(rest, Fresh)]
    /\ IF op.flag = NULL THEN UNCHANGED vars ELSE UseGetGlobal(op.flag)

\* required_use_single: '(' required_use_expr ')' is the list itself.
ReduceParen(op, rest, group) ==
    /\ op.do = "paren"
    /\ node' = Linked(group)
    /\ lost' = lost \cup CutOff(group)
    /\ job' = [job EXCEPT !.at = @ + 1, !.stack = Append(rest, group[1])]
    /\ UNCHANGED <<vars, count>>

Reduce ==
    /\ job # NULL /\ job.at <= Len(job.text.ops)
    /\ LET op == job.text.ops[job.at]
           n  == Len(job.stack) - op.take
       IN  \/ ReduceNode(op, SubSeq(job.stack, 1, n), SubSeq(job.stack, n + 1, Len(job.stack)))
           \/ ReduceParen(op, SubSeq(job.stack, 1, n), SubSeq(job.stack, n + 1, Len(job.stack)))
    /\ UNCHANGED <<held, loops, made>>

\* The parser is done: what it returns, and the heap it leaves.  On an error
\* the items on its stack are released by the %destructor of RequiredUse;
\* Dependency has none.
AtEnd == job # NULL /\ job.at > Len(job.text.ops)
Root == IF job.text.ok THEN FirstOf(job.stack) ELSE NULL
NodesLeft == IF job.text.ok THEN Linked(job.stack) ELSE node
Discarded == IF ~job.text.ok /\ job.text.grammar = "required" THEN job.stack ELSE <<>>
LostLeft ==
    lost \cup (IF job.text.ok THEN CutOff(job.stack)
               ELSE IF job.text.grammar = "depend" THEN Range(job.stack) ELSE {})

-----------------------------------------------------------------------------
(* Python                                                                  *)

Idle == job = NULL /\ UNCHANGED <<vars, lost, job, made>>
Has(c) == held[c] > 0 \/ \E l \in DOMAIN loops : loops[l].item = c
Takes(c) == SumFunctionOnSet(held, Cell) < MaxHeld /\ held' = [held EXCEPT ![c] = @ + 1]

\* Dependency(text) and RequiredUse(text): tp_new makes the object and tp_init
\* calls the parser.
Construct(text) ==
    /\ job = NULL /\ Unused # {} /\ made < MaxMade
    /\ made' = made + 1
    /\ Takes(Fresh)
    /\ count' = [count EXCEPT ![Fresh] = 1]
    /\ job' = Parser(text, Fresh)
    /\ UNCHANGED <<vars, node, lost, loops>>

\* The members of the parsed node are copied into the object and the node is
\* freed without releasing them; without a node, the object is released.
Constructed ==
    /\ AtEnd /\ job.self # NULL
    /\ IF Root = NULL
       THEN /\ HeapIs(NodesLeft, Drop(count, Append(Discarded, job.self)))
            /\ held' = [held EXCEPT ![job.self] = @ - 1]
       ELSE /\ HeapIs([NodesLeft EXCEPT ![job.self] = NodesLeft[Root]], [count EXCEPT ![Root] = 0])
            /\ UNCHANGED held
    /\ lost' = LostLeft /\ job' = NULL
    /\ UNCHANGED <<vars, loops, made>>

\* Python reads the member `next' or `children' of a node it has.
TakeMember(c, member) ==
    /\ Has(c) /\ node[c][member] # NULL
    /\ Takes(node[c][member])
    /\ count' = [count EXCEPT ![node[c][member]] = @ + 1]
    /\ Idle /\ UNCHANGED <<node, loops>>

Forget(c) ==
    /\ held[c] > 0 /\ held' = [held EXCEPT ![c] = @ - 1]
    /\ HeapIs(node, Drop(count, <<c>>))
    /\ Idle /\ UNCHANGED loops

\* A slip: a new loop goes on where the last one stopped.
StartLoopWhereLeft(l, c) ==
    /\ Has(c) /\ l \notin DOMAIN loops
    /\ \A m \in DOMAIN loops : loops[m].head # c
    /\ count' = [count EXCEPT ![c] = @ + 1]
    /\ node' = [node EXCEPT ![c].it = IF @ = NULL THEN c ELSE @]
    /\ loops' = [m \in (DOMAIN loops) \cup {l} |->
                    IF m = l THEN [head |-> c, item |-> NULL, seen |-> <<>>] ELSE loops[m]]
    /\ Idle /\ UNCHANGED held
\* PyDependency_iter: the object is its own iterator.  One loop at a time goes
\* over an expression: an ebuild is not resolved while it is being resolved.
StartLoop(l, c) ==
    /\ Has(c) /\ l \notin DOMAIN loops
    /\ \A m \in DOMAIN loops : loops[m].head # c
    /\ count' = [count EXCEPT ![c] = @ + 1]
    /\ node' = [node EXCEPT ![c].it = c]
    /\ loops' = [m \in (DOMAIN loops) \cup {l} |->
                    IF m = l THEN [head |-> c, item |-> NULL, seen |-> <<>>] ELSE loops[m]]
    /\ Idle /\ UNCHANGED held

\* PyDependency_next.  The next item is in Python's hands before the last one
\* is released; the node it points to next is not counted.
LoopNext(l) ==
    LET head == loops[l].head
        out  == node[head].it
    IN  /\ out # NULL
        /\ loops' = [loops EXCEPT ![l].item = out, ![l].seen = Append(@, out)]
        /\ HeapIs([node EXCEPT ![head].it = node[out].next],
                  Drop([count EXCEPT ![out] = @ + 1], <<loops[l].item>>))
        /\ Idle /\ UNCHANGED held

\* The loop ends, at the end of the list or by a break or an exception.
EndLoop(l) ==
    /\ loops' = [m \in (DOMAIN loops) \ {l} |-> loops[m]]
    /\ HeapIs(node, Drop(count, <<loops[l].item, loops[l].head>>))
    /\ Idle /\ UNCHANGED held

\* resolve_single: get_use_flag(depend_expr.use_condition)
ReadCondition(l) ==
    /\ job = NULL /\ loops[l].item # NULL /\ node[loops[l].item].use # NULL
    /\ GetUseFlag(node[loops[l].item].use)
    /\ UNCHANGED exprs

Python ==
    \/ \E text \in Texts : Construct(text)
    \/ \E c \in Cell : \/ TakeMember(c, "next") \/ TakeMember(c, "children")
                       \/ Forget(c)
                       \/ \E l \in Loop : StartLoop(l, c)
    \/ \E l \in DOMAIN loops : LoopNext(l) \/ EndLoop(l) \/ ReadCondition(l)

-----------------------------------------------------------------------------
\* The nodes from c on, as they are linked.
Followers(c) ==
    LET from[n \in Nat] ==
            IF n = 0 THEN [d \in Maybe(Cell) |-> <<>>]
            ELSE LET shorter == from[n - 1]
                 IN  [d \in Maybe(Cell) |->
                         IF d = NULL THEN <<>> ELSE <<d>> \o shorter[node[d].next]]
    IN  from[Cardinality(Live)][c]

\* A loop sees every node of its expression once and in order, though the
\* place it has reached is an uncounted pointer in the node it started from:
\* no pointer of that kind ever leads to a freed node, not even in a node whose
\* loop was left early.
LoopSeesChain ==
    /\ \A c \in Live : node[c].it \in Maybe(Live)
    /\ \A l \in DOMAIN loops :
          loops[l].seen \o Followers(node[loops[l].head].it) = Followers(loops[l].head)

\* The references to x that nodes, loops, the parser and Python hold.
Referring(x) ==
      Pointing(Live, x)
    + Cardinality({e \in (DOMAIN loops) \X {"head", "item"} : loops[e[1]][e[2]] = x})
    + (IF job = NULL THEN 0 ELSE Among(job.stack, x))
    + Cardinality({x} \cap lost) + held[x]
==============================================================================
