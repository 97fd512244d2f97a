------------------------------ MODULE UseFlags -------------------------------
(***************************************************************************)
(* The global USE flags of cportage/use.c and portage.c: parsing a use     *)
(* condition or a REQUIRED_USE term interns the flag's name in the table   *)
(* of the global Portage object and keeps only the id; resolve.py turns    *)
(* the id back into a flag much later.  A UseFlag object is named by its   *)
(* name member, which never changes.                                       *)
(***************************************************************************)
EXTENDS LUT

CONSTANT InitialSize  \* 256 in PyPortage_init

ASSUME FlagAssumption ==
    /\ NULL \notin Key /\ IsFiniteSet(Key) /\ Cardinality(Key) <= OverlapSpan
    /\ InitialSize \in Nat /\ InitialSize >= 2

VARIABLES
    global_flags,  \* name -> UseFlag
    given,         \* the ids kept by parsed expressions, with the names they were for
    answer         \* the name of the flag get_use_flag found last

vars == <<global_flags, given, answer>>

TypeOK ==
    /\ global_flags \in Table(Key)
    /\ given \subseteq [name : Key, id : Id]
    /\ answer \in Key \cup {NULL}

Init == global_flags = New(InitialSize) /\ given = {} /\ answer = NULL

\* use_get_global: a new name is inserted under the id just looked up.
UseGetGlobal(useflag) ==
    LET g == GetId(global_flags, useflag)
    IN  /\ global_flags' = IF g.flag = "NOT_FOUND"
                           THEN InsertId(global_flags, useflag, useflag, g.id, g.flag)
                           ELSE global_flags
        /\ given' = given \cup {[name |-> useflag, id |-> g.id]}
        /\ UNCHANGED answer

\* PyPortage_get_use_flag, called with the id of a parsed expression
GetUseFlag(id) == answer' = Get(global_flags, id) /\ UNCHANGED <<global_flags, given>>

Next ==
    \/ \E useflag \in Key : UseGetGlobal(useflag)
    \/ \E g \in given : GetUseFlag(g.id)

Spec == Init /\ [][Next]_vars

-----------------------------------------------------------------------------
\* An id kept by a parsed expression leads to the flag it was made for, for
\* ever: interning more names and enlarging the table never redirect it.
GivenIdsResolve == \A g \in given : Get(global_flags, g.id) = g.name

\* The table stays sound while it grows: every flag hangs where its id leads,
\* no name or id is doubled, the counter that stops lut_realloc is right, and
\* the next id of every hash is fresh.
TableSound == Sound(global_flags)

\* What makes GivenIdsResolve inductive: an id that was given out has an entry,
\* and a flag is stored under its own name.
GivenIdsStored ==
    /\ \A g \in given : \E nd \in global_flags.nodes : nd.id = g.id /\ nd.key = g.name
    /\ \A nd \in global_flags.nodes : nd.data = nd.key
IInv == TypeOK /\ TableSound /\ GivenIdsStored

\* The table is a dictionary that is never rebound.
Dict == INSTANCE Dictionary WITH Value <- Key,
            ids <- Ids(global_flags), values <- Values(global_flags)
ImplementsDictionary == Dict!Spec
==============================================================================
