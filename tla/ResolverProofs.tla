---------------------------- MODULE ResolverProofs ----------------------------
(***************************************************************************)
(* Proofs about Resolver, for any repository, listing, number of selected  *)
(* ebuilds and sequence of requests, with exceptions in the middle.        *)
(***************************************************************************)
EXTENDS Resolver, SequenceTheorems, WellFoundedInduction, TLAPS

-----------------------------------------------------------------------------
(* What the objects are.                                                   *)

UseState == UNION {[D -> BOOLEAN] : D \in SUBSET Flag}
Hook == [name : Flag, target : BOOLEAN, enforcing : BOOLEAN]
Scheduled == [name : Flag, state : BOOLEAN]
SelectedEbuild ==
    [ebuild : Ebuild, slot : Slot \cup {NULL}, selected_by : SUBSET {x.atom : x \in Expr},
     useflags : UseState, hooks : Seq(Hook), hooked : Seq(Ebuild), flags : Seq(Scheduled),
     generators : Seq(Nat), resolved : Seq(Nat), dirty : BOOLEAN]
Call ==
    [sel : Nat \cup {NULL}, phase : Phase, deps : Seq(Expr), uses : Seq(UseRequirement),
     target : Nat \cup {NULL}, child : Nat \ {0}]

\* References lead to objects that exist.
Closed(S, x) == Range(x.generators) \cup Range(x.resolved) \subseteq S
Typed ==
    /\ repo \in Repository /\ metadata \subseteq Ebuild
    /\ sel \in Seq(SelectedEbuild) /\ \A s \in DOMAIN sel : Closed(DOMAIN sel, sel[s])
    /\ \A k \in DOMAIN packages : k \in Key /\ packages[k] \in Seq(DOMAIN sel)
    /\ session \subseteq DOMAIN sel
    /\ stack \in Seq(Call)
    /\ \A i \in DOMAIN stack : {stack[i].sel, stack[i].target} \subseteq DOMAIN sel \cup {NULL}

-----------------------------------------------------------------------------
(* How calls nest: the program's own frame, then get_resolved of ebuilds   *)
(* that are in the session, each waiting for the child above it.           *)

Placed(i) ==
    /\ stack[i].sel = NULL <=> i = 1
    /\ stack[i].sel # NULL => stack[i].sel \in session
    /\ i = 1 => stack[i].phase \in {"generate", "uses", "spin"}
Waits(i) ==
    LET call == stack[i]
        generators == sel[call.sel].generators
    IN  /\ i < Depth => call.phase = IF i = 1 THEN "generate" ELSE "children"
        /\ call.phase = "children" => call.child <= Len(generators) + 1
        /\ i # 1 /\ i < Depth => /\ call.child <= Len(generators)
                                 /\ generators[call.child] \in session
Shaped(call) ==
    /\ call.phase = "uses" => call.deps # <<>>
    /\ call.phase # "children" => call.child = 1
Nested ==
    /\ outcome = "running" <=> stack # <<>>
    /\ \A i \in DOMAIN stack : Placed(i) /\ Waits(i) /\ Shaped(stack[i])
    /\ \A i, j \in DOMAIN stack : stack[i].sel = stack[j].sel => i = j

\* How far the ebuilds of the session are resolved, if nothing was raised.
InCall(s) == \E i \in DOMAIN stack : stack[i].sel = s
Finished(s) ==
    sel[s].resolved = sel[s].generators /\ Range(sel[s].generators) \subseteq session
Progress ==
    ~failed =>
        /\ \A s \in session : InCall(s) \/ Finished(s)
        /\ \A i \in DOMAIN stack : stack[i].phase = "children" =>
              LET x == sel[stack[i].sel]
              IN  /\ x.resolved = SubSeq(x.generators, 1, stack[i].child - 1)
                  /\ Range(x.resolved) \subseteq session

-----------------------------------------------------------------------------
(* When no package has a choice of ebuilds, every atom is answered by the  *)
(* one that it admits.                                                     *)

Answers(s, atom) == \E g \in Range(sel[s].generators) : sel[g].ebuild \in atom.admits
Wanted(s) == {expr \in Range(repo.depends[sel[s].ebuild]) : IsAtom(expr) /\ ~expr.atom.blocks}
Answered(s) == \A expr \in Wanted(s) : Answers(s, expr.atom)

OneEbuild(k) == Len(Listing[k]) < 2
PackagesListed ==
    \A k \in DOMAIN packages :
        /\ OneEbuild(k) /\ packages[k] # <<>>
        /\ \A i \in DOMAIN packages[k] : sel[packages[k][i]].ebuild \in Range(Listing[k])
CallAnswers(call) ==
    /\ \A expr \in Range(call.deps) : IsAtom(expr) => expr.atom \in Asked
    /\ call.phase = "uses" =>
          /\ call.deps # <<>> /\ IsAtom(Head(call.deps)) /\ call.target # NULL
          /\ sel[call.target].ebuild \in Head(call.deps).atom.admits
    /\ call.sel # NULL /\ call.phase \in {"generate", "uses"} =>
          \A expr \in Wanted(call.sel) : expr \in Range(call.deps) \/ Answers(call.sel, expr.atom)
    /\ call.phase = "children" => Answered(call.sel)
    /\ call.phase # "spin"
AllAnswered ==
    /\ PackagesListed
    /\ \A i \in DOMAIN stack : CallAnswers(stack[i])
    /\ \A s \in DOMAIN sel : ~sel[s].dirty => Answered(s)
    /\ ~failed => \A s \in session : InCall(s) \/ Answered(s)

ResolverInv == Typed /\ Nested /\ Progress /\ (Single => AllAnswered)

-----------------------------------------------------------------------------
(* The stack of calls.                                                     *)

LEMMA TopIn ==
    ASSUME stack \in Seq(Call), stack # <<>>
    PROVE  /\ Depth \in DOMAIN stack /\ Depth \in Nat /\ Depth >= 1 /\ Top \in Call
           /\ DOMAIN stack = 1 .. Depth
  BY DEF Top, Depth

LEMMA Replaced ==
    ASSUME stack \in Seq(Call), stack # <<>>, NEW c \in Call, Goto(c)
    PROVE  /\ stack' \in Seq(Call) /\ stack' # <<>> /\ Depth' = Depth /\ Top' = c
           /\ DOMAIN stack' = DOMAIN stack /\ stack'[Depth] = c
           /\ \A i \in DOMAIN stack : i # Depth => stack'[i] = stack[i]
           /\ UNCHANGED <<outcome, failed>>
  <1>1. Depth \in DOMAIN stack /\ DOMAIN stack = 1 .. Depth /\ Depth \in Nat
    BY TopIn
  <1>2. stack' = [stack EXCEPT ![Depth] = c] /\ UNCHANGED <<outcome, failed>>
    BY DEF Goto
  <1>3. stack' \in Seq(Call) /\ DOMAIN stack' = DOMAIN stack /\ Len(stack') = Len(stack)
    BY <1>1, <1>2
  <1>4. stack'[Depth] = c /\ \A i \in DOMAIN stack : i # Depth => stack'[i] = stack[i]
    BY <1>1, <1>2
  <1> QED
    BY <1>1, <1>2, <1>3, <1>4 DEF Depth, Top

\* What a step may do to the rest of the state.
Kept(T) ==
    /\ repo' = repo /\ metadata' \subseteq Ebuild
    /\ sel' \in Seq(SelectedEbuild) /\ DOMAIN sel \subseteq DOMAIN sel'
    /\ \A s \in DOMAIN sel' : Closed(DOMAIN sel', sel'[s])
    /\ \A k \in DOMAIN packages' : k \in Key /\ packages'[k] \in Seq(DOMAIN sel')
    /\ \A s \in DOMAIN sel \ T : /\ sel'[s].generators = sel[s].generators
                               /\ sel'[s].resolved = sel[s].resolved

\* The innermost call goes on as c.
LEMMA GotoStep ==
    ASSUME ResolverAssumption, Typed, Nested, Progress, stack # <<>>,
           NEW c \in Call, Goto(c), c.sel = Top.sel, UNCHANGED session, Kept({c.sel}),
           c.target \in DOMAIN sel' \cup {NULL}, Shaped(c),
           c.sel = NULL => c.phase \in {"generate", "uses", "spin"},
           c.phase = "children" =>
              /\ c.child <= Len(sel'[c.sel].generators) + 1
              /\ ~failed => /\ sel'[c.sel].resolved
                                  = SubSeq(sel'[c.sel].generators, 1, c.child - 1)
                            /\ Range(sel'[c.sel].resolved) \subseteq session
    PROVE  Typed' /\ Nested' /\ Progress'
  <1>1. /\ stack' \in Seq(Call) /\ stack' # <<>> /\ Depth' = Depth
        /\ DOMAIN stack' = DOMAIN stack /\ stack'[Depth] = c
        /\ \A i \in DOMAIN stack : i # Depth => stack'[i] = stack[i]
        /\ UNCHANGED <<outcome, failed>>
        /\ Depth \in DOMAIN stack /\ DOMAIN stack = 1 .. Depth /\ Depth \in Nat
        /\ Top = stack[Depth]
    BY Replaced, TopIn DEF Typed, Top
  <1>2. \A i \in DOMAIN stack : stack'[i].sel = stack[i].sel
    BY <1>1
  <1>3. Typed'
    <2>1. ASSUME NEW i \in DOMAIN stack
          PROVE  {stack'[i].sel, stack'[i].target} \subseteq DOMAIN sel' \cup {NULL}
      <3>1. stack[i].sel \in DOMAIN sel \cup {NULL} /\ stack[i].target \in DOMAIN sel \cup {NULL}
        BY DEF Typed
      <3>2. DOMAIN sel \subseteq DOMAIN sel'
        BY DEF Kept
      <3>3. c.sel \in DOMAIN sel' \cup {NULL}
        BY <1>1, <3>2 DEF Typed
      <3>4. CASE i = Depth
        BY <1>1, <3>3, <3>4
      <3>5. CASE i # Depth
        BY <1>1, <3>1, <3>2, <3>5
      <3> QED
        BY <3>4, <3>5
    <2> QED
      BY <1>1, <2>1 DEF Typed, Kept
  <1>4. ASSUME NEW i \in DOMAIN stack, i # Depth, i # 1
        PROVE  /\ stack[i].sel \in DOMAIN sel /\ stack[i].sel # c.sel
               /\ sel'[stack[i].sel].generators = sel[stack[i].sel].generators
               /\ sel'[stack[i].sel].resolved = sel[stack[i].sel].resolved
    <2>1. stack[i].sel \in DOMAIN sel
      BY <1>4 DEF Typed, Nested, Placed
    <2>2. stack[i].sel # c.sel
      BY <1>1, <1>4 DEF Nested
    <2> QED
      BY <2>1, <2>2 DEF Kept
  <1>5. Nested'
    <2>1. ASSUME NEW i \in DOMAIN stack
          PROVE  Placed(i)' /\ Waits(i)' /\ Shaped(stack'[i])
      <3>1. CASE i = Depth
        BY <1>1, <3>1 DEF Nested, Placed, Waits
      <3>2. CASE i # Depth
        <4>1. Placed(i) /\ Waits(i) /\ i < Depth /\ Shaped(stack'[i])
          BY <1>1, <3>2 DEF Nested
        <4>2. Placed(i)'
          BY <1>1, <3>2, <4>1 DEF Placed
        <4>3. CASE i = 1
          BY <1>1, <3>2, <4>1, <4>2, <4>3 DEF Waits
        <4>4. CASE i # 1
          BY <1>1, <1>4, <3>2, <4>1, <4>2, <4>4 DEF Waits
        <4> QED
          BY <4>2, <4>3, <4>4
      <3> QED
        BY <3>1, <3>2
    <2>2. \A i, j \in DOMAIN stack : stack'[i].sel = stack'[j].sel => i = j
      BY <1>2 DEF Nested
    <2> QED
      BY <1>1, <2>1, <2>2 DEF Nested
  <1>6. Progress'
    <2> SUFFICES ASSUME ~failed
                 PROVE  /\ \A s \in session : InCall(s)' \/ Finished(s)'
                        /\ \A i \in DOMAIN stack : stack'[i].phase = "children" =>
                              LET x == sel'[stack'[i].sel]
                              IN  /\ x.resolved = SubSeq(x.generators, 1, stack'[i].child - 1)
                                  /\ Range(x.resolved) \subseteq session
      BY <1>1 DEF Progress
    <2>1. ASSUME NEW s \in session
          PROVE  InCall(s)' \/ Finished(s)'
      <3>1. CASE InCall(s)
        BY <1>1, <1>2, <3>1 DEF InCall
      <3>2. CASE ~InCall(s)
        <4>1. Finished(s) /\ s # c.sel /\ s \in DOMAIN sel
          BY <1>1, <3>2 DEF Progress, InCall, Typed
        <4> QED
          BY <4>1 DEF Finished, Kept
      <3> QED
        BY <3>1, <3>2
    <2>2. ASSUME NEW i \in DOMAIN stack, stack'[i].phase = "children"
          PROVE  LET x == sel'[stack'[i].sel]
                 IN  /\ x.resolved = SubSeq(x.generators, 1, stack'[i].child - 1)
                     /\ Range(x.resolved) \subseteq session
      <3>1. CASE i = Depth
        BY <1>1, <2>2, <3>1
      <3>2. CASE i # Depth
        <4>1. i # 1
          BY <1>1, <2>2, <3>2 DEF Nested, Placed
        <4> QED
          BY <1>1, <1>4, <2>2, <3>2, <4>1 DEF Progress
      <3> QED
        BY <3>1, <3>2
    <2> QED
      BY <2>1, <2>2
  <1> QED
    BY <1>3, <1>5, <1>6

\* An exception gets out.
LEMMA RaiseStep ==
    ASSUME Typed, Nested, NEW exception, Raise(exception), exception # "running",
           UNCHANGED session, Kept(DOMAIN sel)
    PROVE  Typed' /\ Nested' /\ Progress'
  <1>1. stack' = <<>> /\ outcome' = exception /\ failed' = TRUE /\ session' = session
    BY DEF Raise
  <1>2. stack' \in Seq(Call) /\ DOMAIN stack' = {}
    BY <1>1
  <1>3. Typed'
    BY <1>1, <1>2 DEF Typed, Kept
  <1>4. Nested'
    BY <1>1, <1>2 DEF Nested
  <1>5. Progress'
    BY <1>1 DEF Progress
  <1> QED
    BY <1>3, <1>4, <1>5

-----------------------------------------------------------------------------
(* Answers while no package has a choice.                                  *)

Unchanging(T) ==
    /\ \A s \in DOMAIN sel : sel'[s].ebuild = sel[s].ebuild
    /\ \A s \in DOMAIN sel \ T : ~sel'[s].dirty => ~sel[s].dirty
    /\ \A s \in DOMAIN sel' \ DOMAIN sel : sel'[s].dirty
    /\ packages' = packages \/ PackagesListed'

LEMMA AnswersKept ==
    ASSUME NEW T, NEW U, Typed, Kept(T), Unchanging(U), NEW s \in DOMAIN sel \ T
    PROVE  /\ \A atom : Answers(s, atom)' <=> Answers(s, atom)
           /\ Wanted(s)' = Wanted(s)
           /\ Answered(s)' <=> Answered(s)
  <1>1. ASSUME NEW atom
        PROVE  Answers(s, atom)' <=> Answers(s, atom)
    <2>1. sel'[s].generators = sel[s].generators
      BY DEF Kept
    <2>2. Range(sel[s].generators) \subseteq DOMAIN sel
      BY DEF Typed, Closed
    <2>3. \A g \in Range(sel[s].generators) : sel'[g].ebuild = sel[g].ebuild
      BY <2>2 DEF Unchanging
    <2> QED
      BY <2>1, <2>3 DEF Answers
  <1>2. Wanted(s)' = Wanted(s)
    BY DEF Wanted, Kept, Unchanging
  <1> QED
    BY <1>1, <1>2 DEF Answered

LEMMA PackagesKept ==
    ASSUME NEW T, NEW U, Typed, Kept(T), Unchanging(U), PackagesListed
    PROVE  PackagesListed'
  <1>1. CASE packages' = packages
    <2>1. ASSUME NEW k \in DOMAIN packages, NEW i \in DOMAIN packages[k]
          PROVE  sel'[packages[k][i]].ebuild \in Range(Listing[k])
      <3>1. packages[k][i] \in DOMAIN sel
        BY DEF Typed
      <3> QED
        BY <3>1 DEF Unchanging, PackagesListed
    <2> QED
      BY <1>1, <2>1 DEF PackagesListed
  <1> QED
    BY <1>1 DEF Unchanging

LEMMA GotoAnswers ==
    ASSUME ResolverAssumption, Typed, Nested, AllAnswered, stack # <<>>,
           NEW c \in Call, Goto(c), c.sel = Top.sel, UNCHANGED session,
           Kept({c.sel}), Unchanging({c.sel}), CallAnswers(c)',
           c.sel # NULL /\ ~sel'[c.sel].dirty => Answered(c.sel)'
    PROVE  AllAnswered'
  <1>1. /\ stack' \in Seq(Call) /\ Depth' = Depth
        /\ DOMAIN stack' = DOMAIN stack /\ stack'[Depth] = c
        /\ \A i \in DOMAIN stack : i # Depth => stack'[i] = stack[i]
        /\ UNCHANGED <<outcome, failed>>
        /\ Depth \in DOMAIN stack /\ DOMAIN stack = 1 .. Depth /\ Depth \in Nat
        /\ Top = stack[Depth] /\ repo' = repo
    BY Replaced, TopIn DEF Typed, Top, Kept
  <1>2. PackagesListed'
    BY PackagesKept DEF AllAnswered
  <1>3. ASSUME NEW s \in DOMAIN sel, s # c.sel
        PROVE  Answered(s)' <=> Answered(s)
    BY <1>3, AnswersKept
  <1>4. ASSUME NEW i \in DOMAIN stack
        PROVE  CallAnswers(stack[i])'
    <2>1. CASE i = Depth
      BY <1>1, <2>1 DEF CallAnswers
    <2>2. CASE i # Depth
      <3>1. Placed(i) /\ Waits(i) /\ i < Depth /\ CallAnswers(stack[i]) /\ stack'[i] = stack[i]
        BY <1>1, <2>2 DEF Nested, AllAnswered
      <3>2. Asked' = Asked
        BY <1>1 DEF Asked
      <3>3. CASE i = 1
        <4>1. stack[i].phase = "generate" /\ stack[i].sel = NULL
          BY <1>1, <3>1, <3>3 DEF Placed, Waits
        <4> QED
          BY <3>1, <3>2, <4>1 DEF CallAnswers
      <3>4. CASE i # 1
        <4>1. stack[i].phase = "children" /\ stack[i].sel \in DOMAIN sel /\ stack[i].sel # c.sel
          BY <1>1, <2>2, <3>1, <3>4 DEF Placed, Waits, Typed, Nested
        <4>2. Answered(stack[i].sel)
          BY <3>1, <4>1 DEF CallAnswers
        <4> DEFINE s == stack[i].sel
        <4>3. Answered(s)'
          <5>1. \A u \in DOMAIN sel : u # c.sel /\ Answered(u) => Answered(u)'
            BY <1>3
          <5> QED
            BY <3>1, <4>1, <4>2, <5>1 DEF Answered, Answers, Wanted
        <4> QED
          BY <3>1, <3>2, <4>1, <4>3 DEF CallAnswers
      <3> QED
        BY <3>3, <3>4
    <2> QED
      BY <2>1, <2>2
  <1>5. ASSUME NEW s \in DOMAIN sel', ~sel'[s].dirty
        PROVE  Answered(s)'
    <2>1. s \in DOMAIN sel
      BY <1>5 DEF Unchanging
    <2>2. CASE s = c.sel
      <3>1. c.sel # NULL
        BY <2>1, <2>2 DEF Typed, ResolverAssumption
      <3>2. Answered(c.sel)'
        BY <1>5, <2>2, <3>1
      <3> QED
        BY <2>2, <3>2
    <2>3. CASE s # c.sel
      BY <1>3, <1>5, <2>1, <2>3 DEF Unchanging, AllAnswered
    <2> QED
      BY <2>2, <2>3
  <1>6. ASSUME ~failed, NEW s \in session
        PROVE  InCall(s)' \/ Answered(s)'
    <2>1. CASE InCall(s)
      BY <1>1, <2>1 DEF InCall
    <2>2. CASE ~InCall(s)
      <3>1. Answered(s) /\ s # c.sel /\ s \in DOMAIN sel
        BY <1>1, <1>6, <2>2 DEF AllAnswered, InCall, Typed
      <3> QED
        BY <1>3, <3>1
    <2> QED
      BY <2>1, <2>2
  <1> QED
    BY <1>1, <1>2, <1>4, <1>5, <1>6 DEF AllAnswered

LEMMA RaiseAnswers ==
    ASSUME Typed, AllAnswered, NEW exception, Raise(exception), UNCHANGED session,
           Kept({}), Unchanging({})
    PROVE  AllAnswered'
  <1>1. stack' = <<>> /\ failed' = TRUE /\ DOMAIN stack' = {}
    BY DEF Raise
  <1>2. PackagesListed'
    BY PackagesKept DEF AllAnswered
  <1>3. ASSUME NEW s \in DOMAIN sel', ~sel'[s].dirty
        PROVE  Answered(s)'
    <2>1. s \in DOMAIN sel /\ ~sel[s].dirty
      BY <1>3 DEF Unchanging
    <2> QED
      BY <2>1, AnswersKept DEF AllAnswered
  <1> QED
    BY <1>1, <1>2, <1>3 DEF AllAnswered

-----------------------------------------------------------------------------
(* Use flags.                                                              *)

LEMMA WithState ==
    ASSUME NEW u \in UseState, NEW name \in Flag, NEW value \in BOOLEAN
    PROVE  With(u, name, value) \in UseState
  <1>1. PICK D \in SUBSET Flag : u \in [D -> BOOLEAN]
    BY DEF UseState
  <1>2. With(u, name, value) \in [D \cup {name} -> BOOLEAN]
    BY <1>1 DEF With
  <1> QED
    BY <1>2 DEF UseState

LEMMA UseValues ==
    ASSUME NEW u \in UseState
    PROVE  DOMAIN u \subseteq Flag /\ \A f \in DOMAIN u : u[f] \in BOOLEAN
  BY DEF UseState

LEMMA GetUseTyped ==
    ASSUME RepositoryAssumption, Typed, NEW s \in DOMAIN sel, NEW f, HasUse(s, f)
    PROVE  GetUse(s, f) \in BOOLEAN
  <1>1. sel[s] \in SelectedEbuild /\ repo \in Repository
    BY DEF Typed
  <1>2. sel[s].useflags \in UseState /\ sel[s].ebuild \in Ebuild
    BY <1>1 DEF SelectedEbuild
  <1>3. CASE f \in DOMAIN sel[s].useflags
    BY <1>2, <1>3, UseValues DEF GetUse
  <1>4. CASE f \notin DOMAIN sel[s].useflags
    <2>1. f \in DOMAIN Iuse(s)
      BY <1>4 DEF HasUse
    <2>2. sel[s].ebuild \in metadata
      BY <2>1 DEF Iuse
    <2>3. Iuse(s) = repo.iuse[sel[s].ebuild]
      BY <2>2 DEF Iuse
    <2>4. repo.iuse[sel[s].ebuild][f] \in BOOLEAN
      BY <1>1, <1>2, <2>1, <2>3 DEF RepositoryAssumption
    <2> QED
      BY <1>4, <2>3, <2>4 DEF GetUse
  <1> QED
    BY <1>3, <1>4

LEMMA TargetTyped ==
    ASSUME NEW value \in BOOLEAN, NEW option \in Option
    PROVE  Target(value, option) \in BOOLEAN /\ Enforcing(value, option) \in BOOLEAN
           /\ Schedules(option) \in BOOLEAN
  <1>1. Target(TRUE, option) \in BOOLEAN /\ Target(FALSE, option) \in BOOLEAN
    BY DEF Target, Option
  <1>2. Enforcing(TRUE, option) \in BOOLEAN /\ Enforcing(FALSE, option) \in BOOLEAN
    BY DEF Enforcing, Option
  <1>3. Schedules(option) \in BOOLEAN
    BY DEF Schedules
  <1>4. value = TRUE \/ value = FALSE
    OBVIOUS
  <1> QED
    BY <1>1, <1>2, <1>3, <1>4

\* One selected object changes.
LEMMA SelChanged ==
    ASSUME Typed, NEW s \in DOMAIN sel, NEW x \in SelectedEbuild, sel' = [sel EXCEPT ![s] = x],
           Closed(DOMAIN sel, x), repo' = repo, metadata' \subseteq Ebuild, packages' = packages
    PROVE  /\ Kept({s}) /\ DOMAIN sel' = DOMAIN sel /\ sel'[s] = x
           /\ \A r \in DOMAIN sel : r # s => sel'[r] = sel[r]
           /\ x.generators = sel[s].generators /\ x.resolved = sel[s].resolved => Kept({})
           /\ x.ebuild = sel[s].ebuild => Unchanging({s})
           /\ x.ebuild = sel[s].ebuild /\ (~x.dirty => ~sel[s].dirty) => Unchanging({})
  <1>1. sel \in Seq(SelectedEbuild)
    BY DEF Typed
  <1>2. /\ sel' \in Seq(SelectedEbuild) /\ DOMAIN sel' = DOMAIN sel /\ sel'[s] = x
        /\ \A r \in DOMAIN sel : r # s => sel'[r] = sel[r]
    BY <1>1
  <1>3. \A r \in DOMAIN sel' : Closed(DOMAIN sel', sel'[r])
    BY <1>2 DEF Typed
  <1> QED
    BY <1>2, <1>3 DEF Kept, Unchanging, Typed

LEMMA SelSame ==
    ASSUME Typed, UNCHANGED <<repo, sel, packages>>, metadata' \subseteq Ebuild
    PROVE  Kept({}) /\ Unchanging({})
  BY DEF Typed, Kept, Unchanging

-----------------------------------------------------------------------------
(* The two ways a step ends, for the whole invariant.                      *)

LEMMA SingleKept == repo' = repo => (Single' <=> Single) /\ Asked' = Asked
  BY DEF Single, Asked

LEMMA GotoInv ==
    ASSUME ResolverAssumption, ResolverInv, stack # <<>>,
           NEW c \in Call, Goto(c), c.sel = Top.sel, UNCHANGED session, Kept({c.sel}),
           c.target \in DOMAIN sel' \cup {NULL}, Shaped(c),
           c.sel = NULL => c.phase \in {"generate", "uses", "spin"},
           c.phase = "children" =>
              /\ c.child <= Len(sel'[c.sel].generators) + 1
              /\ ~failed => /\ sel'[c.sel].resolved
                                  = SubSeq(sel'[c.sel].generators, 1, c.child - 1)
                            /\ Range(sel'[c.sel].resolved) \subseteq session,
           Single /\ AllAnswered =>
              /\ Unchanging({c.sel}) /\ CallAnswers(c)'
              /\ c.sel # NULL /\ ~sel'[c.sel].dirty => Answered(c.sel)'
    PROVE  ResolverInv'
  <1>1. Typed /\ Nested /\ Progress /\ (Single => AllAnswered)
    BY DEF ResolverInv
  <1>2. Typed' /\ Nested' /\ Progress'
    BY <1>1, GotoStep
  <1>3. Single' <=> Single
    BY SingleKept DEF Kept
  <1>4. ASSUME Single PROVE AllAnswered'
    BY <1>1, <1>4, GotoAnswers
  <1> QED
    BY <1>2, <1>3, <1>4 DEF ResolverInv

LEMMA RaiseInv ==
    ASSUME ResolverInv, NEW exception, Raise(exception), exception # "running",
           UNCHANGED session, Kept({}), Unchanging({})
    PROVE  ResolverInv'
  <1>1. Typed /\ Nested /\ Progress /\ (Single => AllAnswered)
    BY DEF ResolverInv
  <1>2. Kept(DOMAIN sel)
    BY DEF Kept
  <1>3. Typed' /\ Nested' /\ Progress'
    BY <1>1, <1>2, RaiseStep
  <1>4. Single' <=> Single
    BY SingleKept DEF Kept
  <1>5. ASSUME Single PROVE AllAnswered'
    BY <1>1, <1>5, RaiseAnswers
  <1> QED
    BY <1>3, <1>4, <1>5 DEF ResolverInv

-----------------------------------------------------------------------------
(* Expressions that select nothing.                                        *)

LEMMA HeadTail ==
    ASSUME NEW S, NEW q \in Seq(S), q # <<>>
    PROVE  /\ Head(q) \in S /\ Tail(q) \in Seq(S)
           /\ Range(q) = {Head(q)} \cup Range(Tail(q))
  <1>1. Len(q) \in Nat /\ Len(q) >= 1 /\ DOMAIN q = 1 .. Len(q)
    OBVIOUS
  <1>2. /\ Head(q) = q[1] /\ Tail(q) \in Seq(S) /\ DOMAIN Tail(q) = 1 .. Len(q) - 1
        /\ \A i \in 1 .. Len(q) - 1 : Tail(q)[i] = q[i + 1]
    BY <1>1
  <1>3. \A i \in DOMAIN q : q[i] = q[1] \/ (i - 1 \in DOMAIN Tail(q) /\ Tail(q)[i - 1] = q[i])
    BY <1>1, <1>2
  <1>4. Range(q) \subseteq {Head(q)} \cup Range(Tail(q))
    BY <1>2, <1>3 DEF Range
  <1>5. {Head(q)} \cup Range(Tail(q)) \subseteq Range(q)
    <2>1. \A i \in DOMAIN Tail(q) : i + 1 \in DOMAIN q
      BY <1>1, <1>2
    <2> QED
      BY <1>1, <1>2, <2>1 DEF Range
  <1> QED
    BY <1>1, <1>2, <1>4, <1>5

LEMMA AdvancedCall ==
    ASSUME ResolverAssumption, Typed, In("generate") \/ In("uses"), Top.deps # <<>>
    PROVE  /\ stack # <<>> /\ Top \in Call /\ Advanced(Top) \in Call
           /\ Head(Top.deps) \in Expr
           /\ Advanced(Top).sel = Top.sel /\ Advanced(Top).phase = "generate"
           /\ Advanced(Top).target = NULL /\ Advanced(Top).deps = Tail(Top.deps)
           /\ Range(Top.deps) = {Head(Top.deps)} \cup Range(Tail(Top.deps))
  <1>1. stack # <<>> /\ Top \in Call
    BY TopIn DEF In, Typed
  <1>2. Top.deps \in Seq(Expr)
    BY <1>1 DEF Call
  <1>3. /\ Head(Top.deps) \in Expr /\ Tail(Top.deps) \in Seq(Expr)
        /\ Range(Top.deps) = {Head(Top.deps)} \cup Range(Tail(Top.deps))
    BY <1>2, HeadTail
  <1> QED
    BY <1>1, <1>3 DEF Advanced, Call, Phase

LEMMA AdvancedShaped ==
    ASSUME ResolverAssumption, Typed, Nested, In("generate") \/ In("uses")
    PROVE  Shaped(Advanced(Top))
  <1>1. stack # <<>> /\ Top = stack[Depth] /\ Depth \in DOMAIN stack /\ Top \in Call
    BY TopIn DEF In, Typed, Top
  <1>2. Top.phase # "children" /\ Shaped(Top)
    BY <1>1 DEF In, Nested
  <1> QED
    BY <1>1, <1>2 DEF Shaped, Advanced, Call

LEMMA SkipInv ==
    ASSUME ResolverAssumption, ResolverInv, In("generate"), Top.deps # <<>>,
           Head(Top.deps) \notin Wanted(Top.sel),
           Goto(Advanced(Top)), UNCHANGED <<repo, metadata, sel, packages, session>>
    PROVE  ResolverInv'
  <1>1. Typed /\ Nested
    BY DEF ResolverInv
  <1>2. /\ stack # <<>> /\ Top \in Call /\ Advanced(Top) \in Call
        /\ Advanced(Top).sel = Top.sel /\ Advanced(Top).phase = "generate"
        /\ Advanced(Top).target = NULL /\ Advanced(Top).deps = Tail(Top.deps)
        /\ Range(Top.deps) = {Head(Top.deps)} \cup Range(Tail(Top.deps))
    BY <1>1, AdvancedCall
  <1>3. PICK c \in Call : c = Advanced(Top)
    BY <1>2
  <1>4. Kept({c.sel}) /\ Unchanging({c.sel}) /\ UNCHANGED <<repo, sel>>
    <2>1. Kept({}) /\ Unchanging({})
      BY <1>1, SelSame DEF Typed
    <2> QED
      BY <2>1 DEF Kept, Unchanging
  <1>5. Top = stack[Depth] /\ Depth \in DOMAIN stack /\ Top.phase = "generate"
    BY <1>1, <1>2, TopIn DEF Typed, Top, In
  <1>6. ASSUME AllAnswered
        PROVE  /\ CallAnswers(c)'
               /\ c.sel # NULL /\ ~sel'[c.sel].dirty => Answered(c.sel)'
    <2>1. CallAnswers(Top)
      BY <1>5, <1>6 DEF AllAnswered
    <2>2. CallAnswers(c)'
      BY <1>2, <1>3, <1>4, <1>5, <2>1, SingleKept
      DEF CallAnswers, Wanted, Answers
    <2>3. c.sel # NULL => c.sel \in DOMAIN sel
      BY <1>1, <1>2, <1>3, <1>5 DEF Typed
    <2> QED
      BY <1>4, <1>6, <2>2, <2>3 DEF AllAnswered, Answered, Answers, Wanted
  <1>7. Shaped(c)
    BY <1>1, <1>3, AdvancedShaped
  <1> QED
    BY <1>1, <1>2, <1>3, <1>4, <1>6, <1>7, GotoInv

LEMMA Skipped ==
    ASSUME ResolverAssumption, ResolverInv, AddBlock \/ Condition \/ Group
    PROVE  ResolverInv'
  <1>1. Typed
    BY DEF ResolverInv
  <1>2. CASE AddBlock
    <2>1. Head(Top.deps) \notin Wanted(Top.sel)
      BY <1>2 DEF AddBlock, Wanted
    <2> QED
      BY <1>2, <2>1, SkipInv DEF AddBlock
  <1>3. CASE Condition
    <2>1. Head(Top.deps) \notin Wanted(Top.sel)
      BY <1>3 DEF Condition, Wanted, IsConditional, IsAtom
    <2>2. Goto(Advanced(Top)) => ResolverInv'
      BY <1>3, <2>1, SkipInv DEF Condition, state
    <2>3. Raise("KeyError") => ResolverInv'
      <3>1. Kept({}) /\ Unchanging({}) /\ UNCHANGED session
        BY <1>1, <1>3, SelSame DEF Condition, state, Typed
      <3> QED
        BY <3>1, RaiseInv
    <2> QED
      BY <1>3, <2>2, <2>3 DEF Condition
  <1>4. CASE Group
    <2>1. Head(Top.deps) \notin Wanted(Top.sel)
      BY <1>4 DEF Group, Wanted
    <2> QED
      BY <1>4, <2>1, SkipInv DEF Group, state
  <1> QED
    BY <1>2, <1>3, <1>4

-----------------------------------------------------------------------------
(* The program.                                                            *)

LEMMA Started ==
    ASSUME ResolverAssumption, RepositoryAssumption
    PROVE  Init => ResolverInv
  <1> SUFFICES ASSUME Init PROVE ResolverInv
    OBVIOUS
  <1>1. DOMAIN sel = {} /\ DOMAIN stack = {} /\ DOMAIN packages = {}
    BY DEF Init
  <1>2. Typed
    BY <1>1 DEF Init, Typed, RepositoryAssumption
  <1>3. Nested /\ Progress
    BY <1>1 DEF Init, Nested, Progress
  <1>4. AllAnswered
    BY <1>1 DEF Init, AllAnswered, PackagesListed
  <1> QED
    BY <1>2, <1>3, <1>4 DEF ResolverInv

LEMMA FrameCall ==
    ASSUME NEW s \in Nat \cup {NULL}, NEW phase \in Phase, NEW deps, deps \in Seq(Expr)
    PROVE  Frame(s, phase, deps) \in Call
  <1>1. <<>> \in Seq(UseRequirement) /\ 1 \in Nat \ {0} /\ NULL \in Nat \cup {NULL}
    OBVIOUS
  <1> QED
    BY <1>1 DEF Frame, Call

LEMMA Requested ==
    ASSUME ResolverAssumption, ExprAssumption, ResolverInv, NEW atom \in Requests, Request(atom)
    PROVE  ResolverInv'
  <1>1. Typed /\ Nested /\ Progress /\ stack = <<>> /\ DOMAIN stack = {}
    BY DEF ResolverInv, Request, Nested
  <1>2. <<RequestOf(atom)>> \in Seq(Expr) /\ NULL \in Nat \cup {NULL}
    BY DEF ExprAssumption
  <1>3. PICK c \in Call : c = Frame(NULL, "generate", <<RequestOf(atom)>>)
    BY <1>2, FrameCall DEF Phase
  <1>4. /\ stack' = <<c>> /\ outcome' = "running"
        /\ UNCHANGED <<repo, metadata, sel, packages, session, failed>>
    BY <1>3 DEF Request, state
  <1>5. /\ stack' \in Seq(Call) /\ DOMAIN stack' = {1} /\ stack'[1] = c /\ Depth' = 1
        /\ c.sel = NULL /\ c.phase = "generate" /\ c.target = NULL /\ c.child = 1
        /\ c.deps = <<RequestOf(atom)>>
    BY <1>3, <1>4 DEF Depth, Frame
  <1>6. Typed'
    BY <1>1, <1>4, <1>5 DEF Typed, Closed
  <1>7. Nested'
    BY <1>4, <1>5 DEF Nested, Placed, Waits, Shaped
  <1>8. Progress'
    BY <1>1, <1>4, <1>5 DEF Progress, InCall, Finished
  <1>9. ASSUME Single PROVE AllAnswered'
    <2>1. AllAnswered
      BY <1>9 DEF ResolverInv
    <2>2. CallAnswers(c)'
      <3>1. Range(c.deps) = {RequestOf(atom)} /\ RequestOf(atom).atom = atom
        BY <1>5 DEF Range, RequestOf
      <3> QED
        BY <1>5, <3>1 DEF CallAnswers, Asked
    <2> QED
      BY <1>1, <1>4, <1>5, <2>1, <2>2
      DEF AllAnswered, PackagesListed, InCall, Answered, Answers, Wanted, CallAnswers
  <1> QED
    BY <1>4, <1>6, <1>7, <1>8, <1>9, SingleKept DEF ResolverInv

LEMMA Cleared ==
    ASSUME ResolverInv, Clear
    PROVE  ResolverInv'
  <1>1. /\ Typed /\ Nested /\ stack = <<>> /\ DOMAIN stack = {} /\ session' = {}
        /\ outcome' = "idle" /\ UNCHANGED <<repo, metadata, sel, packages, stack>>
    BY DEF ResolverInv, Clear, Nested, state
  <1>2. Typed'
    BY <1>1 DEF Typed, Closed
  <1>3. Nested' /\ Progress'
    BY <1>1 DEF Nested, Progress
  <1>4. ASSUME Single PROVE AllAnswered'
    <2>1. AllAnswered
      BY <1>4 DEF ResolverInv
    <2> QED
      BY <1>1, <2>1 DEF AllAnswered, PackagesListed, Answered, Answers, Wanted
  <1> QED
    BY <1>1, <1>2, <1>3, <1>4, SingleKept DEF ResolverInv

-----------------------------------------------------------------------------
(* regenerate.                                                             *)

LEMMA Inside ==
    ASSUME ResolverAssumption, Typed, Nested, NEW phase, In(phase),
           phase \in {"begin", "flush", "required", "children"} \/ Top.sel # NULL
    PROVE  /\ stack # <<>> /\ Top \in Call /\ Top.phase = phase /\ Top = stack[Depth]
           /\ Depth \in DOMAIN stack /\ Depth \in Nat /\ Depth > 1 /\ DOMAIN stack = 1 .. Depth
           /\ Top.sel # NULL /\ Top.sel \in DOMAIN sel /\ Top.sel \in session
           /\ Top.target \in DOMAIN sel \cup {NULL}
           /\ Shaped(Top) /\ Waits(Depth)
           /\ sel[Top.sel] \in SelectedEbuild /\ Closed(DOMAIN sel, sel[Top.sel])
  <1>1. /\ stack # <<>> /\ Top \in Call /\ Top.phase = phase /\ Top = stack[Depth]
        /\ Depth \in DOMAIN stack /\ Depth \in Nat /\ Depth >= 1 /\ DOMAIN stack = 1 .. Depth
    BY TopIn DEF In, Typed, Top
  <1>2. Placed(Depth) /\ Waits(Depth) /\ Shaped(Top)
    BY <1>1 DEF Nested
  <1>3. Top.sel # NULL /\ Depth # 1
    BY <1>1, <1>2 DEF Placed
  <1>4. Top.sel \in session /\ Top.sel \in DOMAIN sel /\ Top.target \in DOMAIN sel \cup {NULL}
    BY <1>1, <1>2, <1>3 DEF Placed, Typed
  <1>5. sel[Top.sel] \in SelectedEbuild /\ Closed(DOMAIN sel, sel[Top.sel])
    BY <1>4 DEF Typed
  <1> QED
    BY <1>1, <1>2, <1>3, <1>4, <1>5

\* What a step may put in the fields of a selected object.
LEMMA SelFields ==
    ASSUME NEW x \in SelectedEbuild
    PROVE  /\ \A q \in Seq(Nat) : /\ [x EXCEPT !.generators = q] \in SelectedEbuild
                                  /\ [x EXCEPT !.resolved = q] \in SelectedEbuild
           /\ x.generators \in Seq(Nat) /\ x.resolved \in Seq(Nat) /\ x.ebuild \in Ebuild
           /\ x.useflags \in UseState /\ x.flags \in Seq(Scheduled) /\ x.hooks \in Seq(Hook)
           /\ x.dirty \in BOOLEAN /\ x.hooked \in Seq(Ebuild)
  <1>1. ASSUME NEW q \in Seq(Nat) PROVE [x EXCEPT !.generators = q] \in SelectedEbuild
    BY DEF SelectedEbuild
  <1>2. ASSUME NEW q \in Seq(Nat) PROVE [x EXCEPT !.resolved = q] \in SelectedEbuild
    BY DEF SelectedEbuild
  <1>3. /\ x.generators \in Seq(Nat) /\ x.resolved \in Seq(Nat) /\ x.ebuild \in Ebuild
        /\ x.useflags \in UseState /\ x.flags \in Seq(Scheduled) /\ x.hooks \in Seq(Hook)
        /\ x.dirty \in BOOLEAN /\ x.hooked \in Seq(Ebuild)
    BY DEF SelectedEbuild
  <1> QED
    BY <1>1, <1>2, <1>3

LEMMA Begun ==
    ASSUME ResolverAssumption, ResolverInv, Begin
    PROVE  ResolverInv'
  <1>1. Typed /\ Nested /\ In("begin")
    BY DEF ResolverInv, Begin
  <1>0. PICK s \in DOMAIN sel : s = Top.sel
    BY <1>1, Inside
  <1>2. /\ stack # <<>> /\ Top \in Call /\ Top.phase = "begin" /\ Top = stack[Depth]
        /\ Depth \in DOMAIN stack /\ s # NULL /\ s \in DOMAIN sel /\ s \in session
        /\ Top.target \in DOMAIN sel \cup {NULL} /\ Shaped(Top)
        /\ sel[s] \in SelectedEbuild /\ Closed(DOMAIN sel, sel[s])
    BY <1>0, <1>1, Inside
  <1>3. UNCHANGED <<repo, packages, session>> /\ metadata \subseteq Ebuild
    BY <1>1 DEF Begin, Typed
  <1>4. CASE sel[s].dirty
    <2>1. PICK x \in SelectedEbuild : x = [sel[s] EXCEPT !.generators = <<>>]
      <3>1. <<>> \in Seq(Nat)
        OBVIOUS
      <3> QED
        BY <1>2, <3>1, SelFields
    <2>2. PICK c \in Call : c = [Top EXCEPT !.phase = "flush"]
      BY <1>2 DEF Call, Phase
    <2>3. sel' = [sel EXCEPT ![s] = x] /\ Goto(c) /\ metadata' = metadata \cup {sel[s].ebuild}
      BY <1>0, <1>4, <2>1, <2>2 DEF Begin
    <2>4. metadata' \subseteq Ebuild /\ Closed(DOMAIN sel, x) /\ x.ebuild = sel[s].ebuild /\ x.dirty
      BY <1>2, <1>3, <1>4, <2>1, <2>3 DEF SelectedEbuild, Closed, Range
    <2>5. Kept({s}) /\ Unchanging({s}) /\ DOMAIN sel' = DOMAIN sel /\ sel'[s] = x
      BY <1>1, <1>2, <1>3, <2>3, <2>4, SelChanged
    <2>6. c.sel = s /\ c.phase = "flush" /\ c.target = Top.target /\ c.deps = Top.deps /\ Shaped(c)
      BY <1>2, <1>0, <2>2 DEF Call, Shaped
    <2>7. ASSUME AllAnswered PROVE CallAnswers(c)'
      BY <1>2, <1>3, <2>6, <2>7, SingleKept DEF AllAnswered, CallAnswers
    <2> QED
      BY <1>0, <1>2, <1>3, <2>3, <2>4, <2>5, <2>6, <2>7, GotoInv
  <1>5. CASE ~sel[s].dirty
    <2>1. PICK x \in SelectedEbuild : x = [sel[s] EXCEPT !.resolved = <<>>]
      <3>1. <<>> \in Seq(Nat)
        OBVIOUS
      <3> QED
        BY <1>2, <3>1, SelFields
    <2>2. PICK c \in Call : c = [Top EXCEPT !.phase = "children"]
      BY <1>2 DEF Call, Phase
    <2>3. sel' = [sel EXCEPT ![s] = x] /\ Goto(c) /\ metadata' = metadata
      BY <1>0, <1>5, <2>1, <2>2 DEF Begin
    <2>4. /\ Closed(DOMAIN sel, x) /\ x.ebuild = sel[s].ebuild /\ x.dirty = sel[s].dirty
          /\ x.generators = sel[s].generators /\ x.generators \in Seq(Nat) /\ x.resolved = <<>>
      BY <1>2, <2>1 DEF SelectedEbuild, Closed, Range
    <2>5. Kept({s}) /\ Unchanging({s}) /\ DOMAIN sel' = DOMAIN sel /\ sel'[s] = x
          /\ \A r \in DOMAIN sel : r # s => sel'[r] = sel[r]
      BY <1>1, <1>2, <1>3, <2>3, <2>4, SelChanged
    <2>6. /\ c.sel = s /\ c.phase = "children" /\ c.target = Top.target /\ c.deps = Top.deps
          /\ c.child = 1 /\ Shaped(c)
      BY <1>2, <1>0, <2>2 DEF Call, Shaped
    <2>7. /\ c.child <= Len(sel'[s].generators) + 1
          /\ sel'[s].resolved = SubSeq(sel'[s].generators, 1, c.child - 1)
          /\ Range(sel'[s].resolved) \subseteq session
      <3>1. c.child - 1 = 0 /\ c.child = 1
        BY <2>6
      <3>2. SubSeq(x.generators, 1, 0) = <<>> /\ Len(x.generators) \in Nat
        BY <2>4
      <3>3. Range(<<>>) = {}
        BY DEF Range
      <3>4. SubSeq(sel'[s].generators, 1, c.child - 1) = <<>>
        BY <2>4, <2>5, <3>1, <3>2
      <3>5. c.child <= Len(sel'[s].generators) + 1
        BY <2>4, <2>5, <3>1, <3>2
      <3> QED
        BY <2>4, <2>5, <3>3, <3>4, <3>5
    <2>8. ASSUME AllAnswered
          PROVE  CallAnswers(c)' /\ Answered(s)'
      <3>1. Answered(s)
        BY <1>2, <1>5, <2>8 DEF AllAnswered
      <3>2. \A r \in DOMAIN sel : sel'[r].ebuild = sel[r].ebuild /\ sel'[r].generators = sel[r].generators
        BY <2>4, <2>5
      <3>3. Range(sel[s].generators) \subseteq DOMAIN sel
        BY <1>2 DEF Closed
      <3>4. Answered(s)'
        BY <1>2, <1>3, <3>1, <3>2, <3>3 DEF Answered, Answers, Wanted
      <3> QED
        BY <1>2, <1>3, <2>6, <2>8, <3>4, SingleKept DEF AllAnswered, CallAnswers
    <2> QED
      BY <1>0, <1>2, <1>3, <2>3, <2>5, <2>6, <2>7, <2>8, GotoInv
  <1> QED
    BY <1>4, <1>5

\* What is not generated changes, in a call that does not look at its expressions.
LEMMA Alike ==
    ASSUME Typed, NEW s \in DOMAIN sel, NEW x \in SelectedEbuild, sel' = [sel EXCEPT ![s] = x],
           UNCHANGED <<repo, metadata, packages>>, x.ebuild = sel[s].ebuild,
           x.generators = sel[s].generators, x.resolved = sel[s].resolved,
           ~x.dirty => ~sel[s].dirty
    PROVE  Kept({}) /\ Unchanging({}) /\ DOMAIN sel' = DOMAIN sel /\ sel'[s] = x
  <1>1. Closed(DOMAIN sel, x) /\ metadata' \subseteq Ebuild
    BY DEF Typed, Closed
  <1> QED
    BY <1>1, SelChanged

LEMMA QuietInv ==
    ASSUME ResolverAssumption, ResolverInv, In("begin") \/ In("flush") \/ In("required"),
           NEW c \in Call, Goto(c), c.sel = Top.sel, c.deps = Top.deps, c.target = Top.target,
           c.phase \in {"flush", "required"}, c.child = Top.child,
           Kept({}), Unchanging({}), UNCHANGED session
    PROVE  ResolverInv'
  <1>1. Typed /\ Nested
    BY DEF ResolverInv
  <1>2. /\ stack # <<>> /\ Top \in Call /\ Top = stack[Depth] /\ Depth \in DOMAIN stack
        /\ c.sel \in DOMAIN sel /\ c.target \in DOMAIN sel \cup {NULL} /\ c.sel # NULL
        /\ Shaped(Top) /\ Top.phase \in {"begin", "flush", "required"}
    <2>1. PICK phase \in {"begin", "flush", "required"} : In(phase)
      OBVIOUS
    <2> QED
      BY <1>1, <2>1, Inside
  <1>3. Kept({c.sel}) /\ Unchanging({c.sel}) /\ c.target \in DOMAIN sel' \cup {NULL}
    BY <1>2 DEF Kept, Unchanging
  <1>4. Shaped(c)
    BY <1>2 DEF Shaped
  <1>5. ASSUME AllAnswered
        PROVE  CallAnswers(c)' /\ (~sel'[c.sel].dirty => Answered(c.sel)')
    <2>1. CallAnswers(c)'
      <3>1. Asked' = Asked
        BY SingleKept DEF Kept
      <3> QED
        BY <1>2, <1>5, <3>1 DEF AllAnswered, CallAnswers
    <2>2. \A s \in DOMAIN sel : Answered(s)' <=> Answered(s)
      BY <1>1, AnswersKept
    <2>3. \A s \in DOMAIN sel : ~sel'[s].dirty => Answered(s)
      BY <1>5 DEF Unchanging, AllAnswered
    <2>4. \A s \in DOMAIN sel : ~sel'[s].dirty => Answered(s)'
      BY <2>2, <2>3
    <2>5. PICK s \in DOMAIN sel : s = c.sel
      BY <1>2
    <2> QED
      BY <2>1, <2>4, <2>5
  <1> QED
    BY <1>1, <1>2, <1>3, <1>4, <1>5, GotoInv

\* A hook that objects raises one of two exceptions.
LEMMA OneOfTwo ==
    ASSUME NEW s, NEW useflags, NEW hooked, Objection(s, useflags, hooked) # NULL
    PROVE  Objection(s, useflags, hooked) \in {"KeyError", "RequiredUseException"}
  BY DEF Objection

LEMMA Flushed ==
    ASSUME ResolverAssumption, ResolverInv, FlushUse
    PROVE  ResolverInv'
  <1>1. Typed /\ Nested /\ In("flush") /\ UNCHANGED <<repo, metadata, packages, session>>
    BY DEF ResolverInv, FlushUse
  <1>2. PICK s \in DOMAIN sel : s = Top.sel
    BY <1>1, Inside
  <1>3. /\ stack # <<>> /\ Top \in Call /\ Top.phase = "flush" /\ Top = stack[Depth]
        /\ Depth \in DOMAIN stack /\ sel[s] \in SelectedEbuild
        /\ sel[s].flags \in Seq(Scheduled) /\ sel[s].useflags \in UseState
    BY <1>1, <1>2, Inside, SelFields
  <1>4. CASE sel[s].flags = <<>>
    <2>1. PICK c \in Call : c = [Top EXCEPT !.phase = "required"]
      BY <1>3 DEF Call, Phase
    <2>2. Goto(c) /\ sel' = sel
      BY <1>2, <1>4, <2>1 DEF FlushUse
    <2>3. Kept({}) /\ Unchanging({})
      BY <1>1, <2>2, SelSame DEF Typed
    <2>4. c.sel = Top.sel /\ c.deps = Top.deps /\ c.target = Top.target /\ c.phase = "required"
          /\ c.child = Top.child
      BY <1>3, <2>1 DEF Call
    <2> QED
      BY <1>1, <2>2, <2>3, <2>4, QuietInv
  <1>5. CASE sel[s].flags # <<>>
    <2> DEFINE use == Head(sel[s].flags)
               after == With(sel[s].useflags, use.name, use.state)
    <2>1. use \in Scheduled /\ Tail(sel[s].flags) \in Seq(Scheduled)
      BY <1>3, <1>5, HeadTail
    <2>2. after \in UseState
      BY <1>3, <2>1, WithState DEF Scheduled
    <2>3. \/ sel' = [sel EXCEPT ![s].flags = Tail(@)]
          \/ sel' = [sel EXCEPT ![s].flags = Tail(@), ![s].useflags = after]
      BY <1>2, <1>5 DEF FlushUse
    <2>4. PICK x \in SelectedEbuild :
             /\ sel' = [sel EXCEPT ![s] = x]
             /\ x.ebuild = sel[s].ebuild /\ x.generators = sel[s].generators
             /\ x.resolved = sel[s].resolved /\ x.dirty = sel[s].dirty
      <3> HIDE DEF after, use
      <3>1. CASE sel' = [sel EXCEPT ![s].flags = Tail(@)]
        <4>1. [sel[s] EXCEPT !.flags = Tail(sel[s].flags)] \in SelectedEbuild
          BY <1>3, <2>1 DEF SelectedEbuild
        <4> QED
          BY <1>3, <3>1, <4>1 DEF SelectedEbuild
      <3>2. CASE sel' = [sel EXCEPT ![s].flags = Tail(@), ![s].useflags = after]
        <4>1. [sel[s] EXCEPT !.flags = Tail(sel[s].flags), !.useflags = after] \in SelectedEbuild
          BY <1>3, <2>1, <2>2 DEF SelectedEbuild
        <4> QED
          BY <1>3, <3>2, <4>1 DEF SelectedEbuild
      <3> QED
        BY <2>3, <3>1, <3>2
    <2>6. Kept({}) /\ Unchanging({})
      BY <1>1, <2>4, Alike
    <2>7. CASE UNCHANGED calls
      <3>1. Goto(Top)
        BY <1>1, <1>3, <2>7 DEF Goto, calls, Typed
      <3> QED
        BY <1>1, <1>3, <2>6, <3>1, QuietInv
    <2>8. CASE \E exception \in {"KeyError", "RequiredUseException"} : Raise(exception)
      BY <1>1, <2>6, <2>8, RaiseInv
    <2>9. UNCHANGED calls \/ \E exception \in {"KeyError", "RequiredUseException"} : Raise(exception)
      BY <1>2, <1>5, OneOfTwo DEF FlushUse
    <2> QED
      BY <2>7, <2>8, <2>9
  <1> QED
    BY <1>4, <1>5

LEMMA Hooked ==
    ASSUME ResolverAssumption, RepositoryAssumption, ResolverInv, HookRequired
    PROVE  ResolverInv'
  <1>1. /\ Typed /\ Nested /\ In("required") /\ repo \in Repository
        /\ UNCHANGED <<repo, metadata, packages, session>>
    BY DEF ResolverInv, HookRequired, Typed
  <1>2. PICK s \in DOMAIN sel : s = Top.sel
    BY <1>1, Inside
  <1>3. /\ stack # <<>> /\ Top \in Call /\ Top.phase = "required" /\ Top = stack[Depth]
        /\ Depth \in DOMAIN stack /\ sel[s] \in SelectedEbuild /\ sel[s].ebuild \in Ebuild
        /\ Top.target \in DOMAIN sel \cup {NULL} /\ Shaped(Top) /\ s # NULL
    BY <1>1, <1>2, Inside, SelFields
  <1>4. PICK e \in Ebuild : e = sel[s].ebuild
    BY <1>3
  <1>5. PICK x \in SelectedEbuild :
           /\ sel' = [sel EXCEPT ![s] = x]
           /\ x.ebuild = sel[s].ebuild /\ x.generators = sel[s].generators
           /\ x.resolved = sel[s].resolved /\ x.dirty = sel[s].dirty
    <2>1. PICK h \in Seq(Ebuild) : h = WithHook(sel[s].hooked, e)
      <3>1. sel[s].hooked \in Seq(Ebuild)
        BY <1>3, SelFields
      <3>2. Append(sel[s].hooked, e) \in Seq(Ebuild)
        BY <1>4, <3>1
      <3> QED
        BY <3>1, <3>2 DEF WithHook
    <2>2. [sel[s] EXCEPT !.hooked = h] \in SelectedEbuild
      BY <1>3, <2>1 DEF SelectedEbuild
    <2>3. sel' = [sel EXCEPT ![s] = [sel[s] EXCEPT !.hooked = h]]
      BY <1>2, <1>4, <2>1 DEF HookRequired
    <2> QED
      BY <1>3, <2>2, <2>3 DEF SelectedEbuild
  <1>6. /\ Kept({}) /\ Unchanging({}) /\ Kept({s}) /\ Unchanging({s})
        /\ DOMAIN sel' = DOMAIN sel /\ sel'[s] = x
    <2>1. Kept({}) /\ Unchanging({}) /\ DOMAIN sel' = DOMAIN sel /\ sel'[s] = x
      BY <1>1, <1>5, Alike
    <2> QED
      BY <2>1 DEF Kept, Unchanging
  <1>7. CASE \E exception \in {"KeyError", "RequiredUseException"} : Raise(exception)
    BY <1>1, <1>6, <1>7, RaiseInv
  <1>8. CASE Goto([Top EXCEPT !.phase = "generate", !.deps = repo.depends[e]])
    <2>1. repo.depends[e] \in Seq(Expr)
      BY <1>1 DEF RepositoryAssumption
    <2>2. PICK c \in Call : c = [Top EXCEPT !.phase = "generate", !.deps = repo.depends[e]]
      BY <1>3, <2>1 DEF Call, Phase
    <2>3. /\ c.sel = s /\ c.phase = "generate" /\ c.deps = repo.depends[e]
          /\ c.target = Top.target /\ Shaped(c)
      BY <1>2, <1>3, <2>2 DEF Call, Shaped
    <2>4. ASSUME AllAnswered
          PROVE  CallAnswers(c)' /\ (~sel'[s].dirty => Answered(s)')
      <3>1. \A expr \in Range(c.deps) : IsAtom(expr) => expr.atom \in Asked
        BY <1>4, <2>3 DEF Asked
      <3>2. Wanted(s)' \subseteq Range(c.deps)
        BY <1>1, <1>4, <1>5, <1>6, <2>3 DEF Wanted
      <3>3. Answered(s)' <=> Answered(s)
        BY <1>1, <1>6, AnswersKept
      <3>4. ~sel'[s].dirty => Answered(s)
        BY <1>5, <1>6, <2>4 DEF AllAnswered
      <3> QED
        BY <1>1, <2>3, <3>1, <3>2, <3>3, <3>4, SingleKept DEF CallAnswers
    <2>5. c.target \in DOMAIN sel' \cup {NULL} /\ Goto(c) /\ c.sel = Top.sel
      BY <1>2, <1>3, <1>6, <1>8, <2>2, <2>3
    <2> QED
      BY <1>1, <1>3, <1>6, <2>3, <2>4, <2>5, GotoInv
  <1> QED
    BY <1>2, <1>4, <1>7, <1>8, OneOfTwo DEF HookRequired

LEMMA Done ==
    ASSUME ResolverAssumption, ResolverInv, Generated, Top.sel = NULL
    PROVE  ResolverInv'
  <1>1. /\ Typed /\ Nested /\ Progress /\ In("generate") /\ stack' = <<>> /\ outcome' = "done"
        /\ UNCHANGED <<repo, metadata, sel, packages, session, failed>>
    BY DEF ResolverInv, Generated
  <1>2. /\ DOMAIN stack' = {} /\ DOMAIN stack = 1 .. Depth /\ Depth \in Nat /\ Depth >= 1
        /\ Top = stack[Depth] /\ Depth \in DOMAIN stack
    BY <1>1, TopIn DEF Typed, In, Top
  <1>3. DOMAIN stack = {1} /\ stack[1].sel = NULL
    BY <1>1, <1>2 DEF Nested, Placed
  <1>4. \A s \in DOMAIN sel : ~InCall(s)
    BY <1>1, <1>3 DEF InCall, ResolverAssumption, Typed
  <1>5. Typed'
    BY <1>1, <1>2 DEF Typed, Closed
  <1>6. Nested'
    BY <1>1, <1>2 DEF Nested
  <1>7. Progress'
    BY <1>1, <1>2, <1>4 DEF Progress, Finished, Typed
  <1>8. ASSUME Single PROVE AllAnswered'
    <2>1. AllAnswered
      BY <1>8 DEF ResolverInv
    <2> QED
      BY <1>1, <1>2, <1>4, <2>1
      DEF AllAnswered, PackagesListed, Answered, Answers, Wanted, Typed
  <1> QED
    BY <1>1, <1>5, <1>6, <1>7, <1>8, SingleKept DEF ResolverInv

LEMMA NoneLeft ==
    ASSUME ResolverAssumption, ResolverInv, Generated
    PROVE  ResolverInv'
  <1>1. /\ Typed /\ Nested /\ In("generate") /\ Top.deps = <<>>
        /\ UNCHANGED <<repo, metadata, packages, session>>
    BY DEF ResolverInv, Generated
  <1>2. CASE Top.sel = NULL
    BY <1>2, Done
  <1>3. CASE Top.sel # NULL
    <2>1. PICK s \in DOMAIN sel : s = Top.sel
      BY <1>1, <1>3, Inside
    <2>2. /\ stack # <<>> /\ Top \in Call /\ Top.phase = "generate" /\ Top = stack[Depth]
          /\ Depth \in DOMAIN stack /\ sel[s] \in SelectedEbuild /\ Closed(DOMAIN sel, sel[s])
          /\ Top.target \in DOMAIN sel \cup {NULL} /\ Shaped(Top)
          /\ sel[s].generators \in Seq(Nat)
      BY <1>1, <1>3, <2>1, Inside, SelFields
    <2>3. PICK x \in SelectedEbuild :
             /\ sel' = [sel EXCEPT ![s] = x] /\ x.ebuild = sel[s].ebuild
             /\ x.generators = sel[s].generators /\ x.resolved = <<>>
      <3>1. [sel[s] EXCEPT !.dirty = FALSE, !.resolved = <<>>] \in SelectedEbuild
        <4>1. <<>> \in Seq(Nat)
          OBVIOUS
        <4> QED
          BY <2>2, <4>1 DEF SelectedEbuild
      <3>2. sel' = [sel EXCEPT ![s] = [sel[s] EXCEPT !.dirty = FALSE, !.resolved = <<>>]]
        BY <1>3, <2>1 DEF Generated
      <3> QED
        BY <2>2, <3>1, <3>2 DEF SelectedEbuild
    <2>4. Closed(DOMAIN sel, x)
      BY <2>2, <2>3 DEF Closed, Range
    <2>5. /\ Kept({s}) /\ Unchanging({s}) /\ DOMAIN sel' = DOMAIN sel /\ sel'[s] = x
          /\ \A r \in DOMAIN sel : r # s => sel'[r] = sel[r]
      BY <1>1, <2>3, <2>4, SelChanged DEF Typed
    <2>6. PICK c \in Call : c = [Top EXCEPT !.phase = "children"]
      BY <2>2 DEF Call, Phase
    <2>7. /\ c.sel = s /\ c.phase = "children" /\ c.target = Top.target /\ c.deps = Top.deps
          /\ c.child = 1 /\ Shaped(c)
      BY <2>1, <2>2, <2>6 DEF Call, Shaped
    <2>8. /\ c.child <= Len(sel'[s].generators) + 1
          /\ sel'[s].resolved = SubSeq(sel'[s].generators, 1, c.child - 1)
          /\ Range(sel'[s].resolved) \subseteq session
      <3>1. c.child - 1 = 0 /\ c.child = 1
        BY <2>7
      <3>2. SubSeq(x.generators, 1, 0) = <<>> /\ Len(x.generators) \in Nat
        BY <2>2, <2>3
      <3>3. Range(<<>>) = {}
        BY DEF Range
      <3>4. SubSeq(sel'[s].generators, 1, c.child - 1) = <<>>
        BY <2>5, <3>1, <3>2
      <3>5. c.child <= Len(sel'[s].generators) + 1
        BY <2>5, <3>1, <3>2
      <3> QED
        BY <2>3, <2>5, <3>3, <3>4, <3>5
    <2>9. ASSUME AllAnswered
          PROVE  CallAnswers(c)' /\ Answered(s)'
      <3>1. CallAnswers(Top)
        BY <2>2, <2>9 DEF AllAnswered
      <3>2. \A expr \in Wanted(s) : Answers(s, expr.atom)
        <4>1. Range(Top.deps) = {}
          BY <1>1 DEF Range
        <4> QED
          BY <1>3, <2>1, <2>2, <3>1, <4>1 DEF CallAnswers
      <3>3. \A r \in DOMAIN sel : sel'[r].ebuild = sel[r].ebuild /\ sel'[r].generators = sel[r].generators
        BY <2>3, <2>5
      <3>4. Range(sel[s].generators) \subseteq DOMAIN sel
        BY <2>2 DEF Closed
      <3>5. Answered(s)'
        BY <1>1, <3>2, <3>3, <3>4 DEF Answered, Answers, Wanted
      <3> QED
        BY <1>1, <2>7, <3>1, <3>5, SingleKept DEF CallAnswers
    <2>10. Goto(c) /\ c.sel = Top.sel /\ c.target \in DOMAIN sel' \cup {NULL} /\ s # NULL
      BY <1>3, <2>1, <2>2, <2>5, <2>6, <2>7 DEF Generated
    <2> QED
      BY <2>2, <2>5, <2>7, <2>8, <2>9, <2>10, <1>1, GotoInv
  <1> QED
    BY <1>2, <1>3

-----------------------------------------------------------------------------
(* Calls of get_resolved for an ebuild that is new in the session.         *)

LEMMA PushInv ==
    ASSUME ResolverAssumption, ResolverInv, stack # <<>>, NEW s \in DOMAIN sel, s \notin session,
           NEW c \in Call, Enter(s, [stack EXCEPT ![Depth] = c]),
           c.sel = Top.sel, c.target \in DOMAIN sel \cup {NULL}, Shaped(c),
           UNCHANGED <<repo, metadata, sel, packages>>,
           c.phase = IF c.sel = NULL THEN "generate" ELSE "children",
           c.sel # NULL =>
              /\ c.child <= Len(sel[c.sel].generators) /\ sel[c.sel].generators[c.child] = s
              /\ ~failed => /\ sel[c.sel].resolved = SubSeq(sel[c.sel].generators, 1, c.child - 1)
                            /\ Range(sel[c.sel].resolved) \subseteq session,
           Single /\ AllAnswered => CallAnswers(c)
    PROVE  ResolverInv'
  <1>1. Typed /\ Nested /\ Progress
    BY DEF ResolverInv
  <1>2. /\ Depth \in DOMAIN stack /\ Depth \in Nat /\ Depth >= 1 /\ DOMAIN stack = 1 .. Depth
        /\ Top = stack[Depth] /\ s \in Nat /\ s # NULL
    BY <1>1, TopIn DEF Typed, Top, ResolverAssumption
  <1>3. PICK new \in Call : new = Frame(s, "begin", <<>>)
    <2>1. s \in Nat \cup {NULL} /\ "begin" \in Phase /\ <<>> \in Seq(Expr)
      BY <1>2 DEF Phase
    <2> QED
      BY <2>1, FrameCall
  <1>4. /\ new.sel = s /\ new.phase = "begin" /\ new.target = NULL /\ new.child = 1
        /\ new.deps = <<>>
    BY <1>3 DEF Frame
  <1>5. session' = session \cup {s} /\ UNCHANGED <<outcome, failed>>
    BY DEF Enter
  <1>6. /\ stack' \in Seq(Call) /\ Depth' = Depth + 1 /\ DOMAIN stack' = 1 .. Depth + 1
        /\ stack'[Depth] = c /\ stack'[Depth + 1] = new
        /\ \A i \in 1 .. Depth - 1 : stack'[i] = stack[i]
    <2> DEFINE frames == [stack EXCEPT ![Depth] = c]
    <2>1. frames \in Seq(Call) /\ Len(frames) = Depth /\ frames[Depth] = c
          /\ \A i \in 1 .. Depth - 1 : frames[i] = stack[i]
      <3>1. stack \in Seq(Call) /\ Len(stack) = Depth
        BY <1>1 DEF Typed, Depth
      <3>2. frames \in Seq(Call) /\ Len(frames) = Len(stack)
        BY <1>2, <3>1
      <3>3. frames[Depth] = c /\ \A i \in 1 .. Depth - 1 : frames[i] = stack[i]
        BY <1>2, <3>1
      <3> QED
        BY <3>1, <3>2, <3>3
    <2>2. stack' = Append(frames, new)
      BY <1>3 DEF Enter
    <2> HIDE DEF frames
    <2>3. stack' \in Seq(Call) /\ Len(stack') = Depth + 1 /\ DOMAIN stack' = 1 .. Depth + 1
      BY <1>2, <2>1, <2>2
    <2>4. stack'[Depth + 1] = new /\ \A i \in 1 .. Depth : stack'[i] = frames[i]
      BY <1>2, <2>1, <2>2
    <2> QED
      BY <1>2, <2>1, <2>3, <2>4, SMTT(30) DEF Depth
  <1>7. \A i \in 1 .. Depth : stack'[i].sel = stack[i].sel
    BY <1>2, <1>6
  <1>8. Placed(Depth) /\ (c.sel = NULL <=> Depth = 1)
    BY <1>1, <1>2 DEF Nested, Placed
  <1>9. Typed'
    <2>1. ASSUME NEW i \in DOMAIN stack'
          PROVE  {stack'[i].sel, stack'[i].target} \subseteq DOMAIN sel \cup {NULL}
      <3>1. CASE i = Depth + 1
        BY <1>4, <1>6, <3>1
      <3>2. CASE i = Depth
        BY <1>1, <1>2, <1>6, <3>2 DEF Typed
      <3>3. CASE i \in 1 .. Depth - 1
        <4>1. i \in DOMAIN stack /\ stack'[i] = stack[i]
          BY <1>2, <1>6, <3>3
        <4> QED
          BY <1>1, <4>1 DEF Typed
      <3> QED
        BY <1>2, <1>6, <3>1, <3>2, <3>3
    <2> QED
      BY <1>1, <1>5, <1>6, <2>1 DEF Typed, Closed
  <1>10. ASSUME NEW i \in DOMAIN stack'
         PROVE  Placed(i)' /\ Waits(i)' /\ Shaped(stack'[i])
    <2>1. CASE i = Depth + 1
      BY <1>2, <1>4, <1>5, <1>6, <2>1 DEF Placed, Waits, Shaped
    <2>2. CASE i = Depth
      <3>1. Placed(i)'
        BY <1>2, <1>5, <1>6, <1>8, <2>2 DEF Placed
      <3>2. Waits(i)'
        <4>1. c.sel # NULL => c.child \in Nat /\ Len(sel[c.sel].generators) \in Nat
          <5>1. c.sel # NULL => sel[c.sel] \in SelectedEbuild
            BY <1>1, <1>2 DEF Typed
          <5> QED
            BY <5>1, SelFields DEF Call
        <4> QED
          BY <1>2, <1>5, <1>6, <1>8, <2>2, <4>1 DEF Waits
      <3> QED
        BY <1>6, <2>2, <3>1, <3>2
    <2>3. CASE i \in 1 .. Depth - 1
      <3>1. /\ stack'[i] = stack[i] /\ Placed(i) /\ Waits(i) /\ Shaped(stack[i]) /\ i < Depth
            /\ i < Depth'
        BY <1>1, <1>2, <1>6, <2>3 DEF Nested
      <3> QED
        BY <1>5, <3>1 DEF Placed, Waits
    <2> QED
      BY <1>2, <1>6, <2>1, <2>2, <2>3
  <1>11. Nested'
    <2>1. ASSUME NEW i \in DOMAIN stack', NEW j \in DOMAIN stack', stack'[i].sel = stack'[j].sel
          PROVE  i = j
      <3>1. \A k \in 1 .. Depth : stack[k].sel # s
        BY <1>1, <1>2 DEF Nested, Placed
      <3> QED
        BY <1>1, <1>2, <1>4, <1>6, <1>7, <2>1, <3>1 DEF Nested
    <2>2. outcome = "running" /\ stack' # <<>>
      BY <1>1, <1>2, <1>6 DEF Nested
    <2> QED
      BY <1>5, <1>10, <2>1, <2>2 DEF Nested
  <1>12. Progress'
    <2> SUFFICES ASSUME ~failed
                 PROVE  /\ \A r \in session' : InCall(r)' \/ Finished(r)'
                        /\ \A i \in DOMAIN stack' : stack'[i].phase = "children" =>
                              LET x == sel[stack'[i].sel]
                              IN  /\ x.resolved = SubSeq(x.generators, 1, stack'[i].child - 1)
                                  /\ Range(x.resolved) \subseteq session'
      BY <1>5 DEF Progress
    <2>1. ASSUME NEW r \in session'
          PROVE  InCall(r)' \/ Finished(r)'
      <3>1. CASE r = s
        BY <1>2, <1>4, <1>6, <3>1 DEF InCall
      <3>2. CASE r # s
        <4>1. InCall(r) \/ Finished(r)
          BY <1>1, <1>5, <3>2 DEF Progress
        <4>2. InCall(r) => InCall(r)'
          BY <1>2, <1>6, <1>7 DEF InCall
        <4>3. Finished(r) => Finished(r)'
          BY <1>5 DEF Finished
        <4> QED
          BY <4>1, <4>2, <4>3
      <3> QED
        BY <3>1, <3>2
    <2>2. ASSUME NEW i \in DOMAIN stack', stack'[i].phase = "children"
          PROVE  LET x == sel[stack'[i].sel]
                 IN  /\ x.resolved = SubSeq(x.generators, 1, stack'[i].child - 1)
                     /\ Range(x.resolved) \subseteq session'
      <3>1. CASE i = Depth + 1
        BY <1>4, <1>6, <2>2, <3>1
      <3>2. CASE i = Depth
        <4>1. c.sel # NULL
          BY <1>6, <2>2, <3>2
        <4> QED
          BY <1>5, <1>6, <3>2, <4>1
      <3>3. CASE i \in 1 .. Depth - 1
        <4>1. i \in DOMAIN stack /\ stack'[i] = stack[i]
          BY <1>2, <1>6, <3>3
        <4> QED
          BY <1>1, <1>5, <2>2, <4>1 DEF Progress
      <3> QED
        BY <1>2, <1>6, <3>1, <3>2, <3>3
    <2> QED
      BY <2>1, <2>2
  <1>13. ASSUME Single PROVE AllAnswered'
    <2>1. AllAnswered /\ CallAnswers(c) /\ Asked' = Asked
      BY <1>13, SingleKept DEF ResolverInv
    <2>2. \A call : CallAnswers(call) => CallAnswers(call)'
      BY <2>1 DEF CallAnswers, Wanted, Answers, Answered
    <2>3. CallAnswers(new)
      BY <1>4 DEF CallAnswers, Range
    <2>4. ASSUME NEW i \in DOMAIN stack' PROVE CallAnswers(stack'[i])
      <3>1. CASE i = Depth + 1
        BY <1>6, <2>3, <3>1
      <3>2. CASE i = Depth
        BY <1>6, <2>1, <3>2
      <3>3. CASE i \in 1 .. Depth - 1
        BY <1>2, <1>6, <2>1, <3>3 DEF AllAnswered
      <3> QED
        BY <1>2, <1>6, <3>1, <3>2, <3>3
    <2>5. ASSUME NEW i \in DOMAIN stack' PROVE CallAnswers(stack[i])'
      <3>1. PICK call : call = stack'[i]
        OBVIOUS
      <3>2. CallAnswers(call)'
        BY <2>2, <2>4, <3>1
      <3> QED
        BY <3>1, <3>2 DEF CallAnswers
    <2>6. ASSUME ~failed, NEW r \in session'
          PROVE  InCall(r)' \/ Answered(r)'
      <3>1. CASE r = s
        BY <1>2, <1>4, <1>6, <3>1 DEF InCall
      <3>2. CASE r # s
        <4>1. InCall(r) \/ Answered(r)
          BY <1>5, <2>1, <2>6, <3>2 DEF AllAnswered
        <4>2. InCall(r) => InCall(r)'
          BY <1>2, <1>6, <1>7 DEF InCall
        <4> QED
          BY <4>1, <4>2 DEF Answered, Answers, Wanted
      <3> QED
        BY <3>1, <3>2
    <2>7. PackagesListed' /\ \A r \in DOMAIN sel' : ~sel'[r].dirty => Answered(r)'
      BY <2>1 DEF AllAnswered, PackagesListed, Answered, Answers, Wanted
    <2> QED
      BY <1>5, <2>5, <2>6, <2>7 DEF AllAnswered
  <1> QED
    BY <1>9, <1>11, <1>12, <1>13, SingleKept DEF ResolverInv

LEMMA AppendRange ==
    ASSUME NEW S, NEW q \in Seq(S), NEW x \in S
    PROVE  Append(q, x) \in Seq(S) /\ Range(Append(q, x)) = Range(q) \cup {x}
  <1>1. /\ Append(q, x) \in Seq(S) /\ Len(Append(q, x)) = Len(q) + 1
        /\ \A i \in 1 .. Len(q) : Append(q, x)[i] = q[i]
        /\ Append(q, x)[Len(q) + 1] = x
    OBVIOUS
  <1>2. /\ DOMAIN q = 1 .. Len(q) /\ DOMAIN Append(q, x) = 1 .. Len(q) + 1
        /\ 1 .. Len(q) + 1 = (1 .. Len(q)) \cup {Len(q) + 1}
    BY <1>1
  <1> QED
    BY <1>1, <1>2 DEF Range

\* What is collected of the children, one more.
LEMMA SubSeqNext ==
    ASSUME NEW q \in Seq(Nat), NEW n \in Nat, n \in 1 .. Len(q)
    PROVE  /\ Append(SubSeq(q, 1, n - 1), q[n]) = SubSeq(q, 1, n)
           /\ Range(SubSeq(q, 1, n)) = Range(SubSeq(q, 1, n - 1)) \cup {q[n]}
  <1>1. /\ SubSeq(q, 1, n) \in Seq(Nat) /\ Len(SubSeq(q, 1, n)) = n
        /\ \A i \in 1 .. n : SubSeq(q, 1, n)[i] = q[i]
    OBVIOUS
  <1>2. /\ SubSeq(q, 1, n - 1) \in Seq(Nat) /\ Len(SubSeq(q, 1, n - 1)) = n - 1
        /\ \A i \in 1 .. n - 1 : SubSeq(q, 1, n - 1)[i] = q[i]
    OBVIOUS
  <1>3. Append(SubSeq(q, 1, n - 1), q[n]) = SubSeq(q, 1, n)
    <2> DEFINE p == SubSeq(q, 1, n - 1)
               r == SubSeq(q, 1, n)
    <2> HIDE DEF p, r
    <2>1. p \in Seq(Nat) /\ Len(p) = n - 1 /\ r \in Seq(Nat) /\ Len(r) = n /\ q[n] \in Nat
      BY <1>1, <1>2 DEF p, r
    <2>2. \A i \in 1 .. n - 1 : p[i] = q[i] /\ r[i] = q[i]
      BY <1>1, <1>2 DEF p, r
    <2>3. r[n] = q[n]
      BY <1>1 DEF r
    <2>4. Append(p, q[n]) \in Seq(Nat) /\ Len(Append(p, q[n])) = n
      BY <2>1
    <2>5. \A i \in 1 .. n : Append(p, q[n])[i] = r[i]
      BY <2>1, <2>2, <2>3
    <2>6. Append(p, q[n]) = r
      BY <2>1, <2>4, <2>5
    <2> QED
      BY <2>6 DEF p, r
  <1>4. Range(SubSeq(q, 1, n)) = Range(SubSeq(q, 1, n - 1)) \cup {q[n]}
    <2>1. DOMAIN SubSeq(q, 1, n) = 1 .. n /\ DOMAIN SubSeq(q, 1, n - 1) = 1 .. n - 1
      BY <1>1, <1>2
    <2>2. 1 .. n = (1 .. n - 1) \cup {n}
      OBVIOUS
    <2>3. Range(SubSeq(q, 1, n)) = {q[i] : i \in 1 .. n}
      BY <1>1, <2>1 DEF Range
    <2>4. Range(SubSeq(q, 1, n - 1)) = {q[i] : i \in 1 .. n - 1}
      BY <1>2, <2>1 DEF Range
    <2> QED
      BY <2>2, <2>3, <2>4
  <1> QED
    BY <1>3, <1>4

LEMMA SubSeqWhole ==
    ASSUME NEW q \in Seq(Nat)
    PROVE  SubSeq(q, 1, Len(q)) = q
  OBVIOUS

LEMMA ChildCalled ==
    ASSUME ResolverAssumption, ResolverInv, Child
    PROVE  ResolverInv'
  <1>1. /\ Typed /\ Nested /\ Progress /\ In("children")
        /\ UNCHANGED <<repo, metadata, packages, blocks, requests>>
    BY DEF ResolverInv, Child
  <1>2. PICK r \in DOMAIN sel : r = Top.sel
    BY <1>1, Inside
  <1>3. /\ stack # <<>> /\ Top \in Call /\ Top.phase = "children" /\ Top = stack[Depth]
        /\ Depth \in DOMAIN stack /\ sel[r] \in SelectedEbuild /\ Closed(DOMAIN sel, sel[r])
        /\ Top.target \in DOMAIN sel \cup {NULL} /\ Shaped(Top) /\ r # NULL /\ r \in session
        /\ sel[r].generators \in Seq(Nat) /\ sel[r].resolved \in Seq(Nat)
        /\ Top.child \in Nat /\ Top.child \in 1 .. Len(sel[r].generators)
    <2>1. Top.child \in Nat \ {0} /\ Top.child <= Len(sel[r].generators)
      BY <1>1, <1>2, Inside DEF Call, Child
    <2> QED
      BY <1>1, <1>2, <2>1, Inside, SelFields
  <1>4. PICK s \in DOMAIN sel : s = sel[r].generators[Top.child]
    BY <1>3 DEF Closed, Range
  <1>5. ~failed => /\ sel[r].resolved = SubSeq(sel[r].generators, 1, Top.child - 1)
                   /\ Range(sel[r].resolved) \subseteq session
    BY <1>1, <1>2, <1>3 DEF Progress
  <1>6. CASE s \notin session
    <2>1. Enter(s, stack) /\ UNCHANGED sel
      BY <1>2, <1>4, <1>6 DEF Child
    <2>2. stack = [stack EXCEPT ![Depth] = Top]
      BY <1>1, <1>3 DEF Typed
    <2>3. PICK c \in Call : c = Top
      BY <1>3
    <2>4. Enter(s, [stack EXCEPT ![Depth] = c])
      BY <2>1, <2>2, <2>3
    <2>5. AllAnswered => CallAnswers(c)
      BY <1>3, <2>3 DEF AllAnswered, CallAnswers
    <2>6. /\ c.sel = Top.sel /\ c.target \in DOMAIN sel \cup {NULL} /\ Shaped(c) /\ c.sel = r
          /\ c.phase = "children" /\ c.child = Top.child
      BY <1>2, <1>3, <2>3
    <2>7. c.phase = IF c.sel = NULL THEN "generate" ELSE "children"
      BY <1>3, <2>6
    <2>8. /\ c.child <= Len(sel[c.sel].generators) /\ sel[c.sel].generators[c.child] = s
          /\ ~failed => /\ sel[c.sel].resolved = SubSeq(sel[c.sel].generators, 1, c.child - 1)
                        /\ Range(sel[c.sel].resolved) \subseteq session
      BY <1>3, <1>4, <1>5, <2>6
    <2> QED
      BY <1>1, <1>3, <1>6, <2>1, <2>4, <2>5, <2>6, <2>7, <2>8, PushInv
  <1>7. CASE s \in session
    <2>1. PICK c \in Call : c = [Top EXCEPT !.child = @ + 1]
      <3>1. Top.child + 1 \in Nat \ {0}
        BY <1>3
      <3>2. [Top EXCEPT !.child = Top.child + 1] \in Call
        BY <1>3, <3>1 DEF Call
      <3> QED
        BY <3>2
    <2>2. /\ c.sel = r /\ c.sel = Top.sel /\ c.phase = "children" /\ c.child = Top.child + 1
          /\ c.target = Top.target /\ c.deps = Top.deps /\ Shaped(c)
      BY <1>2, <1>3, <2>1 DEF Call, Shaped
    <2>3. PICK x \in SelectedEbuild : x = [sel[r] EXCEPT !.resolved = Append(@, s)]
      <3>1. Append(sel[r].resolved, s) \in Seq(Nat)
        BY <1>1, <1>3 DEF Typed
      <3> QED
        BY <1>3, <3>1, SelFields
    <2>4. /\ sel' = [sel EXCEPT ![r] = x] /\ Goto(c) /\ UNCHANGED session
      <3>1. AppendResolved(stack) /\ UNCHANGED session
        BY <1>2, <1>4, <1>7 DEF Child
      <3>2. stack[Len(stack)] = Top
        BY DEF Top, Depth
      <3>3. /\ UNCHANGED <<outcome, failed>>
            /\ sel' = [sel EXCEPT ![r].resolved = Append(@, s)]
            /\ stack' = [stack EXCEPT ![Depth].child = @ + 1]
        BY <1>2, <1>3, <1>4, <3>1, <3>2 DEF AppendResolved, Depth
      <3>4. stack' = [stack EXCEPT ![Depth] = c]
        BY <1>1, <1>3, <2>1, <3>3 DEF Typed
      <3>5. sel' = [sel EXCEPT ![r] = x]
        BY <1>1, <2>3, <3>3 DEF Typed
      <3> QED
        BY <3>1, <3>3, <3>4, <3>5 DEF Goto
    <2>5. /\ x.ebuild = sel[r].ebuild /\ x.generators = sel[r].generators /\ x.dirty = sel[r].dirty
          /\ x.resolved = Append(sel[r].resolved, s)
      BY <1>3, <2>3 DEF SelectedEbuild
    <2>6. Range(x.resolved) = Range(sel[r].resolved) \cup {s}
      <3>1. s \in Nat /\ sel[r].resolved \in Seq(Nat)
        BY <1>1, <1>3 DEF Typed
      <3>2. Range(Append(sel[r].resolved, s)) = Range(sel[r].resolved) \cup {s}
        BY <3>1, AppendRange
      <3> QED
        BY <2>5, <3>2
    <2>7. Closed(DOMAIN sel, x)
      BY <1>3, <2>5, <2>6 DEF Closed
    <2>8. /\ Kept({r}) /\ Unchanging({r}) /\ Unchanging({}) /\ DOMAIN sel' = DOMAIN sel /\ sel'[r] = x
          /\ \A u \in DOMAIN sel : u # r => sel'[u] = sel[u]
      BY <1>1, <2>4, <2>5, <2>7, SelChanged DEF Typed
    <2>9. c.child <= Len(sel'[r].generators) + 1
      BY <1>3, <2>2, <2>5, <2>8
    <2>10. ASSUME ~failed
           PROVE  /\ sel'[r].resolved = SubSeq(sel'[r].generators, 1, c.child - 1)
                  /\ Range(sel'[r].resolved) \subseteq session
      <3>1. x.resolved = SubSeq(sel[r].generators, 1, Top.child)
        BY <1>3, <1>4, <1>5, <2>5, <2>10, SubSeqNext
      <3>2. Top.child = c.child - 1
        BY <1>3, <2>2
      <3>3. Range(x.resolved) \subseteq session
        BY <1>5, <1>7, <2>6, <2>10
      <3> QED
        BY <2>5, <2>8, <3>1, <3>2, <3>3
    <2>11. ASSUME AllAnswered
           PROVE  CallAnswers(c)' /\ Answered(r)'
      <3>1. Answered(r) /\ CallAnswers(Top)
        BY <1>2, <1>3, <2>11 DEF AllAnswered, CallAnswers
      <3>2. \A u \in DOMAIN sel : sel'[u].ebuild = sel[u].ebuild /\ sel'[u].generators = sel[u].generators
        BY <2>5, <2>8
      <3>3. Range(sel[r].generators) \subseteq DOMAIN sel
        BY <1>3 DEF Closed
      <3>4. Answered(r)'
        BY <1>1, <3>1, <3>2, <3>3 DEF Answered, Answers, Wanted
      <3> QED
        BY <1>1, <2>2, <3>1, <3>4, SingleKept DEF CallAnswers
    <2> QED
      BY <1>3, <2>2, <2>4, <2>8, <2>9, <2>10, <2>11, GotoInv
  <1> QED
    BY <1>6, <1>7

-----------------------------------------------------------------------------
(* Returns from get_resolved.                                              *)

LEMMA PopInv ==
    ASSUME ResolverAssumption, ResolverInv, In("children"),
           Top.child = Len(sel[Top.sel].generators) + 1,
           NEW p \in Nat, p = Depth - 1, NEW c \in Call,
           stack' = [SubSeq(stack, 1, p) EXCEPT ![p] = c],
           UNCHANGED <<repo, metadata, packages, session, outcome, failed>>,
           c.sel = stack[p].sel, c.phase = stack[p].phase, c.deps = stack[p].deps,
           c.target = stack[p].target, Shaped(c),
           Kept({c.sel}), Unchanging({}), DOMAIN sel' = DOMAIN sel,
           \A r \in DOMAIN sel : sel'[r].generators = sel[r].generators,
           c.sel # NULL =>
              /\ c.child <= Len(sel[c.sel].generators) + 1
              /\ ~failed => /\ sel'[c.sel].resolved = SubSeq(sel[c.sel].generators, 1, c.child - 1)
                            /\ Range(sel'[c.sel].resolved) \subseteq session
    PROVE  ResolverInv'
  <1>1. Typed /\ Nested /\ Progress
    BY DEF ResolverInv
  <1>2. PICK s \in DOMAIN sel : s = Top.sel
    BY <1>1, Inside
  <1>3. /\ Top \in Call /\ Top.phase = "children" /\ Top = stack[Depth]
        /\ Depth \in DOMAIN stack /\ sel[s] \in SelectedEbuild /\ s # NULL /\ s \in session
        /\ sel[s].generators \in Seq(Nat) /\ DOMAIN stack = 1 .. Depth /\ Depth \in Nat /\ p >= 1
        /\ Top.child - 1 = Len(sel[s].generators)
    BY <1>1, <1>2, Inside, SelFields
  <1>4. /\ stack' \in Seq(Call) /\ Depth' = p /\ DOMAIN stack' = 1 .. p
        /\ stack'[p] = c /\ \A i \in 1 .. p - 1 : stack'[i] = stack[i]
    <2> DEFINE frames == SubSeq(stack, 1, p)
    <2>1. stack \in Seq(Call) /\ p \in 1 .. Len(stack)
      BY <1>1, <1>3 DEF Typed, Depth
    <2>2. frames \in Seq(Call) /\ Len(frames) = p /\ \A i \in 1 .. p : frames[i] = stack[i]
      BY <2>1
    <2> HIDE DEF frames
    <2>3. stack' = [frames EXCEPT ![p] = c]
      BY DEF frames
    <2>4. stack' \in Seq(Call) /\ Len(stack') = p /\ DOMAIN stack' = 1 .. p
      BY <1>3, <2>2, <2>3
    <2>5. stack'[p] = c /\ \A i \in 1 .. p - 1 : stack'[i] = stack[i]
      BY <1>3, <2>2, <2>3
    <2> QED
      BY <2>4, <2>5 DEF Depth
  <1>5. p \in DOMAIN stack /\ p < Depth /\ p + 1 = Depth
    BY <1>3
  <1>6. /\ \A i \in 1 .. p : stack'[i].sel = stack[i].sel /\ stack[i].sel # s
        /\ c.sel # s
    <2>1. ASSUME NEW i \in 1 .. p PROVE stack'[i].sel = stack[i].sel
      BY <1>3, <1>4
    <2>2. ASSUME NEW i \in 1 .. p PROVE stack[i].sel # s
      <3>1. i \in DOMAIN stack /\ i # Depth
        BY <1>3, <1>5
      <3> QED
        BY <1>1, <1>2, <1>3, <3>1 DEF Nested
    <2> QED
      BY <1>3, <2>1, <2>2
  <1>7. Placed(p) /\ Waits(p) /\ (c.phase = IF p = 1 THEN "generate" ELSE "children")
    BY <1>1, <1>5 DEF Nested, Waits
  <1>8. Typed'
    <2>1. ASSUME NEW i \in DOMAIN stack'
          PROVE  {stack'[i].sel, stack'[i].target} \subseteq DOMAIN sel' \cup {NULL}
      <3>1. i \in DOMAIN stack /\ stack'[i].sel = stack[i].sel /\ stack'[i].target = stack[i].target
        BY <1>3, <1>4, <1>5, <2>1
      <3> QED
        BY <1>1, <3>1 DEF Typed
    <2> QED
      BY <1>1, <1>4, <2>1 DEF Typed, Kept
  <1>9. ASSUME NEW i \in DOMAIN stack'
        PROVE  Placed(i)' /\ Waits(i)' /\ Shaped(stack'[i])
    <2>1. CASE i = p
      <3>1. Placed(i)'
        BY <1>4, <1>7, <2>1 DEF Placed
      <3>2. c.phase = "children" => c.sel # NULL /\ c.sel \in DOMAIN sel
        BY <1>1, <1>5, <1>7 DEF Placed, Typed
      <3>3. Waits(i)'
        <4>1. c.phase = "children" => c.child <= Len(sel'[c.sel].generators) + 1
          BY <3>2
        <4>2. ~(i < Depth')
          BY <1>4, <2>1
        <4> QED
          BY <1>4, <2>1, <4>1, <4>2 DEF Waits
      <3> QED
        BY <1>4, <2>1, <3>1, <3>3
    <2>2. CASE i # p
      <3>1. /\ i \in 1 .. p - 1 /\ stack'[i] = stack[i] /\ i < Depth /\ i < p
            /\ Placed(i) /\ Waits(i) /\ Shaped(stack'[i])
        BY <1>1, <1>3, <1>4, <2>2 DEF Nested
      <3>2. Placed(i)'
        BY <3>1 DEF Placed
      <3>3. Waits(i)'
        <4>1. i # 1 => stack[i].sel \in DOMAIN sel
          BY <1>1, <3>1 DEF Placed, Typed
        <4>2. CASE i = 1
          BY <1>4, <3>1, <4>2 DEF Waits
        <4>3. CASE i # 1
          BY <1>4, <3>1, <4>1, <4>3, ZenonT(30) DEF Waits
        <4> QED
          BY <4>2, <4>3
      <3> QED
        BY <3>1, <3>2, <3>3
    <2> QED
      BY <2>1, <2>2
  <1>10. Nested'
    <2>1. outcome = "running" /\ stack' # <<>>
      BY <1>1, <1>3, <1>4 DEF Nested
    <2>2. \A i, j \in DOMAIN stack' : stack'[i].sel = stack'[j].sel => i = j
      BY <1>1, <1>3, <1>4, <1>5, <1>6 DEF Nested
    <2> QED
      BY <1>9, <2>1, <2>2 DEF Nested
  <1>11. Progress'
    <2> SUFFICES ASSUME ~failed
                 PROVE  /\ \A r \in session : InCall(r)' \/ Finished(r)'
                        /\ \A i \in DOMAIN stack' : stack'[i].phase = "children" =>
                              LET x == sel'[stack'[i].sel]
                              IN  /\ x.resolved = SubSeq(x.generators, 1, stack'[i].child - 1)
                                  /\ Range(x.resolved) \subseteq session
      BY DEF Progress
    <2>1. Finished(s)
      <3>1. sel[s].resolved = SubSeq(sel[s].generators, 1, Top.child - 1)
            /\ Range(sel[s].resolved) \subseteq session
        BY <1>1, <1>2, <1>3 DEF Progress
      <3>2. SubSeq(sel[s].generators, 1, Top.child - 1) = sel[s].generators
        BY <1>3, SubSeqWhole
      <3> QED
        BY <3>1, <3>2 DEF Finished
    <2>2. ASSUME NEW r \in session
          PROVE  InCall(r)' \/ Finished(r)'
      <3>1. CASE \E i \in 1 .. p : stack[i].sel = r
        BY <1>4, <1>6, <3>1 DEF InCall
      <3>2. CASE ~ \E i \in 1 .. p : stack[i].sel = r
        <4>1. r # c.sel /\ r \in DOMAIN sel
          BY <1>1, <1>3, <3>2 DEF Typed
        <4>2. Finished(r)
          <5>1. CASE r = s
            BY <2>1, <5>1
          <5>2. CASE r # s
            <6>1. ~InCall(r)
              BY <1>2, <1>3, <1>5, <3>2, <5>2 DEF InCall
            <6> QED
              BY <1>1, <6>1 DEF Progress
          <5> QED
            BY <5>1, <5>2
        <4> QED
          BY <4>1, <4>2 DEF Finished, Kept
      <3> QED
        BY <3>1, <3>2
    <2>3. ASSUME NEW i \in DOMAIN stack', stack'[i].phase = "children"
          PROVE  LET x == sel'[stack'[i].sel]
                 IN  /\ x.resolved = SubSeq(x.generators, 1, stack'[i].child - 1)
                     /\ Range(x.resolved) \subseteq session
      <3>1. CASE i = p
        <4>1. c.sel # NULL /\ c.sel \in DOMAIN sel
          BY <1>1, <1>4, <1>5, <1>7, <2>3, <3>1 DEF Placed, Typed
        <4> QED
          BY <1>4, <3>1, <4>1
      <3>2. CASE i # p
        <4>1. /\ i \in 1 .. p - 1 /\ i \in DOMAIN stack /\ stack'[i] = stack[i] /\ i # 1
              /\ stack[i].sel # c.sel /\ stack[i].sel \in DOMAIN sel
          <5>1. i \in 1 .. p - 1 /\ i \in DOMAIN stack /\ stack'[i] = stack[i]
            BY <1>3, <1>4, <3>2
          <5>2. i # 1
            BY <1>1, <2>3, <5>1 DEF Nested, Placed
          <5>3. stack[i].sel # c.sel
            BY <1>1, <1>5, <3>2, <5>1 DEF Nested
          <5>4. stack[i].sel \in DOMAIN sel
            BY <1>1, <5>1, <5>2 DEF Nested, Placed, Typed
          <5> QED
            BY <5>1, <5>2, <5>3, <5>4
        <4>2. /\ sel'[stack[i].sel].generators = sel[stack[i].sel].generators
              /\ sel'[stack[i].sel].resolved = sel[stack[i].sel].resolved
          BY <4>1 DEF Kept
        <4>3. LET x == sel[stack[i].sel]
              IN  /\ x.resolved = SubSeq(x.generators, 1, stack[i].child - 1)
                  /\ Range(x.resolved) \subseteq session
          BY <1>1, <2>3, <4>1 DEF Progress
        <4> QED
          BY <4>1, <4>2, <4>3
      <3> QED
        BY <3>1, <3>2
    <2> QED
      BY <2>2, <2>3
  <1>12. ASSUME Single PROVE AllAnswered'
    <2>1. AllAnswered /\ Asked' = Asked
      BY <1>12, SingleKept DEF ResolverInv
    <2>2. ASSUME NEW r \in DOMAIN sel
          PROVE  /\ Wanted(r)' = Wanted(r) /\ (Answered(r)' <=> Answered(r))
                 /\ \A atom : Answers(r, atom)' <=> Answers(r, atom)
      <3>1. \A g \in Range(sel[r].generators) : sel'[g].ebuild = sel[g].ebuild
        BY <1>1 DEF Typed, Closed, Unchanging
      <3>2. Wanted(r)' = Wanted(r)
        BY DEF Wanted, Unchanging
      <3>3. \A atom : Answers(r, atom)' <=> Answers(r, atom)
        BY <3>1 DEF Answers
      <3> QED
        BY <3>2, <3>3 DEF Answered
    <2>3. ASSUME NEW i \in DOMAIN stack'
          PROVE  CallAnswers(stack[i])'
      <3>1. /\ i \in DOMAIN stack /\ stack'[i].sel = stack[i].sel /\ stack'[i].phase = stack[i].phase
            /\ stack'[i].deps = stack[i].deps /\ stack'[i].target = stack[i].target
            /\ i < Depth /\ CallAnswers(stack[i]) /\ Placed(i) /\ Waits(i)
        BY <1>1, <1>3, <1>4, <1>5, <2>1 DEF AllAnswered, Nested
      <3>2. CASE i = 1
        <4>1. stack[i].phase = "generate" /\ stack[i].sel = NULL
          BY <3>1, <3>2 DEF Placed, Waits
        <4> QED
          BY <2>1, <3>1, <4>1 DEF CallAnswers
      <3>3. CASE i # 1
        <4>1. stack[i].phase = "children" /\ stack[i].sel \in DOMAIN sel
          BY <1>1, <3>1, <3>3 DEF Placed, Waits, Typed
        <4>2. PICK r \in DOMAIN sel : r = stack[i].sel
          BY <4>1
        <4>3. Answered(r)'
          BY <2>2, <3>1, <4>1, <4>2 DEF CallAnswers
        <4> QED
          BY <2>1, <3>1, <4>1, <4>2, <4>3 DEF CallAnswers, Answered, Answers, Wanted
      <3> QED
        BY <3>2, <3>3
    <2>4. ASSUME ~failed, NEW r \in session
          PROVE  InCall(r)' \/ Answered(r)'
      <3>1. CASE \E i \in 1 .. p : stack[i].sel = r
        BY <1>4, <1>6, <3>1 DEF InCall
      <3>2. CASE ~ \E i \in 1 .. p : stack[i].sel = r
        <4>1. r \in DOMAIN sel
          BY <1>1 DEF Typed
        <4>2. CASE r = s
          <5>1. CallAnswers(Top)
            BY <1>3, <2>1 DEF AllAnswered, CallAnswers
          <5> QED
            BY <1>2, <1>3, <2>2, <4>2, <5>1 DEF CallAnswers
        <4>3. CASE r # s
          <5>1. ~InCall(r)
            BY <1>2, <1>3, <1>5, <3>2, <4>3 DEF InCall
          <5> QED
            BY <2>1, <2>2, <2>4, <4>1, <5>1 DEF AllAnswered
        <4> QED
          BY <4>2, <4>3
      <3> QED
        BY <3>1, <3>2
    <2>5. \A r \in DOMAIN sel' : ~sel'[r].dirty => Answered(r)'
      BY <2>1, <2>2 DEF AllAnswered, Unchanging
    <2>6. PackagesListed'
      BY <1>1, <2>1, PackagesKept DEF AllAnswered
    <2> QED
      BY <2>3, <2>4, <2>5, <2>6 DEF AllAnswered
  <1> QED
    BY <1>8, <1>10, <1>11, <1>12, SingleKept DEF ResolverInv

LEMMA Returned ==
    ASSUME ResolverAssumption, ResolverInv, Return
    PROVE  ResolverInv'
  <1>1. /\ Typed /\ Nested /\ Progress /\ In("children")
        /\ UNCHANGED <<repo, metadata, packages, session>>
    BY DEF ResolverInv, Return
  <1>2. PICK s \in DOMAIN sel : s = Top.sel
    BY <1>1, Inside
  <1>3. /\ Top \in Call /\ Top.phase = "children" /\ Top = stack[Depth] /\ Waits(Depth)
        /\ Depth \in DOMAIN stack /\ sel[s] \in SelectedEbuild /\ s # NULL
        /\ sel[s].generators \in Seq(Nat) /\ DOMAIN stack = 1 .. Depth /\ Depth \in Nat /\ Depth > 1
    BY <1>1, <1>2, Inside, SelFields
  <1>4. Top.child = Len(sel[Top.sel].generators) + 1
    <2>1. Top.child > Len(sel[s].generators) /\ Top.child <= Len(sel[s].generators) + 1
      BY <1>2, <1>3 DEF Return, Waits
    <2> QED
      BY <1>2, <1>3, <2>1 DEF Call
  <1>5. PICK p \in Nat : p = Depth - 1
    BY <1>3
  <1>6. p \in DOMAIN stack /\ p >= 1 /\ p < Depth
    BY <1>3, <1>5
  <1>7. PICK frame \in Call : frame = stack[p]
    BY <1>1, <1>6 DEF Typed
  <1> DEFINE frames == SubSeq(stack, 1, p)
  <1>8. /\ frames \in Seq(Call) /\ Len(frames) = p /\ frames[p] = frame
        /\ AppendResolved(frames)
    <2>1. stack \in Seq(Call) /\ p \in 1 .. Len(stack)
      BY <1>1, <1>3, <1>6 DEF Typed, Depth
    <2>2. frames \in Seq(Call) /\ Len(frames) = p /\ frames[p] = frame
      BY <1>7, <2>1
    <2> QED
      BY <1>5, <2>2 DEF Return
  <1> HIDE DEF frames
  <1>9. Placed(p) /\ Waits(p) /\ Shaped(frame)
    BY <1>1, <1>6, <1>7 DEF Nested
  <1>10. CASE frame.sel = NULL
    <2>1. stack' = frames /\ UNCHANGED <<sel, outcome, failed>>
      BY <1>8, <1>10 DEF AppendResolved
    <2>2. frames = [frames EXCEPT ![p] = frame]
      BY <1>6, <1>8
    <2>3. stack' = [SubSeq(stack, 1, p) EXCEPT ![p] = frame]
      BY <2>1, <2>2 DEF frames
    <2>4. Kept({}) /\ Unchanging({})
      BY <1>1, <2>1, SelSame DEF Typed
    <2>5. Kept({frame.sel})
      BY <2>4 DEF Kept
    <2> QED
      BY <1>1, <1>4, <1>5, <1>7, <1>9, <1>10, <2>1, <2>3, <2>4, <2>5, PopInv
  <1>11. CASE frame.sel # NULL
    <2>1. PICK r \in DOMAIN sel : r = frame.sel
      BY <1>1, <1>6, <1>7, <1>11 DEF Typed
    <2>2. p # 1 /\ frame.phase = "children"
      BY <1>6, <1>7, <1>9, <1>11 DEF Placed, Waits
    <2>3. /\ sel[r] \in SelectedEbuild /\ Closed(DOMAIN sel, sel[r])
          /\ sel[r].generators \in Seq(Nat) /\ sel[r].resolved \in Seq(Nat)
      BY <1>1, SelFields DEF Typed
    <2>4. /\ frame.child \in Nat /\ frame.child \in 1 .. Len(sel[r].generators)
          /\ sel[r].generators[frame.child] \in session
      BY <1>6, <1>7, <1>9, <2>1, <2>2, <2>3 DEF Waits, Call
    <2>5. PICK g \in DOMAIN sel : g = sel[r].generators[frame.child]
      BY <2>3, <2>4 DEF Closed, Range
    <2>6. PICK c \in Call : c = [frame EXCEPT !.child = @ + 1]
      <3>1. frame.child + 1 \in Nat \ {0}
        BY <2>4
      <3>2. [frame EXCEPT !.child = frame.child + 1] \in Call
        BY <1>7, <3>1 DEF Call
      <3> QED
        BY <3>2
    <2>7. /\ c.sel = r /\ c.sel = frame.sel /\ c.phase = frame.phase /\ c.child = frame.child + 1
          /\ c.target = frame.target /\ c.deps = frame.deps /\ Shaped(c)
      BY <1>7, <1>9, <2>1, <2>2, <2>6 DEF Call, Shaped
    <2>8. PICK x \in SelectedEbuild : x = [sel[r] EXCEPT !.resolved = Append(@, g)]
      <3>1. Append(sel[r].resolved, g) \in Seq(Nat)
        BY <1>1, <2>3 DEF Typed
      <3> QED
        BY <2>3, <3>1, SelFields
    <2>9. /\ sel' = [sel EXCEPT ![r] = x] /\ UNCHANGED <<outcome, failed>>
          /\ stack' = [SubSeq(stack, 1, p) EXCEPT ![p] = c]
      <3>1. /\ UNCHANGED <<outcome, failed>>
            /\ sel' = [sel EXCEPT ![r].resolved = Append(@, g)]
            /\ stack' = [frames EXCEPT ![p].child = @ + 1]
        BY <1>8, <1>11, <2>1, <2>5 DEF AppendResolved
      <3>2. stack' = [frames EXCEPT ![p] = c]
        BY <1>6, <1>8, <2>6, <3>1
      <3> QED
        BY <1>1, <2>8, <3>1, <3>2 DEF frames, Typed
    <2>10. /\ x.ebuild = sel[r].ebuild /\ x.generators = sel[r].generators /\ x.dirty = sel[r].dirty
           /\ x.resolved = Append(sel[r].resolved, g)
      BY <2>3, <2>8 DEF SelectedEbuild
    <2>11. Range(x.resolved) = Range(sel[r].resolved) \cup {g}
      <3>1. g \in Nat
        BY <1>1 DEF Typed
      <3>2. Range(Append(sel[r].resolved, g)) = Range(sel[r].resolved) \cup {g}
        BY <2>3, <3>1, AppendRange
      <3> QED
        BY <2>10, <3>2
    <2>12. Closed(DOMAIN sel, x)
      BY <2>3, <2>10, <2>11 DEF Closed
    <2>13. /\ Kept({r}) /\ Unchanging({}) /\ DOMAIN sel' = DOMAIN sel /\ sel'[r] = x
           /\ \A u \in DOMAIN sel : u # r => sel'[u] = sel[u]
      BY <1>1, <2>9, <2>10, <2>12, SelChanged DEF Typed
    <2>14. \A u \in DOMAIN sel : sel'[u].generators = sel[u].generators
      BY <2>10, <2>13
    <2>15. c.child <= Len(sel[r].generators) + 1
      BY <2>3, <2>4, <2>7
    <2>16. ASSUME ~failed
           PROVE  /\ sel'[r].resolved = SubSeq(sel[r].generators, 1, c.child - 1)
                  /\ Range(sel'[r].resolved) \subseteq session
      <3>1. /\ sel[r].resolved = SubSeq(sel[r].generators, 1, frame.child - 1)
            /\ Range(sel[r].resolved) \subseteq session
        BY <1>1, <1>6, <1>7, <2>1, <2>2, <2>16 DEF Progress
      <3>2. x.resolved = SubSeq(sel[r].generators, 1, frame.child)
        BY <2>3, <2>4, <2>5, <2>10, <3>1, SubSeqNext
      <3>3. frame.child = c.child - 1
        BY <2>4, <2>7
      <3>4. Range(x.resolved) \subseteq session
        BY <2>4, <2>5, <2>11, <3>1
      <3> QED
        BY <2>13, <3>2, <3>3, <3>4
    <2> QED
      BY <1>1, <1>4, <1>5, <1>7, <2>7, <2>9, <2>13, <2>14, <2>15, <2>16, PopInv
  <1> QED
    BY <1>10, <1>11

-----------------------------------------------------------------------------
(* An atom was answered.                                                   *)

LEMMA InUses ==
    ASSUME ResolverAssumption, Typed, Nested, In("uses")
    PROVE  /\ stack # <<>> /\ Top \in Call /\ Top.phase = "uses" /\ Top = stack[Depth]
           /\ Depth \in DOMAIN stack /\ Shaped(Top) /\ Top.deps # <<>>
           /\ {Top.sel, Top.target} \subseteq DOMAIN sel \cup {NULL}
           /\ Top.sel # NULL => Top.sel \in session
  <1>1. /\ stack # <<>> /\ Top \in Call /\ Top.phase = "uses" /\ Top = stack[Depth]
        /\ Depth \in DOMAIN stack
    BY TopIn DEF In, Typed, Top
  <1> QED
    BY <1>1 DEF Nested, Shaped, Placed, Typed

LEMMA Yielded ==
    ASSUME ResolverAssumption, ResolverInv, Yield
    PROVE  ResolverInv'
  <1>1. /\ Typed /\ Nested /\ Progress /\ In("uses") /\ Top.uses = <<>>
        /\ UNCHANGED <<repo, metadata, packages>>
    BY DEF ResolverInv, Yield
  <1>2. /\ stack # <<>> /\ Top \in Call /\ Top.phase = "uses" /\ Top = stack[Depth]
        /\ Depth \in DOMAIN stack /\ Shaped(Top) /\ Top.deps # <<>>
        /\ {Top.sel, Top.target} \subseteq DOMAIN sel \cup {NULL}
    BY <1>1, InUses
  <1>3. PICK c \in Call : c = Advanced(Top)
    BY <1>1, <1>2, AdvancedCall
  <1>4. /\ c.sel = Top.sel /\ c.phase = "generate" /\ c.target = NULL /\ Shaped(c)
        /\ c.deps = Tail(Top.deps) /\ Range(Top.deps) = {Head(Top.deps)} \cup Range(c.deps)
    BY <1>1, <1>2, <1>3, AdvancedCall, AdvancedShaped
  <1>5. PICK s : s = Top.target
    OBVIOUS
  <1>6. ASSUME AllAnswered
        PROVE  /\ \A expr \in Range(c.deps) : IsAtom(expr) => expr.atom \in Asked
               /\ IsAtom(Head(Top.deps)) /\ s # NULL
               /\ sel[s].ebuild \in Head(Top.deps).atom.admits
               /\ Top.sel # NULL => \A expr \in Wanted(Top.sel) :
                                      expr \in Range(Top.deps) \/ Answers(Top.sel, expr.atom)
    BY <1>2, <1>4, <1>5, <1>6 DEF AllAnswered, CallAnswers
  <1>7. CASE Top.sel = NULL /\ s # NULL /\ s \notin session
    <2>1. Enter(s, [stack EXCEPT ![Depth] = c]) /\ UNCHANGED sel
      BY <1>3, <1>5, <1>7 DEF Yield
    <2>2. AllAnswered => CallAnswers(c)
      BY <1>4, <1>6, <1>7 DEF CallAnswers
    <2>3. s \in DOMAIN sel /\ c.phase = IF c.sel = NULL THEN "generate" ELSE "children"
      BY <1>2, <1>4, <1>5, <1>7
    <2> QED
      BY <1>1, <1>2, <1>4, <1>7, <2>1, <2>2, <2>3, PushInv
  <1>8. CASE ~(Top.sel = NULL /\ s # NULL /\ s \notin session)
    <2>1. /\ Goto(c) /\ UNCHANGED session
          /\ sel' = IF Top.sel # NULL /\ s # NULL
                     THEN [sel EXCEPT ![Top.sel].generators = Append(@, s)] ELSE sel
      BY <1>3, <1>5, <1>8 DEF Yield
    <2>2. CASE Top.sel # NULL /\ s # NULL
      <3>1. PICK r \in DOMAIN sel : r = Top.sel
        BY <1>2, <2>2
      <3>2. /\ s \in DOMAIN sel /\ sel[r] \in SelectedEbuild /\ Closed(DOMAIN sel, sel[r])
            /\ sel[r].generators \in Seq(Nat) /\ s \in Nat /\ r # NULL
        BY <1>1, <1>2, <1>5, <2>2, <3>1, SelFields DEF Typed
      <3>3. PICK x \in SelectedEbuild : x = [sel[r] EXCEPT !.generators = Append(@, s)]
        <4>1. Append(sel[r].generators, s) \in Seq(Nat)
          BY <3>2
        <4> QED
          BY <3>2, <4>1, SelFields
      <3>4. sel' = [sel EXCEPT ![r] = x]
        BY <1>1, <2>1, <2>2, <3>1, <3>3 DEF Typed
      <3>5. /\ x.ebuild = sel[r].ebuild /\ x.resolved = sel[r].resolved /\ x.dirty = sel[r].dirty
            /\ x.generators = Append(sel[r].generators, s)
        BY <3>2, <3>3 DEF SelectedEbuild
      <3>6. Range(x.generators) = Range(sel[r].generators) \cup {s}
        <4>1. Range(Append(sel[r].generators, s)) = Range(sel[r].generators) \cup {s}
          BY <3>2, AppendRange
        <4> QED
          BY <3>5, <4>1
      <3>7. Closed(DOMAIN sel, x)
        BY <3>2, <3>5, <3>6 DEF Closed
      <3>8. /\ Kept({r}) /\ Unchanging({r}) /\ Unchanging({}) /\ DOMAIN sel' = DOMAIN sel
            /\ sel'[r] = x /\ \A u \in DOMAIN sel : u # r => sel'[u] = sel[u]
        BY <1>1, <3>4, <3>5, <3>7, SelChanged DEF Typed
      <3>9. ASSUME AllAnswered
            PROVE  CallAnswers(c)' /\ (~sel'[r].dirty => Answered(r)')
        <4>1. \A u \in DOMAIN sel : sel'[u].ebuild = sel[u].ebuild
          BY <3>5, <3>8
        <4>2. Wanted(r)' = Wanted(r)
          BY <1>1, <4>1 DEF Wanted
        <4>3. ASSUME NEW atom, Answers(r, atom) \/ sel[s].ebuild \in atom.admits
              PROVE  Answers(r, atom)'
          <5>1. Range(sel'[r].generators) = Range(sel[r].generators) \cup {s}
            BY <3>6, <3>8
          <5>2. Range(sel[r].generators) \subseteq DOMAIN sel
            BY <3>2 DEF Closed
          <5> QED
            BY <3>2, <4>1, <4>3, <5>1, <5>2 DEF Answers
        <4>4. \A expr \in Wanted(r) : expr \in Range(c.deps) \/ Answers(r, expr.atom)'
          BY <1>4, <1>6, <2>2, <3>1, <3>9, <4>3
        <4>5. CallAnswers(c)'
          <5>1. Asked' = Asked
            BY <1>1, SingleKept
          <5>2. c.sel = r
            BY <1>4, <3>1
          <5> QED
            BY <1>4, <1>6, <3>9, <4>2, <4>4, <5>1, <5>2 DEF CallAnswers
        <4>6. ~sel'[r].dirty => Answered(r)
          BY <3>5, <3>8, <3>9 DEF AllAnswered
        <4>7. Answered(r) => Answered(r)'
          BY <4>2, <4>3 DEF Answered
        <4> QED
          BY <4>5, <4>6, <4>7
      <3> QED
        BY <1>2, <1>4, <2>1, <3>1, <3>8, <3>9, GotoInv
    <2>3. CASE ~(Top.sel # NULL /\ s # NULL)
      <3>1. UNCHANGED sel
        BY <2>1, <2>3
      <3>2. Kept({}) /\ Unchanging({})
        BY <1>1, <3>1, SelSame DEF Typed
      <3>3. Kept({c.sel}) /\ Unchanging({c.sel})
        BY <3>2 DEF Kept, Unchanging
      <3>4. ASSUME AllAnswered
            PROVE  CallAnswers(c)' /\ c.sel = NULL
        <4>1. c.sel = NULL
          BY <1>4, <1>6, <2>3, <3>4
        <4> QED
          BY <1>1, <1>4, <1>6, <3>4, <4>1, SingleKept DEF CallAnswers
      <3> QED
        BY <1>1, <1>2, <1>4, <2>1, <3>1, <3>3, <3>4, GotoInv
    <2> QED
      BY <2>2, <2>3
  <1> QED
    BY <1>7, <1>8

LEMMA Required ==
    ASSUME ResolverAssumption, ResolverInv, In("uses"), Top.uses # <<>>,
           NEW s \in DOMAIN sel, s = Top.target, NEW u \in UseState, NEW name \in Flag,
           NEW value \in BOOLEAN, NEW option \in Option, Require(s, u, name, value, option),
           UNCHANGED <<repo, metadata, packages, session>>
    PROVE  ResolverInv'
  <1>1. Typed /\ Nested
    BY DEF ResolverInv
  <1>2. /\ stack # <<>> /\ Top \in Call /\ Top.phase = "uses" /\ Top = stack[Depth]
        /\ Depth \in DOMAIN stack /\ Shaped(Top) /\ Top.deps # <<>>
        /\ {Top.sel, Top.target} \subseteq DOMAIN sel \cup {NULL}
        /\ sel[s] \in SelectedEbuild
    BY <1>1, InUses DEF Typed
  <1> DEFINE target == Target(value, option)
             hook == [name |-> name, target |-> target, enforcing |-> Enforcing(value, option)]
             flags == IF Schedules(option)
                      THEN Append(sel[s].flags, [name |-> name, state |-> target])
                      ELSE sel[s].flags
             x == [sel[s] EXCEPT !.useflags = u, !.hooks = Append(@, hook), !.flags = flags,
                                 !.dirty = @ \/ Schedules(option)]
  <1>3. target \in BOOLEAN /\ hook \in Hook /\ Schedules(option) \in BOOLEAN
    BY TargetTyped DEF Hook
  <1>4. flags \in Seq(Scheduled) /\ Append(sel[s].hooks, hook) \in Seq(Hook)
    <2>1. sel[s].flags \in Seq(Scheduled) /\ sel[s].hooks \in Seq(Hook)
      BY <1>2, SelFields
    <2>2. [name |-> name, state |-> target] \in Scheduled
      BY <1>3 DEF Scheduled
    <2> QED
      BY <1>3, <2>1, <2>2
  <1>5. sel' = [sel EXCEPT ![s] = x]
    <2>1. sel' = [sel EXCEPT ![s].useflags = u, ![s].hooks = Append(@, hook),
                             ![s].flags = IF Schedules(option)
                                          THEN Append(@, [name |-> name, state |-> target])
                                          ELSE @,
                             ![s].dirty = @ \/ Schedules(option)]
      BY DEF Require
    <2> QED
      BY <1>1, <1>2, <2>1 DEF Typed
  <1>6. /\ x \in SelectedEbuild /\ x.ebuild = sel[s].ebuild /\ x.generators = sel[s].generators
        /\ x.resolved = sel[s].resolved /\ (~x.dirty => ~sel[s].dirty)
    <2> HIDE DEF hook, flags
    <2>1. (sel[s].dirty \/ Schedules(option)) \in BOOLEAN
      BY <1>3
    <2>2. x \in SelectedEbuild
      BY <1>2, <1>4, <2>1 DEF SelectedEbuild
    <2> QED
      BY <1>2, <2>2 DEF SelectedEbuild
  <1> HIDE DEF x, flags, hook, target
  <1>7. Kept({}) /\ Unchanging({}) /\ DOMAIN sel' = DOMAIN sel
    BY <1>1, <1>5, <1>6, Alike
  <1>8. CASE Raise("RequiredUseException")
    BY <1>7, <1>8, RaiseInv
  <1>9. CASE Goto([Top EXCEPT !.uses = Tail(@)])
    <2>1. PICK c \in Call : c = [Top EXCEPT !.uses = Tail(@)]
      <3>1. Top.uses \in Seq(UseRequirement)
        BY <1>2 DEF Call
      <3>2. Tail(Top.uses) \in Seq(UseRequirement)
        BY <3>1, HeadTail
      <3> QED
        BY <1>2, <3>2 DEF Call
    <2>2. /\ c.sel = Top.sel /\ c.phase = "uses" /\ c.target = Top.target /\ c.deps = Top.deps
          /\ Shaped(c)
      BY <1>2, <2>1 DEF Call, Shaped
    <2>3. Kept({c.sel}) /\ Unchanging({c.sel}) /\ c.target \in DOMAIN sel' \cup {NULL}
      BY <1>2, <1>7, <2>2 DEF Kept, Unchanging
    <2>4. ASSUME AllAnswered
          PROVE  CallAnswers(c)' /\ (c.sel # NULL /\ ~sel'[c.sel].dirty => Answered(c.sel)')
      <3>1. \A r \in DOMAIN sel : /\ Wanted(r)' = Wanted(r) /\ (Answered(r)' <=> Answered(r))
                                 /\ \A atom : Answers(r, atom)' <=> Answers(r, atom)
        BY <1>1, <1>7, AnswersKept
      <3>2. CallAnswers(Top)
        BY <1>2, <2>4 DEF AllAnswered, CallAnswers
      <3>3. /\ \A expr \in Range(c.deps) : IsAtom(expr) => expr.atom \in Asked
            /\ c.deps # <<>> /\ IsAtom(Head(c.deps)) /\ c.target # NULL
            /\ sel[s].ebuild \in Head(c.deps).atom.admits
        BY <1>2, <2>2, <3>2 DEF CallAnswers
      <3>4. sel'[c.target].ebuild \in Head(c.deps).atom.admits
        BY <1>7, <2>2, <3>3 DEF Unchanging
      <3>5. CASE c.sel = NULL
        BY <1>7, <2>2, <3>3, <3>4, <3>5, SingleKept DEF CallAnswers, Kept
      <3>6. CASE c.sel # NULL
        <4>1. PICK r \in DOMAIN sel : r = c.sel
          BY <1>2, <2>2, <3>6
        <4>2. \A expr \in Wanted(r)' : expr \in Range(c.deps) \/ Answers(r, expr.atom)'
          BY <1>2, <2>2, <3>1, <3>2, <3>6, <4>1 DEF CallAnswers
        <4>3. CallAnswers(c)'
          BY <1>7, <2>2, <3>3, <3>4, <4>1, <4>2, SingleKept DEF CallAnswers, Kept
        <4>4. ~sel'[r].dirty => Answered(r)'
          BY <1>7, <2>4, <3>1 DEF AllAnswered, Unchanging
        <4> QED
          BY <4>1, <4>3, <4>4
      <3> QED
        BY <3>5, <3>6
    <2> QED
      BY <1>2, <1>9, <2>1, <2>2, <2>3, <2>4, GotoInv
  <1> QED
    BY <1>8, <1>9 DEF Require

LEMMA UseDepended ==
    ASSUME ResolverAssumption, RepositoryAssumption, ResolverInv, UseDependency
    PROVE  ResolverInv'
  <1>1. /\ Typed /\ Nested /\ In("uses") /\ Top.uses # <<>>
        /\ UNCHANGED <<repo, metadata, packages, session>>
    BY DEF ResolverInv, UseDependency
  <1>2. PICK s : s = Top.target
    OBVIOUS
  <1>3. s \in DOMAIN sel \cup {NULL} /\ Top \in Call
    BY <1>1, <1>2, InUses
  <1>4. PICK use \in UseRequirement : use = Head(Top.uses)
    <2>1. Top.uses \in Seq(UseRequirement)
      BY <1>3 DEF Call
    <2> QED
      BY <1>1, <2>1, HeadTail
  <1>5. CASE UNCHANGED sel /\ (Raise("AttributeError") \/ Raise("KeyError"))
    <2>1. Kept({}) /\ Unchanging({})
      BY <1>1, <1>5, SelSame DEF Typed
    <2> QED
      BY <1>1, <1>5, <2>1, RaiseInv
  <1>6. CASE s # NULL /\ HasUse(s, use.name)
    <2>1. Require(s, sel[s].useflags, use.name, GetUse(s, use.name), use.option)
      BY <1>2, <1>4, <1>6 DEF UseDependency
    <2>2. /\ s \in DOMAIN sel /\ sel[s].useflags \in UseState /\ use.name \in Flag
          /\ use.option \in Option /\ GetUse(s, use.name) \in BOOLEAN
      <3>1. s \in DOMAIN sel
        BY <1>3, <1>6
      <3> QED
        BY <1>1, <1>4, <1>6, <3>1, SelFields, GetUseTyped DEF Typed, UseRequirement
    <2> QED
      BY <1>1, <1>2, <2>1, <2>2, Required
  <1>7. CASE s # NULL /\ ~HasUse(s, use.name) /\ use.default # NULL
    <2> DEFINE option == IF use.default THEN "ENABLE" ELSE "DISABLE"
               u == With(sel[s].useflags, use.name, use.default)
    <2>1. Require(s, u, use.name, use.default, option)
      BY <1>2, <1>4, <1>7 DEF UseDependency
    <2>2. s \in DOMAIN sel /\ use.name \in Flag /\ use.default \in BOOLEAN
      BY <1>3, <1>4, <1>7 DEF UseRequirement
    <2>3. u \in UseState /\ option \in Option
      BY <1>1, <2>2, SelFields, WithState DEF Typed, Option
    <2> HIDE DEF option, u
    <2> QED
      BY <1>1, <1>2, <2>1, <2>2, <2>3, Required
  <1> QED
    BY <1>2, <1>4, <1>5, <1>6, <1>7 DEF UseDependency

-----------------------------------------------------------------------------
(* select_atom.                                                            *)

LEMMA Least ==
    ASSUME NEW S, S \subseteq Nat, S # {}
    PROVE  \E x \in S : \A y \in S : x <= y
  <1> DEFINE R == {pair \in Nat \X Nat : pair[1] < pair[2]}
  <1>1. IsWellFoundedOn(R, Nat)
    BY NatLessThanWellFounded DEF OpToRel
  <1>2. PICK x \in S : \A y \in S : ~ (<<y, x>> \in R)
    <2> HIDE DEF R
    <2> QED
      BY <1>1, WFMin
  <1>3. ASSUME NEW y \in S PROVE x <= y
    <2>1. x \in Nat /\ y \in Nat /\ <<y, x>> \in Nat \X Nat
      OBVIOUS
    <2>2. ~(y < x)
      BY <1>2, <2>1
    <2> QED
      BY <2>1, <2>2
  <1> QED
    BY <1>3

\* The index the code stops at is one of those that fit.
LEMMA FirstFit ==
    ASSUME NEW q, DOMAIN q \subseteq Nat, NEW fit, fit \subseteq DOMAIN q, fit # {}
    PROVE  (CHOOSE i \in fit : \A j \in fit : i <= j) \in fit
  <1>1. \E i \in fit : \A j \in fit : i <= j
    BY Least
  <1> QED
    BY <1>1

LEMMA MatchFits ==
    ASSUME ListingAssumption, NEW atom, atom.key \in Key, MatchAtom(atom) # NULL
    PROVE  /\ MatchAtom(atom) \in Ebuild /\ MatchAtom(atom) \in Range(Listing[atom.key])
           /\ MatchAtom(atom) \in atom.admits
  <1> DEFINE list == Listing[atom.key]
             fit == {i \in DOMAIN list : list[i] \in atom.admits /\ (atom.exact => i = 1)}
             first == CHOOSE i \in fit : \A j \in fit : i <= j
  <1>1. list \in Seq(Ebuild) /\ DOMAIN list \subseteq Nat
    BY DEF ListingAssumption
  <1>2. fit # {}
    BY DEF MatchAtom
  <1>3. MatchAtom(atom) = list[first]
    BY <1>2 DEF MatchAtom
  <1>4. first \in fit
    <2>1. fit \subseteq DOMAIN list
      OBVIOUS
    <2> HIDE DEF fit, list
    <2> QED
      BY <1>1, <1>2, <2>1, FirstFit
  <1>5. first \in DOMAIN list /\ list[first] \in atom.admits
    BY <1>4
  <1> HIDE DEF first, fit, list
  <1>6. list[first] \in Ebuild /\ list[first] \in Range(list)
    BY <1>1, <1>5 DEF Range
  <1> QED
    BY <1>3, <1>5, <1>6 DEF list

\* An ebuild was selected for the atom.
LEMMA UsesInv ==
    ASSUME ResolverAssumption, ExprAssumption, ResolverInv, In("generate"), Top.deps # <<>>,
           IsAtom(Head(Top.deps)), NEW atom, atom = Head(Top.deps).atom,
           NEW t \in DOMAIN sel' \cup {NULL},
           Goto([Top EXCEPT !.phase = "uses", !.target = t, !.uses = atom.uses]),
           UNCHANGED session, Kept({}),
           Single /\ AllAnswered => /\ Unchanging({}) /\ t # NULL
                                   /\ sel'[t].ebuild \in atom.admits
    PROVE  ResolverInv'
  <1>1. /\ Typed /\ Nested /\ repo' = repo
    BY DEF ResolverInv, Kept
  <1>2. /\ stack # <<>> /\ Top \in Call /\ Top.phase = "generate" /\ Top = stack[Depth]
        /\ Depth \in DOMAIN stack /\ Top.sel \in DOMAIN sel \cup {NULL} /\ Shaped(Top)
    BY <1>1, TopIn DEF In, Typed, Top, Nested
  <1>3. Head(Top.deps) \in Expr
    BY <1>2, HeadTail DEF Call
  <1>4. atom.uses \in Seq(UseRequirement)
    BY <1>3 DEF ExprAssumption
  <1>5. PICK c \in Call : c = [Top EXCEPT !.phase = "uses", !.target = t, !.uses = atom.uses]
    <2>1. t \in Nat \cup {NULL} /\ "uses" \in Phase
      BY DEF Kept, Phase
    <2> QED
      BY <1>2, <1>4, <2>1 DEF Call
  <1>6. /\ c.sel = Top.sel /\ c.phase = "uses" /\ c.target = t /\ c.deps = Top.deps /\ Shaped(c)
        /\ Goto(c)
    BY <1>2, <1>5 DEF Call, Shaped
  <1>7. Kept({c.sel})
    BY DEF Kept
  <1>8. ASSUME Single, AllAnswered
        PROVE  /\ Unchanging({c.sel}) /\ CallAnswers(c)'
               /\ c.sel # NULL /\ ~sel'[c.sel].dirty => Answered(c.sel)'
    <2>1. Unchanging({}) /\ t # NULL /\ sel'[t].ebuild \in atom.admits
      BY <1>8
    <2>2. Unchanging({c.sel})
      BY <2>1 DEF Unchanging
    <2>3. \A r \in DOMAIN sel : /\ Wanted(r)' = Wanted(r) /\ (Answered(r)' <=> Answered(r))
                               /\ \A a : Answers(r, a)' <=> Answers(r, a)
      BY <1>1, <2>1, AnswersKept
    <2>4. CallAnswers(Top)
      BY <1>2, <1>8 DEF AllAnswered, CallAnswers
    <2>5. Asked' = Asked
      BY <1>1, SingleKept
    <2>6. CASE c.sel = NULL
      BY <1>6, <2>1, <2>2, <2>4, <2>5, <2>6 DEF CallAnswers
    <2>7. CASE c.sel # NULL
      <3>1. PICK r \in DOMAIN sel : r = c.sel
        BY <1>2, <1>6, <2>7
      <3>2. \A expr \in Wanted(r)' : expr \in Range(c.deps) \/ Answers(r, expr.atom)'
        BY <1>2, <1>6, <2>3, <2>4, <2>7, <3>1 DEF CallAnswers
      <3>3. CallAnswers(c)'
        BY <1>6, <2>1, <2>4, <2>5, <3>1, <3>2 DEF CallAnswers
      <3>4. ~sel'[r].dirty => Answered(r)'
        BY <1>8, <2>1, <2>3 DEF AllAnswered, Unchanging
      <3> QED
        BY <2>2, <3>1, <3>3, <3>4
    <2> QED
      BY <2>6, <2>7
  <1> QED
    BY <1>2, <1>6, <1>7, <1>8, GotoInv

LEMMA Added ==
    ASSUME ResolverAssumption, ListingAssumption, ExprAssumption, ResolverInv, In("generate"),
           Top.deps # <<>>, IsAtom(Head(Top.deps)), NEW atom, atom = Head(Top.deps).atom,
           NEW e \in Ebuild, e \in atom.admits, e \in Range(Listing[atom.key]),
           NEW pkgs \in Seq(DOMAIN sel), AddAtom(atom, e, pkgs),
           Single /\ AllAnswered =>
              /\ OneEbuild(atom.key)
              /\ \A i \in DOMAIN pkgs : sel[pkgs[i]].ebuild \in Range(Listing[atom.key]),
           UNCHANGED <<repo, metadata, session>>
    PROVE  ResolverInv'
  <1>1. Typed /\ Nested
    BY DEF ResolverInv
  <1>2. Top \in Call /\ sel \in Seq(SelectedEbuild)
    BY <1>1, TopIn DEF In, Typed
  <1>3. Head(Top.deps) \in Expr
    BY <1>2, HeadTail DEF Call
  <1>4. atom.key \in Key /\ atom \in {x.atom : x \in Expr}
    BY <1>3 DEF ExprAssumption
  <1> DEFINE s == Len(sel) + 1
             new == [ebuild |-> e, slot |-> SlotNow(e), selected_by |-> {atom},
                     useflags |-> <<>>, hooks |-> <<>>, hooked |-> <<>>, flags |-> <<>>,
                     generators |-> <<>>, resolved |-> <<>>, dirty |-> TRUE]
  <1>5. new \in SelectedEbuild
    <2>1. <<>> \in UseState
      <3>1. <<>> \in [{} -> BOOLEAN]
        OBVIOUS
      <3> QED
        BY <3>1 DEF UseState
    <2>2. SlotNow(e) \in Slot \cup {NULL}
      BY DEF SlotNow, ListingAssumption
    <2>3. /\ <<>> \in Seq(Hook) /\ <<>> \in Seq(Ebuild) /\ <<>> \in Seq(Scheduled)
          /\ <<>> \in Seq(Nat)
      OBVIOUS
    <2> QED
      BY <1>4, <2>1, <2>2, <2>3 DEF SelectedEbuild
  <1>6. /\ new.ebuild = e /\ new.dirty /\ new.generators = <<>> /\ new.resolved = <<>>
    OBVIOUS
  <1>7. /\ sel' = Append(sel, new) /\ packages' = With(packages, atom.key, Append(pkgs, s))
        /\ Goto([Top EXCEPT !.phase = "uses", !.target = s, !.uses = atom.uses])
    BY DEF AddAtom
  <1> HIDE DEF new, s
  <1>8. /\ sel' \in Seq(SelectedEbuild) /\ DOMAIN sel' = DOMAIN sel \cup {s} /\ s \notin DOMAIN sel
        /\ sel'[s] = new /\ \A r \in DOMAIN sel : sel'[r] = sel[r]
        /\ s \in Nat /\ s # NULL
    <2>1. /\ sel' \in Seq(SelectedEbuild) /\ Len(sel') = Len(sel) + 1
          /\ sel'[Len(sel) + 1] = new /\ \A r \in 1 .. Len(sel) : sel'[r] = sel[r]
      BY <1>2, <1>5, <1>7
    <2>2. DOMAIN sel = 1 .. Len(sel) /\ DOMAIN sel' = 1 .. Len(sel) + 1 /\ Len(sel) \in Nat
      BY <1>2, <2>1
    <2> QED
      BY <2>1, <2>2 DEF s, ResolverAssumption
  <1>9. Append(pkgs, s) \in Seq(DOMAIN sel') /\ Range(Append(pkgs, s)) = Range(pkgs) \cup {s}
    <2>1. pkgs \in Seq(DOMAIN sel')
      <3>1. DOMAIN sel \subseteq DOMAIN sel'
        BY <1>8
      <3> QED
        BY <3>1
    <2> QED
      BY <1>8, <2>1, AppendRange
  <1>10. /\ DOMAIN packages' = DOMAIN packages \cup {atom.key}
         /\ packages'[atom.key] = Append(pkgs, s)
         /\ \A k \in DOMAIN packages : k # atom.key => packages'[k] = packages[k]
    BY <1>7 DEF With
  <1>11. Kept({})
    <2>1. ASSUME NEW r \in DOMAIN sel' PROVE Closed(DOMAIN sel', sel'[r])
      <3>1. CASE r = s
        <4>1. Range(<<>>) = {}
          BY DEF Range
        <4> QED
          BY <1>6, <1>8, <3>1, <4>1 DEF Closed
      <3>2. CASE r # s
        BY <1>1, <1>8, <3>2 DEF Closed, Typed
      <3> QED
        BY <3>1, <3>2
    <2>2. ASSUME NEW k \in DOMAIN packages' PROVE k \in Key /\ packages'[k] \in Seq(DOMAIN sel')
      <3>1. CASE k = atom.key
        BY <1>4, <1>9, <1>10, <3>1
      <3>2. CASE k # atom.key
        <4>1. k \in Key /\ packages'[k] \in Seq(DOMAIN sel) /\ DOMAIN sel \subseteq DOMAIN sel'
          BY <1>1, <1>8, <1>10, <3>2 DEF Typed
        <4> QED
          BY <4>1
      <3> QED
        BY <3>1, <3>2
    <2> QED
      BY <1>1, <1>8, <2>1, <2>2 DEF Kept, Typed
  <1>12. ASSUME Single, AllAnswered
         PROVE  Unchanging({}) /\ sel'[s].ebuild \in atom.admits
    <2>1. ASSUME NEW k \in DOMAIN packages'
          PROVE  /\ OneEbuild(k) /\ packages'[k] # <<>>
                 /\ \A g \in Range(packages'[k]) : sel'[g].ebuild \in Range(Listing[k])
      <3>1. CASE k = atom.key
        <4>1. ASSUME NEW g \in Range(packages'[k])
              PROVE  sel'[g].ebuild \in Range(Listing[k])
          <5>1. CASE g = s
            BY <1>6, <1>8, <3>1, <5>1
          <5>2. CASE g # s
            <6>0. g \in Range(pkgs)
              BY <1>9, <1>10, <3>1, <4>1, <5>2
            <6>1. PICK i \in DOMAIN pkgs : g = pkgs[i]
              BY <6>0 DEF Range
            <6>2. g \in DOMAIN sel
              BY <6>1
            <6> QED
              BY <1>8, <1>12, <3>1, <6>1, <6>2
          <5> QED
            BY <5>1, <5>2
        <4>2. packages'[k] # <<>>
          BY <1>9, <1>10, <3>1 DEF Range
        <4> QED
          BY <1>12, <3>1, <4>1, <4>2
      <3>2. CASE k # atom.key
        <4>1. k \in DOMAIN packages /\ packages'[k] = packages[k]
          BY <1>10, <3>2
        <4>2. OneEbuild(k) /\ packages[k] # <<>>
          BY <1>12, <4>1 DEF AllAnswered, PackagesListed
        <4>3. ASSUME NEW g \in Range(packages[k])
              PROVE  sel'[g].ebuild \in Range(Listing[k])
          <5>1. PICK i \in DOMAIN packages[k] : g = packages[k][i]
            BY DEF Range
          <5>2. g \in DOMAIN sel
            BY <1>1, <4>1, <5>1 DEF Typed
          <5> QED
            BY <1>8, <1>12, <4>1, <5>1, <5>2 DEF AllAnswered, PackagesListed
        <4> QED
          BY <4>1, <4>2, <4>3
      <3> QED
        BY <3>1, <3>2
    <2>2. PackagesListed'
      BY <2>1 DEF PackagesListed, OneEbuild, Range
    <2> QED
      BY <1>6, <1>8, <2>2 DEF Unchanging
  <1>13. s \in DOMAIN sel' \cup {NULL}
    BY <1>8
  <1> QED
    BY <1>7, <1>8, <1>11, <1>12, <1>13, UsesInv

LEMMA ChangedWithinSlot ==
    ASSUME ResolverAssumption, ListingAssumption, ExprAssumption, ResolverInv, In("generate"),
           Top.deps # <<>>, IsAtom(Head(Top.deps)), NEW atom, atom = Head(Top.deps).atom,
           NEW s \in DOMAIN sel, ChangeWithinSlot(atom, s), ~(Single /\ AllAnswered),
           UNCHANGED <<repo, metadata, blocks, session>>
    PROVE  ResolverInv'
  <1>1. Typed /\ Nested /\ sel[s] \in SelectedEbuild /\ sel \in Seq(SelectedEbuild)
    BY DEF ResolverInv, Typed
  <1>2. /\ stack # <<>> /\ Top \in Call /\ Top.phase = "generate" /\ Top = stack[Depth]
        /\ Depth \in DOMAIN stack /\ Shaped(Top) /\ Top.target \in DOMAIN sel \cup {NULL}
    BY <1>1, TopIn DEF In, Typed, Top, Nested
  <1>3. atom.key \in Key
    <2>1. Head(Top.deps) \in Expr
      BY <1>2, HeadTail DEF Call
    <2> QED
      BY <2>1 DEF ExprAssumption
  <1> DEFINE list == Listing[atom.key]
  <1>4. list \in Seq(Ebuild)
    BY <1>3 DEF ListingAssumption
  <1>5. UNCHANGED state => Kept({}) /\ Unchanging({})
    BY <1>1, SelSame DEF state, Typed
  <1>6. CASE Len(list) < 2
    <2>1. Raise("NotImplementedError") /\ UNCHANGED state
      BY <1>6 DEF ChangeWithinSlot
    <2> QED
      BY <1>5, <2>1, RaiseInv
  <1>7. CASE ~(Len(list) < 2) /\ \A prev \in sel[s].selected_by : list[2] \in prev.admits
    <2>1. /\ sel' = [sel EXCEPT ![s].ebuild = list[2], ![s].dirty = TRUE] /\ UNCHANGED packages
          /\ Goto([Top EXCEPT !.phase = "uses", !.target = s, !.uses = atom.uses])
      BY <1>7 DEF ChangeWithinSlot, Reuse
    <2>2. list[2] \in Ebuild
      BY <1>4, <1>7
    <2>3. PICK x \in SelectedEbuild :
             /\ sel' = [sel EXCEPT ![s] = x]
             /\ x.generators = sel[s].generators /\ x.resolved = sel[s].resolved
      <3> HIDE DEF list
      <3>1. [sel[s] EXCEPT !.ebuild = list[2], !.dirty = TRUE] \in SelectedEbuild
        BY <1>1, <2>2 DEF SelectedEbuild
      <3> QED
        BY <1>1, <2>1, <3>1 DEF SelectedEbuild
    <2>4. Closed(DOMAIN sel, x)
      BY <1>1, <2>3 DEF Closed, Typed
    <2>5. Kept({}) /\ DOMAIN sel' = DOMAIN sel
      BY <1>1, <2>1, <2>3, <2>4, SelChanged DEF Typed
    <2>6. s \in DOMAIN sel' \cup {NULL}
      BY <2>5
    <2> QED
      BY <2>1, <2>5, <2>6, UsesInv
  <1>8. CASE ~(Len(list) < 2) /\ ~(\A prev \in sel[s].selected_by : list[2] \in prev.admits)
    <2>1. Goto([Top EXCEPT !.phase = "spin"]) /\ UNCHANGED state
      BY <1>8 DEF ChangeWithinSlot
    <2>2. PICK c \in Call : c = [Top EXCEPT !.phase = "spin"]
      BY <1>2 DEF Call, Phase
    <2>3. /\ c.sel = Top.sel /\ c.phase = "spin" /\ c.target = Top.target /\ Shaped(c) /\ Goto(c)
      BY <1>2, <2>1, <2>2 DEF Call, Shaped
    <2>4. Kept({c.sel}) /\ c.target \in DOMAIN sel' \cup {NULL}
      BY <1>2, <1>5, <2>1, <2>3 DEF Kept
    <2> QED
      BY <1>2, <2>3, <2>4, GotoInv
  <1> QED
    BY <1>6, <1>7, <1>8

LEMMA Installed ==
    ASSUME ResolverAssumption, ListingAssumption, ExprAssumption, ResolverInv, In("generate"),
           Top.deps # <<>>, IsAtom(Head(Top.deps)), NEW atom, atom = Head(Top.deps).atom,
           ~atom.blocks, atom.key \in DOMAIN packages,
           NEW e \in Ebuild, e \in atom.admits, e \in Range(Listing[atom.key]),
           MatchInstalled(atom, e), UNCHANGED <<repo, metadata, blocks, session>>
    PROVE  ResolverInv'
  <1>1. Typed /\ Nested
    BY DEF ResolverInv
  <1>2. Top \in Call /\ Top = stack[Depth] /\ Depth \in DOMAIN stack
    BY <1>1, TopIn DEF In, Typed, Top
  <1> DEFINE pkgs == packages[atom.key]
             fit == {i \in DOMAIN pkgs : sel[pkgs[i]].ebuild \in atom.admits}
             same == {i \in DOMAIN pkgs : sel[pkgs[i]].slot = SlotNow(e)}
  <1>3. pkgs \in Seq(DOMAIN sel) /\ DOMAIN pkgs \subseteq Nat /\ \A i \in DOMAIN pkgs : pkgs[i] \in DOMAIN sel
    BY <1>1 DEF Typed
  <1>4. ASSUME Single, AllAnswered
        PROVE  fit # {}
    <2>1. CallAnswers(Top)
      BY <1>2, <1>4 DEF AllAnswered, CallAnswers
    <2>2. Head(Top.deps) \in Range(Top.deps)
      BY <1>2, HeadTail DEF Call
    <2>3. atom \in Asked
      BY <2>1, <2>2 DEF CallAnswers
    <2>4. Len(Listing[atom.key]) < 2
      BY <1>4, <2>3 DEF Single
    <2>5. atom.key \in Key /\ Listing[atom.key] \in Seq(Ebuild)
      BY <1>1 DEF Typed, ListingAssumption
    <2>6. \A g \in Range(Listing[atom.key]) : g = e
      BY <2>4, <2>5 DEF Range
    <2>7. 1 \in DOMAIN pkgs
      BY <1>3, <1>4 DEF AllAnswered, PackagesListed
    <2>8. sel[pkgs[1]].ebuild = e
      BY <1>4, <2>6, <2>7 DEF AllAnswered, PackagesListed
    <2> QED
      BY <2>7, <2>8
  <1>5. CASE fit # {}
    <2> DEFINE first == CHOOSE i \in fit : \A j \in fit : i <= j
    <2>1. first \in fit
      <3>1. fit \subseteq DOMAIN pkgs
        OBVIOUS
      <3> HIDE DEF fit, pkgs
      <3> QED
        BY <1>3, <1>5, <3>1, FirstFit
    <2>2. Reuse(atom, pkgs[first]) /\ UNCHANGED sel
      BY <1>5 DEF MatchInstalled
    <2>3. pkgs[first] \in DOMAIN sel /\ sel[pkgs[first]].ebuild \in atom.admits
      BY <1>3, <2>1
    <2> HIDE DEF first, fit, same, pkgs
    <2>4. UNCHANGED <<sel, packages>>
      BY <2>2 DEF Reuse
    <2>5. Kept({}) /\ Unchanging({})
      BY <1>1, <2>4, SelSame DEF Typed
    <2>6. PICK t \in DOMAIN sel : t = pkgs[first]
      BY <2>3
    <2>7. /\ Goto([Top EXCEPT !.phase = "uses", !.target = t, !.uses = atom.uses])
          /\ t \in DOMAIN sel' \cup {NULL} /\ sel'[t].ebuild \in atom.admits /\ t # NULL
      <3>1. t \in Nat
        BY <1>1 DEF Typed
      <3> QED
        BY <2>2, <2>3, <2>4, <2>6, <3>1 DEF Reuse, ResolverAssumption
    <2> QED
      BY <2>5, <2>7, UsesInv
  <1>6. CASE fit = {} /\ SlotNow(e) = NULL
    <2>1. /\ Goto([Top EXCEPT !.phase = "uses", !.target = NULL, !.uses = atom.uses])
          /\ UNCHANGED state
      BY <1>6 DEF MatchInstalled
    <2>2. Kept({}) /\ NULL \in DOMAIN sel' \cup {NULL}
      BY <1>1, <2>1, SelSame DEF Typed, state
    <2> QED
      BY <1>4, <1>6, <2>1, <2>2, UsesInv
  <1>7. CASE fit = {} /\ SlotNow(e) # NULL /\ same # {}
    <2> DEFINE any == CHOOSE i \in same : TRUE
    <2>1. ChangeWithinSlot(atom, pkgs[any])
      BY <1>7 DEF MatchInstalled
    <2>2. any \in same
      BY <1>7
    <2>3. pkgs[any] \in DOMAIN sel
      BY <1>3, <2>2
    <2>4. PICK s \in DOMAIN sel : s = pkgs[any]
      BY <2>3
    <2> HIDE DEF any, same, pkgs
    <2>5. ChangeWithinSlot(atom, s)
      BY <2>1, <2>4
    <2> QED
      BY <1>4, <1>7, <2>5, ChangedWithinSlot
  <1>8. CASE fit = {} /\ SlotNow(e) # NULL /\ same = {}
    <2>1. AddAtom(atom, e, pkgs)
      BY <1>8 DEF MatchInstalled
    <2> HIDE DEF pkgs
    <2> QED
      BY <1>3, <1>4, <1>8, <2>1, Added
  <1> QED
    BY <1>5, <1>6, <1>7, <1>8

LEMMA AtomSelected ==
    ASSUME ResolverAssumption, ListingAssumption, ExprAssumption, ResolverInv, SelectAtom
    PROVE  ResolverInv'
  <1>1. /\ Typed /\ Nested /\ In("generate") /\ Top.deps # <<>> /\ IsAtom(Head(Top.deps))
        /\ UNCHANGED <<repo, metadata, blocks, session>>
    BY DEF ResolverInv, SelectAtom
  <1>2. Top \in Call /\ Top = stack[Depth] /\ Depth \in DOMAIN stack
    BY <1>1, TopIn DEF In, Typed, Top
  <1>3. PICK atom : atom = Head(Top.deps).atom
    OBVIOUS
  <1>4. PICK e : e = MatchAtom(atom)
    OBVIOUS
  <1>5. Head(Top.deps) \in Expr /\ Head(Top.deps) \in Range(Top.deps)
    BY <1>1, <1>2, HeadTail DEF Call
  <1>6. atom.key \in Key /\ ~atom.blocks
    BY <1>1, <1>3, <1>5 DEF ExprAssumption, SelectAtom
  <1>7. CASE UNCHANGED state /\ (Raise("KeyError") \/ Raise("ResolutionException"))
    <2>1. Kept({}) /\ Unchanging({})
      BY <1>1, <1>7, SelSame DEF Typed, state
    <2> QED
      BY <1>1, <1>7, <2>1, RaiseInv
  <1>8. CASE e # NULL
    <2>1. e \in Ebuild /\ e \in Range(Listing[atom.key]) /\ e \in atom.admits
      BY <1>4, <1>6, <1>8, MatchFits
    <2>2. CASE atom.key \in DOMAIN packages /\ MatchInstalled(atom, e)
      BY <1>1, <1>3, <1>6, <2>1, <2>2, Installed
    <2>3. CASE AddAtom(atom, e, <<>>)
      <3>0. <<>> \in Seq(DOMAIN sel)
        OBVIOUS
      <3>1. PICK pkgs \in Seq(DOMAIN sel) : pkgs = <<>>
        BY <3>0
      <3>2. AddAtom(atom, e, pkgs) /\ DOMAIN pkgs = {}
        BY <2>3, <3>1
      <3>3. Single /\ AllAnswered => OneEbuild(atom.key)
        BY <1>1, <1>2, <1>3, <1>5, <1>6 DEF AllAnswered, CallAnswers, Single, OneEbuild
      <3> QED
        BY <1>1, <1>3, <2>1, <3>2, <3>3, Added
    <2> QED
      BY <1>3, <1>4, <1>7, <1>8, <2>2, <2>3 DEF SelectAtom
  <1> QED
    BY <1>3, <1>4, <1>7, <1>8 DEF SelectAtom

-----------------------------------------------------------------------------
(* Every step.                                                             *)

LEMMA Stuttered ==
    ASSUME ResolverInv, UNCHANGED vars
    PROVE  ResolverInv'
  <1>1. UNCHANGED <<repo, metadata, sel, packages, session, stack, outcome, failed>>
    BY DEF vars, state, calls
  <1>2. Depth' = Depth
    BY <1>1 DEF Depth
  <1>3. Typed' /\ Nested' /\ Progress'
    BY <1>1, <1>2
    DEF ResolverInv, Typed, Closed, Nested, Placed, Waits, Progress, InCall, Finished
  <1>4. AllAnswered => AllAnswered'
    BY <1>1 DEF AllAnswered, PackagesListed, CallAnswers, Asked, Answered, Answers, Wanted, InCall
  <1> QED
    BY <1>1, <1>3, <1>4, SingleKept DEF ResolverInv

LEMMA StepInv ==
    ASSUME ResolverAssumption, ListingAssumption, ExprAssumption, RepositoryAssumption,
           ResolverInv, [Next]_vars
    PROVE  ResolverInv'
  <1>1. CASE \E atom \in Requests : Request(atom)
    BY <1>1, Requested
  <1>2. CASE Clear
    BY <1>2, Cleared
  <1>3. CASE Resolve
    <2>1. CASE SelectAtom
      BY <2>1, AtomSelected
    <2>2. CASE AddBlock \/ Condition \/ Group
      BY <2>2, Skipped
    <2>3. CASE UseDependency
      BY <2>3, UseDepended
    <2>4. CASE Yield
      BY <2>4, Yielded
    <2>5. CASE Begin
      BY <2>5, Begun
    <2>6. CASE FlushUse
      BY <2>6, Flushed
    <2>7. CASE HookRequired
      BY <2>7, Hooked
    <2>8. CASE Generated
      BY <2>8, NoneLeft
    <2>9. CASE Child
      BY <2>9, ChildCalled
    <2>10. CASE Return
      BY <2>10, Returned
    <2>11. CASE Spin
      BY <2>11, Stuttered DEF Spin
    <2> QED
      BY <1>3, <2>1, <2>2, <2>3, <2>4, <2>5, <2>6, <2>7, <2>8, <2>9, <2>10, <2>11 DEF Resolve
  <1>4. CASE UNCHANGED vars
    BY <1>4, Stuttered
  <1> QED
    BY <1>1, <1>2, <1>3, <1>4 DEF Next

\* Calls nest, and every ebuild of the session is either in a call or resolved
\* to what its expressions were answered, through any sequence of requests.
THEOREM ResolverHolds ==
    ASSUME ResolverAssumption, ListingAssumption, ExprAssumption, RepositoryAssumption
    PROVE  Spec => []ResolverInv
  <1>1. Init => ResolverInv
    BY Started
  <1>2. ResolverInv /\ [Next]_vars => ResolverInv'
    BY StepInv
  <1> QED
    BY <1>1, <1>2, PTL DEF Spec

LEMMA TypedOK ==
    ASSUME ResolverInv
    PROVE  TypeOK
  <1>1. Typed
    BY DEF ResolverInv
  <1>2. ASSUME NEW s \in DOMAIN sel
        PROVE  /\ sel[s].ebuild \in Ebuild /\ sel[s].slot \in Slot \cup {NULL}
               /\ DOMAIN sel[s].useflags \subseteq Flag /\ sel[s].dirty \in BOOLEAN
               /\ Range(sel[s].generators) \cup Range(sel[s].resolved) \subseteq DOMAIN sel
               /\ \A i \in DOMAIN sel[s].flags : sel[s].flags[i].name \in Flag
    <2>1. sel[s] \in SelectedEbuild /\ Closed(DOMAIN sel, sel[s])
      BY <1>1 DEF Typed
    <2>2. /\ sel[s].ebuild \in Ebuild /\ sel[s].slot \in Slot \cup {NULL}
          /\ sel[s].useflags \in UseState /\ sel[s].dirty \in BOOLEAN
          /\ sel[s].flags \in Seq(Scheduled)
      BY <2>1 DEF SelectedEbuild
    <2>3. ASSUME NEW i \in DOMAIN sel[s].flags PROVE sel[s].flags[i].name \in Flag
      <3>1. sel[s].flags[i] \in Scheduled
        BY <2>2
      <3> QED
        BY <3>1 DEF Scheduled
    <2> QED
      BY <2>1, <2>2, <2>3, UseValues DEF Closed
  <1>3. ASSUME NEW k \in DOMAIN packages
        PROVE  k \in Key /\ Range(packages[k]) \subseteq DOMAIN sel
    BY <1>1 DEF Typed, Range
  <1>4. ASSUME NEW i \in DOMAIN stack
        PROVE  stack[i].phase \in Phase /\ stack[i].sel \in DOMAIN sel \cup {NULL}
    <2>1. stack[i] \in Call /\ stack[i].sel \in DOMAIN sel \cup {NULL}
      BY <1>1 DEF Typed
    <2> QED
      BY <2>1 DEF Call
  <1> QED
    BY <1>1, <1>2, <1>3, <1>4 DEF TypeOK, Typed

\* get_resolved is never called for an ebuild within a call for the same one.
THEOREM NeverReentered ==
    ASSUME ResolverAssumption, ListingAssumption, ExprAssumption, RepositoryAssumption
    PROVE  Spec => []NoReentry
  <1>1. ResolverInv => NoReentry
    BY TypedOK DEF ResolverInv, Nested, NoReentry
  <1> QED
    BY <1>1, ResolverHolds, PTL

LEMMA CompleteWhenDone ==
    ASSUME ResolverAssumption, ExprAssumption, RepositoryAssumption, ResolverInv
    PROVE  ResolutionComplete
  <1>0. CASE ~Well
    BY <1>0 DEF ResolutionComplete, ChildrenResolved, EveryDependencyMet
  <1> SUFFICES ASSUME Well
               PROVE  ResolutionComplete
    BY <1>0
  <1>1. Typed /\ Nested /\ Progress /\ stack = <<>> /\ DOMAIN stack = {} /\ ~failed
    BY DEF ResolverInv, Nested, Well
  <1>2. \A s \in session : Finished(s)
    BY <1>1 DEF Progress, InCall
  <1>3. ASSUME Single
        PROVE  EveryDependencyMet
    <2>1. \A s \in session : Answered(s)
      BY <1>1, <1>3 DEF ResolverInv, AllAnswered, InCall
    <2> QED
      BY <1>2, <2>1 DEF EveryDependencyMet, Answered, Answers, Wanted, Resolves, Finished
  <1>4. ChildrenResolved
    BY <1>2 DEF ChildrenResolved, Finished
  <1> QED
    BY <1>3, <1>4 DEF ResolutionComplete

\* A resolution that went well is complete: every ebuild of the session was
\* resolved to its answers and, where no package has a choice, every
\* dependency of every one is met.
THEOREM ResolutionsComplete ==
    ASSUME ResolverAssumption, ListingAssumption, ExprAssumption, RepositoryAssumption
    PROVE  Spec => []ResolutionComplete
  <1>1. ResolverInv => ResolutionComplete
    BY CompleteWhenDone
  <1> QED
    BY <1>1, ResolverHolds, PTL

-----------------------------------------------------------------------------
(* What becomes of the flags of one selected object.                       *)

UseKept(s) == sel'[s].useflags = sel[s].useflags
UseAdded(s) ==
    \E name \in Flag, value \in BOOLEAN :
        ~HasUse(s, name) /\ sel'[s].useflags = With(sel[s].useflags, name, value)

LEMMA FlagKept ==
    ASSUME NEW s \in DOMAIN sel, NEW f, HasUse(s, f), sel'[s].ebuild = sel[s].ebuild,
           repo' = repo, metadata \subseteq metadata', UseKept(s) \/ UseAdded(s)
    PROVE  GetUse(s, f)' = GetUse(s, f)
  <1>1. f \in DOMAIN sel'[s].useflags <=> f \in DOMAIN sel[s].useflags
    <2>1. CASE UseKept(s)
      BY <2>1 DEF UseKept
    <2>2. CASE UseAdded(s)
      BY <2>2 DEF UseAdded, With
    <2> QED
      BY <2>1, <2>2
  <1>2. CASE f \in DOMAIN sel[s].useflags
    <2>1. sel'[s].useflags[f] = sel[s].useflags[f]
      <3>1. CASE UseKept(s)
        BY <3>1 DEF UseKept
      <3>2. CASE UseAdded(s)
        BY <1>2, <3>2 DEF UseAdded, With, HasUse
      <3> QED
        BY <3>1, <3>2
    <2> QED
      BY <1>1, <1>2, <2>1 DEF GetUse
  <1>3. CASE f \notin DOMAIN sel[s].useflags
    <2>1. f \in DOMAIN Iuse(s)
      BY <1>3 DEF HasUse
    <2>2. sel[s].ebuild \in metadata
      BY <2>1 DEF Iuse
    <2>3. Iuse(s)' = Iuse(s)
      BY <2>2 DEF Iuse
    <2> QED
      BY <1>1, <1>3, <2>3 DEF GetUse
  <1> QED
    BY <1>2, <1>3

LEMMA SelectUse ==
    ASSUME Typed, SelectAtom, NEW s \in DOMAIN sel
    PROVE  UseKept(s) /\ repo' = repo /\ metadata' = metadata
  <1>1. sel \in Seq(SelectedEbuild) /\ UNCHANGED <<repo, metadata>>
    BY DEF Typed, SelectAtom
  <1>2. ASSUME NEW x, sel' = Append(sel, x)
        PROVE  UseKept(s)
    BY <1>1, <1>2 DEF UseKept
  <1>3. ASSUME NEW atom, NEW e, NEW pkgs, AddAtom(atom, e, pkgs)
        PROVE  UseKept(s)
    BY <1>2, <1>3 DEF AddAtom
  <1>4. ASSUME NEW r, NEW e, sel' = [sel EXCEPT ![r].ebuild = e, ![r].dirty = TRUE]
        PROVE  UseKept(s)
    <2>1. sel[s] \in SelectedEbuild
      BY <1>1
    <2> QED
      BY <1>1, <1>4, <2>1 DEF UseKept, SelectedEbuild
  <1>5. ASSUME NEW atom, NEW r, ChangeWithinSlot(atom, r)
        PROVE  UseKept(s)
    <2>1. sel' = sel \/ \E e : sel' = [sel EXCEPT ![r].ebuild = e, ![r].dirty = TRUE]
      BY <1>5 DEF ChangeWithinSlot, state
    <2> QED
      BY <1>4, <2>1 DEF UseKept
  <1>6. ASSUME NEW atom, NEW e, MatchInstalled(atom, e)
        PROVE  UseKept(s)
    <2>1. sel' = sel \/ (\E r : ChangeWithinSlot(atom, r)) \/ (\E pkgs : AddAtom(atom, e, pkgs))
      BY <1>6 DEF MatchInstalled, state
    <2> QED
      BY <1>3, <1>5, <2>1 DEF UseKept
  <1>7. \/ sel' = sel
        \/ \E atom, e : MatchInstalled(atom, e) \/ AddAtom(atom, e, <<>>)
    BY DEF SelectAtom, state
  <1> QED
    BY <1>1, <1>3, <1>6, <1>7 DEF UseKept

LEMMA RequireUse ==
    ASSUME ResolverAssumption, RepositoryAssumption, Typed, Nested, UseDependency,
           NEW s \in DOMAIN sel
    PROVE  (UseKept(s) \/ UseAdded(s)) /\ repo' = repo /\ metadata' = metadata
  <1>1. /\ sel \in Seq(SelectedEbuild) /\ UNCHANGED <<repo, metadata>> /\ In("uses")
        /\ sel[s] \in SelectedEbuild
    BY DEF Typed, UseDependency
  <1>2. PICK t : t = Top.target
    OBVIOUS
  <1>3. t \in DOMAIN sel \cup {NULL} /\ Top \in Call
    BY <1>1, <1>2, InUses
  <1>4. PICK use \in UseRequirement : use = Head(Top.uses)
    <2>1. Top.uses \in Seq(UseRequirement) /\ Top.uses # <<>>
      BY <1>3 DEF Call, UseDependency
    <2> QED
      BY <2>1, HeadTail
  <1>5. ASSUME t \in DOMAIN sel, NEW u, NEW name, NEW value, NEW option,
               Require(t, u, name, value, option)
        PROVE  sel'[s].useflags = IF s = t THEN u ELSE sel[s].useflags
    <2>1. \E hooks, flags, dirty :
             sel' = [sel EXCEPT ![t].useflags = u, ![t].hooks = hooks, ![t].flags = flags,
                                ![t].dirty = dirty]
      BY <1>5, ZenonT(30) DEF Require
    <2> QED
      BY <1>1, <1>5, <2>1 DEF SelectedEbuild
  <1>6. CASE UNCHANGED sel
    BY <1>1, <1>6 DEF UseKept
  <1>7. CASE t # NULL /\ HasUse(t, use.name)
    <2>1. Require(t, sel[t].useflags, use.name, GetUse(t, use.name), use.option)
      BY <1>2, <1>4, <1>7 DEF UseDependency
    <2>2. sel'[s].useflags = IF s = t THEN sel[t].useflags ELSE sel[s].useflags
      BY <1>3, <1>5, <1>7, <2>1
    <2> QED
      BY <1>1, <2>2 DEF UseKept
  <1>8. CASE t # NULL /\ ~HasUse(t, use.name) /\ use.default # NULL
    <2> DEFINE u == With(sel[t].useflags, use.name, use.default)
    <2>1. Require(t, u, use.name, use.default, IF use.default THEN "ENABLE" ELSE "DISABLE")
      BY <1>2, <1>4, <1>8 DEF UseDependency
    <2>2. sel'[s].useflags = IF s = t THEN u ELSE sel[s].useflags
      <3> HIDE DEF u
      <3> QED
        BY <1>3, <1>5, <1>8, <2>1
    <2>3. use.name \in Flag /\ use.default \in BOOLEAN
      BY <1>4, <1>8 DEF UseRequirement
    <2> QED
      BY <1>1, <1>8, <2>2, <2>3 DEF UseKept, UseAdded
  <1> QED
    BY <1>2, <1>4, <1>6, <1>7, <1>8 DEF UseDependency

LEMMA OtherUse ==
    ASSUME Typed, NEW s \in DOMAIN sel,
           \/ AddBlock \/ Condition \/ Group \/ Yield \/ Begin \/ HookRequired \/ Generated
           \/ Child \/ Return \/ Spin \/ Clear \/ (\E atom \in Requests : Request(atom))
           \/ UNCHANGED vars \/ (FlushUse /\ Top.sel # s)
    PROVE  UseKept(s) /\ repo' = repo /\ metadata \subseteq metadata'
  <1>1. sel \in Seq(SelectedEbuild) /\ sel[s] \in SelectedEbuild
    BY DEF Typed
  <1>2. ASSUME UNCHANGED sel PROVE UseKept(s)
    BY <1>2 DEF UseKept
  <1>3. ASSUME NEW r, NEW q, sel' = [sel EXCEPT ![r].generators = q] \/ sel' = [sel EXCEPT ![r].resolved = q]
        PROVE  UseKept(s)
    BY <1>1, <1>3, ZenonT(30) DEF UseKept, SelectedEbuild
  <1>4. ASSUME NEW frames, AppendResolved(frames) PROVE UseKept(s)
    <2>1. sel' = sel \/ \E r, q : sel' = [sel EXCEPT ![r].resolved = q]
      BY <1>4 DEF AppendResolved
    <2> QED
      BY <1>2, <1>3, <2>1
  <1>5. CASE AddBlock \/ Condition \/ Group \/ Spin \/ Clear \/ UNCHANGED vars
    BY <1>2, <1>5 DEF AddBlock, Condition, Group, Spin, Clear, vars, state
  <1>6. CASE \E atom \in Requests : Request(atom)
    BY <1>2, <1>6 DEF Request, state
  <1>7. CASE Yield
    <2>1. sel' = sel \/ \E r, q : sel' = [sel EXCEPT ![r].generators = q]
      BY <1>7 DEF Yield
    <2> QED
      BY <1>2, <1>3, <1>7, <2>1 DEF Yield
  <1>8. CASE Begin
    <2>1. \E r, q : sel' = [sel EXCEPT ![r].generators = q] \/ sel' = [sel EXCEPT ![r].resolved = q]
      BY <1>8 DEF Begin
    <2> QED
      BY <1>3, <1>8, <2>1 DEF Begin
  <1>9. CASE HookRequired
    <2>1. \E r, h : sel' = [sel EXCEPT ![r].hooked = h]
      BY <1>9 DEF HookRequired
    <2> QED
      BY <1>1, <1>9, <2>1 DEF HookRequired, UseKept, SelectedEbuild
  <1>10. CASE Generated
    <2>1. sel' = sel \/ \E r : sel' = [sel EXCEPT ![r].dirty = FALSE, ![r].resolved = <<>>]
      BY <1>10 DEF Generated
    <2>2. ASSUME NEW r, sel' = [sel EXCEPT ![r].dirty = FALSE, ![r].resolved = <<>>]
          PROVE  UseKept(s)
      <3>1. sel'[s].useflags = sel[s].useflags
        BY <1>1, <2>2 DEF SelectedEbuild
      <3> QED
        BY <3>1 DEF UseKept
    <2> QED
      BY <1>2, <1>10, <2>1, <2>2 DEF Generated
  <1>11. CASE Child \/ Return
    <2>1. sel' = sel \/ \E frames : AppendResolved(frames)
      BY <1>11 DEF Child, Return
    <2> QED
      BY <1>2, <1>4, <1>11, <2>1 DEF Child, Return
  <1>12. CASE FlushUse /\ Top.sel # s
    <2>1. \/ sel' = sel
          \/ \E q : sel' = [sel EXCEPT ![Top.sel].flags = q]
          \/ \E q, u : sel' = [sel EXCEPT ![Top.sel].flags = q, ![Top.sel].useflags = u]
      BY <1>12 DEF FlushUse
    <2> QED
      BY <1>1, <1>2, <1>12, <2>1 DEF FlushUse, UseKept, SelectedEbuild
  <1> QED
    BY <1>5, <1>6, <1>7, <1>8, <1>9, <1>10, <1>11, <1>12

LEMMA StepSettles ==
    ASSUME ResolverAssumption, RepositoryAssumption, Typed, Nested, [Next]_vars,
           NEW s \in DOMAIN sel, NEW f \in Flag, Settled(s), HasUse(s, f),
           sel'[s].ebuild = sel[s].ebuild
    PROVE  GetUse(s, f)' = GetUse(s, f)
  <1>1. ~(FlushUse /\ Top.sel = s)
    <2> SUFFICES ASSUME FlushUse, Top.sel = s PROVE FALSE
      OBVIOUS
    <2>1. Depth \in DOMAIN stack /\ Top = stack[Depth] /\ Top.phase = "flush"
      BY TopIn DEF FlushUse, In, Typed, Top
    <2> QED
      BY <2>1 DEF Settled
  <1>2. (UseKept(s) \/ UseAdded(s)) /\ repo' = repo /\ metadata \subseteq metadata'
    <2>1. CASE SelectAtom
      BY <2>1, SelectUse
    <2>2. CASE UseDependency
      BY <2>2, RequireUse
    <2>3. CASE ~SelectAtom /\ ~UseDependency
      BY <1>1, <2>3, OtherUse DEF Next, Resolve
    <2> QED
      BY <2>1, <2>2, <2>3
  <1> QED
    BY <1>2, FlagKept

\* The flags an ebuild was resolved with stay until the session is cleared or
\* the ebuild itself is exchanged.
THEOREM FlagsStaySettled ==
    ASSUME ResolverAssumption, ListingAssumption, ExprAssumption, RepositoryAssumption
    PROVE  Spec => FlagsSettled
  <1>1. ResolverInv /\ [Next]_vars =>
           [\A s \in DOMAIN sel : \A f \in Flag :
               Settled(s) /\ HasUse(s, f) /\ sel'[s].ebuild = sel[s].ebuild
               => GetUse(s, f)' = GetUse(s, f)]_vars
    BY StepSettles DEF ResolverInv
  <1> QED
    BY <1>1, ResolverHolds, PTL DEF Spec, FlagsSettled

===============================================================================
