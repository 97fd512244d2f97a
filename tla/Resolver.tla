------------------------------- MODULE Resolver -------------------------------
(***************************************************************************)
(* The dependency resolver, portage/resolve.py: from a request for an atom *)
(* it selects ebuilds, one object per package and slot, and resolves what  *)
(* they depend on, recursively.  An exception leaves everything as far as  *)
(* it got, and the program may go on with another request.                 *)
(*                                                                         *)
(* The recursion of get_resolved and regenerate is a stack of frames.  The *)
(* four kinds of dependencies are one sequence here, in the order of the   *)
(* code.  Not in the program is `failed', whether an exception got out     *)
(* since the session was clear.                                            *)
(***************************************************************************)
EXTENDS Integers, Sequences, FiniteSets, Functions

CONSTANTS
    Ebuild, Key, Flag, Slot,
    Expr,           \* the expressions of dependencies
    Listing,        \* key -> the ebuilds of its package, newest first
    SlotOf,         \* ebuild -> the slot its metadata has
    Repository,     \* what the repository may be: of each ebuild the dependencies, IUSE
                    \* (flag -> default) and REQUIRED_USE, and whose metadata was read
    Verdict(_, _),  \* a REQUIRED_USE evaluated for flags with their values: "fine",
                    \* "RequiredUseException" or "KeyError"
    Requests,       \* the atoms the program may ask for
    MaxSelected, MaxRequests,  \* bounds
    NULL

\* An expression is an atom, a use condition with what it guards, or a group
\* (neither).  An atom admits ebuilds of its key, and asks for use flags; it is
\* exact if its operator is = or ~.
IsAtom(expr) == expr.atom # NULL
IsConditional(expr) == expr.atom = NULL /\ expr.flag # NULL

Selected == 1 .. MaxSelected

Option == {"ENABLE", "DISABLE", "ENABLE_IF_ON", "DISABLE_IF_OFF", "EQUAL", "OPPOSITE"}
UseRequirement == [name : Flag, option : Option, default : BOOLEAN \cup {NULL}]
RequestOf(atom) == [atom |-> atom, flag |-> NULL]

ASSUME ResolverAssumption == NULL \notin Nat /\ MaxSelected \in Nat
ASSUME ListingAssumption == Listing \in [Key -> Seq(Ebuild)] /\ SlotOf \in [Ebuild -> Slot]
ASSUME ExprAssumption ==
    /\ \A expr \in Expr : IsAtom(expr) =>
           /\ expr.atom.key \in Key /\ expr.atom.admits \subseteq Range(Listing[expr.atom.key])
           /\ {expr.atom.exact, expr.atom.blocks} \subseteq BOOLEAN
           /\ expr.atom.uses \in Seq(UseRequirement)
    /\ \A atom \in Requests : RequestOf(atom) \in Expr /\ atom # NULL
ASSUME RepositoryAssumption ==
    \A r \in Repository :
        /\ r.known \subseteq Ebuild /\ r.depends \in [Ebuild -> Seq(Expr)]
        /\ \A e \in Ebuild : \A f \in DOMAIN r.iuse[e] : r.iuse[e][f] \in BOOLEAN

VARIABLES
    repo,         \* the repository
    metadata,     \* the ebuilds whose metadata was read
    sel,          \* SelectedEbuild objects, in the order of creation
    packages,     \* key -> its InstallPackage: selected objects, oldest first
    blocks,       \* the atoms recorded by add_block
    session,      \* current_resolution
    stack,        \* the calls in progress, innermost last
    outcome,      \* "idle", "running", "done" or the exception that got out
    requests,     \* requests made so far
    failed

state == <<sel, packages, blocks>>
calls == <<stack, outcome, failed>>
vars == <<repo, metadata, state, session, calls, requests>>

Phase == {"begin", "flush", "required", "generate", "uses", "children", "spin"}

TypeOK ==
    /\ metadata \subseteq Ebuild
    /\ \A s \in DOMAIN sel :
          /\ sel[s].ebuild \in Ebuild /\ sel[s].slot \in Slot \cup {NULL}
          /\ DOMAIN sel[s].useflags \subseteq Flag /\ sel[s].dirty \in BOOLEAN
          /\ Range(sel[s].generators) \cup Range(sel[s].resolved) \subseteq DOMAIN sel
          /\ \A i \in DOMAIN sel[s].flags : sel[s].flags[i].name \in Flag
    /\ \A k \in DOMAIN packages : k \in Key /\ Range(packages[k]) \subseteq DOMAIN sel
    /\ session \subseteq DOMAIN sel
    /\ \A i \in DOMAIN stack : stack[i].phase \in Phase
                               /\ stack[i].sel \in DOMAIN sel \cup {NULL}

Init ==
    /\ repo \in Repository /\ metadata = repo.known
    /\ sel = <<>> /\ packages = <<>> /\ blocks = {}
    /\ session = {} /\ stack = <<>> /\ outcome = "idle" /\ requests = 0
    /\ failed = FALSE

-----------------------------------------------------------------------------
(* Frames.  The frame of the program itself has no selected ebuild.        *)

Frame(s, phase, deps) ==
    [sel |-> s, phase |-> phase, deps |-> deps, uses |-> <<>>, target |-> NULL, child |-> 1]
Depth == Len(stack)
Top == stack[Depth]
Goto(frame) == stack' = [stack EXCEPT ![Depth] = frame] /\ UNCHANGED <<outcome, failed>>
Raise(exception) == stack' = <<>> /\ outcome' = exception /\ failed' = TRUE
In(phase) == stack # <<>> /\ Top.phase = phase
Advanced(frame) == [frame EXCEPT !.deps = Tail(@), !.phase = "generate", !.target = NULL]

\* Use flags: iuse is empty until the metadata was read.
Iuse(s) == IF sel[s].ebuild \in metadata THEN repo.iuse[sel[s].ebuild] ELSE <<>>
HasUse(s, name) == name \in DOMAIN sel[s].useflags \cup DOMAIN Iuse(s)
GetUse(s, name) ==
    IF name \in DOMAIN sel[s].useflags THEN sel[s].useflags[name] ELSE Iuse(s)[name]
With(useflags, name, value) ==
    [f \in DOMAIN useflags \cup {name} |-> IF f = name THEN value ELSE useflags[f]]

\* run_hook of every UseSelection of a flag, and of RequiredUseHook
Refused(s, name, value) ==
    \E i \in DOMAIN sel[s].hooks :
        LET h == sel[s].hooks[i] IN h.name = name /\ h.enforcing /\ h.target # value
UseOf(s, useflags) ==
    [f \in DOMAIN useflags \cup DOMAIN Iuse(s) |->
        IF f \in DOMAIN useflags THEN useflags[f] ELSE Iuse(s)[f]]
\* The exception of the first of the hooks that raises one; NULL: none does.
Objection(s, useflags, hooked) ==
    LET verdict(i) == Verdict(repo.required[hooked[i]], UseOf(s, useflags))
        raising == {i \in DOMAIN hooked : verdict(i) # "fine"}
        first == CHOOSE i \in raising : \A j \in raising : i <= j
    IN  IF raising = {} THEN NULL
        ELSE IF verdict(first) = "KeyError" THEN "KeyError" ELSE "RequiredUseException"

-----------------------------------------------------------------------------
(* Emerge.select_atom and what it calls                                    *)

\* Portage.match_atom, which for = and ~ gives up behind the newest ebuild
MatchAtom(atom) ==
    LET list == Listing[atom.key]
        fit == {i \in DOMAIN list : list[i] \in atom.admits /\ (atom.exact => i = 1)}
    IN  IF fit = {} THEN NULL ELSE list[CHOOSE i \in fit : \A j \in fit : i <= j]

SlotNow(e) == IF e \in metadata THEN SlotOf[e] ELSE NULL

\* add_atom: a new SelectedEbuild in the slot its ebuild is known to have
AddAtom(atom, e, pkgs) ==
    LET s == Len(sel) + 1
    IN  /\ s \in Selected
        /\ sel' = Append(sel, [ebuild |-> e, slot |-> SlotNow(e), selected_by |-> {atom},
                               useflags |-> <<>>, hooks |-> <<>>, hooked |-> <<>>, flags |-> <<>>,
                               generators |-> <<>>, resolved |-> <<>>, dirty |-> TRUE])
        /\ packages' = With(packages, atom.key, Append(pkgs, s))
        /\ Goto([Top EXCEPT !.phase = "uses", !.target = s, !.uses = atom.uses])

\* The ebuild returned is one already selected.
Reuse(atom, s) ==
    /\ Goto([Top EXCEPT !.phase = "uses", !.target = s, !.uses = atom.uses])
    /\ UNCHANGED packages

\* change_within_slot.  The loop over the package sees its second ebuild, over
\* and over, and compares it with the atoms that selected s only.
ChangeWithinSlot(atom, s) ==
    LET list == Listing[atom.key]
    IN  IF Len(list) < 2
        THEN Raise("NotImplementedError") /\ UNCHANGED state
        ELSE IF \A prev \in sel[s].selected_by : list[2] \in prev.admits
        THEN /\ sel' = [sel EXCEPT ![s].ebuild = list[2], ![s].dirty = TRUE]
             /\ Reuse(atom, s)
        ELSE Goto([Top EXCEPT !.phase = "spin"]) /\ UNCHANGED state

\* InstallPackage.match_atom.  It returns nothing for an ebuild whose slot is
\* not known yet.
MatchInstalled(atom, e) ==
    LET pkgs == packages[atom.key]
        fit == {i \in DOMAIN pkgs : sel[pkgs[i]].ebuild \in atom.admits}
        same == {i \in DOMAIN pkgs : sel[pkgs[i]].slot = SlotNow(e)}
    IN  IF fit # {}
        THEN Reuse(atom, pkgs[CHOOSE i \in fit : \A j \in fit : i <= j]) /\ UNCHANGED sel
        ELSE IF SlotNow(e) = NULL
        THEN /\ Goto([Top EXCEPT !.phase = "uses", !.target = NULL, !.uses = atom.uses])
             /\ UNCHANGED state
        ELSE IF same # {} THEN ChangeWithinSlot(atom, pkgs[CHOOSE i \in same : TRUE])
        ELSE AddAtom(atom, e, pkgs)

SelectAtom ==
    /\ In("generate") /\ Top.deps # <<>> /\ IsAtom(Head(Top.deps))
    /\ LET atom == Head(Top.deps).atom
           e == MatchAtom(atom)
       IN  /\ ~atom.blocks
           /\ IF Listing[atom.key] = <<>> THEN Raise("KeyError") /\ UNCHANGED state
              ELSE IF e = NULL THEN Raise("ResolutionException") /\ UNCHANGED state
              ELSE IF atom.key \in DOMAIN packages THEN MatchInstalled(atom, e)
              ELSE AddAtom(atom, e, <<>>)
    /\ UNCHANGED <<repo, metadata, blocks, session, requests>>

\* The loop of change_within_slot that does not end.
Spin == In("spin") /\ UNCHANGED vars

-----------------------------------------------------------------------------
(* resolve_all and resolve_single, one expression after the other          *)

AddBlock ==
    /\ In("generate") /\ Top.deps # <<>>
    /\ IsAtom(Head(Top.deps)) /\ Head(Top.deps).atom.blocks
    /\ blocks' = blocks \cup {Head(Top.deps).atom}
    /\ Goto(Advanced(Top))
    /\ UNCHANGED <<repo, metadata, sel, packages, session, requests>>

\* A use condition only leaves a UseConditional hook behind, which runs without
\* effect; nothing ever asks it for what it guards.
Condition ==
    /\ In("generate") /\ Top.deps # <<>> /\ IsConditional(Head(Top.deps))
    /\ IF HasUse(Top.sel, Head(Top.deps).flag)
       THEN Goto(Advanced(Top))
       ELSE Raise("KeyError")
    /\ UNCHANGED <<repo, metadata, state, session, requests>>

\* "Complex use selection is not implemented yet"
Group ==
    /\ In("generate") /\ Top.deps # <<>>
    /\ ~IsAtom(Head(Top.deps)) /\ ~IsConditional(Head(Top.deps))
    /\ Goto(Advanced(Top))
    /\ UNCHANGED <<repo, metadata, state, session, requests>>

\* add_use_requirement: the UseSelection may schedule the flag, is hooked, and
\* then run with the state the flag has now.
Target(value, option) ==
    CASE option = "ENABLE" -> TRUE [] option = "DISABLE" -> FALSE
      [] option = "OPPOSITE" -> ~value [] OTHER -> value
Enforcing(value, option) ==
    CASE option = "ENABLE_IF_ON" -> value [] option = "DISABLE_IF_OFF" -> ~value
      [] OTHER -> TRUE
Schedules(option) == option \in {"ENABLE", "DISABLE", "OPPOSITE"}

\* A slip: the flag is set at once instead of being scheduled.
RequireAtOnce(s, useflags, name, value, option) ==
    /\ sel' = [sel EXCEPT ![s].useflags = With(useflags, name, Target(value, option))]
    /\ Goto([Top EXCEPT !.uses = Tail(@)])

Require(s, useflags, name, value, option) ==
    LET target == Target(value, option)
        hook == [name |-> name, target |-> target, enforcing |-> Enforcing(value, option)]
    IN  /\ sel' = [sel EXCEPT ![s].useflags = useflags,
                              ![s].hooks = Append(@, hook),
                              ![s].flags = IF Schedules(option)
                                           THEN Append(@, [name |-> name, state |-> target])
                                           ELSE @,
                              ![s].dirty = @ \/ Schedules(option)]
        /\ IF hook.enforcing /\ value # target THEN Raise("RequiredUseException")
           ELSE Goto([Top EXCEPT !.uses = Tail(@)])

\* The next use flag of the atom just selected; its default when the ebuild
\* does not have it, or is not known to.
UseDependency ==
    /\ In("uses") /\ Top.uses # <<>>
    /\ LET s == Top.target
           use == Head(Top.uses)
       IN  IF s = NULL THEN Raise("AttributeError") /\ UNCHANGED sel
           ELSE IF HasUse(s, use.name)
           THEN Require(s, sel[s].useflags, use.name, GetUse(s, use.name), use.option)
           ELSE IF use.default = NULL THEN Raise("KeyError") /\ UNCHANGED sel
           ELSE Require(s, With(sel[s].useflags, use.name, use.default), use.name,
                        use.default, IF use.default THEN "ENABLE" ELSE "DISABLE")
    /\ UNCHANGED <<repo, metadata, packages, blocks, session, requests>>

\* resolve_single returned: regenerate collects what is not None, the program
\* asks it for its resolution at once.
Enter(s, frames) ==
    /\ session' = session \cup {s}
    /\ stack' = Append(frames, Frame(s, "begin", <<>>))
    /\ UNCHANGED <<outcome, failed>>

Yield ==
    /\ In("uses") /\ Top.uses = <<>>
    /\ LET s == Top.target
           frames == [stack EXCEPT ![Depth] = Advanced(Top)]
       IN  IF Top.sel = NULL /\ s # NULL /\ s \notin session
           THEN Enter(s, frames) /\ UNCHANGED sel
           ELSE /\ Goto(Advanced(Top))
                /\ sel' = IF Top.sel # NULL /\ s # NULL
                          THEN [sel EXCEPT ![Top.sel].generators = Append(@, s)] ELSE sel
                /\ UNCHANGED session
    /\ UNCHANGED <<repo, metadata, packages, blocks, requests>>

-----------------------------------------------------------------------------
(* regenerate                                                              *)

\* A slip: the dirty flag is reset before the generators are there again.
BeginClean ==
    /\ In("begin")
    /\ LET s == Top.sel
       IN  IF sel[s].dirty
           THEN /\ sel' = [sel EXCEPT ![s].generators = <<>>, ![s].dirty = FALSE]
                /\ metadata' = metadata \cup {sel[s].ebuild}
                /\ Goto([Top EXCEPT !.phase = "flush"])
           ELSE /\ sel' = [sel EXCEPT ![s].resolved = <<>>]
                /\ Goto([Top EXCEPT !.phase = "children"])
                /\ UNCHANGED metadata
    /\ UNCHANGED <<repo, packages, blocks, session, requests>>

\* Only what is dirty is generated anew.
Begin ==
    /\ In("begin")
    /\ LET s == Top.sel
       IN  IF sel[s].dirty
           THEN /\ sel' = [sel EXCEPT ![s].generators = <<>>]
                /\ metadata' = metadata \cup {sel[s].ebuild}
                /\ Goto([Top EXCEPT !.phase = "flush"])
           ELSE /\ sel' = [sel EXCEPT ![s].resolved = <<>>]
                /\ Goto([Top EXCEPT !.phase = "children"])
                /\ UNCHANGED metadata
    /\ UNCHANGED <<repo, packages, blocks, session, requests>>

\* flush_use: one scheduled flag after the other, hooks run when it changes.
FlushUse ==
    /\ In("flush")
    /\ LET s == Top.sel
           use == Head(sel[s].flags)
           after == With(sel[s].useflags, use.name, use.state)
       IN  IF sel[s].flags = <<>>
           THEN Goto([Top EXCEPT !.phase = "required"]) /\ UNCHANGED sel
           ELSE IF ~HasUse(s, use.name)
           THEN sel' = [sel EXCEPT ![s].flags = Tail(@)] /\ Raise("KeyError")
           ELSE IF GetUse(s, use.name) = use.state
           THEN sel' = [sel EXCEPT ![s].flags = Tail(@)] /\ UNCHANGED calls
           ELSE /\ sel' = [sel EXCEPT ![s].flags = Tail(@), ![s].useflags = after]
                /\ IF Refused(s, use.name, use.state) THEN Raise("RequiredUseException")
                   ELSE IF Objection(s, after, sel[s].hooked) # NULL
                   THEN Raise(Objection(s, after, sel[s].hooked)) ELSE UNCHANGED calls
    /\ UNCHANGED <<repo, metadata, packages, blocks, session, requests>>

\* A hook stays; a second one of the same ebuild would find what the first finds.
WithHook(hooked, e) == IF e \in Range(hooked) THEN hooked ELSE Append(hooked, e)

\* A slip: the hook is added but not run.
HookRequiredLater ==
    /\ In("required")
    /\ sel' = [sel EXCEPT ![Top.sel].hooked = WithHook(@, sel[Top.sel].ebuild)]
    /\ Goto([Top EXCEPT !.phase = "generate", !.deps = repo.depends[sel[Top.sel].ebuild]])
    /\ UNCHANGED <<repo, metadata, packages, blocks, session, requests>>

\* The hook for REQUIRED_USE, then the expressions of the ebuild as it is now.
HookRequired ==
    /\ In("required")
    /\ LET s == Top.sel
           e == sel[s].ebuild
       IN  /\ sel' = [sel EXCEPT ![s].hooked = WithHook(@, e)]
           /\ IF Objection(s, sel[s].useflags, <<e>>) = NULL
              THEN Goto([Top EXCEPT !.phase = "generate", !.deps = repo.depends[e]])
              ELSE Raise(Objection(s, sel[s].useflags, <<e>>))
    /\ UNCHANGED <<repo, metadata, packages, blocks, session, requests>>

\* No expression is left: the children are next, and the program is done.
Generated ==
    /\ In("generate") /\ Top.deps = <<>>
    /\ IF Top.sel = NULL
       THEN stack' = <<>> /\ outcome' = "done" /\ UNCHANGED <<sel, failed>>
       ELSE /\ sel' = [sel EXCEPT ![Top.sel].dirty = FALSE, ![Top.sel].resolved = <<>>]
            /\ Goto([Top EXCEPT !.phase = "children"])
    /\ UNCHANGED <<repo, metadata, packages, blocks, session, requests>>

\* get_resolved of the next child: at once if it is in the session already,
\* otherwise after it was regenerated.
AppendResolved(frames) ==
    LET frame == frames[Len(frames)]
    IN  IF frame.sel = NULL THEN stack' = frames /\ UNCHANGED <<sel, outcome, failed>>
        ELSE /\ UNCHANGED <<outcome, failed>>
             /\ sel' = [sel EXCEPT ![frame.sel].resolved =
                                       Append(@, sel[frame.sel].generators[frame.child])]
             /\ stack' = [frames EXCEPT ![Len(frames)].child = @ + 1]

\* Slips: the session is not asked; a child still in progress is waited for.
ChildAgain ==
    /\ In("children") /\ Top.child <= Len(sel[Top.sel].generators)
    /\ Enter(sel[Top.sel].generators[Top.child], stack)
    /\ UNCHANGED <<repo, metadata, sel, packages, blocks, requests>>
ChildWaits ==
    /\ In("children") /\ Top.child <= Len(sel[Top.sel].generators)
    /\ LET s == sel[Top.sel].generators[Top.child]
       IN  IF \E i \in DOMAIN stack : stack[i].sel = s THEN UNCHANGED <<sel, calls, session>>
           ELSE IF s \in session THEN AppendResolved(stack) /\ UNCHANGED session
           ELSE Enter(s, stack) /\ UNCHANGED sel
    /\ UNCHANGED <<repo, metadata, packages, blocks, requests>>

Child ==
    /\ In("children") /\ Top.child <= Len(sel[Top.sel].generators)
    /\ LET s == sel[Top.sel].generators[Top.child]
       IN  IF s \in session THEN AppendResolved(stack) /\ UNCHANGED session
           ELSE Enter(s, stack) /\ UNCHANGED sel
    /\ UNCHANGED <<repo, metadata, packages, blocks, requests>>

Return ==
    /\ In("children") /\ Top.child > Len(sel[Top.sel].generators)
    /\ AppendResolved(SubSeq(stack, 1, Depth - 1))
    /\ UNCHANGED <<repo, metadata, packages, blocks, session, requests>>

-----------------------------------------------------------------------------
(* The program                                                             *)

\* for x in resolve_all(None, Dependency(atom)): x.get_resolved()
Request(atom) ==
    /\ outcome # "running" /\ requests < MaxRequests
    /\ outcome' = "running" /\ requests' = requests + 1
    /\ stack' = <<Frame(NULL, "generate", <<RequestOf(atom)>>)>>
    /\ UNCHANGED <<repo, metadata, state, session, failed>>

\* PackageResolutionSession.clear
Clear ==
    /\ outcome # "running"
    /\ session' = {} /\ failed' = FALSE /\ outcome' = "idle"
    /\ UNCHANGED <<repo, metadata, state, stack, requests>>

Resolve ==
    \/ SelectAtom
    \/ AddBlock \/ Condition \/ Group \/ UseDependency \/ Yield
    \/ Begin \/ FlushUse \/ HookRequired \/ Generated \/ Child \/ Return \/ Spin

Next == (\E atom \in Requests : Request(atom)) \/ Clear \/ Resolve

Spec == Init /\ [][Next]_vars /\ WF_vars(Resolve)

-----------------------------------------------------------------------------
(* What resolution should achieve                                          *)

\* A call of get_resolved for an ebuild is never made within another one for
\* the same ebuild, so cycles of dependencies end and the recursion is no
\* deeper than the number of selected ebuilds.
NoReentry == TypeOK /\ \A i, j \in DOMAIN stack : stack[i].sel = stack[j].sel => i = j

\* Every request comes to an end, with a result or an exception, when no
\* package has a choice of ebuilds.
Asked == Requests \cup {expr.atom : expr \in {expr \in UNION {Range(repo.depends[e]) : e \in Ebuild} :
                                                 IsAtom(expr)}}
Single == \A atom \in Asked : atom.blocks \/ Len(Listing[atom.key]) < 2
Terminates == outcome = "running" /\ Single ~> outcome # "running"

\* A resolution that went well resolved every ebuild it reached, and what an
\* ebuild was resolved to is what its expressions were answered, in order.
Well == outcome = "done" /\ ~failed
ChildrenResolved ==
    Well => \A s \in session : /\ sel[s].resolved = sel[s].generators
                               /\ Range(sel[s].generators) \subseteq session

\* A resolution that went well meets every dependency of every ebuild in it.
Resolves(s, atom) == \E g \in Range(sel[s].resolved) : sel[g].ebuild \in atom.admits
EveryDependencyMet ==
    Well => \A s \in session : \A expr \in Range(repo.depends[sel[s].ebuild]) :
                IsAtom(expr) /\ ~expr.atom.blocks => Resolves(s, expr.atom)

\* After a resolution that went well, every ebuild in it was resolved to what its
\* expressions were answered; when no package has a choice of ebuilds, every
\* dependency is met, across cycles, dirty ebuilds and earlier failures.
ResolutionComplete == ChildrenResolved /\ (Single => EveryDependencyMet)

\* The flags an ebuild was resolved with do not change until the session is
\* cleared, unless change_within_slot exchanges the ebuild itself: what depends
\* on them was decided with these values.
Settled(s) ==
    /\ s \in session
    /\ \A i \in DOMAIN stack : stack[i].sel = s => stack[i].phase \notin {"begin", "flush"}
FlagsSettled ==
    [][\A s \in DOMAIN sel : \A f \in Flag :
          Settled(s) /\ HasUse(s, f) /\ sel'[s].ebuild = sel[s].ebuild
          => GetUse(s, f)' = GetUse(s, f)]_vars

==============================================================================
