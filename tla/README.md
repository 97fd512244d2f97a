# Models and proofs for AutoGentoo

AutoGentoo is a package-management service: a C extension that reads a Gentoo
repository (`cportage`), a Python dependency resolver on top of it (`portage`),
a C extension with a message server and client (`network`), and the containers
both C parts use (`hacksaw`). This directory holds TLA+ models of these parts,
TLC configurations that check them on small instances, and proofs checked by
TLAPS. Paths below are under `src/autogentoo/`.

`tlc -config X.cfg M` checks a run, `tlapm M.tla` a proof module.

## 1. The system

| Component | State it keeps | Operations | What makes it correct |
|---|---|---|---|
| Request server, `network/tcp_server.c` | `keep_alive`, `is_alive`, queue, mutex and condition, listening socket, callback | worker loop, accepting loop, `start`, `stop`, `set_request_callback`, dealloc | every accepted connection is with exactly one holder, answered once, before it is closed; no wakeup is lost; stop leaves nothing behind and returns |
| Message exchange, `network/tcp_client.c`, `message.c`, `module.c` | the frames and buffers of one connection | `send_message`, the worker's reads, callback, writes, frees | each side gets what the other sent; buffers are freed once; both sides end |
| List, queue, stack, queue_set, `hacksaw/linked_vector.c`, `queue.c`, `stack.c`, `queue_set.c` | head, tail, cells, reference counts | append, prepend, get, pop, free | a double-ended queue; no dangling pointer is followed; counts exact |
| Vector and set, `hacksaw/vector.c`, `set.c` | slots, room, `n` | add, insert, remove, extend; add, remove, duplicate, union, intersection | a sequence; no two elements equal to the comparison; counts exact |
| Map, `hacksaw/map.c` | buckets, size, `n` | insert, remove, get, list of all keys, growth, free | each key bound to the last object inserted; every key listed; counts exact |
| Lookup table, `hacksaw/lut.c` | buckets, `n`, chains, overlap of every hash | `lut_get_id`, `lut_get`, `lut_get_key`, `lut_insert`, `lut_insert_id`, enlarging | a dictionary whose ids survive every enlargement; its assertions hold |
| Package registry, `cportage/portage.c`, `atom.c`, `module.c` | a table per `Portage` object, ids cached in atoms, reference counts | `add_package`, `get_package`, `match_atom`, `initialize_repository`, `init` | an id leads to the package it was given for; counts exact |
| USE flags, `cportage/use.c` | the table of the global object, ids kept by parsed expressions | `use_get_global`, `get_use_flag` | an id kept by an expression leads to its flag |
| Packages and ebuilds, `cportage/package.c`, `ebuild.c` | each package's list of ebuilds, reference counts | `add_ebuild`, `match_atom`, deallocation | sorted newest first; the newest match is found; counts exact |
| Expressions, `cportage/dependency.c`, `use.c`, `depend.y`, `requireduse.y` | nodes linked by `next` and `children`, reference counts, each node's place as an iterator | the reductions of the two grammars, constructors, members, loops, deallocation | a node lives exactly as long as somebody refers to it; a loop sees its list; a condition leads to its flag |
| Ebuild metadata, `cportage/ebuild.c` | expressions, slot, flags, keywords, `metadata_init` | reading the file line by line, again after an error | an ebuild that counts as read holds its whole file |
| Versions and operators, `cportage/atom.c` | none | `atom_version_compare`, `atom_matches` | comparison is consistent; both matchers agree |
| Resolver, `portage/resolve.py` | selected ebuilds with their flags, hooks and generators; the session | `get_resolved`, `regenerate`, `select_atom`, `schedule_use`, ... | resolution ends; a result meets its dependencies; flags settle |
| REQUIRED_USE, `cportage/requireduse.y`, `resolve.py` | none | parsing, `evaluate_required_use` | refuses what is not met, nothing else, as far as the parser keeps what was written |

How they interact. A client thread or process calls `send_message`; the server's
accepting thread queues the connection; a worker reads the message and calls
the Python callback under the interpreter's lock (GIL), which `start`, `stop`
and dealloc also need. The server's queue is the `hacksaw` queue, used under
the server's mutex. The callback may use the resolver, which reads the
registry; the registry and the USE flags are two uses of the lookup table, and
a package found there holds its list of ebuilds. An ebuild's metadata is read
when the resolver first needs it: the file's lines go to the parsers, which
build expressions and intern their flags, and the resolver loops over the
expressions and asks the registry for the flags by id. All `cportage` and resolver
calls run under the GIL one after the other, so these parts are sequential; the
server is the concurrent one. Nothing is persisted, so there is no crash
recovery to model.

The hard behaviours, in the order of the plan: the races of worker, accepting
thread, stop and GIL; ids that outlive the table's layout; reference counts
through partial frees; recursion over cyclic dependencies with exceptions that
leave work half done; metadata files that fail half way; uncounted iterators;
short reads and mutual blocking on a socket.
`PROJECT.json` lists each hazard at its line with the properties that watch it.

## 2. The modules

| Module | Models | Used by |
|---|---|---|
| `TCPServer` | the server; one action per step another thread can see | `MCTCPServer`, `TCPServerProofs` |
| `RequestService` | abstract: wait in line, be taken, be answered, be closed | implemented by `TCPServer` |
| `Exchange` | one connection from connect to close | `MCExchange`, `ExchangeProofs` |
| `RefObject` | objects with counts, and a program that holds and drops them | the next four |
| `LinkedQueue` | the list with its memory, queue, stack, queue_set | `Containers` |
| `Vector`, `ObjectSet` | operators on vectors and sets, as records | `Containers` |
| `HashMap` | operators on a map, as a record | `Containers` |
| `Containers` | a program that uses them together | `MCContainers`, `ContainersProofs` |
| `Deque`, `ItemSequence`, `Mapping` | abstract: a list that grows at both ends and loses its first; a sequence; a binding of keys | implemented by `Containers` |
| `LUT` | operators on a table, no variables | `Registry`, `UseFlags`, `LUTProofs` (lemmas for the proofs of both) |
| `Dictionary` | abstract: a key keeps its id, ids are distinct | implemented by `Registry`, `UseFlags` |
| `Registry` | Portage, Package and Atom objects | `MCRegistry`, `RegistryProofs` |
| `UseFlags` | interning of flags | `Expressions` |
| `Expressions` | nodes, parsers, Python's references and loops | `Metadata` |
| `Metadata` | an ebuild reading its metadata file with those parsers | `MCMetadata`, `MetadataProofs` (about all three) |
| `Version` | parts of a version, comparison, operators | `PackageEbuilds` |
| `PackageEbuilds` | lists of ebuilds and their counts | `MCPackageEbuilds`, `PackageEbuildsProofs` |
| `Resolver` | the resolver, its recursion as a stack of frames | `MCResolver`, `ResolverProofs` |
| `RequiredUse` | the parser's chains and their evaluation | `MCResolver` (as the parameter `Verdict`) |

### TCPServer

Each thread has a program counter: `wpc` for the workers (the lines of
`TCPServer_worker_run`), `apc` for the accepting thread (`TCPServer_run`),
`mpc` for the Python thread inside `start` and `stop`. A step ends where another
thread could notice: at the mutex, the condition, the GIL, a blocking read or
`accept`, or a write of a shared flag. `keep_alive` is read without the mutex
as in the code; `pthread_cond_wait` releases the mutex and joins `waiting` in
one step, and may return spuriously. A client's connection is `new`, in the
kernel's `backlog`, `open` with the server, `closed`, or `reset` when the
listening socket goes. Opening the socket may fail; then -1 is kept and
`accept` fails over and over.

Not admitted: `start` twice in a row, or `stop` without `start` (joining a
thread twice is undefined). Nothing is said about threads of a server that
dealloc freed under them. A dropped callback's reference count is not modelled.

### Exchange

A frame is its head (token and six parameters as one value), its size and as
many units of data. Head and size arrive as a whole; a read of data returns any
non-empty part of what is there, and nobody reads on, as in the code. A
`response` that was not written has any size. The client returns without
closing its socket (`tcp_client.c` never does), so a worker that still writes to
it finds nobody reading.

### RefObject, LinkedQueue, Vector, ObjectSet, HashMap, Containers

`RefObject` has the macros of `object.h`: an object dies when a reference is
dropped that was the last. `Containers` is a program in the manner of
`test/hacksaw_test.c` that keeps such objects in a list, or in a vector and
sets, or in a vector and a map. The list is modelled with its cells, because
`malloc` reuses them while `tail` still points at them; vectors, sets and maps
are records, with the room and the counters that decide about growth, since
their memory is never shared. A write past a vector's room is lost, so a missed
growth shows in `ImplementsSequence`. `lost` counts references the code itself
leaks (`map_insert` replacing a value), so that `CountsExact` can be an equation.
Sets use one comparison by which different objects may be equal.

### Expressions, Metadata

A text stands for the sequence of reductions the parser makes for it, each of
which takes so many items from the parser's stack: a node for a flag, an atom or
a group, or the parentheses of a REQUIRED_USE, which make none. A broken text
ends in an error after its reductions. `Reduce` is one such step; the node and
its flag's interning in `UseFlags` happen in the same step, so flags of broken
texts stay in the table, as they do. Nodes are numbered cells that are reused;
`count` is Python's reference count, and an uncounted pointer (`it`, the place of
an iterator) stays what it is when its target is freed, so that following it
would show. `Freed` is what goes when references are dropped: the nodes held by
nothing else, then those only such nodes refer to, and so on, in rounds until no more
are found. A Dependency and a RequiredUse behave alike but for what an error
releases, so they share the model; `children` is `depend` in a RequiredUse.
An atom is a leaf: its content is the matter of `Version` and `Resolver`.

`Metadata` is `ebuild_metadata_init`: `reading` is the line, `job` the parser at
work, `error` the code's. Python runs before, after and between attempts. `lost`
has the roots of what the parsers and a second REQUIRED_USE line leak.

### LUT, Registry, UseFlags

A node carries its bucket and its age, so a chain is the nodes of a bucket in
the order of age, and `lut_realloc`, which moves nodes until `n` have been moved,
loses the rest if `n` is too small. Hashes are a constant function: the proofs
are for every hash function, the runs use colliding ones. In `Registry` an
object's references are counted as the C code does, beside those the Python
program holds.

### PackageEbuilds, Version

A version is a sequence of parts (prefix, digits, letter, star) and a revision;
texts are abstracted to width and value, which is what leading zeros need.
`IntHalf` stands for 2^31. An ebuild
has the key that was made of its name, whatever package it is added to:
`Atom.matches` compares that key, `match_atom` of a package does not. `Keys` are
the keys that ebuilds are made with.

### Resolver, RequiredUse

`get_resolved` calling `regenerate` calling itself for the children is a stack
of frames; `phase` is where in `regenerate` a frame is. An exception empties
the stack and leaves everything else as it is. The dependency kinds are one
sequence: the code does tell them apart, under shifted names
(`DependencyContainer` in `portage/common.py:28-37` is indexed in the order in which
`regenerate` walks the kinds), and nothing reads the difference. Atoms carry
the set of ebuilds they admit, versions being the matter of `Version`.
`metadata` is the set of ebuilds whose file was read: before that slot and
flags are unknown, and that matters. The hooks of an
ebuild's REQUIRED_USE are a sequence, because the first that raises decides the
exception. An atom admits ebuilds of its own package only; `exact` atoms (`=`
and `~`) look at the newest ebuild alone, which is what `match_atom` comes to
for them (`package.c:122`).

`RequiredUse` has the parser's chains, in which a group in parentheses is gone,
and what evaluating a chain says: fine, `RequiredUseException`, or the
`KeyError` of `get_use` for a flag that is neither declared nor set. `Satisfied`
is what the text means, and `Kept` says of which texts the parser keeps it.

## 3. The runs

| Run | Instance | States | What it shows |
|---|---|---|---|
| `tcp_safety` | 2 workers, 2 connections, 2 starts | 307 000 | safety, action properties, refinement of `RequestService` |
| `tcp_live` | 1 worker, 2 connections, 2 starts, fair | 138 000 | served while running, also after a restart; stop returns once the workers are joined; a stop that does not get the workers out hangs for good in one of two states |
| `tcp_stop` | 1 worker, no client, fair | violation | stop need not return |
| `containers` | 3 objects, 2 of them equal to the sets; 3 cells; 3 keys, 2 with one hash; 4 programs | 231 000 | pointers, counts through all containers, set algebra, refinement of `Deque`, `ItemSequence`, `Mapping` |
| `registry` | 1 Portage, 3 packages, 1 atom, keys with hashes 7, 7, 12, table of 5 | 80 000 | lookups, counts, assertions, refinement of `Dictionary` across an enlargement |
| `metadata` | 5 files, 2 attempts, 3 more texts, 6 nodes, 2 loops (symmetric), 5 flags, 3 with one hash, table of 2 | 597 000 | counts, loops, an ebuild holds its whole file, ids given stay good, refinement of `Dictionary` |
| `ebuilds` | 2 packages, 3 ebuilds of one key, 5 versions, 9 atoms of that key and 2 of another | 84 000 | lists, order, matching by both matchers, counts |
| `ebuilds_match` | 2 packages, 2 ebuilds | violation | `=` and `~` miss a match behind a newer ebuild |
| `resolver` | every repository of four families (below), 3 requests | 278 000 | termination, completeness, REQUIRED_USE, settled flags |
| `resolver_dropped` | the same | violation | a dependency is dropped |
| `exchange` | messages of 0, 1, 3 and 4 units, sockets of 2 | 755 | data of one piece arrives; both sides end, or hang in one of two ways |
| `exchange_free` | the same | violation | a double free |

Why the bounds are enough to be interesting. Two workers compete for one
request and one may sleep while the other works; two connections give the queue
an order; two starts reach every state a stopped server leaves behind. Three
cells and three objects make `malloc` hand out a cell that a stale `tail` still
points at. The vector grows once and the map twice, to
where its `n` has counted the items again; sets of two or three elements differ
in size both ways. The metadata files are: a good one with two SLOT, KEYWORDS
and IUSE lines; one with DEPEND twice; one with a broken RDEPEND; one with
REQUIRED_USE twice, the first with a group in parentheses; one with a broken
REQUIRED_USE. Two loops are one over a list and one over the children of its
item. The table of five is enlarged while ids are out (that of two for the flags
once empty and once with ids out), with keys that collide and keys that only share a bucket before the
enlargement. Three ebuilds are what it takes for an insertion at the front, in
the middle and at the end. The resolver's repositories are: all graphs on three
packages with up to two dependencies for the first (cycles, duplicates, one
that no ebuild meets); a package with ebuilds in two slots, metadata read or
not; use dependencies with every option from two packages on a third with a
REQUIRED_USE; every REQUIRED_USE operator beside and inside another, with a group in
parentheses at either end of a list, and with a flag the ebuild does not have. Of
the package with three ebuilds an atom admits all, those on one side of a version,
or exactly one. Four units are what it takes for the client to be stuck: the
worker reads one of them and the socket takes two. Three requests allow a failed one, a retry and a clear. `MaxSelected` is never
reached (deadlock is checked in this run: a reached bound would stop it).

Deadlock is not checked where the system may stop: a server that is freed,
connections that are all done, tables that are full of the objects there are.
Where it matters, liveness says what must still happen.

Bounds by name: `MaxStarts` calls of start, `Backlog` of `listen`, `MaxHeld`
references the program keeps (`MaxCount` in `Containers`), `MaxMade` expressions
Python makes, `MaxTries` attempts to read a file, `MaxLength` items in a vector,
`MaxBuckets` of a map, `MaxSelected` objects the resolver
makes, `MaxRequests`, `Capacity` units in a socket, `Keys` and `Versions` of ebuilds.

### Fairness

`TCPServer`: strong fairness for each worker's steps, for the accepting thread
and for the rest of a method already called, since a thread that keeps asking
for the mutex or the GIL gets it in the end; strong fairness for the return of
a callback, which otherwise may let go of the GIL for ever; weak fairness for a
client's write after it connected. The last one assumes slow clients away: the
code has no timeout, and a client that never writes does hold its worker.
No fairness for method calls, new connections, spurious wakeups or a change of
the running Python thread. `Exchange`: weak fairness of each side, which has
nothing else to do. `Resolver`: weak fairness of its only thread.

### What the properties are conditional on

Some properties hold under a condition that the code does not establish; it is
part of the formula, and here is why.

- `CachedIdsResolve`: an atom made before its package caches the id the key
  would get (`atom.c:406`); a colliding key added first takes that id, and
  `match_atom` then answers with that package, for neither it nor the package
  compares keys. So: the key was known, or no other key has its hash.
- `registry` has one Portage object. With two, `get_package` answers from the
  global one whatever object it is called on (`portage.c:51`, documented as "in
  this instance"), and `initialize_repository` uses ids of the global table in its
  own, so lookups go wrong.
- `NewestFirst`, `OpenMatchIsNewest`: lists whose versions are compared without a
  circle. The letter rule (`atom.c:446`) decides before the numbers: 7b < 1.05
  < 6 < 7b. `CompareConsistent` leaves out versions with a letter before another
  part: 2a_p1 is less than itself. Also seen: 1_alpha1 is later than 1, having
  more parts, and numbers are cut to 32 bits (`atom.c:460`).
- `LoopSeesChain`: one loop at a time over one expression. `__iter__` returns the
  object itself with its place reset (`dependency.c:87`), so a second loop over
  the same expression inside the first would disturb it. The resolver loops over
  an ebuild's expressions only while it regenerates it, and `NoReentry` of
  `Resolver` is that it never does so twice at a time.
- `MetadataWhole` compares expressions with texts without groups in parentheses,
  of which the REQUIRED_USE parser loses a part (`requireduse.y:84`).
- `MatchersAgree`: an ebuild in the package of its own key, which is how
  `initialize_repository` adds it; and as for `CompareConsistent` no version with
  a letter before another part.
- `CountsExact`: `set_free` and `set_collapse` are not called; both go through a
  pointer that `vector_new` never sets.
- `ResolutionComplete` (its second part), `Terminates`: no package has a choice of ebuilds. With a
  choice, `change_within_slot` iterates over a package whose iterator yields the
  same ebuild for ever (`resolve.py:423`), ignores the atom that asks
  (`resolve.py:426`) and the slot, and `match_atom` may return nothing.
- `RequiredUseHolds`, `RefusedRightly`: a group in parentheses keeps its meaning only
  if it comes down to one node, or ends a list of which everything has to hold
  (`Kept`). Anywhere else the parser drops what is behind its first node
  (`requireduse.y:76`) or counts its members one by one: `( f g ) f` asks for `f`
  alone, and `?? ( c ( a b ) )` refuses `a` with `b`. Without this condition both
  properties are violated. Also, a condition whose flag is off counts as
  unmet (`resolve.py:254` repeats the test of line 237); and
  `RequiredUseHolds` is about sessions without an exception, since one leaves the refused ebuild in the session
  (`resolve.py:407`) and the changed flag set (`resolve.py:564`).
- `DataIntact`: data that comes in one piece.
- `ExchangeEnds`: of data one unit at least is read and nobody reads on. So if what
  the worker left of a message is more than a socket holds, and the answer is
  too, client and worker both write for ever (`tcp_client.c:53`,
  `tcp_server.c:148-154`); and if what the client left of an answer is more than a
  socket holds, the worker writes for ever to a client that has returned and
  not closed its socket. Both happen in the run's instance; the property is that
  they need messages that long, and that nothing else hangs.
- `StopHangsOnlyOn`: a stop gets the workers out, or from some moment on, for ever,
  one of them sleeps on the condition while stop joins (it read `keep_alive` too
  early), or needs the GIL that stop holds. The state has to persist: to have been
  in it for a moment is not enough.

Other divergences met while modelling, with no run of their own:
a metadata file that fails leaves the fields it had set, so every later attempt
fails as well, at the first DEPEND line (`ebuild.c:219`); a sub slot survives a
later SLOT line without one (`ebuild.c:249`); a second REQUIRED_USE line overwrites
the first without releasing it (`ebuild.c:253`); `depend.y` has no `%destructor` for
its expressions (`depend.y:63`), so a broken text leaks them; `Dependency(text)`
fails without setting an exception (`dependency.c:44`); queue_set's comparison
says non-zero for equal (`queue_set.c:35`), set's says zero (`set.c:35`), though both have
the same type; `VECTOR_UNORDERED` is zero, so the test for it never holds
(`vector.c:84`); `map_insert` leaks the object it replaces (`map.c:164`);
`map_realloc` counts the items again and `map_remove` never lowers `n`, so a
map grows more often than it need. Then: stop joins the
workers with the GIL held, so a worker that needs it hangs with stop
(`tcp_server.c:322`; `StopHangsOnlyOn` names it); a connection accepted after the
workers left stays queued and its client blocked until the next start
(`tcp_server.c:326`); an ebuild keeps a pointer to a freed package
(`package.c:97`); blocks are recorded and never read (`resolve.py:659`); use
conditions are never resolved (`resolve.py:102`); a flag asked for that is off is
refused at once although it was just scheduled (`resolve.py:540`); the parser
drops all but the first of a group in parentheses that is followed by something
(`requireduse.y:76`); the buffers of `response`, of the client's message, and the
client's socket are never released; empty data arrives as no data.

Each property of a passing run has a mutant in `PROJECT.json`: a plausible slip
in one definition (marked "A slip" in the modules) that breaks the property.

## 4. The proofs

| Module | Theorems | For every |
|---|---|---|
| `TCPServerProofs` | `Invariance`, `TypeCorrect`, `MutexSafe`, `GilSafe`, `NoRequestLostOrShared`, `NoWakeupLost`, `ClosedIsAnswered`, `StopIsQuiet`, `RepliesOnce`, `Refinement` | finite set of workers, set of connections, backlog, number of starts, kind of socket |
| `ExchangeProofs` | `ExchangeHolds`, `DataArrives` | messages and answers of any length, capacity of the socket |
| `ContainersProofs` | `ListSound`, `IsDeque`, `AlgebraHolds`, `IsSequence`, `IsMapping`, `CountsHold` | set of objects, finite memory of cells, comparison, room of a new vector, keys, hash function, size and threshold of a new map, program |
| `MetadataProofs` (with the lemmas of `LUTProofs`), the flags alone | `Invariance`, `IdsResolve`, `StaysSound`, `Refinement` | hash function, table of at least two buckets, at most 2^16 flags |
| `MetadataProofs`, expressions and ebuilds | `CoreInvariance`, `CountsHold`, `ConditionsResolve`, `ConditionsLeadOn`, `FlagsRefine`, `OrderInvariance`, `LoopsSeeChains`, `WholeFileRead` | the same, finite memory of nodes, loops, texts, metadata files, attempts |
| `RegistryProofs` (the same) | `CountHolds`, `RefsAlwaysExact`, `AssertsSafe`; with one Portage object `NamesHold`, `PackageIdsLeadBack`, `AtomsResolve`, `LoadsFind`, `IsDictionary` | hash function, table of at least two buckets, packages, atoms and keys |
| `PackageEbuildsProofs` | `EbuildsHold`, `CountsAreRefs`, `OwnLists`, `ListsSorted`, `NewestMatches`, `MatchersAlwaysAgree`, `ComparisonsTurn` | packages, ebuilds, versions, atoms, width of the integers |
| `ResolverProofs` | `ResolverHolds`, `NeverReentered`, `ResolutionsComplete`, `FlagsStaySettled` | repository, listing, use requirements, REQUIRED_USE (with any verdict), requests |

Each module proves one inductive invariant (two in `RegistryProofs`, four in `MetadataProofs`, one for each
container and one for all of them in `ContainersProofs`), with one
lemma for each of its parts or actions, and the properties follow from it.

**The server.** `OneHolder`, `NoLostRequest` and the others are not inductive:
that a worker may pop needs to know that the queue is not empty; that stop
leaves nothing needs to know which threads exist at each stage of it; that a
reply is written once needs to know which connections may have one. `IInv` adds
these as `HandsInv`, `PhaseInv`, `BacklogInv`, `ReplyInv`. `NoLostRequest`
is the subtle one: a worker sleeps only after it saw the queue empty while it
held the mutex, and whoever adds holds it too, so every sleeper dates from
before the addition, and the broadcast (outside the mutex) wakes them all.
`Refinement` maps the queue to the line and the requests in the workers' hands
to the service, with the number of workers as its capacity, and every step to a
step of `RequestService` or a stutter.

**The exchange.** `DataIntact` speaks of the two ends; in between it needs where
every unit is. `MessageCarried` and `ReplyCarried` say that what one side has
read of a frame, what is in flight and what is still to be written make up the
frame, for messages whose data is one unit. With more, a read may take a part and nobody
reads on, so the hypothesis is the property's own. `Sides` relates the two
program counters: the server has nothing to say before the client is past
`connect`, the client reads nothing before it is answered.

**The list.** `PointersSound` follows from the pointers alone, which are
inductive as they stand once cells are numbered by their place: a dangling
`tail` is never followed because append and prepend look at `head` first.
For `IsDeque` the walk along `next` (a recursive function) is shown by
induction on its length to be the items in order; an append writes to the end
of the walk, a prepend before it, a pop takes its first cell.

**The vector and the sets.** `ArraysSound` says that `n` is always
below the room `s`: `vector_add` enlarges at `n + 1 = s` only, so a vector that once
filled its room would write past it from then on. That is what
`ImplementsSequence` needs. A set is a vector of objects, no two of which
look equal. Copy, union and intersection are folds of `set_add` over the elements.
A fold is a recursive function over the places left; it is first shown to exist, then
to go through one value per element, each made from the one before, and what
holds of it follows by induction along these values. `AlgebraHolds` comes of that, and since the results
are sets again the invariant is inductive.

**The map.** `MapSound`: every item is in the bucket of its key, no key is in two
items, and `n` is not less than the number of items. With the first two, what
`map_get` finds is a binding, insertion and removal change it at one key, and an
enlargement enters the same items anew, in any table size, so the binding stays:
`IsMapping`. The last is what is left of a counter that
enlargements count up and removals do not count down, and it is just enough:
`map_all_keys` stops at `n` keys, and so never before it has all of them.

**All counts.** `CountsSound` is the equation of `CountsExact` together with what
keeps it: a step changes each of the six terms of an object's count by what it
holds more or less after it. For that the terms must be what the operations
make them: a pop takes one cell of the list (`PointersSound`), adding to a vector fills one
slot, a set_add of something equal to an element adds none (`ArraysSound`), an insertion into a
map that knows the key exchanges one item for another and otherwise
adds one, whether the table grows or not (`MapSound`). So the equation is inductive together with these three. An
object that is handed out is a new one, whose terms are all zero because nothing
refers to what is not in use.

**The table.** `LUTProofs` has the lemmas about the operators: `lut_get_id` of a
new key returns a fresh id (the overlaps of a hash are those below the number of
its keys), `lut_realloc` moves every node because the counter is right
(`AllMoved`), and an insertion keeps all of it. `IInv` of `UseFlags` is the type,
the soundness of the table and that an id given out has an entry under its name.
For it to stay put the table must be enlarged before it is full: `ReallocAt`
grows with the size from two buckets on, which is the assumption on
`InitialSize`.

**Expressions and their counts.** `NodesCounted` says what a count is, and not why
a step may rely on it. `Core` adds that a free cell is blank, so that a new node
comes without pointers; that the items on a parser's stack and all that hangs from
them are young, counted once and pointed at by nothing older (`Parsing`), so that linking
them, copying the root into an object and freeing the rest disturbs nobody; that a
condition is an id that was given out (`UsesGiven`); and that the uncounted place of a loop
lies ahead of the node it started from (`ItAhead`), so it lives as long as that node does.
The hard step is a release. The rounds of `Freed` grow and there are
only so many nodes, so they come to rest (`Settles`, `FreedFixed`); a node that is not in the
result keeps a reference from outside it and one that is has none, and what the counts lose is what the
freed nodes held (`Dropped`). The other steps add, remove or exchange single
references, and sums over finite sets of pointers follow them (`LinksAdd`,
`LinksFewer`, `AmongReplaced`). `FlagsUsed`, a lemma, says that all of this uses the table of flags only as
`UseFlags` allows, so its theorems carry over: with `UsesGiven` the condition of a node leads
to the flag it was made for, in every state (`ConditionsResolve`), and to the same flag before
and after every step (`ConditionsLeadOn`).

**Loops.** For `LoopSeesChain` lists have to be lists. `Ordered`: no set of nodes
leads only into itself (`Acyclic`), what a loop has seen are the nodes from its head
on, each linked to the next, and its place comes after them (`Placed`), and each loop has a head of its own
(`OwnHead`). Linking items changes the pointers of young nodes only, from each
item to the one after it (`Relinked`), and a release takes no node of a list
whose head is held. Without circles a list ends within as many steps as there are
nodes, so `Followers` is the whole list (`ChainFits`, `FollowersChain`).

**What is read.** `MetadataWhole` speaks of an ebuild that is done, `WholeInv` of every
line on the way. `Told`: after some lines, the fields, IUSE flags and keywords are what
these lines say, whatever earlier attempts left in the `iuse` and `keywords` tables.
`StackTold`: the items on a parser's stack are the texts of consecutive pieces of the operations
reduced so far. When items are linked their texts are joined (`GroupText`), so what
is stored at the end of a line is its text (`StoredIsText`). Two things could change a text that
is already stored. Another step could change a node of it, or free one; `TextStays` shows that a
node's text is the same as long as neither the node nor anything it leads to is changed, going
from the leaves up, which is possible because nodes do not go round
(`Acyclic`). And the id of a condition could come to mean another flag, which `FlagsStay` excludes.
The text of a node is given by a recursion on the number of rounds; with `Acyclic` the rounds
come to rest within as many as there are nodes, and from there on the text of a node is made of those
it leads to (`Rule`), which is all the proofs use.

**The registry.** `CountInv` has the types, the exact counts, the soundness of
every table, and that nothing refers to what is not allocated. The references
to a package are those of all tables together, so a table that is dropped or a
package that is replaced by one of the same key is a sum with one term less or
one exchanged (`Places`). It holds for any number of `Portage` objects. `NameInv`
says that a node has the key and the id of its package, and that an atom has an
id of its key; this is false with two `Portage` objects (section 3), so its theorems
are under `OnePortage`, and the id of an atom made before its package is only
known to be good if no other key has its hash.

**Ebuilds.** A list that `older` makes may be of any length, is changed in the
middle, and is cut in pieces when a reference to the middle outlives the head.
Instead of following it, `EbuildsInv` says that the ebuilds can be ranked: there
is a numbering in which `older` leads down (no circle) and which, within a package
whose versions compare without a circle, agrees with the versions (sorted). A
new ebuild is ranked between its neighbours by doubling the numbers. At most one
pointer leads to an ebuild, and its count is that pointer and the program's
references; a release frees a prefix of the list it starts at, up to
the first ebuild that someone else holds. Then `match_atom`'s walk stops at the
newest match. `MatchersAgree` and `CompareConsistent` are about
`atom_version_compare` called the other way round, the former with the comparison of keys that only
`Atom.matches` makes. They are proved under
`NumbersFit`, that the numbers compared, filled with zeros to the same width, are
below 2^31: two numbers that differ by just 2^31 come out negative both ways
(`atom.c:460`), which `CompareConsistent` leaves aside in its instance because
none of its versions does that.

**The resolver.** `Nested`: the stack is the program's own call, then
`get_resolved` of ebuilds that are all different and in the session, each waiting
for the one above it. Together with `Progress` (outside an exception, an ebuild
of the session is in a call or resolved to its answers) it gives `NoReentry` and
the first part of `ResolutionComplete`. For the second, `AllAnswered` follows an expression
from the queue of `regenerate` to the ebuild that was selected for it, where no
package has a choice. An exception empties the stack and leaves ebuilds in the
session that are neither; `failed` is the price. `FlagsSettled` is an action
property, proved action by action: values change in `flush_use` only, which comes
before the ebuild is resolved; later steps schedule a value or add a flag that the
ebuild does not have; and reading metadata later changes no default that was known.

**Assumptions** are the named `ASSUME`s of the modules: threads are distinct,
workers and cells finitely many, `NULL` is none of the objects, hashes and bounds are
numbers, cells of nodes are numbers of which there are finitely many, a text takes no
more items than are on the parser's stack (`IsText`, which is what a derivation of its
grammar is), a metadata file is a sequence of lines, a new vector has room (32 slots in `vector_new`), a new map buckets (its
user's `size`, by which `map_get` divides), a message is a value with data or
without, a listing has ebuilds, an
atom names a key. TLC evaluates them in the runs. Beyond them, three
hypotheses: `OnePortage`; `NumbersFit` with versions that do not go on
after a letter; and `NullIsNoMap`, that `NULL` is the address of no map, which is
not an `ASSUME` because TLC cannot enumerate the maps. All hold in the runs'
instances.

**Only model-checked.** Liveness and whatever depends on fairness (`Terminates`,
`ExchangeEnds`, the server's), which the prover does not reach.
`RequiredUseHolds` and `RefusedRightly`: `RequiredUse` is
recursive, and `ResolverProofs` takes its verdict as any operator.
What is proved by
induction (ranks, walks, lists of a given length) goes through least numbers
of sets; theorems that take a predicate as a parameter are out of reach.

## 5. Not modelled

The lexers and the text of atoms (characters in, tokens, names and versions
out; their results are the inputs here). Of `hacksaw`: `small_map.c`, which reads
a reference count nobody initialised and frees its keys twice, and
`string_vector.c` but for the listing of keys: `string_vector_set` doubles its
room while it is large enough, and `string_vector_remove` leaves `n`. Nothing in
the repository calls them, and what they do is undefined, so there is no
behaviour to be faithful to. Logging; packaging, build files and tests. Reading
the lines of a metadata file assumes that the file can be opened and closed.

## 6. Plan

In order of importance, and as far as it is done:

1. Server, abstract service, refinement, proofs: done. Left: the callback's
   references through `set_request_callback`; second starts and stops.
2. Lookup table, flags, registry, dictionary, proofs: done.
3. Containers, abstract list, sequence and mapping, proofs: done.
4. Packages and versions, proofs: done. Left: the text of versions.
5. Expressions and metadata, proofs of counts, loops, conditions and of what is
   read: done. Left: texts with groups in parentheses, of which the grammar keeps the first
   item only.
6. Resolver and REQUIRED_USE, proofs of the former: done. Left: `RequiredUse`
   without recursion and `RequiredUseHolds` as a theorem; the kinds of
   dependencies kept apart.
7. Exchange, proofs: done for one connection. Left: the composition of
   `Exchange` with `TCPServer` in place of its atomic read and reply.
8. Registry with several Portage objects: ids of one table in another.
