------------------------------- MODULE Metadata -------------------------------
(***************************************************************************)
(* Reading the metadata file of an ebuild (ebuild_metadata_init in         *)
(* cportage/ebuild.c), as SelectedEbuild.regenerate asks for it: line by   *)
(* line, calling the parsers of Expressions for the dependencies.  A line  *)
(* is a name and a value: a text, a slot, or a sequence of words.          *)
(***************************************************************************)
EXTENDS Expressions

CONSTANTS
    Files,    \* the files an ebuild may have: sequences of lines
    Arch,     \* the architectures of keyword_links
    MaxTries  \* bound: attempts to read the file

DependName == {"DEPEND", "RDEPEND", "PDEPEND", "BDEPEND"}
TextName == DependName \cup {"REQUIRED_USE"}

\* A file's lines are a sequence, as are the words of a line that has any.
ASSUME FilesAssumption ==
    \A f \in Files :
        /\ f \in Seq(Range(f))
        /\ \A i \in DOMAIN f :
              /\ f[i].name \in TextName => IsText(f[i].value)
              /\ f[i].name \in {"IUSE", "KEYWORDS"} => f[i].value \in Seq(Range(f[i].value))

VARIABLES
    file,
    field,          \* the expressions of the ebuild, by name
    slot,           \* [slot, sub_slot]
    iuse, keywords, \* flag -> state, architecture -> keyword
    metadata_init,
    reading,        \* the line being read, 0 when not reading
    error,
    tries, gone     \* the ebuild was deallocated

ebuild == <<file, field, slot, iuse, keywords, metadata_init, reading, error, tries, gone>>
all == <<vars, exprs, ebuild>>

MetadataInit ==
    /\ Init /\ NoNodes
    /\ file \in Files
    /\ field = [name \in TextName |-> NULL]
    /\ slot = [slot |-> NULL, sub_slot |-> NULL]
    /\ iuse = <<>> /\ keywords = [a \in Arch |-> "NONE"]
    /\ metadata_init = FALSE /\ reading = 0 /\ error = 0 /\ tries = 0 /\ gone = FALSE

\* initialize_metadata, of an ebuild that was not read, or not successfully
StartReading ==
    /\ job = NULL /\ ~gone /\ reading = 0 /\ ~metadata_init /\ tries < MaxTries
    /\ reading' = 1 /\ tries' = tries + 1 /\ error' = 0
    /\ keywords' = [a \in Arch |-> "NONE"]
    /\ UNCHANGED <<vars, exprs, file, field, slot, iuse, metadata_init, gone>>

\* The words of a KEYWORDS line, each for one architecture or for all
Keywords(kw, words) ==
    FoldLeft(LAMBDA k, w : [a \in Arch |-> IF w.arch \in {a, "*"} THEN w.keyword ELSE k[a]],
             kw, words)
\* The words of an IUSE line
Iuse(flags, words) ==
    FoldLeft(LAMBDA f, w : [n \in (DOMAIN f) \cup {w.flag} |-> IF n = w.flag THEN w.state ELSE f[n]],
             flags, words)
\* A sub slot that an earlier line set stays when the new one has none.
Slot(old, value) ==
    [slot |-> value.slot,
     sub_slot |-> IF value.sub_slot = NULL THEN old.sub_slot ELSE value.sub_slot]

Line == file[reading]
ReadingLine == job = NULL /\ reading \in 1 .. Len(file)

\* The parser is called for a text, unless the dependency was set before:
\* that is an error, but reading goes on.
ReadText ==
    /\ ReadingLine /\ Line.name \in TextName
    /\ IF Line.name \in DependName /\ field[Line.name] # NULL
       THEN /\ error' = 1 /\ reading' = reading + 1
            /\ UNCHANGED job
       ELSE /\ job' = Parser(Line.value, NULL)
            /\ UNCHANGED <<error, reading>>
    /\ UNCHANGED <<vars, heap, held, loops, made, file, field, slot, iuse, keywords,
                   metadata_init, tries, gone>>

ReadOther ==
    /\ ReadingLine /\ Line.name \notin TextName
    /\ reading' = reading + 1
    /\ slot' = IF Line.name = "SLOT" THEN Slot(slot, Line.value) ELSE slot
    /\ iuse' = IF Line.name = "IUSE" THEN Iuse(iuse, Line.value) ELSE iuse
    /\ keywords' = IF Line.name = "KEYWORDS" THEN Keywords(keywords, Line.value) ELSE keywords
    /\ UNCHANGED <<vars, exprs, file, field, metadata_init, error, tries, gone>>

\* A slip: a dependency that cannot be parsed is passed over.
StoreTextUnchecked ==
    /\ AtEnd /\ job.self = NULL
    /\ HeapIs(NodesLeft, Drop(count, Discarded))
    /\ field' = [field EXCEPT ![Line.name] = Root]
    /\ lost' = LostLeft \cup ({field[Line.name]} \ {NULL})
    /\ error' = error
    /\ reading' = reading + 1
    /\ job' = NULL
    /\ UNCHANGED <<vars, held, loops, made, file, slot, iuse, keywords, metadata_init, tries, gone>>
\* What the parser returned is stored.  A dependency that cannot be parsed is
\* an error, but reading goes on; a REQUIRED_USE that cannot ends it, and one
\* that was set before is overwritten without being released.
StoreText ==
    /\ AtEnd /\ job.self = NULL
    /\ HeapIs(NodesLeft, Drop(count, Discarded))
    /\ field' = [field EXCEPT ![Line.name] = Root]
    /\ lost' = LostLeft \cup ({field[Line.name]} \ {NULL})
    /\ error' = IF Root # NULL THEN error ELSE IF Line.name \in DependName THEN 2 ELSE 3
    /\ reading' = IF Root = NULL /\ Line.name = "REQUIRED_USE" THEN Len(file) + 1 ELSE reading + 1
    /\ job' = NULL
    /\ UNCHANGED <<vars, held, loops, made, file, slot, iuse, keywords, metadata_init, tries, gone>>

EndReading ==
    /\ job = NULL /\ reading > Len(file)
    /\ reading' = 0
    /\ metadata_init' = (metadata_init \/ error = 0)
    /\ UNCHANGED <<vars, exprs, file, field, slot, iuse, keywords, error, tries, gone>>

\* Python reads a member of the ebuild.
TakeField(name) ==
    /\ ~gone /\ field[name] # NULL
    /\ Takes(field[name])
    /\ count' = [count EXCEPT ![field[name]] = @ + 1]
    /\ Idle /\ UNCHANGED <<node, loops, ebuild>>

\* PyEbuild_dealloc, as far as expressions go
Dealloc ==
    /\ ~gone /\ gone' = TRUE
    /\ HeapIs(node, Drop(count, field))
    /\ field' = [name \in TextName |-> NULL]
    /\ Idle /\ UNCHANGED <<held, loops, file, slot, iuse, keywords, metadata_init, reading, error, tries>>

MetadataNext ==
    \/ reading = 0 /\ Python /\ UNCHANGED ebuild
    \/ reading = 0 /\ (Dealloc \/ \E name \in TextName : TakeField(name))
    \/ (Reduce \/ Constructed) /\ UNCHANGED ebuild
    \/ StartReading \/ ReadText \/ ReadOther \/ StoreText \/ EndReading

MetadataSpec == MetadataInit /\ [][MetadataNext]_all

-----------------------------------------------------------------------------
\* Every reference to a node is counted once, through building, overwriting,
\* looping and deallocation; a node is in memory exactly as long as somebody
\* refers to it, or for ever if a parser or REQUIRED_USE line lost it.
NodesCounted ==
    /\ TypeOK /\ NodesTyped
    /\ \A c \in Cell :
          count[c] = Referring(c) + Among(field, c)

\* The text of an expression in memory; conditions are asked for by their ids.
OperationOf(nd) ==
    [do |-> "node", take |-> Len(Followers(nd.children)),
     flag |-> IF nd.use = NULL THEN NULL ELSE Get(global_flags, nd.use)]
Unparsed(c) ==
    LET text[n \in Nat] ==
            IF n = 0 THEN [d \in Maybe(Cell) |-> <<>>]
            ELSE LET inner == text[n - 1]
                 IN  [d \in Maybe(Cell) |->
                         IF d = NULL THEN <<>>
                         ELSE inner[node[d].children] \o <<OperationOf(node[d])>>
                              \o inner[node[d].next]]
    IN  text[Cardinality(Live)][c]
Plain(text) == \A i \in DOMAIN text.ops : text.ops[i].do = "node"

\* The lines with this name, the words in them, by line and place, and the last
LinesOf(name) == {i \in DOMAIN file : file[i].name = name}
LastOf(name) == file[CHOOSE i \in LinesOf(name) : \A j \in LinesOf(name) : j <= i].value
WordsOf(name) == UNION {{i} \X DOMAIN file[i].value : i \in LinesOf(name)}
Word(p) == file[p[1]].value[p[2]]
LastWord(P) ==
    Word(CHOOSE p \in P : \A q \in P : q[1] < p[1] \/ (q[1] = p[1] /\ q[2] <= p[2]))

\* An ebuild that says it was read holds what its whole file says: every line
\* was legal, each expression in memory is the text of the last line of its
\* name, whatever flags were interned since, and of slots, flags and keywords the
\* last word counts.  One broken or doubled line anywhere keeps the ebuild from
\* being used, at every attempt.
TextWhole(name) ==
    IF LinesOf(name) = {} THEN field[name] = NULL
    ELSE /\ LastOf(name).ok /\ field[name] # NULL
         /\ Plain(LastOf(name)) => Unparsed(field[name]) = LastOf(name).ops
KeywordWhole(a) ==
    LET meant == {p \in WordsOf("KEYWORDS") : Word(p).arch \in {a, "*"}}
    IN  keywords[a] = IF meant = {} THEN "NONE" ELSE LastWord(meant).keyword
IuseWhole ==
    /\ DOMAIN iuse = {Word(p).flag : p \in WordsOf("IUSE")}
    /\ \A f \in DOMAIN iuse : iuse[f] = LastWord({p \in WordsOf("IUSE") : Word(p).flag = f}).state
MetadataWhole ==
    metadata_init /\ ~gone =>
    /\ \A name \in DependName : \A i, j \in LinesOf(name) : i = j
    /\ \A name \in TextName : TextWhole(name)
    /\ LinesOf("SLOT") # {} => slot.slot = LastOf("SLOT").slot
    /\ \A a \in Arch : KeywordWhole(a)
    /\ IuseWhole
==============================================================================
