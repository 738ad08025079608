------------------------------- MODULE Plugin -------------------------------
(***************************************************************************)
(* One run of dlvhex with the plugin: the command line (RacerInterface.cpp)*)
(* the queries of the program's dl-atoms, from their text to their answers *)
(* (RacerExtAtom.tcc, QueryCtx.cpp, QueryDirector.cpp), and the end.       *)
(*                                                                         *)
(* dlvhex is external: it hands over the command line, or asks for help,   *)
(* then evaluates dl-atoms with any interpretation, at most MaxAsks times, *)
(* and ends.  RACER answers every command; what happens when it does not,  *)
(* or a document changes while it is used, is in RacerSession and TCPStream*)
(***************************************************************************)
EXTENDS QueryMeaning

CONSTANTS
  CommandLines,     \* sequences of arguments, which are sequences of tokens
  Queries,          \* written queries
  Interpretations,  \* for each query the interpretations it is evaluated with
  MaxAsks

\* tempnam does not run out of names, and takes none that is on the disk; the KB manager's
\* ABox has that of no document.
ASSUME TemporaryNames ==
  /\ MaxAsks \in Nat
  /\ \A used \in SUBSET TempNames :
       IsFiniteSet(used) /\ Cardinality(used) <= MaxAsks => used # TempNames
  /\ TempNames \cap DOMAIN Documents = {}
  /\ kbName \notin DOMAIN Documents

\* An atom has its four predicates; its text and its output list are lists, and no term is empty.
ASSUME WrittenQueries ==
  \A w \in Queries :
    /\ w.preds \in Seq(ToSet(w.preds)) /\ Len(w.preds) = 4
    /\ w.text \in Seq(ToSet(w.text)) /\ w.pattern \in Seq(ToSet(w.pattern))
    /\ \A k \in DOMAIN w.pattern : w.pattern[k] # <<>>

\* No namespace or variable is written with a sign, a bracket or a separator.
ASSUME TokensApart ==
  (Namespaces \cup VarNames) \cap Punctuation = {} /\ Namespaces \cap VarNames = {}

\* Interpretations are finite and ground.
ASSUME GroundInterpretations ==
  \A w \in Queries : \A inter \in Interpretations[w] :
    /\ IsFiniteSet(inter)
    /\ \A a \in inter :
         /\ a.args \in Seq(ToSet(a.args)) /\ a.args # <<>>
         /\ \A k \in DOMAIN a.args : isName(a.args[k]) /\ ~isVariable(a.args[k])

\* Documents are finite; a namespace is a URI, and with one subjects are URIs too.
ASSUME DocumentsAreFinite ==
  \A u \in DOMAIN Documents :
    LET doc == Documents[u]
    IN  /\ IsFiniteSet(doc.triples) /\ IsFiniteSet(doc.more)
        /\ doc.xmlns \in Seq({<<n>> : n \in Namespaces})
        /\ \A t \in doc.triples :
             /\ t.s \in Seq(ToSet(t.s)) /\ t.s # <<>>
             /\ namespaceHandler(doc) # NoNamespace => Head(t.s) \in Namespaces
        /\ \A l \in doc.more :
             /\ l.neg \in BOOLEAN /\ l = Fact(l.neg, l.name, l.args) /\ l.args \in Seq(ToSet(l.args))

VARIABLES
  phase,        \* "options", "queries", "ending", "exited" or "crashed"
  given,        \* the command line
  argv,         \* its arguments from the iterator on
  kept,         \* and those before it that were not erased
  plugin,       \* the members of RacerInterface and the Registry that options change
  ontomap,      \* the ontologies by their absolute URIs
  files,        \* the temporary files on the disk
  universe,     \* the ABoxes that were parsed: the individuals by the ontology's URI
  racer,
  open,         \* the stream was connected
  half,         \* the output buffer holds half a command
  asking,       \* the query under way
  todo,         \* the directors that have not had their turn
  answer,       \* the object Answer of the query
  contexts,     \* the contexts of the cache
  returned,     \* the last query that was answered, failed or brought the process down
  leaked,       \* history: the files of downloads that failed
  asks

commandLine == <<given, argv, kept, plugin>>
ontologies == <<ontomap, files, universe, leaked>>
session == <<racer, open, half>>
query == <<asking, todo, answer, asks>>
vars == <<phase, commandLine, ontologies, session, query, contexts, returned>>

Contexts == INSTANCE CacheContexts

NoQuery == [kind |-> "none"]
Failed(w, inter) == [kind |-> "error", query |-> w, inter |-> inter]
Aborted(w, inter) == [kind |-> "abort", query |-> w, inter |-> inter]
Returned(w, inter, value, tuples, from) ==
  [kind |-> "answer", query |-> w, inter |-> inter, value |-> value, tuples |-> tuples,
   from |-> from]

\* The debugging cache is the standard one, and prints what it finds.
CacheKinds == {"Cache", "DebugCache", "NullCache"}

\* Flags for the setup of RACER; UNA is set.
RegistryFlags == {"UNA"}

setFlags(members, flags) == [members EXCEPT !.flags = flags]

\* None is created at this commit.
createConverters == {}

\* The members that options change: a pointer to a converter is null unless it was created.
Members(m) ==
  /\ m.cache \in CacheKinds
  /\ m.kbManager # <<>> /\ Head(m.kbManager) = "RacerKBManager"
  /\ m.converters \subseteq {"dlconverter", "dfconverter"}
  /\ m.flags \subseteq RegistryFlags

Init ==
  /\ phase = "options"
  /\ given \in CommandLines /\ argv = given /\ kept = <<>>
  /\ plugin = [cache |-> "Cache", kbManager |-> RacerKBManager, converters |-> createConverters,
               flags |-> RegistryFlags]
  /\ ontomap = NoOntologies /\ files = NoFiles /\ universe = NoABoxes
  /\ leaked = {}
  /\ racer = FreshRacer /\ open = FALSE /\ half = FALSE
  /\ asking = NoQuery /\ todo = <<>> /\ answer = NoAnswer /\ asks = 0
  /\ contexts = {} /\ returned = NoQuery

-----------------------------------------------------------------------------
(* setOptions.  An option is found anywhere in an argument, in this order, and the *)
(* argument erased.                                                                *)

Options ==
  <<"--ontology=", "--kb-reload", "--dlsetup=", "--dlopt=", "--dldebug=", "--dftrans=", "--dfcq=">>

Found(arg) == {k \in DOMAIN Options : Options[k] \in ToSet(arg)}
OptionOf(arg) == IF Found(arg) = {} THEN "none" ELSE Options[Min(Found(arg))]
ValueOfOption(arg) == SubSeq(arg, Place(arg, OptionOf(arg)) + 1, Len(arg))

\* An argument is one word: an option and what stands behind it.
ASSUME ArgumentsAreWords ==
  \A line \in CommandLines :
    /\ line \in Seq(ToSet(line))
    /\ \A arg \in ToSet(line) :
         /\ \A option \in {"--dlopt=", "--dldebug="} :
              option \in ToSet(arg) => OptionOf(arg) = option
         /\ OptionOf(arg) = "--dlopt=" =>
              ("-dlcache" \in ToSet(arg) <=> "-dlcache" \in ToSet(ValueOfOption(arg)))

\* The path of a URI is a text, wherever it is written.
ASSUME PathsAreTexts ==
  /\ \A w \in Queries : w.onto.path \in Seq(ToSet(w.onto.path))
  /\ \A line \in CommandLines : \A arg \in ToSet(line) :
       OptionOf(arg) = "--ontology=" =>
         Tail(ValueOfOption(arg)) \in Seq(ToSet(Tail(ValueOfOption(arg))))

Looks(option) == phase = "options" /\ argv # <<>> /\ OptionOf(Head(argv)) = option

Erase == argv' = Tail(argv) /\ UNCHANGED <<given, kept, ontologies, session, query, contexts, returned>>

\* Nothing is looked at when help is asked for.
Help ==
  /\ phase = "options" /\ argv = given /\ kept = <<>>
  /\ phase' = "ending"
  /\ UNCHANGED <<commandLine, ontologies, session, query, contexts, returned>>

Registers(made) ==
  /\ ontomap' = made.ontomap /\ files' = made.files
  /\ leaked' = leaked \cup (IF made.ok THEN {} ELSE DOMAIN made.files \ DOMAIN files)

\* A converter is used through its pointer, which is null for one that was not created.
IsNull(converter) == converter \notin plugin.converters

\* An unreachable or malformed document is a PluginError.  Otherwise the ontology is
\* handed to both converters.
SetOntology ==
  /\ Looks("--ontology=") /\ IsNull("dlconverter")
  /\ \E reachable \in BOOLEAN :
       LET value == ValueOfOption(Head(argv))
           made == createOntology(ontomap, files, URI(value[1], Tail(value)), reachable)
       IN  /\ Registers(made)
           /\ phase' = IF made.ok THEN "crashed" ELSE "ending"
  /\ UNCHANGED <<commandLine, universe, session, query, contexts, returned>>

SetKBReload ==
  /\ Looks("--kb-reload") /\ Erase
  /\ plugin' = [plugin EXCEPT !.kbManager = NullKBManager(@)]
  /\ UNCHANGED phase

SetDLSetup ==
  /\ Looks("--dlsetup=") /\ Erase
  /\ plugin' = IF "-una" \in ToSet(ValueOfOption(Head(argv)))
               THEN setFlags(plugin, plugin.flags \ {"UNA"}) ELSE plugin
  /\ UNCHANGED phase

\* Variant of SwitchedOff: the modifier has to be the first of the list.
SwitchedOffFirst(mods) == mods # <<>> /\ Head(mods) = "-dlcache"

\* The other modifier, -push, has no effect.
SwitchedOff(mods) == "-dlcache" \in ToSet(mods)

SetDLOpt ==
  /\ Looks("--dlopt=") /\ Erase
  /\ plugin' = IF SwitchedOff(ValueOfOption(Head(argv)))
               THEN [plugin EXCEPT !.cache = "NullCache"] ELSE plugin
  /\ UNCHANGED phase

\* What is no number leaves the level uninitialized.
Levels == 0..3
LevelsOf(value) == IF value # <<>> /\ value[1] \in {"0", "1", "2", "3"}
                   THEN {n \in Levels : ToString(n) = value[1]} ELSE Levels

SetDLDebug ==
  /\ Looks("--dldebug=") /\ Erase
  /\ \E level \in LevelsOf(ValueOfOption(Head(argv))) :
       plugin' = [plugin EXCEPT !.cache = IF level > 2 THEN "DebugCache" ELSE @]
  /\ UNCHANGED phase

SetDefaults ==
  /\ (Looks("--dftrans=") \/ Looks("--dfcq=")) /\ IsNull("dfconverter")
  /\ phase' = "crashed"
  /\ UNCHANGED <<commandLine, ontologies, session, query, contexts, returned>>

KeepArgument ==
  /\ Looks("none")
  /\ argv' = Tail(argv) /\ kept' = Append(kept, Head(argv))
  /\ UNCHANGED <<phase, given, plugin, ontologies, session, query, contexts, returned>>

OptionsSet ==
  /\ phase = "options" /\ argv = <<>>
  /\ phase' = "queries"
  /\ UNCHANGED <<commandLine, ontologies, session, query, contexts, returned>>

-----------------------------------------------------------------------------
(* The cache, over queries that its order keeps apart (DLCache).  Variables in an  *)
(* output list are not compared.                                                   *)

Key(dlq) ==
  [onto |-> dlq.onto.realuri, query |-> dlq.query,
   pattern |-> [k \in DOMAIN dlq.pattern |-> IF isVariable(dlq.pattern[k]) THEN <<>> ELSE dlq.pattern[k]]]
Shape(dlq) == [pattern |-> [k \in DOMAIN dlq.pattern |-> IF isVariable(dlq.pattern[k]) THEN 0 ELSE 1]]

UsesCache(w, dlq) == cacheQuery(w.atom, dlq) /\ plugin.cache # "NullCache"
CachedFor(dlq) == {c \in contexts : c.key = Key(dlq)}

\* The order asserts that no query is conjunctive, as soon as it has two to compare.
AssertionFails(dlq) ==
  contexts # {} /\ (isConjQuery(dlq) \/ isUnionConjQuery(dlq) \/ \E c \in contexts : c.conjunctive)

\* The valid contexts of the query, under the debugging cache too.
cacheHit(dlq, proj) == Contexts!isValid(Shape(dlq), proj, CachedFor(dlq))

InsertAnswer(w, dlq, inter, a) ==
  LET value == IF a.value THEN "T" ELSE "NIL"
      old == CachedFor(dlq)
      stays == old \ Contexts!Superfluous(Shape(dlq), inter, value, old)
      new == [key |-> Key(dlq), conjunctive |-> isConjQuery(dlq) \/ isUnionConjQuery(dlq),
              inter |-> inter, value |-> value, tuples |-> a.tuples]
  IN  IF UsesCache(w, dlq) THEN (contexts \ old) \cup Contexts!AddContext(stays, new) ELSE contexts

-----------------------------------------------------------------------------
(* createAtoms, and the queries of its atoms.                                      *)

createAtoms ==
  {<<"dlConsistent", 0>>, <<"dlC", 1>>, <<"dlR", 2>>, <<"dlDR", 2>>}
    \cup {"dlCQ", "dlUCQ"} \X (0..32)

InputOf(w) ==
  <<w.onto>> \o w.preds \o IF w.atom = "dlConsistent" THEN <<>> ELSE <<w.text>>

\* From the written query to the directors that are going to answer it.
Unprepared(made) == [ok |-> FALSE, made |-> made]

WithDirectors(made, ctx, dirs) ==
  IF dirs.ok THEN [ok |-> TRUE, made |-> made, dlq |-> ctx.query.dlq, proj |-> ctx.query.proj,
                   links |-> dirs.links]
  ELSE Unprepared(made)

WithContext(w, made, ctx) ==
  IF ctx.ok THEN WithDirectors(made, ctx, getDirectors(w.atom, ctx.query.dlq, ctx.query.proj))
  ELSE Unprepared(made)

WithOntology(w, inter, made) ==
  IF made.ok THEN WithContext(w, made, QueryCtx(made.onto, InputOf(w), w.pattern, inter))
  ELSE Unprepared(made)

Prepare(w, inter, reachable) ==
  WithOntology(w, inter, createOntology(ontomap, files, w.onto, reachable))

Idle == phase = "queries" /\ asking = NoQuery /\ asks < MaxAsks

Asks(w, inter, p) ==
  /\ <<w.atom, Len(w.pattern)>> \in createAtoms
  /\ asks' = asks + 1
  /\ Registers(p.made)
  /\ UNCHANGED <<commandLine, universe, session>>

\* An ontology, a text or an output list that nothing is made of: a PluginError.
Reject(w, inter, p) ==
  /\ Asks(w, inter, p) /\ ~p.ok
  /\ returned' = Failed(w, inter)
  /\ UNCHANGED <<phase, asking, todo, answer, contexts>>

Abort(w, inter, p) ==
  /\ Asks(w, inter, p) /\ p.ok
  /\ UsesCache(w, p.dlq) /\ AssertionFails(p.dlq)
  /\ phase' = "crashed" /\ returned' = Aborted(w, inter)
  /\ UNCHANGED <<asking, todo, answer, contexts>>

CacheHit(w, inter, p) ==
  /\ Asks(w, inter, p) /\ p.ok
  /\ UsesCache(w, p.dlq) /\ ~AssertionFails(p.dlq)
  /\ \E e \in cacheHit(p.dlq, p.proj) :
       returned' = Returned(w, inter, e.value, e.tuples, "cache")
  /\ UNCHANGED <<phase, asking, todo, answer, contexts>>

Begin(w, inter, p) ==
  /\ Asks(w, inter, p) /\ p.ok
  /\ UsesCache(w, p.dlq) =>
       ~AssertionFails(p.dlq) /\ cacheHit(p.dlq, p.proj) = {}
  /\ asking' = [kind |-> "asking", query |-> w, inter |-> inter, dlq |-> p.dlq, proj |-> p.proj]
  /\ todo' = p.links
  /\ returned' = NoQuery
  /\ UNCHANGED <<phase, answer, contexts>>

\* Whether the document can be downloaded makes a difference only once; a local one does
\* not become unreachable.
Ask ==
  /\ Idle
  /\ \E w \in Queries : \E inter \in Interpretations[w], reachable \in BOOLEAN :
       /\ reachable \/ ~isLocal(w.onto)
       /\ \E p \in {Prepare(w, inter, reachable)} :
            Reject(w, inter, p) \/ Abort(w, inter, p) \/ CacheHit(w, inter, p) \/ Begin(w, inter, p)

-----------------------------------------------------------------------------
(* QueryDirector::query, one link after the other. *)

Link == Head(todo)
Turn == asking # NoQuery
Still == UNCHANGED <<phase, commandLine, ontomap, files, leaked, asks>>

\* Each query has an object Answer of its own.
Finished == asking' = NoQuery /\ todo' = <<>> /\ answer' = NoAnswer

Throw ==
  /\ Finished
  /\ returned' = Failed(asking.query, asking.inter)
  /\ UNCHANGED contexts

Deliver(a) ==
  /\ Finished
  /\ returned' = Returned(asking.query, asking.inter, IF a.value THEN "T" ELSE "NIL", a.tuples, "racer")
  /\ contexts' = InsertAnswer(asking.query, asking.dlq, asking.proj, a)

\* The premise is in the output buffer when the head of a datatype query throws.
BuilderThrows ==
  /\ Turn /\ ~Link.build.ok
  /\ half' = TRUE
  /\ Throw
  /\ Still /\ UNCHANGED <<universe, racer, open>>

\* RACER cannot read the command behind it; the answer to that is skipped.
Garbled ==
  /\ Turn /\ half
  /\ half' = FALSE
  /\ todo' = Tail(todo)
  /\ Still /\ UNCHANGED <<universe, racer, open, asking, answer, contexts, returned>>

\* The director goes on with what it has read.
Goes(read) ==
  /\ read.ok /\ ~read.answer.incoherent
  /\ UNCHANGED universe
  /\ IF Len(todo) > 1
     THEN answer' = read.answer /\ todo' = Tail(todo) /\ UNCHANGED <<asking, contexts, returned>>
     ELSE Deliver(read.answer)

Refused(read) == ~read.ok /\ UNCHANGED universe /\ Throw

\* The tuples over the individuals that fit an output list.
Grounder(pattern, individuals) ==
  {t \in [DOMAIN pattern -> individuals \cup ToSet(pattern)] :
     \A k \in DOMAIN pattern : IF isVariable(pattern[k]) THEN t[k] \in individuals ELSE t[k] = pattern[k]}

\* The ABox of the document, parsed once, and the individuals of the interpretation,
\* which stay in it.
AllIndividuals(uri) ==
  (IF uri \in DOMAIN universe THEN universe[uri] ELSE parseABox(Read(asking.dlq.onto.uri, files)))
    \cup UNION {ToSet(a.args) : a \in asking.proj}

HandleInconsistency(read) ==
  /\ read.ok /\ read.answer.incoherent
  /\ IF isBoolean(asking.dlq)
     THEN Deliver(setAnswer(read.answer, TRUE)) /\ UNCHANGED universe
     ELSE LET uri == asking.dlq.onto.realuri
          IN  /\ universe' = Put(universe, uri, AllIndividuals(uri))
              /\ Deliver([read.answer EXCEPT !.tuples = @ \cup Grounder(asking.dlq.pattern, universe'[uri])])

Sends(obeyed) ==
  /\ racer' = obeyed.racer /\ open' = TRUE
  /\ \E read \in {parse(Link.driver, answer, obeyed.reply)} :
       Goes(read) \/ Refused(read) \/ HandleInconsistency(read)

Send ==
  /\ Turn /\ ~half /\ Link.build.ok
  /\ \E obeyed \in {Obey(racer, Link.build.expr, files)} : Sends(obeyed)
  /\ Still /\ UNCHANGED half

-----------------------------------------------------------------------------
(* The end: the destructor of the plugin, and those of the ontologies. *)

\* The destructor composes and sends what the KB manager hands it, one command.
Forget(links) ==
  IF half \/ links = <<>> THEN racer ELSE Obey(racer, Head(links).build.expr, files).racer

Exit ==
  /\ phase \in {"queries", "ending"} /\ asking = NoQuery
  /\ phase' = "exited"
  /\ racer' = IF open THEN Forget(removeKB(plugin.kbManager)) ELSE racer
  /\ open' = FALSE /\ half' = FALSE
  /\ files' = RemoveFiles(ontomap, files)
  /\ ontomap' = NoOntologies /\ universe' = NoABoxes
  /\ contexts' = {}
  /\ UNCHANGED <<commandLine, query, returned, leaked>>

Next ==
  \/ Help \/ SetOntology \/ SetKBReload \/ SetDLSetup \/ SetDLOpt \/ SetDLDebug \/ SetDefaults
  \/ KeepArgument \/ OptionsSet
  \/ Ask
  \/ BuilderThrows \/ Garbled \/ Send
  \/ Exit

Spec == Init /\ [][Next]_vars

-----------------------------------------------------------------------------
(* Properties. *)

IsAnswer == returned.kind = "answer"
Asked == returned.query

\* The pieces of the state fit each other: what is to be sent belongs to a query, whose
\* answer starts empty; only its first command can be garbled; every ontology has the
\* URI it is registered for and, if it was downloaded, a copy of its own on the disk.
TypeOK ==
  /\ phase \in {"options", "queries", "ending", "exited", "crashed"}
  /\ Members(plugin)
  /\ (asking = NoQuery) = (todo = <<>>)
  /\ isAnswer(answer) /\ (asking = NoQuery => answer = NoAnswer)
  /\ half /\ asking # NoQuery => todo = getDirectors(asking.query.atom, asking.dlq, asking.proj).links
  /\ DOMAIN universe \subseteq DOMAIN ontomap
  /\ \A u \in DOMAIN ontomap :
       /\ ontomap[u].realuri = u
       /\ ~isLocal(u) => ontomap[u].uri \in DOMAIN files /\ files[ontomap[u].uri] = u

\* Different names are different individuals unless the command line says otherwise, which
\* makes a difference to inequalities.
TurnsUNAOff(line) ==
  \E k \in DOMAIN line : "--dlsetup=" \in ToSet(line[k]) /\ "-una" \in ToSet(line[k])
Distinguishes(w) ==
  \E i \in DOMAIN w.union : \E j \in DOMAIN w.union[i] : w.union[i][j].name = <<"!=">>

\* An answer has the bindings that the written query has in its document and its
\* interpretation, wherever it comes from and whatever was asked, failed or downloaded
\* before; Understood names what is not taken as it is written, and what an inequality
\* means without unique names is not stated.  (QueryCtx.cpp, RacerNRQLBuilder.cpp,
\* RacerBuilder.cpp, RacerAnswerDriver.cpp, RacerExtAtom.tcc.)
AnswersMeanWhatIsWritten ==
  IsAnswer /\ Coherent(Asked, returned.inter) /\ Understood(Asked, returned.inter)
    /\ (TurnsUNAOff(given) => ~Distinguishes(Asked))
    => returned.tuples = Meaning(Asked, returned.inter)

\* QueryDirector.cpp:175 and 181: under a contradictory interpretation a boolean query
\* is true, and a retrieval gets every individual that the document states a type of or the
\* interpretation is about, in each place that is asked for.
TrivialAnswersCover ==
  IsAnswer /\ ~Coherent(Asked, returned.inter) /\ Understood(Asked, returned.inter)
    /\ Asked.atom # "dlConsistent" =>
      LET typed == {l.args[1] : l \in {f \in Literals([triples |-> DocumentOf(Asked).triples, more |-> {}]) : Len(f.args) = 1}}
          stated == UNION {ToSet(l.args) : l \in Stated(Asked, returned.inter, NamespaceOf(Asked))}
          named(t) == [k \in DOMAIN t |-> Resolve(t[k], NamespaceOf(Asked))]
      IN  IF VariablesOf(ToSet(Asked.pattern)) = {} THEN returned.value = "T"
          ELSE \A t \in [DOMAIN Asked.pattern -> typed \cup stated] :
                 (\A k \in DOMAIN t : ~isVariable(Asked.pattern[k]) =>
                    t[k] = Resolve(Asked.pattern[k], NamespaceOf(Asked)))
                 => t \in {named(r) : r \in returned.tuples}

\* A query that is understood, of a document that can be read, is not refused, by the
\* plugin or by RACER; a datatype query only if its value is given.
UnderstoodIsAnswered ==
  returned.kind = "error" =>
    \/ setupURI(Asked.onto) \notin DOMAIN Documents
    \/ ~isLocal(Asked.onto) /\ Asked.onto \notin DOMAIN ontomap
    \/ ~Understood(Asked, returned.inter)
    \/ Asked.atom = "dlDR" /\ ~isVariable(Asked.pattern[2])

\* The modifier that disables the DL-cache is -cache in README:126 and -dlcache in the help
\* text (RacerInterface.cpp:268).
Disables(arg, modifiers) == "--dlopt=" \in ToSet(arg) /\ modifiers \cap ToSet(arg) # {}

\* README:129 gives --dldebug the verbosity only; level 3, or one that is no number, may
\* replace the cache.
MayReplaceCache(arg) == "--dldebug=" \in ToSet(arg) /\ 3 \in LevelsOf(ValueOfOption(arg))

\* The cache is off at the end of the first n arguments, unless one replaces it again.
OffAfter(line, n) ==
  \E k \in 1..n : /\ Disables(line[k], {"-dlcache"})
                 /\ \A j \in (k + 1)..n : ~MayReplaceCache(line[j])

\* A run has a cache unless the command line disables it.  One that disables it the way
\* the help text says keeps nothing and is answered nothing from it, in whatever order and
\* company the option stands, if no debug level behind it may bring a cache back.
\* (RacerInterface.cpp:375 and 402, RacerExtAtom.tcc, Cache.h.)
CacheAsDocumented ==
  phase = "queries" =>
    /\ plugin.cache = "NullCache" =>
         \E k \in 1..Len(given) : Disables(given[k], {"-cache", "-dlcache"})
    /\ OffAfter(given, Len(given)) =>
         contexts = {} /\ (IsAnswer => returned.from = "racer")

\* RacerInterface.cpp:264 and 268, README:124: --dlsetup=-una turns the unique name
\* assumption off, and --dlopt=-dlcache or --dlopt=-cache the DL-cache, whatever else the
\* command line says.  Where it turns both off, one of them at least is off: no answer of
\* RACER is asked for under the assumption and kept in the cache.
TurnedOffStaysOff ==
  /\ TurnsUNAOff(given)
  /\ \E k \in DOMAIN given : Disables(given[k], {"-cache", "-dlcache"})
  /\ IsAnswer /\ returned.from = "racer"
  => ~racer.una \/ contexts = {}

\* Ontology.cpp:98: there is one ontology for a document, however its URI is written,
\* and a document that could not be read has none.
OneOntologyPerDocument ==
  /\ \A u, v \in DOMAIN ontomap : setupURI(u) = setupURI(v) => u = v
  /\ DOMAIN ontomap \subseteq DOMAIN Documents

\* Ontology.cpp:47: on the disk are the copies that belong to ontologies, and those that
\* failed downloads left; after an orderly end only these.
CopiesBelongToOntologies ==
  DOMAIN files = leaked \cup {ontomap[u].uri : u \in {v \in DOMAIN ontomap : ~isLocal(v)}}

\* RacerInterface.cpp:111: an orderly end leaves no temporary ABox in RACER, whether the
\* KB manager was wrapped or not.
TemporaryABoxForgotten == phase = "exited" => kbName \notin DOMAIN racer.aboxes

\* Only an option whose converter does not exist, and the assertion of the order when a
\* concept query is conjunctive, bring the process down: no other query does.
OnlyKnownCrashes ==
  phase = "crashed" =>
    IF returned.kind # "abort"
    THEN OptionOf(Head(argv)) \in {"--ontology=", "--dftrans=", "--dfcq="}
    ELSE \/ Asked.atom = "dlC" /\ ~Plainly(Asked)
         \/ \E c \in contexts : c.conjunctive /\ Len(c.key.pattern) = 1
=============================================================================
