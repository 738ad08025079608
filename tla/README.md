# The DL-plugin, verified

TLA+ models of the dlvhex DL-plugin: the plugin that lets a HEX program ask a
description logic reasoner, RACER, about an OWL ontology. The modules are read
off the C++ sources under `src/`; TLC checks them on small instances and TLAPS
proves what is said of the DL-cache, the stream and the session, and much of what is said
of the plugin and of the converter for default rules, for all instances. Line numbers
below are those of the repository's files.

There are five models that run: the cache (`DLCache`), the stream (`TCPStream`), the
session with a RACER that fails (`RacerSession`), the whole plugin with a RACER that
answers (`Plugin`) and the rewriting of default rules (`DFConverter`).

## 1. The system

An external atom, say `&dlC[kb,plusC,minusC,plusR,minusR,query](X)`, is called by
dlvhex with an interpretation and an output list. The plugin projects the
interpretation to assertions, sends RACER a chain of commands over one TCP
connection, parses the answers and returns tuples. Everything runs in one
thread: the concurrency is between that thread, the network and RACER.

| component | sources | state | operations |
|---|---|---|---|
| External atoms | `RacerExtAtom.tcc` | none of their own; stream, cache and KB manager belong to the plugin | `retrieve`, `getDirectors`, `setupRacer`, `openOntology`, `increaseABox` |
| Directors | `QueryDirector.cpp`, `.tcc` | the list of directors of a query | `QueryDirector::query` (build, then parse), `QueryCompositeDirector::query`, `handleInconsistency`, `Grounder`, `QueryCachingDirector::query` |
| DL-cache | `Cache.cpp`, `Cache.h` | `cacheMap`: dl-query → set of answered contexts; `CacheStats` | `cacheHit`, `isValid`, `insert` with maintenance |
| dl-queries | `DLQuery.cpp`, `Query.cpp`, `QueryCtx.cpp` | ontology, query string or conjunctive query, output list, type flags; projected interpretation; answer | `operator<`, `isBoolean`, `setPatternTuple`, `setInterpretation` |
| Command builders | `RacerBuilder.*`, `RacerNRQL*`, `RacerQueryExpr.*` | none | print one command into the stream; may throw half-way |
| Answer drivers | `RacerAnswerDriver.cpp`, `Answer.cpp` | the answer being filled: tuples, boolean, incoherent flag, messages | `RacerAnswerDriver::parse`, `RacerIgnoreAnswer::parse` |
| TCP stream | `TCPStream.cpp` | socket, output and input buffer, iostate | `open`, `overflow`, `sync`, `underflow` |
| Ontology | `Ontology.cpp`, `OWLParser.cpp`, `URI.cpp` | one object per URI, TBox and ABox parsed on demand | `createOntology`, `getABox` |
| KB managers | `RacerKBManager.cpp`, `KBManager.h` | name of the temporary ABox, list of open KBs | `removeKB`, `updateOpenKB` |
| Plugin | `RacerInterface.cpp`, `Registry.cpp` | cache, stream, KB manager, flags | `createAtoms`, `setOptions`, destructor |
| Query strings | `AtomSeparator.cpp` | scanner state | tokenizing of conjunctive queries and of their unions |
| Default rules | `DFProcessor`, `DFConverter`, `Default(s)`, `Pred*Dim`, `Predicate`, `DLAtom(s)`, `DLRule(s)`, `Update(s)`, `Terms`, `MTerm`, `Prefix(es)` | static lists filled by semantic actions; settings and individuals of the converter | parsing of defaults, three translations into dl-rules, printing of their answer sets |
| Dormant code | `HexDL*`, `DLOptimizer`, `Unifier` | – | compiled out, or in no Makefile, at this commit |

How they interact. `retrieve` makes a `QueryCtx`, asks its directors in order and
catches every exception into a `PluginError`. A director streams a command and
parses the answer of that very command; the composite director stops at the
first answer that says the ABox is incoherent and answers by itself. Directors
of plain `dlC` and `dlR` queries stand behind a caching director. All directors
share the one stream, so what one command leaves in it (half a command, a bad
state, a late answer) meets the next. RACER itself has state between commands,
and the ontology object keeps the individuals it handed out.

What is hard here:

* the cache reuses answers between *different* interpretations and relies on a
  hand-written order of queries;
* `send` may be partial, `recv` may cut anywhere, and the end of an answer is
  recognised by a character at the end of a chunk;
* failures: RACER down, closing at any moment, refusing a command, a builder that
  throws half-way, a swallowed exception, an ontology that cannot be parsed;
* two ways to learn that an ABox is incoherent, and two representations of a
  boolean answer;
* nothing has a timeout;
* one name is written in many ways: with and without namespace, brackets, quotes and
  sign, in the query, in the interpretation, in the output list and in RACER's answer;
* each query string is taken apart by hand, and its sign, its kind and its patterns
  decide which builder of which chain it ends in;
* options act in the order of the command line on objects that replace each other,
  some of them through pointers that are null at this commit;
* the parser of default rules keeps its place in static lists, and backtracks over
  semantic actions;
* a translation of defaults is right only if guesses, checks, updates and auxiliary
  names of all its rules fit together.

`PROJECT.json` lists these at their lines under `hazards`. What makes each
component correct:

* *cache*: a query gets the reasoner's answer whether or not it was cached; what
  was answered stays answerable; entries stay minimal/maximal; counters agree;
* *stream*: each command goes out once and whole, each answer goes to its own
  command, each command ends;
* *session*: an answer depends on its query and interpretation only, an
  inconsistent interpretation entails everything, and `&dlConsistent` is exact;
* *query strings, builders, drivers*: what is written is what is asked and what comes
  back is what holds; a query the plugin understands is never refused;
* *ontology*: one object for each document, and no temporary file without an owner;
* *options*: a cache that an option disables is silent; only known options crash;
* *defaults*: the parser has the defaults that are written; the answer sets of the
  rewritten program are Reiter's extensions.

## 2. The modules

| module | models | implements |
|---|---|---|
| `DataLemmas` | facts about sequences, sets and functions that the proofs share | |
| `DLOracle` | what a caching atom promises: the entailed answer, or an error | |
| `CacheContexts` | reuse, maintenance and insertion of the contexts of one dl-query | |
| `DLCache` | `std::map` under `operator<`, the cache, the caching director | `DLOracle` |
| `MCDLCache` | instances of `DLCache` | |
| `DLCacheProofs` | theorems about `DLCache` | |
| `RacerDialog` | what the plugin counts on: command after command, each with its own answer or a failure | |
| `TCPStream` | the stream buffer and the two ways to read an answer, the network, RACER | `RacerDialog` |
| `MCTCPStream` | instances of `TCPStream` | |
| `TCPStreamProofs` | theorems about `TCPStream` | |
| `RacerSession` | the chain of commands of every kind of atom, RACER's state, incoherence, cache, ABox | |
| `MCRacerSession` | instances of `RacerSession` | |
| `RacerSessionProofs` | theorems about `RacerSession` | |
| `Names` | how names and URIs are written and sent (`URI`, `ABoxQueryExpr::output`) | |
| `AtomSeparator` | the tokenizer of conjunctive queries and unions | |
| `QueryInput` | `QueryCtx`, `DLQuery`, `Query`: from the input list to the query | |
| `NRQL` | RACER's query language as the builders make it | |
| `Commands` | the other builders, the KB managers, the chain of each atom | |
| `Ontologies` | the registry, temporary files, what is parsed of a document | |
| `Racer` | external: a RACER that obeys each command | |
| `AnswerGrammar` | the grammar of answers with its actions, the two drivers | |
| `QueryMeaning` | what a written query means, without the code | |
| `Plugin` | command line, queries, end: all of the above in one process | |
| `MCPlugin` | the instance of `Plugin` | |
| `PluginProofs`, `AnswerProofs`, `MeaningProofs` | theorems about `Plugin`: its pieces; the way from a text to its answer; what the answer says | |
| `DefaultRules` | defaults and their three translations into dl-rules | |
| `DefaultLogic` | external: dl-programs, answer sets; Reiter's extensions | |
| `DFConverter` | the grammar of defaults with its actions, `convert`, the output builder | |
| `MCDFConverter` | the instance of `DFConverter` | |
| `DFConverterProofs` | theorems about `DFConverter` | |

The operator modules build on each other in this order: `Names`, `AtomSeparator`,
`QueryInput`, `NRQL`, `Commands`; `Ontologies` and `Racer` join, then `AnswerGrammar`,
`QueryMeaning` and `Plugin`. `DLCache`, `RacerSession` and `Plugin` share `CacheContexts`:
the first studies the map and its order, the others take a map that keeps queries
apart; `RacerSession` studies what the cache does in a chain that fails, `Plugin` what it
does between queries that mean something. `RacerSession` takes the stream as
`RacerDialog` describes it: it has whole commands, a failure that is final
(`FailureIsFinal`), and half a command that spoils the next one
(`BlocksOnlyBehindAbandoned`). `Plugin` has the half command too, and no other fault.

### DLCache

`cacheMap` is the sequence of the map's nodes in tree order. The code's comparison is
`Less`, and a search is modelled by what a search tree can do with *any*
comparison: it ends in a gap between a node where it turned right and one where it
turned left (`Gaps`). Under a strict weak order there is one; `operator<` is not one,
and then every gap that some shape of the tree reaches is allowed. `CacheHit` and
`CacheMiss` are `QueryCachingDirector::query` up to the call of the director behind
it; `DirectorAnswers` is `Cache::insert` with the answer (`InsertIntoNode` when the node
was found, `InsertNode` when not), `DirectorThrows` the exception that passes it by.
Strings are ranks, variables one symbol, an interpretation a set of facts, the
reasoner a function `oracle` picked once. `asked` is a history variable. `CacheStats`
counts modulo `W`.

### TCPStream

A cell is a run of characters. `Put` is `overflow` with room in the buffer (or `sputc`),
`SyncBegins`…`SyncEnds` is `sync`, with `written` and `ok` for the locals of its loop;
`Recv`, `AnswerEnds`, `RecvFails` are `underflow` as the two drivers call it. `bad` is
badbit: an exception that leaves the stream buffer through `istream::read` or a formatted
output sets it, one through `ostringstream << rdbuf()` does not. `Send(n)` and `Recv(n)`
take any number of cells, so every partial send and every chunking is covered.
A command with a newline inside, which no builder prints, is not. RACER is
external: it answers a line that is one command with that command's answer; a line
with something in front of it gets an error or nothing (it waits for more).
`SendFails` moves the offset below zero as the code does, which adds -1 to it at each turn of
a loop that never ends; the constant `OffsetFloor` bounds the counting, and nothing depends
on it, as no send succeeds again. Until the connection is reset the offset stays inside the
buffer, which is what `TypeOK` says of it.

### RacerSession

`todo` is what is left of the chain of commands (`Directors`), one action for each
command. `racer` is what the commands made of RACER: the assumption set, mirroring,
what is loaded, the extended clone. `half` and `alive` are the stream. `State`, `Ask`
and `Retrieve` parse their answers and may find the ABox incoherent, which
`HandleInconsistency` answers by itself; `state` need not report it. `objects` is the
ABox of the ontology object, parsed once and shared. `Refusable` names the commands that
RACER may refuse. An error of a command whose answer is parsed ends the query; one of a
command whose answer is skipped (`full-reset`, `set-una`, data substrate mirroring,
`kb-ontologies`, `clone-abox`) is read and forgotten, and the chain goes on (`Unnoticed`).
What the answer may then be is up to RACER: `Conclusions` lets it conclude any part of what
it should where it was not set up, and without its clone it is asked of whatever an ABox of
that name says. The history in `asking.missed` collects what was skipped, and
`Damage` says what that does to the answer: nothing (only the reset was lost, and the rest
of the chain sees to all of it), a loss, or anything (no reset and no clone). `Deliver` and
`Throw` end a query; `Deliver` inserts into the cache. After an error the model goes on with any
next query: what the host does then is not in the repository.

Left out of it, and in `Plugin`: a second ontology, the assertion `foo(bar)` that stands
for an empty interpretation, the text of queries.

### Plugin

`phase` follows a process: `options`, `queries`, `ending` (after an option that failed, or
after help), `exited` or `crashed`. An action of the first phase handles one argument of
`argv` as one turn of the loop in `setOptions` does, in the order of its tests: an option
is found anywhere in an argument. `plugin` holds the members of `RacerInterface` and the
flags of `Registry` that options change. No converter is ever created
(`createConverters`), so `--ontology`, `--dftrans` and `--dfcq` end in a null pointer.

A *written query* is an atom, the URI of a document, four input predicates, a text, an
output list and, beside them and never read by the model of the code, the union of
conjunctions of literals that the text spells. `Ask` picks one with an interpretation
and does what `retrieve` does before anything is sent: `createOntology`, `QueryCtx`
(`AtomSeparator`, `Query::setInterpretation`), `getDirectors` (`Prepare`). It is rejected,
aborts in the assertion of the cache's order, is answered from the cache, or begins
(`Begin`): `todo` is then the list of directors, each with the command its builder
makes. `Send` lets RACER obey it and reads the reply with the grammar of
`AnswerGrammar`; a builder that throws leaves half a command behind (`BuilderThrows`),
which spoils the next one (`Garbled`). `Exit` is the destructor and those of static
objects.

A text is a sequence of tokens: a namespace, a name, a sign, a bracket, a comma. This
is as much of a string as the code looks at, with two exceptions. Quotes are not
modelled: a term is taken to come out of dlvhex's `ComfortTerm` without them. And
`./o.owl` and `o.owl`, which the code takes for two documents, are not both there.

`Racer` is a RACER that never fails: it keeps the loaded documents and the ABoxes, clones,
adds, answers by the literals that follow, and complains about a clone without a source,
an incoherent ABox, or a head whose variables the body lacks. `Documents` gives each
document's namespaces, triples and the literals that follow from the rest of it.

`QueryMeaning` is the reference: a query's answers are the bindings of the variables of
its output list under which a conjunction holds in the document with the
interpretation added. `AnswersMeanWhatIsWritten` compares with it what a query returned,
from RACER or from the cache. It asks this of queries that are `Understood`; the conditions
are named one by one and each is a limit of the code that the run finds when the
condition is removed:

* `TakenAsWritten`: the sign of an atom inside a conjunction is cut off and lost, so
  also that of a negated role; in a union no inequality has an effect, in a conjunction
  only one between two variables;
* `Safe`: a variable of the output list, or of an equation, must be in another atom;
* `Listed`: a plain query does not compare the places of its output list, so no variable
  stands there twice; the output list of a conjunctive query has variables only, as what
  RACER answers for a constant in a head is not to be seen in this repository;
* `RightKind`: `dlC` takes a name only, `dlR` no union, a union needs `dlUCQ`;
* four different predicates (`IsInjective`): when plus and minus share one, minus wins;
* `SignsKept`: under a document without a namespace the sign of a minus atom is sent
  twice, inside the name and as `(not ...)`;
* `InVocabulary`: datatype roles are asked for by `&dlDR` only; `foo` is no concept of the
  program, because an empty interpretation is sent as the fact `foo(bar)`, and a query for
  the members of `foo` returns `bar`, which nothing states. That names have one
  arity and values stand behind datatype roles only is OWL DL, and every document of the
  instance keeps to it.

How an understood query is written is defined, not listed: `Spelled` says that its text is a
name, or the atoms of its conjunctions with commas, blanks and ` v ` between them, over any
names without punctuation (`isName`).

Different names are different individuals in `Meaning`, which RACER is always told. After
`--dlsetup=-una` the documentation promises something else, so queries with an inequality are
left out then; that the option has no effect is a finding of `plugin_options`.

What the options say of the cache is taken from the documentation. `CacheAsDocumented` is
what holds: there is a cache unless an option disables it, and one that is disabled with
`-dlcache`, as the help text writes it, is silent unless a debug level of 3 follows.
`TurnedOffStaysOff` is the weakest form of what the documentation promises of the two options:
a command line that turns off the unique name assumption and the cache, the cache in both
spellings, turns off one of them at least. Its counterexample has both at work, so one trace
shows that `-una` has no effect, that the debug level undoes `-dlcache`, and that `-cache` does
not disable the cache again.

A query with constants and variables returns the variables' places only, which is how
the meaning is defined too, although the tuples do not fit the output list then.

### Default rules

`DFConverter` follows one converter over several files. `statics` are the static lists of
`DFProcessor`; a rule of the grammar is an operator that returns what is left of the tokens
and the statics, whether it succeeds or not, so that what an abandoned alternative pushed
is still there for the next (`Alternative`). `Rewrite` runs one of the three translations; a rule is a
record of what its text says. `DefaultLogic` is the rest of the world: grounding, dl-atoms
over a knowledge base of facts and implications, answer sets, and Reiter's extensions as
the fixed points of his operator. `AnswerSetsAreExtensions` holds where `Rewritable` says,
and each of its five conditions is a limit that the run finds without it: a fact of a
negated literal is printed without its sign; a conclusion with a namespace is updated
under a name that the queries leave out; a justification that is a conjunction is negated
into something that is no query about it; translation 1 without conjunctive queries
constrains `out_` atoms that no rule derives when a conclusion is a conjunction; and a name
that begins with `neg_` is taken for a sign.

The code makes the names of its auxiliary predicates by concatenating strings. A name is
modelled as the sequence of its pieces, each `neg_` it begins with and the rest, so that two
names are the same sequence exactly if they are the same string: `-f` and `neg_f`, which the
grammar of names allows, both become `in_neg_f`. `AuxiliaryNamesApart` says which names
meet, and that no others do. The names of arguments and of the predicates in other rules
are taken to begin with none of the prefixes `in_`, `out_`, `p_`, `cons_`, `incons_`, `all_`.

## 3. The runs

Twelve runs, five of them of things the documentation says and the code does not do.

| run | question | result |
|---|---|---|
| `dlcache_concepts` | a boolean and a retrieval query, all interpretations of two facts, all monotone theories, `W` = 3 | all hold, 54 070 states |
| `dlcache_roles` | two converse pairs and a filler query, where the order is no order | answers and counters right, 43 439 states |
| `dlcache_order` | does what was inserted stay found? | **no** (`DLQuery.cpp:93`) |
| `tcp_dialog` | four commands of 5, 3, 1, 7 cells, buffers of 3, answers of 4, 1, 6, 3, no faults, fairness | all hold, 189 states |
| `tcp_faults` | three commands, buffers of 2, RACER goes and comes, builders throw | all hold, 2516 states |
| `tcp_send_loop` | does each command end when RACER closes? | **no** (`TCPStream.cpp:352`) |
| `session` | four queries, four interpretations (one inconsistent), every command refused, also those whose errors are skipped, failing stream | all hold, 3 191 509 states |
| `session_trivial` | is a trivially true query delivered as true? | **no** (`QueryDirector.cpp:177`) |
| `session_universe` | does a retrieval under inconsistency cover all individuals when the document could not be parsed once? | **no** (`Ontology.cpp:190`) |
| `plugin` | eight command lines; two of 35 written queries of three documents, each with up to three interpretations, one after the other; the end | all hold, 47 426 states |
| `plugin_options` | is the unique name assumption or the cache off after `--dlopt=-dlcache --dlsetup=-una --dldebug=3 --dlopt=-cache`? | **no**, neither (`RacerInterface.cpp:346`, `:402`, `:371`) |
| `defaults` | two of 28 files of one to four items, three translations with and without conjunctive queries, two knowledge bases | all hold, 109 316 states |

Why the bounds are enough to be interesting. Two facts give incomparable
interpretations, so the frontier of a node has two entries, positive and negative; a
third query would only repeat the pairwise comparisons of the order, and the role
queries have crossing, equal-prefix and mixed patterns. `W` = 3 makes the counters wrap.
The commands and answers are shorter than, equal to, and longer than the buffers, and
one is not a multiple of it, so a flush happens in the middle, at the end, and at both.
In `session` a sequence of queries has no bound: the state after a query is finite, and
TLC explores all orders of four queries under all interpretations: a question of
consistency, a cached boolean query, a query under a premise that needs mirroring, and one
whose command cannot be built: one for each form of chain, so that each command that can be
skipped is lost in each of them, alone and together with others, after a query of each kind.

`tcp_faults` has `CHECK_DEADLOCK FALSE`: the system really may stop, in `recv` with nothing
to come. `BlocksOnlyBehindAbandoned` says when. All others but those of `Plugin` check deadlock;
`Rests` is the end of a TCP session.

In `plugin` every kind of atom is asked with variables, with constants and with both, as URI,
in brackets and by its bare name, under an empty, a consistent and an inconsistent
interpretation. Two queries are what state between queries needs to show: the second
meets the first one's ontology, universe, ABox, cached context or half command. The
documents are a local one with a namespace, a local one without, and one that is
downloaded, or not. In `defaults` each part of a default is left out in one file, and two
files are what the static lists need; two defaults at once are enough for every
pair of rules that two defaults share.

`plugin` and `plugin_options` have `CHECK_DEADLOCK FALSE` too: a process that has exited or crashed does nothing.

The mutants in `PROJECT.json` show that each property can fail: each replaces one
definition by a variant with a plausible bug (a reuse in the wrong direction, no
maintenance, a forgotten offset, a swapped setup, …) and TLC finds the property
violated in the same run.

### Fairness

Only `TCPStream` has liveness. `FairSpec` assumes weak fairness of `ClientStep`: the
thread that sends and reads is not suspended for ever (it has no waits but the system
calls), and of `Evaluate`: RACER answers a whole line. Nothing is assumed of `Begin`
(the host may never ask again), nor of the faults.

### What the findings say

* **The order of dl-queries.** `operator<` says that a query is smaller as soon as one
  ground component of its output list is. For `R(1,2)` and `R(2,1)` each is less than the
  other; in the map, one of them may become unreachable and is then asked anew for ever.
  The header calls the comparison lexicographic. The cache stays transparent
  (`ImplementsOracle` holds): answers are lost, never mixed up.
* **The send loop.** The loop continues while `ret <= 0`. After the peer has gone, `send`
  returns -1 for ever. The error branch behind the loop cannot be reached with a failure.
* **A trivially true query is false.** `handleInconsistency` sets the flag of a boolean
  answer but not the tuple; callers read tuples. The flag does go into the cache.
* **A half-parsed ABox stays.** `getABox` assigns before it parses.
* **`--dlsetup=-una` turns nothing off.** The flag that it clears is read in code that is
  compiled out; `set-unique-name-assumption` is sent before every query.
* **A disabled cache comes back.** `--dldebug=3`, documented as verbosity, replaces the cache that
  `--dlopt=-dlcache` removed; and `--dlopt=-cache`, as the README writes it, is not looked for.

Two more things that no run of their own shows:

* **Constants are not put back.** `Answer::addTuple` has no caller, so a retrieval with
  a constant in the output list returns shorter tuples, and the models say so too.
* **Skipped errors.** `RacerIgnoreAnswer` skips errors with the answers. When RACER refuses to
  read the imports, an instance of a concept is not found. What is lost is bounded: no other
  query suffers (`CoherentAnswersExact`), and no binding is made up (`SkippedErrorsOnlyLose`)
  unless the reset and the clone were refused in one chain. A short answer stays in the
  cache, though.

## 4. The proofs

Each of the five models has its theorems in a module of its own (`Plugin` has three), with an inductive
invariant made of named parts, a lemma for each action (or each group of actions that do
the same to the invariant), and the properties as its consequences. TLC has checked the
invariants in the runs' instances before they were proved (but for the parser's, which speaks
of all sequences of files: there it has checked the property). `DataLemmas` has what more
than one of them needs.

| theorem | states |
|---|---|
| `DLCacheProofs`: `TypeCorrect` | `Spec => []TypeOK` |
| `EntailedAlways` | `Spec => []CachedIsEntailed` |
| `FrontierAlways` | `Spec => []Frontier` |
| `StatsAlwaysAgree` | `Spec => []StatsAgree` |
| `AnswersStay` | `Spec => []AnswersStayCached`, where `Less` is a strict total order |
| `AnswersStayWithoutPairs` | the same, where no query has two ground output terms |
| `CacheIsTransparent` | `Spec => ImplementsOracle`, the refinement of `DLOracle` |
| `TCPStreamProofs`: `StreamTypeCorrect` | `Spec => []TypeOK` |
| `LinesAlwaysWhole` | `Spec => []LinesAreWhole` |
| `FailureAlwaysFinal` | `Spec => []FailureIsFinal` |
| `BlocksBehindAbandoned` | `Spec => []BlocksOnlyBehindAbandoned` |
| `StreamImplementsDialog` | `Spec => ImplementsDialog`, the refinement of `RacerDialog` |
| `RacerSessionProofs`: `SessionTypeCorrect` | `Spec => []TypeOK` |
| `AnswersAlwaysExact` | `Spec => []CoherentAnswersExact` |
| `SkippedErrorsAlwaysOnlyLose` | `Spec => []SkippedErrorsOnlyLose` |
| `ConsistencyAlwaysDecided` | `Spec => []ConsistencyDecided` |
| `InconsistentAlwaysTrue` | `Spec => []InconsistentIsTrue` |
| `InconsistentAlwaysCovers` | `Spec => []InconsistentRetrievalCovers`, where the document can always be parsed |
| `PluginProofs`: `PiecesAlwaysFit` | `Spec => []TypeOK` |
| `DocumentsRegisteredOnce` | `Spec => []OneOntologyPerDocument` |
| `CopiesAlwaysBelong` | `Spec => []CopiesBelongToOntologies` |
| `CacheAlwaysAsDocumented` | `Spec => []CacheAsDocumented` |
| `CrashesAreKnown` | `Spec => []OnlyKnownCrashes` |
| `TemporaryABoxAlwaysForgotten` | `Spec => []TemporaryABoxForgotten` |
| `AnswerProofs`: `UnderstoodAlwaysAnswered` | `Spec => []UnderstoodIsAnswered` |
| `AsksOfItsOwnKnowledge` | `Spec => [][Send => AsksOfItsOwn]_vars`: the last command of a query is asked of its own document and interpretation |
| `AskedIsWhatIsMeant` | `Spec => []IsWhatIsMeant`: the dl-query under way is what its text says |
| `MeaningProofs`: `TrivialAnswersAlwaysCover` | `Spec => []TrivialAnswersCover` |
| `DFConverterProofs`: `ConverterTypeCorrect` | `Spec => []TypeOK` |
| `RulesAlwaysSafe` | `Spec => []RulesAreSafe` |
| `NamesAlwaysApart` | `Spec => []AuxiliaryNamesApart` |
| `DefaultsAsWritten` | `Spec => []OmittedPartsAreInherited` |

### The cache

For every set of ontologies, names, individuals, facts, queries, theories and every
`W` > 0. Assumptions: `Constants` (ranks are integers, queries are dl-queries, `W` is
positive) and `TheoriesAreMonotone` (a larger interpretation never loses a conclusion). The
second is what the reuse of answers rests on, and the reason why consistency, which is
not monotone, is not cached. Nothing is assumed of the order: transparency does not
need it.

The inductive invariant `IInv` has five parts. `CachedIsEntailed` alone is enough for a hit
(`HitIsEntailed`: a positive answer under a smaller interpretation, a negative one under
a larger, an equal interpretation) but needs `TypeOK` to know that keys and
interpretations are such, and that a pending query names the node of its own key
when the answer is inserted there. `Frontier` is not inductive alone either: the
maintenance removes what the new context covers, but not what covers the new context.
That there is nothing of this kind follows from the miss that preceded: `PendingUncovered`
says that the node of the pending query has no valid context for it. For negative
answers, and for the uniqueness per interpretation, it is needed together with
`CachedIsEntailed` (two contexts of one interpretation have one value). The map's
insertion in the middle of the sequence is treated once.

`StatsAgree` adds up the contexts of all nodes. The sum is the cardinality of one set,
`EntriesOf`, the pairs of a node and a context in it, so that an insertion is the removal
of the covered pairs and the addition of one.

`AnswersStayCached` is false in general (`dlcache_order`). It is proved under the hypothesis
`Ordered`, that `Less` is a strict total order on the queries: then a search has one gap
(`SearchIsExact`), the map stays sorted, and what was asked stays covered by the node of
its query (`AskedInv`) because maintenance removes only what the new context covers.
`OrderedWithoutPairs` shows what the code needs for that: at most one ground term in each
output list. These are the concept queries and the queries for the members or the
fillers of a role; with two ground terms the first comparison of `operator<` breaks it.

### The stream

For every number of commands, every length of commands, answers and errors, every size
of the buffers, every partial send and chunk, with and without faults. The only
assumption is `StreamConstants`: lengths and sizes are positive, `OffsetFloor` negative.

None of the properties is inductive, as a line is whole only if everything in front of it
was. What carries them is one account of where the cells are: `Pending` is what RACER has
not read (on the wire, then what the client has still to send), `Heard` what the plugin
was told (in the driver's text, then on its way). `PendingInv` says that `Pending` is cells
of abandoned commands, none of them a newline, followed by exactly what the
builder has streamed of the current command, or that RACER has read that command and
nothing is pending. `HeardInv` says that what was heard is a part of one answer, to the
current command, or of an error if it stands behind an abandoned one. `ClientInv` ties
the locals of `sync` to the place the client is at (an interrupted flush leaves an
offset that is below zero only when the connection was reset), and `DeafInv` gives
`FailureIsFinal` its reason: after a failure nothing can be heard. The lines, the
blocking and each step of the dialog follow from these.

### The session

For every set of queries, facts and individuals, every ontology, whatever RACER refuses,
also where the error is skipped, however often the stream fails. Assumptions: `SessionConstants` (queries have the
shapes that `getDirectors` tells apart, and a larger interpretation is no less
inconsistent) and `ReasonerIsMonotone`, which is needed for boolean queries only.

The properties are about the last answer, but an answer depends on what RACER was told
by all commands before it, and on the cache. The inductive invariant `SInv` says that the
commands still to be sent are the end of their query's chain and that RACER is set up as
far as the chain has gone, *whatever it was before*, but for the commands in
`asking.missed` (`ChainInv`); and that what is
cached, like what was returned, is `Right` for its query and interpretation. `Right`
is closed under reuse (`ReuseIsRight`): a positive answer may go from a consistent to an
inconsistent interpretation, where true is right again, and a negative one never comes
from an inconsistent one. That would fail if the flag that `handleInconsistency` sets were
not in the cached context, or if `&dlConsistent` were cached. `ObjectsInv`, that a parsed
ABox has the document's individuals, needs that parsing never fails: without that it is
false (`session_universe`).

`TypeOK` of the session also says which command can meet half a command in the stream:
only the reset at the head of a chain, because every command that fails ends its query.
This too follows from `ChainInv`. That tuples are no longer than output lists rests on
`Project`, which is written with a fold; `DataLemmas` reasons about it as below.

### The plugin

For every set of command lines, documents, written queries and interpretations, and every
bound `MaxAsks`. Assumptions: `TemporaryNames` (there are more names for temporary files than
queries are asked, which is what `mkstemp` counts on), `WrittenQueries` (an atom has its four
predicates, texts and output lists are lists, no term is the empty text), `ArgumentsAreWords` (an argument that has
an option about the cache has no other option in front of it, and what it says of the
cache stands behind it) and `PathsAreTexts`.

What happened long before decides here, so none of the properties is inductive:

* `ArgumentsInv`: `argv` is a suffix of the command line. With `MembersInv` and `ChoiceInv`, that
  the members are what the arguments before the suffix chose: no cache only behind an
  option that disables it, and none if the last option that touches the cache is
  `--dlopt=-dlcache`; and a cache that is off is empty, as nothing inserts into it.
* `RegistryInv`: every ontology is registered under its absolute URI, which is left as it is
  when made absolute again (`AbsoluteStays`). `FilesInv` and `CopiesInv`: each evaluation
  makes one file at most, so there is a name left for the next; each copy belongs to a
  registered document or to a download that failed.
* `AskingInv` with `Underway`: what is left to send is a suffix of the chain of the query
  under way, all of it behind half a command. `PiecesInv`: the ABoxes that were parsed
  are those of registered ontologies.
* `CrashInv`: the contexts of conjunctive queries that are kept are those of concept queries
  (`ConjunctiveConcept`), so the comparison that aborts has a conjunctive concept query on
  one side.
* `ABoxInv`: RACER has no temporary ABox before it is asked, behind half a command, and once it
  was reset for a query that clones none. A clone is made under one name, by chains that
  end in its removal or are followed by the next chain's reset; the destructor sees
  to the last.

### From a text to its answer

`AnswerProofs` and `MeaningProofs` need four more assumptions, all about what is written: `TokensApart` (no
namespace or variable is a sign, a bracket or a separator), `GroundInterpretations` and
`DocumentsAreFinite` (interpretations are finite and ground, documents finite; a namespace is a
URI), and of `TemporaryNames` that no temporary file has the name of a document. They follow a query
from its text to RACER's answer in four parts.

* The texts. `AtomSeparatorParse` and `UnionAtomSeparatorParse` are the inverse of `ConjText` and
  `UnionText` (`ConjParsed`, `UnionParsed`), up to the signs, for every conjunction of literals over any names.
  The tokenizer is followed letter by letter as a sequence of states (`Tokens`): inside
  an atom it keeps what it reads (`QuietRun`), between two atoms it is where it began
  (`AtomRun`). Where an atom's letters stand in the whole text is `Stands`, and where its parentheses
  and its comma are found `Placed`. From that `UnderstoodIsMade`: what the constructor `QueryCtx`
  makes of an understood query is what is meant by it (`MeantBy`), and no more than that;
  `AskedIsWhatIsMeant` says it of every state.
* The dialog. `DialogInv` says what RACER is after each command of a chain, whatever it was
  before: `Reached` with the number of links that had their turn. The flags are set by the
  second and third command, the document's ABox by the opening one, its clone and what is
  stated by the next, and at the last command RACER knows what the query's own
  document and interpretation say (`Kb`): `AsksOfItsOwnKnowledge`. A garbled first command does
  not matter, as everything the reset would have removed is put anew. This needs that
  a copy on the disk is read as its document (`RegisteredCanBeRead`), and that the answer is
  still empty when the last command is sent.
* The refusals. A query that fails is rejected before RACER is asked, has no builder, or is
  refused. None of this happens to one that is understood (`NotRejected`,
  `ThrownIsExcused`, `NotRefused`): its head has no variable that its body lacks (`BodyCovers`,
  with injective variables injective on both sides, `LegalConj`, `LegalUnion`), and a command about an ABox that RACER has is refused
  for nothing else (`RefusedForBody`).

* The contradictions (`MeaningProofs`, `TrivialAnswersAlwaysCover`). What an interpretation states is what the
  projection is sent as (`SaidIsStated`, `StatedIsAsserted`): the place of its predicate gives
  the sign, the namespace the names. A contradiction is one between facts about
  individuals, as a datatype fact is never negated and never stated; so RACER is told both sides,
  whether data substrate mirroring is on or not (`ContradictionIsSent`), and complains at the last
  command. The handler then fills the output list with `AllIndividuals`, whose document part is
  never dropped (`UniverseInv`) and whose other part is what the projection mentions.
  Through the cache this becomes a property of what was answered long ago: `CoverInv` says of
  each context that, if what it was asked of is contradictory, its answer covers its output
  list. A hit has a smaller interpretation behind it if it is of a positive answer, which need
  not be contradictory but says "T" already; a larger one if of a negative answer, which is
  contradictory too and then was none; and the same one if it is a retrieval (`HitCovers`).
  The inductive invariant is `BasesInv /\ UniverseInv /\ CoverInv /\ TrivialAnswersCover`.

The attempt found one place where the model left open what it meant: in `Answer` of `Racer`, and in
`Separate`, two arms of a `CASE` could hold at once, so that only TLC's order of them
decided. Both are told apart now. The proof about contradictions found a place in the property:
individuals were to be covered if their type follows by the document alone and is not one of the
facts that the rest of it adds; it is now every individual that a triple gives a type,
whatever else says the same. And it made the vocabulary of an understood query say that `foo` is no
datatype role.

### The default rules

For all files made of tokens (`FilesAreTokens`: a literal has a predicate, an argument its
names and terms, and either may lack its last character), all
settings of the converter, any number of files one after the other. `IInv` has four
parts:

* `StaticsInv`: each static list holds what it is for, and the number of a default is its
  place in the list of defaults. An alternative of the grammar that is abandoned leaves
  terms and predicates behind, so this is not a fact about whole defaults: each rule of the
  grammar is followed from a place with such lists (`Ready`, `Places`) to another, and
  the lists are emptied by whichever alternative succeeds. No justification of a default
  is empty, because behind a conjunction that was read there is a literal in the list
  (`BehindLiteral`), pushed by this or by an abandoned alternative.
* `PlaceInv`: the place is in the file. `ConverterInv`: a host that does not rewrite reads nothing.
* `OutInv`: the rules of a program are safe. For each of the three rewritings, with and
  without conjunctive queries (`SafePi`, `SafeOmega`, `SafeUpsilon`): the terms of a default
  are those of all its parts, or its argument (`DistinctTerms`, for which the lemmas say that
  the folds that collect the terms collect exactly them), and each rule's body
  binds them with `dom`, or with the argument.

`NamesAlwaysApart` follows from the prefixes and the numbers: the name of a conjunction is that of its
literal if it is one, and has its kind, the number of the default and its place otherwise, and no
literal has such a name (`NameOf`, `NameOfMany`). Equal names of literals are those of
literals that are spelled alike (`SignedAlike`), because what is in front of a sequence can
be taken off. The numbers stay apart across files, as the list of defaults is never
emptied.

### The parser for defaults

`DefaultsAsWritten` is for all files of defaults and full rules, one after the other.
`FilesAreWritten` says what such a file is: a default stands with its signs, its conjunctions and
its argument in the order of `TextOf`, a full rule is any text with one full stop at
its end. The theorem says that the grammar with its actions is the inverse of `TextOf`, up to
the parts that are left out.

* Each rule of the grammar reads its text and nothing more: `ConjunctionReads` and
  `JustificationsRead` climb the stars of the grammar literal by literal (`Ladder`), and `Marks`
  has the places of the four signs of a default. `AlternativeReads` is about the alternative that
  fits what is written; `AlternativeFails` about the others, which may set the prerequisite
  and leave nothing else. So `DefaultReads`: whatever was tried in vain, the statics are as if
  only the right alternative had been there. That would fail if an abandoned alternative
  left a literal in `lst_predicate`.
* A default is not cut short or prolonged by what follows: the argument is the only part that
  may be missing at the end, and no item begins with one (`PlaceInFile`).
* The invariant `ParserInv`: the parser is where an item of the last file begins, or at its end
  (`InFile`); the defaults are those expected of the items in front of it, over all files; nothing
  waits in the lists, and `prerequisite` and `justifications` are those of the last
  default (`Inheriting`). This is why the parts that are left out are inherited,
  also by the first default of a file from the last default of the file before.
* `ExpectedAppend` and `ExpectedPrefix`: what is expected grows by one default at most with
  each item, and never changes in front.

The prover's SMT backend breaks on obligations with the strings of a comma or a semicolon, so
the proofs name these signs (`Comma`, `Semicolon`).

### Induction

The library's induction theorems are out of reach, but an induction over a set is not: the
naturals at which a statement holds are a set, and `DataLemmas` shows from
`LeastMember`, that a set of naturals that is not empty has a least member, that a set with 0 that
is closed under the successor has them all (`NatSet`, `IntervalSet`). From that come what
a recursive function computes (`Recursion`) and what a fold over a sequence does step by
step (`FoldSteps`), where the statement about each step can be given as a set.

### Only model-checked

* `AnswersMeanWhatIsWritten` of `Plugin`. What is proved reaches to the
  last command and to what it is asked of, and to the answer where that is contradictory; that RACER's reply to it, read by the driver or taken
  from the cache, has the tuples of `Meaning` is checked on the instance.
* `AnswerSetsAreExtensions`: fixed points of Reiter's operator against the answer sets of a
  ground program, for which the prover has no theory.
* `EveryCommandEnds`: liveness, beyond the prover.
* `AnswersStayCached` without the hypothesis on the order is false; that is the finding.

## 5. Plan

Every component that the program uses at this commit is modelled, as far as section 6
says. What is left is proof: of `Plugin`, that the tuples of an answer are those of `Meaning`,
for which each form of command has to be compared with the literals it asks for, and the
cache's contexts with the queries that they were made for; of `DFConverter`, the cases of
`AnswerSetsAreExtensions` in which no fixed point is needed.

## 6. Not modelled

* `HexDLConverter`, `HexDLRewriter`, `DLOptimizer` and their scanners: compiled out (`#if 0`),
  or made by no code, at this commit. With them go `Ontology::getTBox` and the TBox handler
  of `OWLParser`, which only they call.
* `Unifier`: in no Makefile and used by nothing.
* `LogBuf`, verbosity, statistics as they are printed, messages of errors: wording. The
  read beyond a literal in one message (`AtomSeparator.cpp:127`) stays inside its text.
* `Answer::addTuple`, the list of open knowledge bases, the flags of `Registry` that nobody
  reads: no caller. The flag `UNA` is there, as an option writes it.
* The width of `1 << pattern.size()` in `DLQuery::isBoolean`: it needs an output list of 32
  terms (`&dlCQ32`), beyond what can be enumerated.
* libraptor, RACER, dlvhex and the network, but for what the code in `src/` expects of them:
  they are the modules and definitions marked external.
