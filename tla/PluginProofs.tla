---------------------------- MODULE PluginProofs ----------------------------
(***************************************************************************)
(* Proofs about Plugin for every set of command lines, documents, queries  *)
(* and interpretations: the registry of ontologies and its files, the      *)
(* cache that the options choose, the query under way and its chain of     *)
(* directors, the temporary ABox, and what can bring the process down.     *)
(***************************************************************************)
EXTENDS Plugin, SequenceTheorems, FiniteSetTheorems, TLAPS

-----------------------------------------------------------------------------
(* Suffixes: the arguments and the directors that have not had their turn. *)

SuffixOf(s, t) ==
  Len(s) <= Len(t) /\ \A k \in 1..Len(s) : s[k] = t[Len(t) - Len(s) + k]

\* The tail of a suffix is a suffix, and its head the element before.
LEMMA TailOfSuffix ==
  ASSUME NEW S, NEW T, NEW s \in Seq(S), NEW t \in Seq(T), s # <<>>, SuffixOf(s, t)
  PROVE  /\ Tail(s) \in Seq(S) /\ SuffixOf(Tail(s), t)
         /\ Len(Tail(s)) = Len(s) - 1 /\ Len(s) \in 1..Len(t)
         /\ Head(s) = t[Len(t) - Len(s) + 1]
<1>1. Len(s) \in Nat /\ Len(t) \in Nat /\ Len(s) >= 1
  BY EmptySeq, LenProperties
<1>2. Tail(s) \in Seq(S) /\ Len(Tail(s)) = Len(s) - 1
  BY HeadTailProperties
<1>3. \A k \in 1..Len(Tail(s)) : Tail(s)[k] = s[k + 1]
  BY HeadTailProperties
<1>4. \A k \in 1..Len(Tail(s)) : Tail(s)[k] = t[Len(t) - Len(Tail(s)) + k]
  <2> TAKE k \in 1..Len(Tail(s))
  <2>1. k + 1 \in 1..Len(s)
    BY <1>1, <1>2
  <2>2. Tail(s)[k] = t[Len(t) - Len(s) + (k + 1)]
    BY <1>3, <2>1 DEF SuffixOf
  <2>3. Len(t) - Len(s) + (k + 1) = Len(t) - Len(Tail(s)) + k
    BY <1>1, <1>2
  <2> QED BY <2>2, <2>3
<1>5. Head(s) = s[1] /\ 1 \in 1..Len(s)
  BY <1>1, HeadTailProperties
<1> QED BY <1>1, <1>2, <1>4, <1>5 DEF SuffixOf

-----------------------------------------------------------------------------
(* What the options find. *)

\* The command line is read from its first argument to its last.
ArgumentsInv ==
  given \in CommandLines /\ argv \in Seq(ToSet(given)) /\ SuffixOf(argv, given)

\* A command line is a list of its arguments.
LEMMA LinesAreLists ==
  ASSUME ArgumentsInv
  PROVE  given \in Seq(ToSet(given))
BY ArgumentsAreWords DEF ArgumentsInv

\* The arguments are left one by one.
LEMMA ArgumentsStep ==
  ASSUME ArgumentsInv, [Next]_vars
  PROVE  ArgumentsInv'
<1>1. given' = given /\ (argv' = argv \/ (argv # <<>> /\ argv' = Tail(argv)))
  <2>1. CASE SetKBReload \/ SetDLSetup \/ SetDLOpt \/ SetDLDebug
    BY <2>1 DEF SetKBReload, SetDLSetup, SetDLOpt, SetDLDebug, Looks, Erase
  <2>2. CASE KeepArgument
    BY <2>2 DEF KeepArgument, Looks
  <2>3. CASE Ask
    BY <2>3 DEF Ask, Idle, Reject, Abort, CacheHit, Begin, Asks, commandLine, ontologies, session
  <2>4. CASE BuilderThrows \/ Garbled \/ Send
    BY <2>4 DEF BuilderThrows, Garbled, Send, Still, commandLine
  <2>5. CASE UNCHANGED vars
    BY <2>5 DEF vars, commandLine, ontologies, session, query
  <2>6. CASE Help \/ SetOntology \/ SetDefaults \/ OptionsSet \/ Exit
    BY <2>6 DEF Help, SetOntology, SetDefaults, OptionsSet, Exit,
                   commandLine, ontologies, session, query
  <2> QED BY <2>1, <2>2, <2>3, <2>4, <2>5, <2>6 DEF Next
<1>2. CASE argv' = argv
  BY <1>1, <1>2 DEF ArgumentsInv, SuffixOf
<1>3. CASE argv # <<>> /\ argv' = Tail(argv)
  <2>1. Tail(argv) \in Seq(ToSet(given)) /\ SuffixOf(Tail(argv), given)
    BY <1>3, LinesAreLists, TailOfSuffix DEF ArgumentsInv
  <2> QED BY <1>1, <1>3, <2>1 DEF ArgumentsInv
<1> QED BY <1>1, <1>2, <1>3

\* The argument that is looked at is one of the command line.
LEMMA HeadOfArguments ==
  ASSUME ArgumentsInv, argv # <<>>
  PROVE  /\ Head(argv) \in ToSet(given)
         /\ Head(argv) = given[Len(given) - Len(argv) + 1]
         /\ Len(Tail(argv)) = Len(argv) - 1 /\ Len(argv) \in 1..Len(given)
<1>1. Head(argv) \in ToSet(given)
  BY HeadTailProperties DEF ArgumentsInv
<1> QED BY <1>1, LinesAreLists, TailOfSuffix DEF ArgumentsInv

\* An option that is found is in the argument.
LEMMA OptionIsFound ==
  ASSUME NEW arg, OptionOf(arg) # "none"
  PROVE  OptionOf(arg) \in ToSet(arg)
<1>1. Found(arg) # {} /\ Found(arg) \subseteq 1..7
  BY DEF OptionOf, Found, Options
<1>2. \E k \in Found(arg) : \A j \in Found(arg) : k <= j
  <2>1. CASE 1 \in Found(arg) BY <1>1, <2>1
  <2>2. CASE 1 \notin Found(arg) /\ 2 \in Found(arg) BY <1>1, <2>2
  <2>3. CASE {1, 2} \cap Found(arg) = {} /\ 3 \in Found(arg) BY <1>1, <2>3
  <2>4. CASE {1, 2, 3} \cap Found(arg) = {} /\ 4 \in Found(arg) BY <1>1, <2>4
  <2>5. CASE {1, 2, 3, 4} \cap Found(arg) = {} /\ 5 \in Found(arg) BY <1>1, <2>5
  <2>6. CASE {1, 2, 3, 4, 5} \cap Found(arg) = {} /\ 6 \in Found(arg) BY <1>1, <2>6
  <2>7. CASE {1, 2, 3, 4, 5, 6} \cap Found(arg) = {} BY <1>1, <2>7
  <2> QED BY <2>1, <2>2, <2>3, <2>4, <2>5, <2>6, <2>7
<1>3. Min(Found(arg)) \in Found(arg)
  BY <1>2 DEF Min
<1> QED BY <1>1, <1>3 DEF OptionOf, Found

-----------------------------------------------------------------------------
(* The registry of ontologies. *)

\* Every document that was read is registered under its absolute URI.
RegistryInv ==
  /\ DOMAIN ontomap \subseteq DOMAIN Documents
  /\ \A u \in DOMAIN ontomap : setupURI(u) = u /\ ontomap[u].realuri = u

\* An absolute URI is left as it is.
LEMMA AbsoluteStays ==
  ASSUME NEW uri, uri.path \in Seq(ToSet(uri.path))
  PROVE  setupURI(setupURI(uri)) = setupURI(uri)
<1>1. CASE ~isLocal(uri)
  BY <1>1 DEF setupURI
<1>2. CASE isLocal(uri)
  <2> DEFINE path == getAbsolutePath(uri.path)
  <2>1. Head(path) = "/"
    <3>1. CASE Head(uri.path) = "/"
      BY <3>1 DEF getAbsolutePath
    <3>2. CASE Head(uri.path) # "/"
      <4> DEFINE S == ToSet(uri.path) \cup {"/", "cwd"}
      <4>1. uri.path \in Seq(S) /\ <<"/", "cwd">> \in Seq(S)
        OBVIOUS
      <4>2. Len(<<"/", "cwd">> \o uri.path) >= 1 /\ (<<"/", "cwd">> \o uri.path)[1] = "/"
        BY <4>1, ConcatProperties, LenProperties
      <4>3. <<"/", "cwd">> \o uri.path \in Seq(S)
        BY <4>1, ConcatProperties
      <4>4. Head(<<"/", "cwd">> \o uri.path) = "/"
        BY <4>2, <4>3, HeadTailProperties, EmptySeq
      <4> QED BY <3>2, <4>4 DEF getAbsolutePath
    <3> QED BY <3>1, <3>2
  <2>2. setupURI(uri) = [scheme |-> "file", path |-> path]
    BY <1>2 DEF setupURI, URI
  <2>3. getAbsolutePath(path) = path
    BY <2>1 DEF getAbsolutePath
  <2> HIDE DEF path
  <2> QED BY <2>2, <2>3 DEF setupURI, isLocal, URI
<1> QED BY <1>1, <1>2

\* What preparing a query makes of the registry is what createOntology makes of it.
LEMMA PreparationRegisters ==
  ASSUME NEW w, NEW inter, NEW reachable
  PROVE  Prepare(w, inter, reachable).made = createOntology(ontomap, files, w.onto, reachable)
<1> DEFINE made == createOntology(ontomap, files, w.onto, reachable)
<1> DEFINE ctx == QueryCtx(made.onto, InputOf(w), w.pattern, inter)
<1> DEFINE dirs == getDirectors(w.atom, ctx.query.dlq, ctx.query.proj)
<1>1. Unprepared(made).made = made
  BY DEF Unprepared
<1>2. WithDirectors(made, ctx, dirs).made = made
  BY <1>1 DEF WithDirectors
<1>3. WithContext(w, made, ctx).made = made
  BY <1>1, <1>2 DEF WithContext
<1>4. WithOntology(w, inter, made).made = made
  BY <1>1, <1>3 DEF WithOntology
<1> QED BY <1>4 DEF Prepare

\* An ontology is asked for by an option or by a query.
RegistersSome ==
  \E text, reachable :
    /\ text.path \in Seq(ToSet(text.path))
    /\ Registers(createOntology(ontomap, files, text, reachable))
    /\ \/ phase = "options" /\ phase' \in {"crashed", "ending"} /\ asks' = asks
       \/ phase = "queries" /\ phase' \in {"queries", "crashed"} /\ asks < MaxAsks /\ asks' = asks + 1

\* Nothing else changes the registry or the files, but the end.
LEMMA RegistrySteps ==
  ASSUME ArgumentsInv, [Next]_vars
  PROVE  \/ Exit \/ RegistersSome
         \/ /\ UNCHANGED <<ontomap, files, leaked, asks>>
            /\ \/ phase' = phase
               \/ phase = "options" /\ phase' \in {"queries", "ending", "crashed"}
<1>1. CASE SetOntology
  <2> DEFINE text == URI(ValueOfOption(Head(argv))[1], Tail(ValueOfOption(Head(argv))))
  <2>1. PICK reachable \in BOOLEAN :
          /\ Registers(createOntology(ontomap, files, text, reachable))
          /\ phase' \in {"crashed", "ending"}
    BY <1>1 DEF SetOntology
  <2>2. argv # <<>> /\ OptionOf(Head(argv)) = "--ontology=" /\ phase = "options"
    BY <1>1 DEF SetOntology, Looks
  <2>3. Head(argv) \in ToSet(given) /\ given \in CommandLines
    BY <2>2, HeadOfArguments DEF ArgumentsInv
  <2>4. Tail(ValueOfOption(Head(argv))) \in Seq(ToSet(Tail(ValueOfOption(Head(argv)))))
    BY <2>2, <2>3, PathsAreTexts
  <2>5. text.path = Tail(ValueOfOption(Head(argv)))
    BY DEF URI
  <2>6. asks' = asks
    BY <1>1 DEF SetOntology, query
  <2> HIDE DEF text
  <2> QED BY <2>1, <2>2, <2>4, <2>5, <2>6 DEF RegistersSome
<1>2. CASE Ask
  <2>1. PICK w \in Queries, reachable \in BOOLEAN :
          \E inter \in Interpretations[w] :
            \E p \in {Prepare(w, inter, reachable)} :
              Reject(w, inter, p) \/ Abort(w, inter, p) \/ CacheHit(w, inter, p) \/ Begin(w, inter, p)
    BY <1>2 DEF Ask
  <2>2. PICK inter \in Interpretations[w] :
          \E p \in {Prepare(w, inter, reachable)} :
            Reject(w, inter, p) \/ Abort(w, inter, p) \/ CacheHit(w, inter, p) \/ Begin(w, inter, p)
    BY <2>1
  <2> DEFINE p == Prepare(w, inter, reachable)
  <2>3. Reject(w, inter, p) \/ Abort(w, inter, p) \/ CacheHit(w, inter, p) \/ Begin(w, inter, p)
    BY <2>2
  <2>4. p.made = createOntology(ontomap, files, w.onto, reachable)
    BY PreparationRegisters
  <2>5. w.onto.path \in Seq(ToSet(w.onto.path))
    BY PathsAreTexts
  <2> HIDE DEF p
  <2>6. Idle /\ Asks(w, inter, p) /\ phase' \in {phase, "crashed"}
    BY <1>2, <2>3 DEF Ask, Reject, Abort, CacheHit, Begin
  <2>7. /\ Registers(p.made)
        /\ phase = "queries" /\ phase' \in {"queries", "crashed"} /\ asks < MaxAsks /\ asks' = asks + 1
    BY <2>6 DEF Idle, Asks
  <2> QED BY <2>4, <2>5, <2>7 DEF RegistersSome
<1>3. CASE SetKBReload \/ SetDLSetup \/ SetDLOpt \/ SetDLDebug
  BY <1>3 DEF SetKBReload, SetDLSetup, SetDLOpt, SetDLDebug, Erase, ontologies, query, session
<1>4. CASE Help \/ SetDefaults \/ KeepArgument \/ OptionsSet
  BY <1>4 DEF Help, SetDefaults, KeepArgument, OptionsSet, Looks, ontologies, query, session, commandLine
<1>5. CASE BuilderThrows \/ Garbled \/ Send
  BY <1>5 DEF BuilderThrows, Garbled, Send, Still, commandLine
<1>6. CASE UNCHANGED vars
  BY <1>6 DEF vars, commandLine, ontologies, session, query
<1> QED BY <1>1, <1>2, <1>3, <1>4, <1>5, <1>6 DEF Next

\* What createOntology makes of the registry and the files: nothing, when the document
\* is known; an entry, with a copy if it is downloaded; or only a file, or nothing.
KnownAlready(made, u) ==
  /\ u \in DOMAIN ontomap /\ made.ok = TRUE /\ made.onto = ontomap[u]
  /\ made.ontomap = ontomap /\ made.files = files

Opened(made, u, uri) ==
  \/ isLocal(u) /\ uri = u /\ made.files = files
  \/ ~isLocal(u) /\ uri = tempnam(files) /\ made.files = Put(files, uri, u)

NewlyRead(made, u, uri) ==
  /\ u \notin DOMAIN ontomap /\ u \in DOMAIN Documents
  /\ made.ok = TRUE /\ made.onto = Ontology(u, uri)
  /\ made.ontomap = Put(ontomap, u, Ontology(u, uri)) /\ Opened(made, u, uri)

Unread(made, u, uri) ==
  made.ok = FALSE /\ made.ontomap = ontomap /\ Opened(made, u, uri)

\* One of the three comes of every request.
LEMMA Creation ==
  ASSUME NEW text, NEW reachable, NEW made, NEW u,
         made = createOntology(ontomap, files, text, reachable), u = setupURI(text)
  PROVE  KnownAlready(made, u) \/ \E uri : NewlyRead(made, u, uri) \/ Unread(made, u, uri)
<1> DEFINE uri == IF isLocal(u) THEN u ELSE tempnam(files)
<1> DEFINE fetched == IF isLocal(u) THEN files ELSE fetchURI(files, uri, u)
<1> DEFINE grown == Put(ontomap, u, Ontology(u, uri))
<1>1. made = IF u \in DOMAIN ontomap
             THEN [ok |-> TRUE, onto |-> ontomap[u], ontomap |-> ontomap, files |-> files]
             ELSE IF reachable /\ parses(u)
             THEN [ok |-> TRUE, onto |-> Ontology(u, uri), ontomap |-> grown, files |-> fetched]
             ELSE [ok |-> FALSE, ontomap |-> ontomap, files |-> fetched]
  BY DEF createOntology
<1>2. CASE u \in DOMAIN ontomap
  BY <1>1, <1>2 DEF KnownAlready
<1>3. CASE u \notin DOMAIN ontomap /\ (reachable /\ parses(u))
  <2>1. made.ok = TRUE /\ made.onto = Ontology(u, uri) /\ made.ontomap = grown /\ made.files = fetched
    <3> HIDE DEF grown, fetched, uri
    <3> QED BY <1>1, <1>3
  <2>2. u \in DOMAIN Documents
    BY <1>3 DEF parses
  <2>3. Opened(made, u, uri)
    BY <2>1 DEF Opened, fetchURI
  <2> HIDE DEF uri, fetched
  <2>4. NewlyRead(made, u, uri)
    BY <1>3, <2>1, <2>2, <2>3 DEF NewlyRead
  <2> QED BY <2>4
<1>4. CASE u \notin DOMAIN ontomap /\ ~(reachable /\ parses(u))
  <2>1. made.ok = FALSE /\ made.ontomap = ontomap /\ made.files = fetched
    <3> HIDE DEF grown, fetched, uri
    <3> QED BY <1>1, <1>4
  <2>2. Opened(made, u, uri)
    BY <2>1 DEF Opened, fetchURI
  <2> HIDE DEF uri, fetched
  <2>3. Unread(made, u, uri)
    BY <2>1, <2>2 DEF Unread
  <2> QED BY <2>3
<1> QED BY <1>2, <1>3, <1>4

\* A document that is asked for is registered once, under its absolute URI.
LEMMA RegistryStep ==
  ASSUME RegistryInv, ArgumentsInv, [Next]_vars
  PROVE  RegistryInv'
<1>1. CASE Exit
  <2>1. ontomap' = NoOntologies
    BY <1>1 DEF Exit
  <2>2. DOMAIN ontomap' = {}
    BY <2>1 DEF NoOntologies
  <2> QED BY <2>2 DEF RegistryInv
<1>2. CASE RegistersSome
  <2>1. PICK text, reachable :
          /\ text.path \in Seq(ToSet(text.path))
          /\ Registers(createOntology(ontomap, files, text, reachable))
    BY <1>2 DEF RegistersSome
  <2>2. PICK u : u = setupURI(text) /\ setupURI(u) = u
    BY <2>1, AbsoluteStays
  <2>3. PICK made : made = createOntology(ontomap, files, text, reachable) /\ ontomap' = made.ontomap
    BY <2>1 DEF Registers
  <2>4. \/ ontomap' = ontomap
        \/ u \in DOMAIN Documents /\ \E uri : ontomap' = Put(ontomap, u, Ontology(u, uri))
    <3>0. KnownAlready(made, u) \/ \E uri : NewlyRead(made, u, uri) \/ Unread(made, u, uri)
      BY ONLY <2>2, <2>3, Creation
    <3>1. \/ made.ontomap = ontomap
          \/ u \in DOMAIN Documents /\ \E uri : made.ontomap = Put(ontomap, u, Ontology(u, uri))
      BY ONLY <3>0 DEF KnownAlready, NewlyRead, Unread
    <3> QED BY <2>3, <3>1
  <2>5. CASE ontomap' = ontomap
    BY <2>5 DEF RegistryInv
  <2>6. CASE u \in DOMAIN Documents /\ \E uri : ontomap' = Put(ontomap, u, Ontology(u, uri))
    <3>1. PICK uri : ontomap' = Put(ontomap, u, Ontology(u, uri))
      BY <2>6
    <3>2. /\ DOMAIN ontomap' = DOMAIN ontomap \cup {u}
          /\ ontomap'[u] = Ontology(u, uri)
          /\ \A v \in DOMAIN ontomap : v # u => ontomap'[v] = ontomap[v]
      BY <3>1 DEF Put
    <3>3. Ontology(u, uri).realuri = u
      BY DEF Ontology
    <3> QED BY <2>2, <2>6, <3>2, <3>3 DEF RegistryInv
  <2> QED BY <2>4, <2>5, <2>6
<1>3. CASE ontomap' = ontomap
  BY <1>3 DEF RegistryInv
<1> QED BY <1>1, <1>2, <1>3, RegistrySteps

-----------------------------------------------------------------------------
(* The temporary files. *)

\* Every evaluation makes one file at most, and none is made before.
FilesInv ==
  /\ asks \in Nat
  /\ IsFiniteSet(DOMAIN files) /\ DOMAIN files \subseteq TempNames
  /\ phase = "options" => files = NoFiles
  /\ phase = "queries" => Cardinality(DOMAIN files) <= asks

\* Every downloaded document has a copy of its own on the disk, which no failed download left.
CopiesInv ==
  /\ CopiesBelongToOntologies
  /\ \A u \in DOMAIN ontomap :
       ~isLocal(u) => /\ ontomap[u].uri \in DOMAIN files \ leaked
                      /\ files[ontomap[u].uri] = u

\* As long as queries may be asked, there is a name for another file.
LEMMA NameForAnother ==
  ASSUME FilesInv, phase = "options" \/ (phase = "queries" /\ asks < MaxAsks)
  PROVE  tempnam(files) \in TempNames /\ tempnam(files) \notin DOMAIN files
<1>1. Cardinality(DOMAIN files) <= MaxAsks
  <2>1. CASE phase = "options"
    <3>1. DOMAIN files = {}
      BY <2>1 DEF FilesInv, NoFiles
    <3> QED BY <3>1, FS_EmptySet, TemporaryNames
  <2>2. CASE phase = "queries" /\ asks < MaxAsks
    <3>1. Cardinality(DOMAIN files) \in Nat
      BY FS_CardinalityType DEF FilesInv
    <3> QED BY <2>2, <3>1, TemporaryNames DEF FilesInv
  <2> QED BY <2>1, <2>2
<1>2. DOMAIN files # TempNames
  BY <1>1, TemporaryNames DEF FilesInv
<1>3. \E f \in TempNames : f \notin DOMAIN files
  BY <1>2 DEF FilesInv
<1> QED BY <1>3 DEF tempnam

\* What is asked for is known, is read where it is, is downloaded, or leaves a file only.
Reads(u, uri) ==
  /\ u \in DOMAIN Documents \ DOMAIN ontomap /\ leaked' = leaked
  /\ ontomap' = Put(ontomap, u, Ontology(u, uri))
  /\ \/ isLocal(u) /\ uri = u /\ files' = files
     \/ ~isLocal(u) /\ uri = tempnam(files) /\ files' = Put(files, uri, u)

Leaks(u, uri) ==
  uri = tempnam(files) /\ ontomap' = ontomap /\ files' = Put(files, uri, u) /\ leaked' = leaked \cup {uri}

\* A request registers one document at most.
LEMMA RegistersOne ==
  ASSUME RegistersSome, FilesInv
  PROVE  \/ UNCHANGED <<ontomap, files, leaked>>
         \/ \E u, uri : Reads(u, uri) \/ Leaks(u, uri)
<1>1. PICK text, reachable, made :
        /\ made = createOntology(ontomap, files, text, reachable)
        /\ ontomap' = made.ontomap /\ files' = made.files
        /\ leaked' = leaked \cup (IF made.ok THEN {} ELSE DOMAIN made.files \ DOMAIN files)
  BY DEF RegistersSome, Registers
<1>2. PICK u : u = setupURI(text)
  OBVIOUS
<1>3. tempnam(files) \notin DOMAIN files
  BY NameForAnother DEF RegistersSome
<1>4. PICK t : t = tempnam(files)
  OBVIOUS
<1>5. KnownAlready(made, u) \/ \E uri : NewlyRead(made, u, uri) \/ Unread(made, u, uri)
  BY <1>1, <1>2, Creation
<1>6. CASE KnownAlready(made, u)
  BY <1>1, <1>4, <1>6 DEF KnownAlready
<1>7. CASE \E uri : NewlyRead(made, u, uri)
  <2>1. PICK uri : NewlyRead(made, u, uri)
    BY <1>7
  <2>2. leaked' = leaked
    BY <1>1, <2>1 DEF NewlyRead
  <2>3. /\ u \in DOMAIN Documents \ DOMAIN ontomap
        /\ made.ontomap = Put(ontomap, u, Ontology(u, uri)) /\ Opened(made, u, uri)
    BY <2>1 DEF NewlyRead
  <2>4. Reads(u, uri)
    BY <1>1, <2>2, <2>3 DEF Opened, Reads
  <2> QED BY <2>4
<1>8. CASE \E uri : Unread(made, u, uri)
  <2>1. PICK uri : Unread(made, u, uri)
    BY <1>8
  <2>2. made.ok = FALSE /\ made.ontomap = ontomap /\ Opened(made, u, uri)
    BY <2>1 DEF Unread
  <2>3. leaked' = leaked \cup (DOMAIN made.files \ DOMAIN files)
    BY <1>1, <2>2
  <2>4. CASE made.files = files
    <3>1. leaked' = leaked
      BY <2>3, <2>4
    <3> QED BY <1>1, <1>4, <2>2, <2>4, <3>1
  <2>5. CASE made.files = Put(files, t, u)
    <3>1. DOMAIN made.files = DOMAIN files \cup {t}
      BY <2>5 DEF Put
    <3>2. leaked' = leaked \cup {t}
      BY <1>3, <1>4, <2>3, <3>1
    <3>3. Leaks(u, t)
      BY <1>1, <1>4, <2>2, <2>5, <3>2 DEF Leaks
    <3> QED BY <3>3
  <2> QED BY <1>4, <2>2, <2>4, <2>5 DEF Opened
<1> QED BY <1>5, <1>6, <1>7, <1>8

\* A file is made at most, for an evaluation or at the end of the options.
LEMMA FilesStep ==
  ASSUME FilesInv, ArgumentsInv, [Next]_vars
  PROVE  FilesInv'
<1>1. CASE Exit
  <2>1. phase' = "exited" /\ asks' = asks /\ files' = RemoveFiles(ontomap, files)
    BY <1>1 DEF Exit, query
  <2>2. DOMAIN files' \subseteq DOMAIN files
    BY <2>1 DEF RemoveFiles
  <2>3. IsFiniteSet(DOMAIN files')
    BY <2>2, FS_Subset DEF FilesInv
  <2> QED BY <2>1, <2>2, <2>3 DEF FilesInv
<1>2. CASE RegistersSome
  <2>1. /\ phase \in {"options", "queries"} /\ phase' # "options"
        /\ asks' \in Nat /\ (phase' = "queries" => phase = "queries" /\ asks' = asks + 1)
    BY <1>2 DEF RegistersSome, FilesInv
  <2>2. CASE files' = files
    <3>1. Cardinality(DOMAIN files) \in Nat
      BY FS_CardinalityType DEF FilesInv
    <3> QED BY <2>1, <2>2, <3>1 DEF FilesInv
  <2>3. CASE \E u, uri : uri = tempnam(files) /\ files' = Put(files, uri, u)
    <3>1. PICK u, uri : uri = tempnam(files) /\ files' = Put(files, uri, u)
      BY <2>3
    <3>2. uri \in TempNames /\ uri \notin DOMAIN files
      BY <1>2, <3>1, NameForAnother DEF RegistersSome
    <3>3. DOMAIN files' = DOMAIN files \cup {uri}
      BY <3>1 DEF Put
    <3>4. /\ IsFiniteSet(DOMAIN files') /\ Cardinality(DOMAIN files) \in Nat
          /\ Cardinality(DOMAIN files') = Cardinality(DOMAIN files) + 1
      BY <3>2, <3>3, FS_AddElement, FS_CardinalityType DEF FilesInv
    <3> QED BY <2>1, <3>2, <3>3, <3>4 DEF FilesInv
  <2> QED BY <1>2, <2>2, <2>3, RegistersOne DEF Reads, Leaks
<1>3. CASE files' = files /\ asks' = asks /\ phase' = phase
  BY <1>3 DEF FilesInv
<1>4. CASE files' = files /\ asks' = asks /\ phase = "options" /\ phase' \in {"queries", "ending", "crashed"}
  <2>1. DOMAIN files = {}
    BY <1>4 DEF FilesInv, NoFiles
  <2>2. Cardinality(DOMAIN files') = 0
    BY <1>4, <2>1, FS_EmptySet
  <2> QED BY <1>4, <2>2 DEF FilesInv
<1> QED BY <1>1, <1>2, <1>3, <1>4, RegistrySteps

\* A copy is registered with its document, or counted among the files that nobody owns.
LEMMA CopiesStep ==
  ASSUME CopiesInv, FilesInv, RegistryInv, ArgumentsInv, [Next]_vars
  PROVE  CopiesInv'
<1> DEFINE Copies == {ontomap[u].uri : u \in {v \in DOMAIN ontomap : ~isLocal(v)}}
<1>1. CASE Exit
  <2>1. ontomap' = NoOntologies /\ files' = RemoveFiles(ontomap, files) /\ leaked' = leaked
    BY <1>1 DEF Exit
  <2>2. {v \in DOMAIN ontomap : ~isLocal(ontomap[v].realuri)} = {v \in DOMAIN ontomap : ~isLocal(v)}
    BY DEF RegistryInv
  <2>3. DOMAIN RemoveFiles(ontomap, files) = DOMAIN files \ Copies
    BY <2>2 DEF RemoveFiles
  <2>4. Copies \cap leaked = {}
    BY DEF CopiesInv
  <2>5. DOMAIN RemoveFiles(ontomap, files) = leaked
    BY <2>3, <2>4 DEF CopiesInv, CopiesBelongToOntologies
  <2>6. DOMAIN ontomap' = {}
    BY <2>1 DEF NoOntologies
  <2>7. DOMAIN files' = leaked'
    BY <2>1, <2>5
  <2> QED BY <2>6, <2>7 DEF CopiesInv, CopiesBelongToOntologies
<1>2. CASE RegistersSome
  <2>1. tempnam(files) \notin DOMAIN files
    BY <1>2, NameForAnother DEF RegistersSome
  <2>2. leaked \subseteq DOMAIN files
    BY DEF CopiesInv, CopiesBelongToOntologies
  <2>3. CASE UNCHANGED <<ontomap, files, leaked>>
    BY <2>3 DEF CopiesInv, CopiesBelongToOntologies
  <2>4. CASE \E u, uri : Reads(u, uri)
    <3>1. PICK u, uri : Reads(u, uri)
      BY <2>4
    <3>2. /\ u \notin DOMAIN ontomap /\ DOMAIN ontomap' = DOMAIN ontomap \cup {u}
          /\ ontomap'[u].uri = uri
          /\ \A v \in DOMAIN ontomap : ontomap'[v] = ontomap[v]
          /\ leaked' = leaked
      BY <3>1 DEF Reads, Put, Ontology
    <3>3. CASE isLocal(u) /\ files' = files
      BY <3>2, <3>3 DEF CopiesInv, CopiesBelongToOntologies
    <3>4. CASE ~isLocal(u) /\ uri = tempnam(files) /\ files' = Put(files, uri, u)
      <4>1. /\ uri \notin DOMAIN files /\ DOMAIN files' = DOMAIN files \cup {uri}
            /\ files'[uri] = u
            /\ \A f \in DOMAIN files : files'[f] = files[f]
        BY <2>1, <3>4 DEF Put
      <4>2. DOMAIN files' = leaked' \cup {ontomap'[v].uri : v \in {w \in DOMAIN ontomap' : ~isLocal(w)}}
        BY <3>2, <3>4, <4>1 DEF CopiesInv, CopiesBelongToOntologies
      <4>3. \A v \in DOMAIN ontomap' :
              ~isLocal(v) => ontomap'[v].uri \in DOMAIN files' \ leaked' /\ files'[ontomap'[v].uri] = v
        BY <2>2, <3>2, <4>1 DEF CopiesInv
      <4> QED BY <4>2, <4>3 DEF CopiesInv, CopiesBelongToOntologies
    <3> QED BY <3>1, <3>3, <3>4 DEF Reads
  <2>5. CASE \E u, uri : Leaks(u, uri)
    <3>1. PICK u, uri : Leaks(u, uri)
      BY <2>5
    <3>2. /\ uri \notin DOMAIN files /\ DOMAIN files' = DOMAIN files \cup {uri}
          /\ \A f \in DOMAIN files : files'[f] = files[f]
          /\ ontomap' = ontomap /\ leaked' = leaked \cup {uri}
      BY <2>1, <3>1 DEF Leaks, Put
    <3> QED BY <3>2 DEF CopiesInv, CopiesBelongToOntologies
  <2> QED BY <1>2, <2>3, <2>4, <2>5, RegistersOne
<1>3. CASE UNCHANGED <<ontomap, files, leaked>>
  BY <1>3 DEF CopiesInv, CopiesBelongToOntologies
<1> QED BY <1>1, <1>2, <1>3, RegistrySteps

\* The registry, the files and the command line at the start.
LEMMA RegistryStarts ==
  ASSUME Init
  PROVE  ArgumentsInv /\ RegistryInv /\ FilesInv /\ CopiesInv
<1>1. given \in CommandLines /\ argv = given /\ ontomap = NoOntologies
  BY DEF Init
<1>2. ArgumentsInv
  <2>1. given \in Seq(ToSet(given))
    BY <1>1, ArgumentsAreWords
  <2>2. Len(given) \in Nat
    BY <2>1, LenProperties
  <2> QED BY <1>1, <2>1, <2>2 DEF ArgumentsInv, SuffixOf
<1>3. DOMAIN ontomap = {}
  BY <1>1 DEF NoOntologies
<1>4. files = NoFiles /\ leaked = {} /\ asks = 0 /\ phase = "options"
  BY DEF Init
<1>5. DOMAIN files = {}
  BY <1>4 DEF NoFiles
<1>6. FilesInv
  BY <1>4, <1>5, FS_EmptySet DEF FilesInv
<1> QED BY <1>2, <1>3, <1>4, <1>5, <1>6 DEF RegistryInv, CopiesInv, CopiesBelongToOntologies

\* Ontology.cpp:98: there is one ontology for a document, however its URI is written,
\* and a document that could not be read has none.
THEOREM DocumentsRegisteredOnce == Spec => []OneOntologyPerDocument
<1>1. Init => ArgumentsInv /\ RegistryInv
  BY RegistryStarts
<1>2. (ArgumentsInv /\ RegistryInv) /\ [Next]_vars => (ArgumentsInv /\ RegistryInv)'
  BY ArgumentsStep, RegistryStep
<1>3. RegistryInv => OneOntologyPerDocument
  BY DEF RegistryInv, OneOntologyPerDocument
<1> QED BY <1>1, <1>2, <1>3, PTL DEF Spec

\* Ontology.cpp:47: the temporary files on the disk are the copies of the registered
\* documents and what failed downloads left; after an orderly end only these are left.
THEOREM CopiesAlwaysBelong == Spec => []CopiesBelongToOntologies
<1> DEFINE Inv == ArgumentsInv /\ RegistryInv /\ FilesInv /\ CopiesInv
<1>1. Init => Inv
  BY RegistryStarts
<1>2. Inv /\ [Next]_vars => Inv'
  BY ArgumentsStep, RegistryStep, FilesStep, CopiesStep
<1>3. Inv => CopiesBelongToOntologies
  BY DEF CopiesInv
<1> QED BY <1>1, <1>2, <1>3, PTL DEF Spec

-----------------------------------------------------------------------------
(* The members that options change, and the cache that they choose. *)

MembersInv ==
  /\ plugin \in [cache : CacheKinds, kbManager : Seq({"RacerKBManager", "NullKBManager"}),
                 converters : SUBSET {"dlconverter", "dfconverter"}, flags : SUBSET RegistryFlags]
  /\ Len(plugin.kbManager) >= 1 /\ plugin.kbManager[1] = "RacerKBManager"

\* The members as the constructor sets them.
LEMMA MembersStart ==
  ASSUME Init
  PROVE  MembersInv /\ plugin.cache = "Cache"
<1>1. plugin = [cache |-> "Cache", kbManager |-> <<"RacerKBManager">>, converters |-> {},
                flags |-> RegistryFlags]
  BY DEF Init, RacerKBManager, createConverters
<1>2. <<"RacerKBManager">> \in Seq({"RacerKBManager", "NullKBManager"})
  OBVIOUS
<1> QED BY <1>1, <1>2 DEF MembersInv, CacheKinds

\* Every option sets one member, and only while options are read.
LEMMA MembersStep ==
  ASSUME MembersInv, [Next]_vars
  PROVE  MembersInv'
<1>1. CASE SetKBReload
  <2> DEFINE managers == Append(plugin.kbManager, "NullKBManager")
  <2>1. plugin' = [plugin EXCEPT !.kbManager = managers]
    BY <1>1 DEF SetKBReload, NullKBManager
  <2>2. managers \in Seq({"RacerKBManager", "NullKBManager"}) /\ Len(managers) >= 1
          /\ managers[1] = "RacerKBManager"
    BY AppendProperties, LenProperties DEF MembersInv
  <2> HIDE DEF managers
  <2> QED BY <2>1, <2>2 DEF MembersInv
<1>2. CASE SetDLSetup
  BY <1>2 DEF SetDLSetup, setFlags, MembersInv
<1>3. CASE SetDLOpt
  BY <1>3 DEF SetDLOpt, MembersInv, CacheKinds
<1>4. CASE SetDLDebug
  BY <1>4 DEF SetDLDebug, MembersInv, CacheKinds
<1>5. CASE plugin' = plugin
  BY <1>5 DEF MembersInv
<1>6. CASE Help \/ SetOntology \/ SetDefaults \/ KeepArgument \/ OptionsSet \/ Exit
  BY <1>5, <1>6 DEF Help, SetOntology, SetDefaults, KeepArgument, OptionsSet, Exit,
                    commandLine, ontologies, session, query
<1>7. CASE Ask
  BY <1>5, <1>7 DEF Ask, Idle, Reject, Abort, CacheHit, Begin, Asks, commandLine, session
<1>8. CASE BuilderThrows \/ Garbled \/ Send
  BY <1>5, <1>8 DEF BuilderThrows, Garbled, Send, Still, commandLine
<1>9. CASE UNCHANGED vars
  BY <1>5, <1>9 DEF vars, commandLine, ontologies, session, query
<1> QED BY <1>1, <1>2, <1>3, <1>4, <1>6, <1>7, <1>8, <1>9 DEF Next

\* What an argument does to the cache, by what it says.
SwitchesOff(arg) == Disables(arg, {"-dlcache"})

\* What is not about the cache says neither.
LEMMA OthersDecideNothing ==
  ASSUME ArgumentsInv, argv # <<>>, OptionOf(Head(argv)) \notin {"--dlopt=", "--dldebug="}
  PROVE  ~SwitchesOff(Head(argv))
BY HeadOfArguments, ArgumentsAreWords DEF ArgumentsInv, SwitchesOff, Disables

\* A cache that was switched off in the first n arguments is off, unless it is replaced.
SwitchedInv(n) ==
  /\ plugin.cache = "NullCache" => \E k \in 1..n : SwitchesOff(given[k])
  /\ OffAfter(given, n) => plugin.cache = "NullCache"

\* It stays empty and answers nothing.
ChoiceInv ==
  /\ phase = "options" =>
       /\ SwitchedInv(Len(given) - Len(argv))
       /\ contexts = {} /\ returned = NoQuery
  /\ phase = "queries" =>
       /\ SwitchedInv(Len(given))
       /\ plugin.cache = "NullCache" => contexts = {} /\ (IsAnswer => returned.from = "racer")

\* What the first n + 1 arguments leave off is left off by the first n, or by the last.
LEMMA OffBefore ==
  ASSUME NEW line, NEW n \in Nat, OffAfter(line, n + 1)
  PROVE  SwitchesOff(line[n + 1]) \/ (OffAfter(line, n) /\ ~MayReplaceCache(line[n + 1]))
<1>1. PICK k \in 1..(n + 1) : /\ Disables(line[k], {"-dlcache"})
                              /\ \A j \in (k + 1)..(n + 1) : ~MayReplaceCache(line[j])
  BY DEF OffAfter
<1>2. CASE k = n + 1
  BY <1>1, <1>2 DEF SwitchesOff
<1>3. CASE k # n + 1
  <2>1. k \in 1..n /\ n + 1 \in (k + 1)..(n + 1)
    BY <1>3
  <2>2. \A j \in (k + 1)..n : j \in (k + 1)..(n + 1)
    BY <2>1
  <2> QED BY <1>1, <2>1, <2>2 DEF OffAfter
<1> QED BY <1>2, <1>3

\* The next argument leaves the cache, switches it off or replaces it.
LEMMA SwitchedByNext ==
  ASSUME NEW n \in Nat, SwitchedInv(n), given' = given,
         \/ plugin'.cache = plugin.cache /\ ~SwitchesOff(given[n + 1])
         \/ plugin'.cache = "NullCache" /\ SwitchesOff(given[n + 1])
         \/ plugin'.cache = "DebugCache" /\ ~SwitchesOff(given[n + 1]) /\ MayReplaceCache(given[n + 1])
  PROVE  SwitchedInv(n + 1)'
<1>1. n + 1 \in 1..(n + 1) /\ \A k \in 1..n : k \in 1..(n + 1)
  OBVIOUS
<1>2. plugin'.cache = "NullCache" => \E k \in 1..(n + 1) : SwitchesOff(given[k])
  BY <1>1 DEF SwitchedInv
<1>3. OffAfter(given, n + 1) => plugin'.cache = "NullCache"
  BY OffBefore DEF SwitchedInv
<1> QED BY <1>2, <1>3 DEF SwitchedInv, SwitchesOff, Disables, OffAfter, MayReplaceCache

\* The arguments that an option takes.
LEMMA ChoiceByOptions ==
  ASSUME ChoiceInv, MembersInv, ArgumentsInv, phase = "options", phase' = "options", argv # <<>>,
         argv' = Tail(argv), given' = given, contexts' = contexts, returned' = returned,
         \/ plugin'.cache = plugin.cache /\ ~SwitchesOff(Head(argv))
         \/ plugin'.cache = "NullCache" /\ SwitchesOff(Head(argv))
         \/ plugin'.cache = "DebugCache" /\ ~SwitchesOff(Head(argv)) /\ MayReplaceCache(Head(argv))
  PROVE  ChoiceInv'
<1>1. PICK n : n = Len(given) - Len(argv)
  OBVIOUS
<1>2. /\ Head(argv) = given[n + 1] /\ n \in Nat
      /\ Len(given) - Len(Tail(argv)) = n + 1
  <2>1. Len(given) \in Nat
    BY LinesAreLists, LenProperties
  <2> QED BY <1>1, <2>1, HeadOfArguments
<1>3. SwitchedInv(n)
  BY <1>1 DEF ChoiceInv
<1>4. SwitchedInv(n + 1)'
  BY <1>2, <1>3, SwitchedByNext
<1>5. SwitchedInv(Len(given) - Len(argv))'
  BY <1>2, <1>4
<1> QED BY <1>5 DEF ChoiceInv

\* A query is under way only while queries are evaluated.
TurnInv == asking # NoQuery => phase = "queries"

\* Which of the three ends of a director's turn it is, or none.
LEMMA TurnEnds ==
  ASSUME BuilderThrows \/ Garbled \/ Send
  PROVE  /\ asking # NoQuery /\ phase' = phase /\ plugin' = plugin /\ given' = given /\ argv' = argv
         /\ \/ /\ asking' = asking /\ contexts' = contexts /\ returned' = returned
               /\ todo' = Tail(todo)
            \/ Throw
            \/ \E a : Deliver(a)
<1>1. asking # NoQuery /\ phase' = phase /\ plugin' = plugin /\ given' = given /\ argv' = argv
  BY DEF BuilderThrows, Garbled, Send, Still, Turn, commandLine
<1>2. CASE BuilderThrows
  BY <1>1, <1>2 DEF BuilderThrows
<1>3. CASE Garbled
  BY <1>1, <1>3 DEF Garbled
<1>4. CASE Send
  <2>1. PICK read : Goes(read) \/ Refused(read) \/ HandleInconsistency(read)
    BY <1>4 DEF Send, Sends
  <2>2. CASE Goes(read)
    BY <1>1, <2>2 DEF Goes
  <2>3. CASE Refused(read)
    BY <1>1, <2>3 DEF Refused
  <2>4. CASE HandleInconsistency(read)
    <3>1. \E a : Deliver(a)
      BY <2>4 DEF HandleInconsistency
    <3> QED BY <1>1, <3>1
  <2> QED BY <2>1, <2>2, <2>3, <2>4
<1> QED BY <1>2, <1>3, <1>4

\* What an evaluation does, besides the registry.
LEMMA AskEnds ==
  ASSUME Ask
  PROVE  \E w \in Queries : \E inter \in Interpretations[w], reachable \in BOOLEAN :
           \E p : /\ p = Prepare(w, inter, reachable) /\ Idle /\ Asks(w, inter, p)
                  /\ Reject(w, inter, p) \/ Abort(w, inter, p) \/ CacheHit(w, inter, p) \/ Begin(w, inter, p)
BY DEF Ask, Reject, Abort, CacheHit, Begin

\* Nothing but queries is evaluated while one is under way.
LEMMA TurnStep ==
  ASSUME TurnInv, [Next]_vars
  PROVE  TurnInv'
<1>1. CASE Ask
  BY <1>1 DEF Ask, Idle, Reject, Abort, CacheHit, Begin, Asks, TurnInv
<1>2. CASE BuilderThrows \/ Garbled \/ Send
  BY <1>2, TurnEnds DEF TurnInv, Throw, Deliver, Finished
<1>3. CASE SetKBReload \/ SetDLSetup \/ SetDLOpt \/ SetDLDebug
  BY <1>3 DEF SetKBReload, SetDLSetup, SetDLOpt, SetDLDebug, Erase, TurnInv, ontologies, session, query
<1>4. CASE Help \/ SetOntology \/ SetDefaults \/ KeepArgument \/ OptionsSet
  BY <1>4 DEF Help, SetOntology, SetDefaults, KeepArgument, OptionsSet, Looks, TurnInv,
              commandLine, ontologies, session, query
<1>5. CASE Exit
  BY <1>5 DEF Exit, TurnInv, commandLine, query
<1>6. CASE UNCHANGED vars
  BY <1>6 DEF vars, TurnInv, commandLine, ontologies, session, query
<1> QED BY <1>1, <1>2, <1>3, <1>4, <1>5, <1>6 DEF Next

\* While queries are evaluated the cache stays what it is.
LEMMA ChoiceByQueries ==
  ASSUME ChoiceInv, phase = "queries", phase' \in {"queries", "crashed"},
         plugin' = plugin, given' = given,
         plugin.cache = "NullCache" =>
           contexts' = contexts /\ (IsAnswer' => (IsAnswer /\ returned' = returned) \/ returned'.from = "racer")
  PROVE  ChoiceInv'
BY DEF ChoiceInv, SwitchedInv, OffAfter, SwitchesOff, Disables, MayReplaceCache, IsAnswer

\* The cache follows the options one by one, and then stays.
LEMMA ChoiceStep ==
  ASSUME ChoiceInv, MembersInv, ArgumentsInv, TurnInv, [Next]_vars
  PROVE  ChoiceInv'
<1>1. CASE SetKBReload \/ SetDLSetup
  <2>1. /\ phase = "options" /\ phase' = "options" /\ argv # <<>> /\ argv' = Tail(argv)
        /\ given' = given /\ contexts' = contexts /\ returned' = returned
        /\ OptionOf(Head(argv)) \in {"--kb-reload", "--dlsetup="}
    BY <1>1 DEF SetKBReload, SetDLSetup, Looks, Erase
  <2>2. plugin'.cache = plugin.cache
    BY <1>1 DEF SetKBReload, SetDLSetup, setFlags, MembersInv
  <2>3. ~SwitchesOff(Head(argv))
    BY <2>1, OthersDecideNothing
  <2> QED BY <2>1, <2>2, <2>3, ChoiceByOptions
<1>2. CASE KeepArgument
  <2>1. /\ phase = "options" /\ phase' = "options" /\ argv # <<>> /\ argv' = Tail(argv)
        /\ given' = given /\ contexts' = contexts /\ returned' = returned
        /\ OptionOf(Head(argv)) = "none" /\ plugin' = plugin
    BY <1>2 DEF KeepArgument, Looks
  <2>2. ~SwitchesOff(Head(argv))
    BY <2>1, OthersDecideNothing
  <2> QED BY <2>1, <2>2, ChoiceByOptions
<1>3. CASE SetDLOpt
  <2> DEFINE arg == Head(argv)
  <2>1. /\ phase = "options" /\ phase' = "options" /\ argv # <<>> /\ argv' = Tail(argv)
        /\ given' = given /\ contexts' = contexts /\ returned' = returned
        /\ OptionOf(arg) = "--dlopt="
    BY <1>3 DEF SetDLOpt, Looks, Erase
  <2>2. plugin' = IF SwitchedOff(ValueOfOption(arg))
                  THEN [plugin EXCEPT !.cache = "NullCache"] ELSE plugin
    BY <1>3 DEF SetDLOpt
  <2>3. /\ "--dlopt=" \in ToSet(arg) /\ "--dldebug=" \notin ToSet(arg)
        /\ "-dlcache" \in ToSet(arg) <=> "-dlcache" \in ToSet(ValueOfOption(arg))
    BY <2>1, HeadOfArguments, ArgumentsAreWords, OptionIsFound DEF ArgumentsInv
  <2>4. CASE SwitchedOff(ValueOfOption(arg))
    <3>1. plugin'.cache = "NullCache"
      BY <2>2, <2>4 DEF MembersInv
    <3>2. SwitchesOff(arg)
      BY <2>3, <2>4 DEF SwitchesOff, Disables, SwitchedOff
    <3> QED BY <2>1, <3>1, <3>2, ChoiceByOptions
  <2>5. CASE ~SwitchedOff(ValueOfOption(arg))
    <3>1. plugin' = plugin
      BY <2>2, <2>5
    <3>2. ~SwitchesOff(arg)
      BY <2>3, <2>5 DEF SwitchesOff, Disables, SwitchedOff
    <3> QED BY <2>1, <3>1, <3>2, ChoiceByOptions
  <2> QED BY <2>4, <2>5
<1>4. CASE SetDLDebug
  <2> DEFINE arg == Head(argv)
  <2>1. /\ phase = "options" /\ phase' = "options" /\ argv # <<>> /\ argv' = Tail(argv)
        /\ given' = given /\ contexts' = contexts /\ returned' = returned
        /\ OptionOf(arg) = "--dldebug="
    BY <1>4 DEF SetDLDebug, Looks, Erase
  <2>2. PICK level \in LevelsOf(ValueOfOption(arg)) :
          plugin' = [plugin EXCEPT !.cache = IF level > 2 THEN "DebugCache" ELSE @]
    BY <1>4 DEF SetDLDebug
  <2>3. "--dldebug=" \in ToSet(arg) /\ "--dlopt=" \notin ToSet(arg)
    BY <2>1, HeadOfArguments, ArgumentsAreWords, OptionIsFound DEF ArgumentsInv
  <2>4. level \in 0..3
    BY <2>2 DEF LevelsOf, Levels
  <2>5. CASE level = 3
    <3>1. plugin'.cache = "DebugCache"
      BY <2>2, <2>5 DEF MembersInv
    <3>2. ~SwitchesOff(arg) /\ MayReplaceCache(arg)
      BY <2>2, <2>3, <2>5 DEF SwitchesOff, Disables, MayReplaceCache
    <3> QED BY <2>1, <3>1, <3>2, ChoiceByOptions
  <2>6. CASE level # 3
    <3>1. plugin'.cache = plugin.cache
      BY <2>2, <2>4, <2>6 DEF MembersInv
    <3>2. ~SwitchesOff(arg)
      BY <2>3 DEF SwitchesOff, Disables
    <3> QED BY <2>1, <3>1, <3>2, ChoiceByOptions
  <2> QED BY <2>4, <2>5, <2>6
<1>5. CASE Help \/ SetOntology \/ SetDefaults \/ Exit
  BY <1>5 DEF Help, SetOntology, SetDefaults, Exit, ChoiceInv
<1>6. CASE OptionsSet
  <2>1. /\ phase = "options" /\ argv = <<>> /\ phase' = "queries"
        /\ plugin' = plugin /\ given' = given /\ contexts' = contexts /\ returned' = returned
    BY <1>6 DEF OptionsSet, commandLine
  <2>2. Len(given) - Len(argv) = Len(given)
    BY <2>1, LinesAreLists, LenProperties, EmptySeq
  <2>3. SwitchedInv(Len(given)) /\ contexts = {} /\ ~IsAnswer
    BY <2>1, <2>2 DEF ChoiceInv, IsAnswer, NoQuery
  <2>4. SwitchedInv(Len(given))' /\ contexts' = {} /\ ~IsAnswer'
    BY <2>1, <2>3 DEF IsAnswer, SwitchedInv, OffAfter, SwitchesOff, Disables, MayReplaceCache
  <2> QED BY <2>1, <2>4 DEF ChoiceInv
<1>7. CASE Ask
  <2>1. PICK w, inter, p :
          /\ Idle /\ Asks(w, inter, p)
          /\ Reject(w, inter, p) \/ Abort(w, inter, p) \/ CacheHit(w, inter, p) \/ Begin(w, inter, p)
    BY <1>7, AskEnds
  <2>2. phase = "queries" /\ phase' \in {"queries", "crashed"} /\ plugin' = plugin /\ given' = given
    BY <2>1 DEF Idle, Asks, Reject, Abort, CacheHit, Begin, commandLine
  <2>3. contexts' = contexts
    BY <2>1 DEF Reject, Abort, CacheHit, Begin
  <2>4. plugin.cache = "NullCache" => returned'.kind # "answer"
    BY <2>1 DEF Reject, Abort, CacheHit, Begin, Failed, Aborted, NoQuery, UsesCache
  <2> QED BY <2>2, <2>3, <2>4, ChoiceByQueries DEF IsAnswer
<1>8. CASE BuilderThrows \/ Garbled \/ Send
  <2>1. phase = "queries" /\ phase' = "queries" /\ plugin' = plugin /\ given' = given
    BY <1>8, TurnEnds DEF TurnInv
  <2>2. CASE contexts' = contexts /\ returned' = returned
    BY <2>1, <2>2, ChoiceByQueries DEF IsAnswer
  <2>3. CASE Throw
    BY <2>1, <2>3, ChoiceByQueries DEF IsAnswer, Throw, Failed
  <2>4. CASE \E a : Deliver(a)
    <3>1. PICK a : Deliver(a)
      BY <2>4
    <3>2. returned'.from = "racer"
      BY <3>1 DEF Deliver, Returned
    <3>3. plugin.cache = "NullCache" => contexts' = contexts
      BY <3>1 DEF Deliver, InsertAnswer, UsesCache
    <3> QED BY <2>1, <3>2, <3>3, ChoiceByQueries
  <2> QED BY <1>8, <2>2, <2>3, <2>4, TurnEnds
<1>9. CASE UNCHANGED vars
  BY <1>9 DEF vars, commandLine, ontologies, session, query, ChoiceInv, SwitchedInv, OffAfter,
              SwitchesOff, Disables, MayReplaceCache, IsAnswer
<1> QED BY <1>1, <1>2, <1>3, <1>4, <1>5, <1>6, <1>7, <1>8, <1>9 DEF Next

\* For every command line, with its options in any order: a run has a cache unless an
\* argument disables it, and one that --dlopt=-dlcache disables keeps nothing and answers
\* nothing, if no debug level behind it may replace the cache.
THEOREM CacheAlwaysAsDocumented == Spec => []CacheAsDocumented
<1> DEFINE Inv == ArgumentsInv /\ MembersInv /\ TurnInv /\ ChoiceInv
<1>1. Init => Inv
  <2> SUFFICES ASSUME Init PROVE Inv
    OBVIOUS
  <2>1. ArgumentsInv /\ MembersInv /\ plugin.cache = "Cache"
    BY RegistryStarts, MembersStart
  <2>2. /\ phase = "options" /\ argv = given /\ contexts = {} /\ returned = NoQuery
        /\ asking = NoQuery
    BY DEF Init
  <2>3. Len(given) - Len(argv) = 0
    BY <2>1, <2>2, LinesAreLists, LenProperties
  <2>4. SwitchedInv(0)
    BY <2>1 DEF SwitchedInv, OffAfter
  <2>5. ChoiceInv
    BY <2>1, <2>2, <2>3, <2>4 DEF ChoiceInv
  <2> QED BY <2>1, <2>2, <2>5 DEF TurnInv
<1>2. Inv /\ [Next]_vars => Inv'
  BY ArgumentsStep, MembersStep, TurnStep, ChoiceStep
<1>3. Inv => CacheAsDocumented
  <2> SUFFICES ASSUME Inv, phase = "queries"
               PROVE  /\ plugin.cache = "NullCache" =>
                           \E k \in 1..Len(given) : Disables(given[k], {"-cache", "-dlcache"})
                      /\ OffAfter(given, Len(given)) =>
                           contexts = {} /\ (IsAnswer => returned.from = "racer")
    BY DEF CacheAsDocumented
  <2>1. SwitchedInv(Len(given))
    BY DEF ChoiceInv
  <2>2. \A arg : SwitchesOff(arg) => Disables(arg, {"-cache", "-dlcache"})
    BY DEF SwitchesOff, Disables
  <2> QED BY <2>1, <2>2 DEF SwitchedInv, ChoiceInv
<1> QED BY <1>1, <1>2, <1>3, PTL DEF Spec

-----------------------------------------------------------------------------
(* What is made of a written query. *)

\* A query that is made keeps its ontology and its output list.
Keeps(ctx, onto, pattern) ==
  ctx.ok => ctx.dlq.onto = onto /\ ctx.dlq.pattern = pattern

\* A conjunction or a union is made of a text that says so, or of a negated role.
Kind(ctx, text, pattern) ==
  ctx.ok /\ (isConjQuery(ctx.dlq) \/ isUnionConjQuery(ctx.dlq)) =>
    "(" \in ToSet(Unbracketed(text)) \/ " v " \in ToSet(Unbracketed(text)) \/ Len(pattern) = 2

\* The constructor of a query changes neither its ontology nor its output list.
LEMMA MadeKeeps ==
  ASSUME NEW onto, NEW text, NEW cq, NEW ucq, NEW pattern
  PROVE  Keeps(Made(DLQuery(onto, text, cq, ucq, pattern)), onto, pattern)
BY DEF Keeps, Made, DLQuery

\* A query without a conjunction is no conjunction.
LEMMA PlainIsPlain ==
  ASSUME NEW onto, NEW q, NEW pattern
  PROVE  ~isConjQuery(PlainQuery(onto, q, pattern)) /\ ~isUnionConjQuery(PlainQuery(onto, q, pattern))
BY DEF isConjQuery, isUnionConjQuery, PlainQuery, DLQuery

\* Whatever a text is taken for, its query keeps what was given.
LEMMA TextKeeps ==
  ASSUME NEW onto, NEW text, NEW pattern
  PROVE  /\ Keeps(QueryOfText(onto, text, pattern), onto, pattern)
         /\ Kind(QueryOfText(onto, text, pattern), text, pattern)
<1>1. Keeps(NoQueryCtx, onto, pattern)
  BY DEF Keeps, NoQueryCtx
<1>2. \A parsed : Keeps(Conjunctive(onto, parsed, pattern), onto, pattern)
  BY <1>1, MadeKeeps DEF Conjunctive
<1>3. \A parsed : Keeps(Union(onto, parsed, pattern), onto, pattern)
  BY <1>1, MadeKeeps DEF Union
<1>4. \A q : Keeps(Made(PlainQuery(onto, q, pattern)), onto, pattern)
  BY MadeKeeps DEF PlainQuery
<1>5. \A q : Keeps(Plain(onto, q, pattern), onto, pattern)
  BY <1>2, <1>4 DEF Plain
<1>6. Keeps(QueryOfText(onto, text, pattern), onto, pattern)
  BY <1>2, <1>3, <1>5 DEF QueryOfText
<1>7. \A q : Kind(Made(PlainQuery(onto, q, pattern)), text, pattern)
  BY PlainIsPlain DEF Kind, Made
<1>8. \A q : Kind(Plain(onto, q, pattern), text, pattern)
  <2> TAKE q
  <2>1. CASE Len(pattern) = 2
    BY <2>1 DEF Kind
  <2>2. CASE Len(pattern) # 2
    BY <1>7, <2>2 DEF Plain
  <2> QED BY <2>1, <2>2
<1>9. Kind(QueryOfText(onto, text, pattern), text, pattern)
  <2>1. CASE isUnion(Unbracketed(text)) \/ "(" \in ToSet(Unbracketed(text))
    BY <2>1 DEF Kind, isUnion
  <2>2. CASE ~isUnion(Unbracketed(text)) /\ "(" \notin ToSet(Unbracketed(text))
    BY <1>8, <2>2 DEF QueryOfText
  <2> QED BY <2>1, <2>2
<1> QED BY <1>6, <1>9

\* Brackets hide nothing.
LEMMA Bracketless ==
  ASSUME NEW text, text \in Seq(ToSet(text))
  PROVE  ToSet(Unbracketed(text)) \subseteq ToSet(text)
<1>1. CASE Len(text) >= 2
  <2>1. Len(text) \in Nat /\ DOMAIN text = 1..Len(text)
    BY LenProperties
  <2>2. 2 \in 1..(Len(text) + 1) /\ Len(text) - 1 \in 1..Len(text)
    BY <1>1, <2>1
  <2>3. SubSeq(text, 2, Len(text) - 1) \in Seq(ToSet(text))
    BY <2>1, <2>2, SubSeqProperties
  <2>4. ToSet(SubSeq(text, 2, Len(text) - 1)) \subseteq ToSet(text)
    BY <2>3, LenProperties DEF ToSet
  <2> QED BY <2>4 DEF Unbracketed
<1>2. CASE ~(Len(text) >= 2)
  BY <1>2 DEF Unbracketed
<1> QED BY <1>1, <1>2

\* The input list of an atom has the text behind the ontology and the four predicates.
LEMMA InputOfAtom ==
  ASSUME NEW w \in Queries
  PROVE  /\ w.atom # "dlConsistent" => Len(InputOf(w)) = 6 /\ InputOf(w)[6] = w.text
         /\ w.atom = "dlConsistent" => Len(InputOf(w)) = 5
<1> DEFINE S == ToSet(w.preds) \cup {w.onto, w.text}
<1>1. w.preds \in Seq(S) /\ Len(w.preds) = 4 /\ <<w.onto>> \in Seq(S) /\ <<w.text>> \in Seq(S)
        /\ <<>> \in Seq(S)
  BY WrittenQueries
<1> HIDE DEF S
<1>2. <<w.onto>> \o w.preds \in Seq(S) /\ Len(<<w.onto>> \o w.preds) = 5
  <2>1. PICK first \in Seq(S) : first = <<w.onto>> /\ Len(first) = 1
    BY <1>1
  <2>2. PICK preds \in Seq(S) : preds = w.preds /\ Len(preds) = 4
    BY <1>1
  <2>3. first \o preds \in Seq(S) /\ Len(first \o preds) = Len(first) + Len(preds)
    BY ConcatProperties
  <2> QED BY <2>1, <2>2, <2>3
<1>3. PICK front \in Seq(S) : front = <<w.onto>> \o w.preds /\ Len(front) = 5
  BY <1>2
<1>4. CASE w.atom # "dlConsistent"
  <2>1. InputOf(w) = front \o <<w.text>>
    <3>1. InputOf(w) = (<<w.onto>> \o w.preds) \o <<w.text>>
      BY <1>4 DEF InputOf
    <3> QED BY <1>3, <3>1
  <2>2. PICK back \in Seq(S) : back = <<w.text>> /\ Len(back) = 1 /\ back[1] = w.text
    BY <1>1
  <2>3. Len(front \o back) = 6 /\ (front \o back)[6] = back[1]
    BY <1>3, <2>2, ConcatProperties
  <2> QED BY <1>4, <2>1, <2>2, <2>3
<1>5. CASE w.atom = "dlConsistent"
  <2>1. InputOf(w) = (<<w.onto>> \o w.preds) \o <<>>
    BY <1>5 DEF InputOf
  <2>2. Len((<<w.onto>> \o w.preds) \o <<>>) = 5
    BY <1>1, <1>2, ConcatProperties
  <2> QED BY <1>5, <2>1, <2>2
<1> QED BY <1>4, <1>5

\* A query keeps its ontology and its output list, and is conjunctive, for one output
\* term, only if its text is.
FitsText(dlq, w, onto) ==
  /\ dlq.onto = onto /\ dlq.pattern = w.pattern
  /\ isConjQuery(dlq) \/ isUnionConjQuery(dlq) =>
       "(" \in ToSet(w.text) \/ " v " \in ToSet(w.text) \/ Len(w.pattern) = 2

\* The query of a context fits the text of its atom.
LEMMA ContextOf ==
  ASSUME NEW w \in Queries, NEW onto, NEW inter, QueryCtx(onto, InputOf(w), w.pattern, inter).ok
  PROVE  FitsText(QueryCtx(onto, InputOf(w), w.pattern, inter).query.dlq, w, onto)
<1>0. PICK ctx : ctx = QueryCtx(onto, InputOf(w), w.pattern, inter)
  OBVIOUS
<1>1. PICK parsed : parsed = IF Len(InputOf(w)) > 5 THEN QueryOfText(onto, InputOf(w)[6], w.pattern)
                             ELSE Made(PlainQuery(onto, <<" ">>, w.pattern))
  OBVIOUS
<1>2. \E proj : ctx = Projected(parsed, proj)
  <2>1. ~(Len(InputOf(w)) < 4)
    <3>1. Len(InputOf(w)) = 6 \/ Len(InputOf(w)) = 5
      BY ONLY w \in Queries, InputOfAtom
    <3> QED BY ONLY <3>1
  <2> QED BY <1>0, <1>1, <2>1 DEF QueryCtx
<1>3. parsed.ok /\ ctx.query.dlq = parsed.dlq
  BY <1>0, <1>2 DEF Projected, NoQueryCtx, Query
<1> SUFFICES FitsText(parsed.dlq, w, onto)
  BY <1>0, <1>3
<1> USE DEF FitsText
<1>4. CASE w.atom # "dlConsistent"
  <2>1. parsed = QueryOfText(onto, w.text, w.pattern)
    <3>1. Len(InputOf(w)) = 6
      BY <1>4, InputOfAtom
    <3>2. InputOf(w)[6] = w.text
      BY <1>4, InputOfAtom
    <3> QED BY <1>1, <3>1, <3>2
  <2>2. ToSet(Unbracketed(w.text)) \subseteq ToSet(w.text)
    BY WrittenQueries, Bracketless
  <2>3. Keeps(parsed, onto, w.pattern) /\ Kind(parsed, w.text, w.pattern)
    BY <2>1, TextKeeps
  <2> QED BY <1>3, <2>2, <2>3 DEF Keeps, Kind
<1>5. CASE w.atom = "dlConsistent"
  <2>1. parsed = Made(PlainQuery(onto, <<" ">>, w.pattern))
    <3>1. Len(InputOf(w)) = 5
      BY <1>5, InputOfAtom
    <3>2. ~(Len(InputOf(w)) > 5)
      BY <3>1
    <3> QED BY <1>1, <3>2, Zenon
  <2>2. Keeps(parsed, onto, w.pattern)
    BY <2>1, MadeKeeps DEF PlainQuery
  <2>3. parsed.dlq = PlainQuery(onto, <<" ">>, w.pattern)
    BY <2>1 DEF Made
  <2> QED BY <1>3, <2>2, <2>3, PlainIsPlain DEF Keeps
<1> QED BY <1>4, <1>5

\* A query that is handed to directors has its registered ontology, and its chain.
LEMMA Prepared ==
  ASSUME NEW w \in Queries, NEW inter, NEW reachable, NEW p, NEW made,
         p = Prepare(w, inter, reachable), p.ok,
         made = createOntology(ontomap, files, w.onto, reachable)
  PROVE  /\ made.ok /\ p.made = made /\ FitsText(p.dlq, w, made.onto)
         /\ p.links = getDirectors(w.atom, p.dlq, p.proj).links /\ ExpectedType(w.atom, p.dlq)
<1>1. PICK ctx : ctx = QueryCtx(made.onto, InputOf(w), w.pattern, inter)
  OBVIOUS
<1>2. PICK dirs : dirs = getDirectors(w.atom, ctx.query.dlq, ctx.query.proj)
  OBVIOUS
<1>3. \A m : ~Unprepared(m).ok
  BY DEF Unprepared
<1>4. made.ok /\ p = WithContext(w, made, ctx)
  BY <1>1, <1>3 DEF Prepare, WithOntology
<1>5. ctx.ok /\ p = WithDirectors(made, ctx, dirs)
  BY <1>2, <1>3, <1>4 DEF WithContext
<1>6. /\ dirs.ok
      /\ p = [ok |-> TRUE, made |-> made, dlq |-> ctx.query.dlq, proj |-> ctx.query.proj,
              links |-> dirs.links]
  BY <1>3, <1>5 DEF WithDirectors
<1>7. p.made = made /\ p.dlq = ctx.query.dlq /\ p.proj = ctx.query.proj /\ p.links = dirs.links
  BY <1>6
<1>8. ExpectedType(w.atom, p.dlq)
  BY <1>2, <1>6, <1>7 DEF getDirectors, PluginError
<1>9. FitsText(p.dlq, w, made.onto)
  BY <1>1, <1>5, <1>7, ContextOf
<1>10. p.links = getDirectors(w.atom, p.dlq, p.proj).links
  BY <1>2, <1>7
<1> QED BY <1>4, <1>7, <1>8, <1>9, <1>10

-----------------------------------------------------------------------------
(* The chain of directors of a query. *)

\* A sequence is one over its elements.
LEMMA OverItsElements ==
  ASSUME NEW S, NEW s \in Seq(S)
  PROVE  s \in Seq(ToSet(s))
<1>1. DOMAIN s = 1..Len(s) /\ Len(s) \in Nat
  BY LenProperties
<1> QED BY <1>1, SeqDef DEF ToSet

Chain(q) == getDirectors(q.query.atom, q.dlq, q.proj).links

FullReset == Ignored([cmd |-> "full-reset"])

\* The links that prepare RACER for a document, and fail in no builder.
Prepares(l, onto) ==
  /\ l.build.ok = TRUE
  /\ \/ l.build.expr.cmd \in {"set-unique-name-assumption", "enable-data-substrate-mirroring",
                              "kb-ontologies"}
     \/ l.build.expr.cmd \in {"owl-read-file", "owl-read-document"} /\ l.build.expr.kb = onto.realuri

\* The link of a retrieve command, whose builder may fail.
RetrievesUnderPremise(l) ==
  l.build.ok = TRUE => l.build.expr.cmd = "retrieve-under-premise"

\* A query that its atom can be asked with.
Fits(atom, dlq) ==
  /\ <<atom, Len(dlq.pattern)>> \in createAtoms /\ dlq.pattern \in Seq(ToSet(dlq.pattern))
  /\ ExpectedType(atom, dlq)

\* The links that set RACER up begin with the reset.
LEMMA SetupLinks ==
  ASSUME NEW atom, NEW onto, NEW S, NEW a, S = ToSet(a), a = setupRacer(atom)
  PROVE  /\ a \in Seq(S) /\ Len(a) >= 2 /\ a[1] = FullReset
         /\ \A k \in 2..Len(a) : Prepares(a[k], onto)
<1>1. PICK r, u, m : /\ r = FullReset /\ u = Ignored([cmd |-> "set-unique-name-assumption"])
                     /\ m = Ignored([cmd |-> "enable-data-substrate-mirroring"])
  OBVIOUS
<1>2. Prepares(u, onto) /\ Prepares(m, onto)
  BY <1>1 DEF Prepares, Ignored, QueryDirector, Built
<1>3. PICK more : (more = <<>> \/ more = <<m>>) /\ a = <<r, u>> \o more
  <2>1. CASE atom = "dlDR"
    BY <1>1, <2>1 DEF setupRacer, FullReset
  <2>2. CASE atom # "dlDR"
    BY <1>1, <2>2 DEF setupRacer, FullReset
  <2> QED BY <2>1, <2>2
<1>4. PICK U, two : /\ two \in Seq(U) /\ more \in Seq(U)
                    /\ two = <<r, u>> /\ Len(two) = 2 /\ two[1] = r /\ two[2] = u
  <2>1. <<r, u>> \in Seq({r, u, m}) /\ <<m>> \in Seq({r, u, m}) /\ <<>> \in Seq({r, u, m})
    OBVIOUS
  <2>2. <<r, u>>[1] = r /\ <<r, u>>[2] = u /\ Len(<<r, u>>) = 2
    OBVIOUS
  <2>3. more \in Seq({r, u, m})
    BY <1>3, <2>1
  <2> QED BY <2>1, <2>2, <2>3
<1>5. /\ two \o more \in Seq(U) /\ Len(two \o more) = 2 + Len(more)
      /\ \A k \in 1..(2 + Len(more)) : (two \o more)[k] = IF k <= 2 THEN two[k] ELSE more[k - 2]
  BY <1>4, ConcatProperties
<1>6. Len(more) \in {0, 1} /\ (Len(more) = 1 => more[1] = m)
  BY <1>3
<1>7. a \in Seq(S)
  <2>1. a \in Seq(U)
    BY <1>3, <1>4, <1>5
  <2> QED BY <2>1, OverItsElements
<1>8. a[1] = r /\ Len(a) >= 2
  BY <1>3, <1>4, <1>5, <1>6
<1>9. \A k \in 2..Len(a) : a[k] = u \/ a[k] = m
  BY <1>3, <1>4, <1>5, <1>6
<1> QED BY <1>1, <1>2, <1>7, <1>8, <1>9

\* What is built is.
LEMMA BuiltIsOk ==
  ASSUME NEW e
  PROVE  Built(e).ok = TRUE
BY DEF Built

\* The command that asks a clone can always be built for a query that fits its atom.
LEMMA CloneIsAsked ==
  ASSUME NEW atom, NEW dlq, Fits(atom, dlq), ~Retrieves(atom, dlq)
  PROVE  OfClone(atom, dlq).ok = TRUE
<1>1. \/ atom = "dlConsistent"
      \/ atom = "dlC" /\ Len(dlq.pattern) = 1
      \/ atom = "dlR" /\ Len(dlq.pattern) = 2
  <2>1. <<atom, Len(dlq.pattern)>> \in createAtoms /\ atom \notin {"dlDR", "dlCQ", "dlUCQ"}
    BY DEF Fits, Retrieves
  <2> QED BY <2>1 DEF createAtoms
<1>2. DOMAIN dlq.pattern = 1..Len(dlq.pattern)
  BY LenProperties DEF Fits
<1>3. CASE atom = "dlConsistent"
  <2>1. OfClone(atom, dlq) = Built([cmd |-> "abox-consistent?", abox |-> kbName])
    BY <1>3 DEF OfClone
  <2> QED BY <2>1, BuiltIsOk
<1>4. CASE atom = "dlC" /\ Len(dlq.pattern) = 1
  <2>1. isRetrieval(dlq) \/ isBoolean(dlq)
    BY <1>4 DEF Fits, ExpectedType
  <2>2. RacerConceptQuery(dlq).ok = TRUE
    BY <1>4, <2>1, BuiltIsOk DEF RacerConceptQuery, ConceptInstances, IsConceptMember
  <2>3. OfClone(atom, dlq) = RacerConceptQuery(dlq)
    BY <1>4 DEF OfClone
  <2> QED BY <2>2, <2>3
<1>5. CASE atom = "dlR" /\ Len(dlq.pattern) = 2
  <2>1. OfClone(atom, dlq) = RacerRoleQuery(dlq)
    BY <1>5 DEF OfClone
  <2>2. CASE isRetrieval(dlq)
    <3>0. ~isBoolean(dlq)
      BY <1>2, <1>5, <2>2 DEF isBoolean, isRetrieval
    <3>1. RacerRoleQuery(dlq) = RoleIndividuals(dlq)
      BY <2>2, <3>0 DEF RacerRoleQuery
    <3> QED BY <2>1, <3>1, BuiltIsOk DEF RoleIndividuals
  <2>3. CASE ~isRetrieval(dlq) /\ isBoolean(dlq)
    BY <1>5, <2>1, <2>3, BuiltIsOk DEF RacerRoleQuery, IsRoleMember
  <2>4. CASE ~isRetrieval(dlq) /\ ~isBoolean(dlq)
    <3>1. typeFlags(dlq.pattern) \subseteq {1, 2} /\ dlq.pattern # <<>>
      BY <1>2, <1>5, EmptySeq DEF typeFlags
    <3>2. typeFlags(dlq.pattern) # {} /\ typeFlags(dlq.pattern) # {1, 2}
      BY <1>2, <1>5, <2>4, <3>1 DEF isRetrieval, isBoolean
    <3>3. typeFlags(dlq.pattern) = {1} \/ typeFlags(dlq.pattern) = {2}
      BY <3>1, <3>2
    <3>4. Cardinality(typeFlags(dlq.pattern)) = 1
      BY <3>3, FS_Singleton
    <3>5. IndividualFillers(dlq).ok = TRUE
      BY <1>5, <3>4, BuiltIsOk DEF IndividualFillers, Fillers
    <3>6. RacerRoleQuery(dlq) = IndividualFillers(dlq)
      BY <2>4 DEF RacerRoleQuery
    <3> QED BY <2>1, <3>5, <3>6
  <2> QED BY <2>2, <2>3, <2>4
<1> QED BY <1>1, <1>3, <1>4, <1>5

\* What a chain has behind the links for RACER and the document.
LEMMA CommandLinks ==
  ASSUME NEW atom, NEW dlq, NEW proj, Fits(atom, dlq), NEW c,
         c = IF Retrieves(atom, dlq)
             THEN <<Answered(RetrieveUnderPremise(HeadOf(atom, dlq), BodyOf(atom, dlq), dlq, proj))>>
             ELSE increaseABox(dlq, proj) \o <<Answered(OfClone(atom, dlq))>>
  PROVE  /\ c \in Seq(ToSet(c)) /\ Len(c) \in {1, 3}
         /\ Retrieves(atom, dlq) => Len(c) = 1 /\ RetrievesUnderPremise(c[1])
         /\ ~Retrieves(atom, dlq) => \A k \in 1..Len(c) : c[k].build.ok = TRUE
<1>1. CASE Retrieves(atom, dlq)
  <2>1. PICK head, body : head = HeadOf(atom, dlq) /\ body = BodyOf(atom, dlq)
    OBVIOUS
  <2>2. PICK l : l = Answered(RetrieveUnderPremise(head, body, dlq, proj))
    OBVIOUS
  <2>3. RetrievesUnderPremise(l)
    <3>1. l.build = RetrieveUnderPremise(head, body, dlq, proj)
      BY <2>2 DEF Answered, QueryDirector
    <3>2. CASE head.ok /\ body.ok
      BY <3>1, <3>2 DEF RetrieveUnderPremise, Built, RetrievesUnderPremise
    <3>3. CASE ~(head.ok /\ body.ok)
      BY <3>1, <3>3 DEF RetrieveUnderPremise, DLBuildingError, RetrievesUnderPremise
    <3> QED BY <3>2, <3>3
  <2>4. c = <<l>>
    BY <1>1, <2>1, <2>2
  <2>5. <<l>> \in Seq({l}) /\ Len(<<l>>) = 1 /\ <<l>>[1] = l
    OBVIOUS
  <2>6. c \in Seq({l}) /\ Len(c) = 1 /\ c[1] = l
    BY ONLY <2>4, <2>5
  <2>7. c \in Seq(ToSet(c))
    BY <2>6, OverItsElements
  <2> QED BY <1>1, <2>3, <2>6, <2>7
<1>2. CASE ~Retrieves(atom, dlq)
  <2>1. PICK l1, l2, l3 : /\ increaseABox(dlq, proj) = <<l1, l2>> /\ l3 = Answered(OfClone(atom, dlq))
                          /\ l1.build.ok = TRUE /\ l2.build.ok = TRUE
    BY DEF increaseABox, Ignored, Answered, QueryDirector, Built
  <2>2. l3.build.ok = TRUE
    <3>1. l3.build = OfClone(atom, dlq)
      BY <2>1 DEF Answered, QueryDirector
    <3> QED BY <1>2, <3>1, CloneIsAsked
  <2>3. c = <<l1, l2>> \o <<l3>>
    BY <1>2, <2>1
  <2>4. PICK U, two, one : /\ two \in Seq(U) /\ one \in Seq(U) /\ two = <<l1, l2>> /\ one = <<l3>>
                           /\ Len(two) = 2 /\ two[1] = l1 /\ two[2] = l2 /\ Len(one) = 1 /\ one[1] = l3
    <3>1. <<l1, l2>> \in Seq({l1, l2, l3}) /\ <<l3>> \in Seq({l1, l2, l3})
      OBVIOUS
    <3>2. /\ Len(<<l1, l2>>) = 2 /\ <<l1, l2>>[1] = l1 /\ <<l1, l2>>[2] = l2
          /\ Len(<<l3>>) = 1 /\ <<l3>>[1] = l3
      OBVIOUS
    <3> QED BY <3>1, <3>2
  <2>5. /\ two \o one \in Seq(U) /\ Len(two \o one) = 2 + Len(one)
        /\ \A k \in 1..(2 + Len(one)) : (two \o one)[k] = IF k <= 2 THEN two[k] ELSE one[k - 2]
    BY <2>4, ConcatProperties
  <2>6. c \in Seq(U) /\ Len(c) = 3 /\ \A k \in 1..3 : c[k] = l1 \/ c[k] = l2 \/ c[k] = l3
    <3>1. c = two \o one
      BY ONLY <2>3, <2>4
    <3>2. two \o one \in Seq(U) /\ Len(two \o one) = 3
      BY <2>4, <2>5
    <3>3. \A k \in 1..3 : (two \o one)[k] = l1 \/ (two \o one)[k] = l2 \/ (two \o one)[k] = l3
      BY <2>4, <2>5
    <3> QED BY ONLY <3>1, <3>2, <3>3
  <2>7. c \in Seq(ToSet(c))
    BY <2>6, OverItsElements
  <2> QED BY <1>2, <2>1, <2>2, <2>6, <2>7
<1> QED BY <1>1, <1>2

\* The links that open the document.
LEMMA OpeningLinks ==
  ASSUME NEW onto, NEW b, b = openOntology(onto)
  PROVE  b \in Seq(ToSet(b)) /\ Len(b) = 2 /\ \A k \in 1..2 : Prepares(b[k], onto)
<1>1. PICK l1, l2 : /\ l1 = Answered(OpenOWL(onto))
                    /\ l2 = Ignored([cmd |-> "kb-ontologies", kb |-> onto.realuri])
  OBVIOUS
<1>2. Prepares(l1, onto)
  BY <1>1 DEF Answered, QueryDirector, OpenOWL, Built, Prepares
<1>3. Prepares(l2, onto)
  BY <1>1 DEF Ignored, QueryDirector, Built, Prepares
<1>4. b = <<l1, l2>>
  BY <1>1 DEF openOntology
<1>5. b \in Seq({l1, l2}) /\ Len(b) = 2 /\ b[1] = l1 /\ b[2] = l2
  BY <1>4
<1>6. b \in Seq(ToSet(b))
  BY <1>5, OverItsElements
<1> QED BY <1>2, <1>3, <1>5, <1>6

\* A chain resets RACER, prepares it, and asks: only the last link of a retrieval can fail.
Linked(links, atom, dlq) ==
  /\ links \in Seq(ToSet(links)) /\ Len(links) >= 5 /\ links[1] = FullReset
  /\ \A k \in 2..Len(links) :
       \/ Prepares(links[k], dlq.onto)
       \/ k = Len(links) /\ Retrieves(atom, dlq) /\ RetrievesUnderPremise(links[k])
       \/ ~Retrieves(atom, dlq) /\ links[k].build.ok = TRUE

\* Every chain is linked so.
LEMMA ChainLinks ==
  ASSUME NEW atom, NEW dlq, NEW proj, Fits(atom, dlq), NEW links,
         links = getDirectors(atom, dlq, proj).links
  PROVE  Linked(links, atom, dlq)
<1>1. PICK a, b, c :
        /\ a = setupRacer(atom) /\ b = openOntology(dlq.onto)
        /\ c = IF Retrieves(atom, dlq)
               THEN <<Answered(RetrieveUnderPremise(HeadOf(atom, dlq), BodyOf(atom, dlq), dlq, proj))>>
               ELSE increaseABox(dlq, proj) \o <<Answered(OfClone(atom, dlq))>>
  OBVIOUS
<1>2. links = (a \o b) \o c
  BY <1>1 DEF getDirectors, Composite, Fits
<1>3. PICK onto : onto = dlq.onto
  OBVIOUS
<1>4. /\ a \in Seq(ToSet(a)) /\ Len(a) >= 2 /\ a[1] = FullReset
      /\ \A k \in 2..Len(a) : Prepares(a[k], onto)
  BY <1>1, SetupLinks
<1>5. b \in Seq(ToSet(b)) /\ Len(b) = 2 /\ \A k \in 1..2 : Prepares(b[k], onto)
  BY <1>1, <1>3, OpeningLinks
<1>6. /\ c \in Seq(ToSet(c)) /\ Len(c) \in {1, 3}
      /\ Retrieves(atom, dlq) => Len(c) = 1 /\ RetrievesUnderPremise(c[1])
      /\ ~Retrieves(atom, dlq) => \A k \in 1..Len(c) : c[k].build.ok = TRUE
  BY <1>1, CommandLinks
<1>7. PICK U : a \in Seq(U) /\ b \in Seq(U) /\ c \in Seq(U)
  <2> DEFINE V == ToSet(a) \cup ToSet(b) \cup ToSet(c)
  <2>1. a \in Seq(V) /\ b \in Seq(V) /\ c \in Seq(V)
    BY <1>4, <1>5, <1>6, SeqMonotonic
  <2> QED BY <2>1
<1>8. PICK ab : ab = a \o b
  OBVIOUS
<1>9. /\ ab \in Seq(U) /\ Len(ab) = Len(a) + Len(b)
      /\ \A k \in 1..(Len(a) + Len(b)) : ab[k] = IF k <= Len(a) THEN a[k] ELSE b[k - Len(a)]
  BY <1>7, <1>8, ConcatProperties
<1>10. /\ links \in Seq(U) /\ Len(links) = Len(ab) + Len(c)
       /\ \A k \in 1..(Len(ab) + Len(c)) : links[k] = IF k <= Len(ab) THEN ab[k] ELSE c[k - Len(ab)]
  BY <1>2, <1>7, <1>8, <1>9, ConcatProperties
<1>11. Len(a) \in Nat /\ Len(c) \in Nat
  BY <1>4, <1>6, LenProperties
<1>12. links[1] = FullReset /\ Len(links) >= 5
  BY ONLY <1>4, <1>5, <1>6, <1>9, <1>10, <1>11
<1>13. ASSUME NEW k \in 2..Len(links)
       PROVE  \/ Prepares(links[k], onto)
              \/ k = Len(links) /\ Retrieves(atom, dlq) /\ RetrievesUnderPremise(links[k])
              \/ ~Retrieves(atom, dlq) /\ links[k].build.ok = TRUE
  <2>1. CASE k <= Len(a)
    <3>1. k \in 2..Len(a) /\ links[k] = a[k]
      BY <1>5, <1>9, <1>10, <1>11, <2>1
    <3> QED BY <1>4, <3>1
  <2>2. CASE Len(a) < k /\ k <= Len(ab)
    <3>1. k - Len(a) \in 1..2 /\ links[k] = b[k - Len(a)]
      BY <1>5, <1>9, <1>10, <1>11, <2>2
    <3> QED BY <1>5, <3>1
  <2>3. CASE Len(ab) < k
    <3>1. k - Len(ab) \in 1..Len(c) /\ links[k] = c[k - Len(ab)]
      BY ONLY <1>5, <1>9, <1>10, <1>11, <2>3, k \in 2..Len(links)
    <3>2. CASE Retrieves(atom, dlq)
      <4>1. Len(c) = 1 /\ RetrievesUnderPremise(c[1])
        BY <1>6, <3>2
      <4>2. k = Len(links) /\ k - Len(ab) = 1
        BY <1>5, <1>9, <1>10, <1>11, <3>1, <4>1
      <4>3. RetrievesUnderPremise(links[k])
        BY <3>1, <4>1, <4>2
      <4> QED BY <3>2, <4>2, <4>3
    <3>3. CASE ~Retrieves(atom, dlq)
      <4>1. c[k - Len(ab)].build.ok = TRUE
        BY <1>6, <3>1, <3>3
      <4>2. links[k].build.ok = TRUE
        BY <3>1, <4>1
      <4> QED BY <3>3, <4>2
    <3> QED BY <3>2, <3>3
  <2>4. k \in Int /\ Len(a) \in Int /\ Len(ab) \in Int
    BY <1>5, <1>9, <1>11
  <2>5. k <= Len(a) \/ (Len(a) < k /\ k <= Len(ab)) \/ Len(ab) < k
    BY ONLY <2>4
  <2> QED BY <2>1, <2>2, <2>3, <2>5
<1>14. links \in Seq(ToSet(links))
  BY <1>10, OverItsElements
<1> QED BY <1>3, <1>12, <1>13, <1>14 DEF Linked

-----------------------------------------------------------------------------
(* The object Answer. *)

\* What is read of a reply leaves an answer an answer.
LEMMA BodyRead ==
  ASSUME NEW a, isAnswer(a), NEW b
  PROVE  isAnswer(AnswerBody(a, b))
<1>1. isAnswer(setAnswer(a, TRUE)) /\ isAnswer(setAnswer(a, FALSE))
  BY DEF isAnswer, setAnswer
<1>2. \A tuples : isAnswer([setAnswer(a, TRUE) EXCEPT !.tuples = tuples])
  BY DEF isAnswer, setAnswer
<1>3. \A tuples : isAnswer(Insert(a, tuples))
  BY DEF isAnswer, Insert
<1>4. \A w : isAnswer(boolean(a, w))
  BY <1>1, <1>2 DEF boolean
<1>5. \/ AnswerBody(a, b) = a \/ AnswerBody(a, b) = boolean(a, b.w)
      \/ \E tuples : AnswerBody(a, b) = Insert(a, tuples)
  BY DEF AnswerBody
<1> QED BY <1>3, <1>4, <1>5

\* The drivers read an answer into an answer.
LEMMA AnswerRead ==
  ASSUME NEW a, isAnswer(a), NEW driver, NEW reply
  PROVE  isAnswer(parse(driver, a, reply).answer)
<1>1. isAnswer(setIncoherent(a, TRUE))
  BY DEF isAnswer, setIncoherent
<1>2. isAnswer(RacerAnswerDriver(a, reply).answer)
  BY <1>1, BodyRead DEF RacerAnswerDriver
<1>3. isAnswer(RacerIgnoreAnswer(a, reply).answer)
  BY DEF RacerIgnoreAnswer
<1> QED BY <1>2, <1>3 DEF parse
-----------------------------------------------------------------------------
(* The query under way. *)

\* The directors left for a query are the end of its chain, all of it as long as half a
\* command is in the buffer.
Underway(q, left, whole) ==
  /\ Fits(q.query.atom, q.dlq)
  /\ left # <<>> /\ left \in Seq(ToSet(Chain(q))) /\ SuffixOf(left, Chain(q))
  /\ whole => left = Chain(q)

AskingInv ==
  /\ isAnswer(answer)
  /\ asking = NoQuery => todo = <<>> /\ answer = NoAnswer
  /\ asking # NoQuery =>
       Underway(asking, todo, half) /\ asking.dlq.onto.realuri \in DOMAIN ontomap

\* The next director has its turn, or there is none left.
Continues == asking' = asking /\ todo' = Tail(todo) /\ (half \/ Len(todo) > 1) /\ ~half'

\* The turn of a director, and what it leaves of the query.
LEMMA Turns ==
  ASSUME isAnswer(answer), BuilderThrows \/ Garbled \/ Send
  PROVE  /\ asking # NoQuery /\ ontomap' = ontomap
         /\ (Continues /\ isAnswer(answer)') \/ Finished
<1>1. asking # NoQuery /\ ontomap' = ontomap
  BY DEF BuilderThrows, Garbled, Send, Still, Turn
<1>2. CASE BuilderThrows
  BY <1>1, <1>2 DEF BuilderThrows, Throw
<1>3. CASE Garbled
  BY <1>1, <1>3 DEF Garbled, Continues, isAnswer
<1>4. CASE Send
  <2>1. PICK reply, read : /\ read = parse(Link.driver, answer, reply)
                           /\ Goes(read) \/ Refused(read) \/ HandleInconsistency(read)
    BY <1>4 DEF Send, Sends
  <2>2. ~half /\ ~half'
    BY <1>4 DEF Send
  <2>3. CASE Goes(read)
    <3>1. isAnswer(read.answer)
      BY <2>1, AnswerRead
    <3>2. CASE Len(todo) > 1
      <4>1. answer' = read.answer /\ todo' = Tail(todo) /\ asking' = asking
        BY <2>3, <3>2 DEF Goes
      <4>2. isAnswer(answer)'
        BY <3>1, <4>1 DEF isAnswer
      <4> QED BY <1>1, <2>2, <3>2, <4>1, <4>2 DEF Continues
    <3>3. CASE ~(Len(todo) > 1)
      BY <1>1, <2>3, <3>3 DEF Goes, Deliver
    <3> QED BY <3>2, <3>3
  <2>4. CASE Refused(read)
    BY <1>1, <2>4 DEF Refused, Throw
  <2>5. CASE HandleInconsistency(read)
    <3>1. \E a : Deliver(a)
      BY <2>5 DEF HandleInconsistency
    <3> QED BY <1>1, <3>1 DEF Deliver
  <2> QED BY <2>1, <2>3, <2>4, <2>5
<1> QED BY <1>2, <1>3, <1>4

\* The chain of a query is a list of at least five links.
LEMMA ChainIsLong ==
  ASSUME NEW q, Fits(q.query.atom, q.dlq)
  PROVE  /\ Chain(q) \in Seq(ToSet(Chain(q))) /\ Len(Chain(q)) \in Nat /\ Len(Chain(q)) >= 5
         /\ Chain(q) # <<>>
<1>1. PICK links : links = Chain(q)
  OBVIOUS
<1>2. links \in Seq(ToSet(links)) /\ Len(links) >= 5
  <2>1. Linked(links, q.query.atom, q.dlq)
    BY <1>1, ChainLinks DEF Chain
  <2> QED BY <2>1 DEF Linked
<1>3. Len(links) \in Nat /\ links # <<>>
  BY <1>2, LenProperties, EmptySeq
<1> QED BY <1>1, <1>2, <1>3

\* A query that begins has its whole chain before it.
LEMMA Begins ==
  ASSUME NEW w \in Queries, NEW inter, NEW reachable, NEW p,
         p = Prepare(w, inter, reachable), Begin(w, inter, p), RegistryInv, ArgumentsInv
  PROVE  /\ asking' # NoQuery /\ Underway(asking', todo', TRUE) /\ todo' = Chain(asking')
         /\ asking'.dlq.onto.realuri \in DOMAIN ontomap'
<1>1. PICK made : made = createOntology(ontomap, files, w.onto, reachable)
  OBVIOUS
<1>2. PICK q : q = [kind |-> "asking", query |-> w, inter |-> inter, dlq |-> p.dlq, proj |-> p.proj]
  OBVIOUS
<1>3. asking' = q /\ todo' = p.links /\ Asks(w, inter, p) /\ p.ok
  BY <1>2 DEF Begin
<1>4. q.kind = "asking" /\ q.query = w /\ q.dlq = p.dlq /\ q.proj = p.proj
  BY <1>2
<1>5. /\ made.ok /\ p.made = made /\ FitsText(p.dlq, w, made.onto)
      /\ p.links = getDirectors(w.atom, p.dlq, p.proj).links /\ ExpectedType(w.atom, p.dlq)
  BY <1>1, <1>3, Prepared
<1>6. Fits(q.query.atom, q.dlq)
  <2>1. <<w.atom, Len(w.pattern)>> \in createAtoms
    BY <1>3 DEF Asks
  <2>2. w.pattern \in Seq(ToSet(w.pattern))
    BY WrittenQueries
  <2> QED BY <1>4, <1>5, <2>1, <2>2 DEF Fits, FitsText
<1>7. todo' = Chain(q)
  BY <1>3, <1>4, <1>5 DEF Chain
<1>8. Underway(q, Chain(q), TRUE)
  <2>1. PICK chain : chain = Chain(q)
    OBVIOUS
  <2>2. chain # <<>> /\ chain \in Seq(ToSet(chain)) /\ Len(chain) \in Nat
    BY <1>6, <2>1, ChainIsLong
  <2>3. SuffixOf(chain, chain)
    BY <2>2 DEF SuffixOf
  <2> QED BY <1>6, <2>1, <2>2, <2>3 DEF Underway
<1>9. q # NoQuery
  BY <1>4 DEF NoQuery
<1>10. made.onto.realuri \in DOMAIN ontomap'
  <2>1. PICK u : u = setupURI(w.onto)
    OBVIOUS
  <2>2. ontomap' = made.ontomap
    BY <1>3, <1>5 DEF Asks, Registers
  <2>3. CASE KnownAlready(made, u)
    BY <2>2, <2>3 DEF KnownAlready, RegistryInv
  <2>4. CASE \E uri : NewlyRead(made, u, uri)
    <3>1. PICK uri : NewlyRead(made, u, uri)
      BY <2>4
    <3>2. made.onto.realuri = u /\ made.ontomap = Put(ontomap, u, Ontology(u, uri))
      BY <3>1 DEF NewlyRead, Ontology
    <3> QED BY <2>2, <3>2 DEF Put
  <2>5. CASE \E uri : Unread(made, u, uri)
    BY <1>5, <2>5 DEF Unread
  <2> QED BY <1>1, <2>1, <2>3, <2>4, <2>5, Creation
<1> QED BY <1>3, <1>4, <1>5, <1>7, <1>8, <1>9, <1>10 DEF FitsText

\* The registry never loses an ontology but at the end.
LEMMA RegistryGrows ==
  ASSUME ArgumentsInv, FilesInv, [Next]_vars, ~Exit
  PROVE  DOMAIN ontomap \subseteq DOMAIN ontomap'
<1>1. CASE RegistersSome
  <2>1. ontomap' = ontomap \/ \E u, uri : ontomap' = Put(ontomap, u, Ontology(u, uri))
    BY <1>1, RegistersOne DEF Reads, Leaks
  <2> QED BY <2>1 DEF Put
<1> QED BY <1>1, RegistrySteps
\* What is left of a query that goes on is not nothing.
LEMMA StillUnderway ==
  ASSUME NEW q, NEW left, NEW whole, Underway(q, left, whole), whole \/ Len(left) > 1
  PROVE  Underway(q, Tail(left), FALSE)
<1>1. PICK chain : chain = Chain(q)
  OBVIOUS
<1>2. /\ chain \in Seq(ToSet(chain)) /\ Len(chain) \in Nat /\ Len(chain) >= 5
      /\ left \in Seq(ToSet(chain)) /\ left # <<>> /\ SuffixOf(left, chain)
  BY <1>1, ChainIsLong DEF Underway
<1>3. Len(left) > 1
  <2>1. CASE whole
    BY <1>1, <1>2, <2>1 DEF Underway
  <2>2. CASE Len(left) > 1
    BY <2>2
  <2> QED BY <2>1, <2>2
<1>4. Tail(left) \in Seq(ToSet(chain)) /\ SuffixOf(Tail(left), chain) /\ Len(Tail(left)) = Len(left) - 1
  BY <1>2, TailOfSuffix
<1>5. Tail(left) # <<>>
  <2>1. Len(left) \in Nat
    BY <1>2, LenProperties
  <2>2. PICK rest : rest = Tail(left) /\ Len(rest) = Len(left) - 1
    BY <1>4
  <2>3. Len(rest) >= 1
    BY <1>3, <2>1, <2>2
  <2>4. Len(<<>>) = 0
    OBVIOUS
  <2>5. rest # <<>>
    BY ONLY <2>3, <2>4
  <2> QED BY <2>2, <2>5
<1> QED BY <1>1, <1>4, <1>5 DEF Underway

\* Between two turns a query has directors left, and an answer that is read so far.
LEMMA AskingStep ==
  ASSUME AskingInv, ArgumentsInv, RegistryInv, FilesInv, [Next]_vars
  PROVE  AskingInv'
<1>1. CASE Ask
  <2>1. PICK w, inter, reachable, p :
          /\ w \in Queries /\ p = Prepare(w, inter, reachable) /\ Idle /\ Asks(w, inter, p)
          /\ Reject(w, inter, p) \/ Abort(w, inter, p) \/ CacheHit(w, inter, p) \/ Begin(w, inter, p)
    BY <1>1, AskEnds
  <2>2. asking = NoQuery /\ answer' = answer /\ half' = half
    BY <2>1 DEF Idle, Asks, Reject, Abort, CacheHit, Begin, session
  <2>3. isAnswer(answer)' /\ todo = <<>> /\ answer' = NoAnswer
    BY <2>2 DEF AskingInv, isAnswer
  <2>4. CASE Begin(w, inter, p)
    <3>1. /\ asking' # NoQuery /\ Underway(asking', todo', TRUE) /\ todo' = Chain(asking')
          /\ asking'.dlq.onto.realuri \in DOMAIN ontomap'
      BY <2>1, <2>4, Begins
    <3>2. Underway(asking', todo', half')
      BY <3>1 DEF Underway
    <3> QED BY <2>3, <3>1, <3>2 DEF AskingInv, Underway, Chain
  <2>5. CASE Reject(w, inter, p) \/ Abort(w, inter, p) \/ CacheHit(w, inter, p)
    <3>1. asking' = asking /\ todo' = todo
      BY <2>5 DEF Reject, Abort, CacheHit
    <3> QED BY <2>2, <2>3, <3>1 DEF AskingInv
  <2> QED BY <2>1, <2>4, <2>5
<1>2. CASE BuilderThrows \/ Garbled \/ Send
  <2>1. /\ asking # NoQuery /\ ontomap' = ontomap
        /\ (Continues /\ isAnswer(answer)') \/ Finished
    BY <1>2, Turns DEF AskingInv
  <2>2. CASE Continues /\ isAnswer(answer)'
    <3>1. asking' = asking /\ todo' = Tail(todo) /\ (half \/ Len(todo) > 1) /\ ~half'
      BY <2>2 DEF Continues
    <3>2. Underway(asking, todo, half) /\ asking.dlq.onto.realuri \in DOMAIN ontomap
      BY <2>1 DEF AskingInv
    <3>3. Underway(asking, Tail(todo), FALSE)
      BY <3>1, <3>2, StillUnderway
    <3>4. Underway(asking', todo', half')
      BY <3>1, <3>3 DEF Underway
    <3> QED BY <2>1, <2>2, <3>1, <3>2, <3>4 DEF AskingInv, Underway, Chain
  <2>3. CASE Finished
    <3>1. asking' = NoQuery /\ todo' = <<>> /\ answer' = NoAnswer
      BY <2>3 DEF Finished
    <3>2. isAnswer(answer)'
      BY <3>1 DEF isAnswer, NoAnswer
    <3> QED BY <3>1, <3>2 DEF AskingInv
  <2> QED BY <2>1, <2>2, <2>3
<1>3. CASE Exit
  <2>1. asking = NoQuery /\ UNCHANGED <<asking, todo, answer>>
    BY <1>3 DEF Exit, query
  <2> QED BY <2>1 DEF AskingInv, isAnswer
<1>4. CASE SetKBReload \/ SetDLSetup \/ SetDLOpt \/ SetDLDebug \/ Help \/ SetOntology \/ SetDefaults
             \/ KeepArgument \/ OptionsSet \/ UNCHANGED vars
  <2>1. UNCHANGED <<asking, todo, answer, half>>
    <3>1. CASE SetKBReload \/ SetDLSetup \/ SetDLOpt \/ SetDLDebug
      BY <3>1 DEF SetKBReload, SetDLSetup, SetDLOpt, SetDLDebug, Erase, session, query
    <3>2. CASE Help \/ SetOntology \/ SetDefaults \/ KeepArgument \/ OptionsSet
      BY <3>2 DEF Help, SetOntology, SetDefaults, KeepArgument, OptionsSet, session, query
    <3>3. CASE UNCHANGED vars
      BY <3>3 DEF vars, commandLine, ontologies, session, query
    <3> QED BY <1>4, <3>1, <3>2, <3>3
  <2>2. asking = NoQuery \/ asking.dlq.onto.realuri \in DOMAIN ontomap'
    <3>1. CASE asking = NoQuery
      BY <3>1
    <3>2. CASE ~Exit
      BY <3>2, RegistryGrows DEF AskingInv
    <3>3. CASE Exit
      BY <3>3 DEF Exit
    <3> QED BY <3>1, <3>2, <3>3
  <2> QED BY <2>1, <2>2 DEF AskingInv, isAnswer, Underway, Chain
<1> QED BY <1>1, <1>2, <1>3, <1>4 DEF Next

\* Nobody is asked at the start.
LEMMA NobodyAsks ==
  ASSUME Init
  PROVE  AskingInv
<1>1. asking = NoQuery /\ todo = <<>> /\ answer = NoAnswer
  BY DEF Init
<1> QED BY <1>1 DEF AskingInv, isAnswer, NoAnswer
-----------------------------------------------------------------------------
(* The pieces of the state fit each other. *)

\* The phases, and the ABoxes that were parsed: those of registered ontologies.
PiecesInv ==
  /\ phase \in {"options", "queries", "ending", "exited", "crashed"}
  /\ DOMAIN universe \subseteq DOMAIN ontomap

\* Only an inconsistency makes an ABox parse, that of the query's document.
LEMMA UniverseOfTurn ==
  ASSUME BuilderThrows \/ Garbled \/ Send
  PROVE  /\ phase' = phase
         /\ universe' = universe \/ \E abox : universe' = Put(universe, asking.dlq.onto.realuri, abox)
<1>1. phase' = phase
  BY DEF BuilderThrows, Garbled, Send, Still
<1>2. CASE BuilderThrows \/ Garbled
  BY <1>1, <1>2 DEF BuilderThrows, Garbled
<1>3. CASE Send
  <2>1. PICK read : Goes(read) \/ Refused(read) \/ HandleInconsistency(read)
    BY <1>3 DEF Send, Sends
  <2>2. CASE Goes(read) \/ Refused(read)
    BY <1>1, <2>2 DEF Goes, Refused
  <2>3. CASE HandleInconsistency(read)
    BY <1>1, <2>3 DEF HandleInconsistency
  <2> QED BY <2>1, <2>2, <2>3
<1> QED BY <1>2, <1>3

\* An ABox is parsed of a registered ontology, and forgotten with it.
LEMMA PiecesStep ==
  ASSUME PiecesInv, AskingInv, ArgumentsInv, FilesInv, [Next]_vars
  PROVE  PiecesInv'
<1>1. CASE Exit
  <2>1. phase' = "exited" /\ universe' = NoABoxes
    BY <1>1 DEF Exit
  <2> QED BY <2>1 DEF PiecesInv, NoABoxes
<1>2. CASE BuilderThrows \/ Garbled \/ Send
  <2>1. /\ phase' = phase
        /\ universe' = universe \/ \E abox : universe' = Put(universe, asking.dlq.onto.realuri, abox)
    BY <1>2, UniverseOfTurn
  <2>2. ontomap' = ontomap /\ asking.dlq.onto.realuri \in DOMAIN ontomap
    BY <1>2, Turns DEF AskingInv
  <2>3. DOMAIN universe' \subseteq DOMAIN universe \cup {asking.dlq.onto.realuri}
    BY <2>1 DEF Put
  <2> QED BY <2>1, <2>2, <2>3 DEF PiecesInv
<1>3. CASE ~Exit /\ ~(BuilderThrows \/ Garbled \/ Send)
  <2>1. universe' = universe /\ phase' \in {phase, "queries", "ending", "crashed"}
    <3>1. CASE Ask
      BY <3>1 DEF Ask, Idle, Reject, Abort, CacheHit, Begin, Asks
    <3>2. CASE SetKBReload \/ SetDLSetup \/ SetDLOpt \/ SetDLDebug
      BY <3>2 DEF SetKBReload, SetDLSetup, SetDLOpt, SetDLDebug, Erase, ontologies
    <3>3. CASE Help \/ SetOntology \/ SetDefaults \/ KeepArgument \/ OptionsSet
      BY <3>3 DEF Help, SetOntology, SetDefaults, KeepArgument, OptionsSet, ontologies
    <3>4. CASE UNCHANGED vars
      BY <3>4 DEF vars, commandLine, ontologies, session, query
    <3> QED BY <1>3, <3>1, <3>2, <3>3, <3>4 DEF Next
  <2>2. DOMAIN ontomap \subseteq DOMAIN ontomap'
    BY <1>3, RegistryGrows
  <2> QED BY <2>1, <2>2 DEF PiecesInv
<1> QED BY <1>1, <1>2, <1>3

\* What is to be sent belongs to a query, whose answer starts empty and whose first command
\* alone can be garbled; every ontology has the URI it is registered for and a copy of its
\* own if it was downloaded; ABoxes are kept of registered ontologies only.
THEOREM PiecesAlwaysFit == Spec => []TypeOK
<1> DEFINE Inv == ArgumentsInv /\ RegistryInv /\ FilesInv /\ CopiesInv /\ MembersInv /\ AskingInv /\ PiecesInv
<1>1. Init => Inv
  <2> SUFFICES ASSUME Init PROVE Inv
    OBVIOUS
  <2>1. phase = "options" /\ universe = NoABoxes
    BY DEF Init
  <2>2. PiecesInv
    BY <2>1 DEF PiecesInv, NoABoxes
  <2> QED BY <2>2, RegistryStarts, MembersStart, NobodyAsks
<1>2. Inv /\ [Next]_vars => Inv'
  BY ArgumentsStep, RegistryStep, FilesStep, CopiesStep, MembersStep, AskingStep, PiecesStep
<1>3. Inv => TypeOK
  <2> SUFFICES ASSUME Inv PROVE TypeOK
    OBVIOUS
  <2>1. Members(plugin)
    <3>1. plugin.kbManager # <<>> /\ Head(plugin.kbManager) = "RacerKBManager"
      BY EmptySeq, HeadTailProperties DEF MembersInv
    <3> QED BY <3>1 DEF Members, MembersInv
  <2>2. (asking = NoQuery) = (todo = <<>>)
    BY DEF AskingInv, Underway
  <2>3. half /\ asking # NoQuery => todo = Chain(asking)
    BY DEF AskingInv, Underway
  <2>4. \A u \in DOMAIN ontomap :
          /\ ontomap[u].realuri = u
          /\ ~isLocal(u) => ontomap[u].uri \in DOMAIN files /\ files[ontomap[u].uri] = u
    BY DEF RegistryInv, CopiesInv
  <2> QED BY <2>1, <2>2, <2>3, <2>4 DEF TypeOK, AskingInv, PiecesInv, Chain
<1> QED BY <1>1, <1>2, <1>3, PTL DEF Spec
-----------------------------------------------------------------------------
(* What brings the process down. *)

\* Only a concept query, which has one output term, is kept although it is conjunctive.
ConjunctiveConcept(c) == c.conjunctive => Len(c.key.pattern) = 1

CrashInv ==
  /\ OnlyKnownCrashes
  /\ phase = "options" => returned = NoQuery
  /\ \A c \in contexts : ConjunctiveConcept(c)

\* The key of a query has as many output terms as the query.
LEMMA KeyOfOne ==
  ASSUME NEW dlq, dlq.pattern \in Seq(ToSet(dlq.pattern)), Len(dlq.pattern) = 1
  PROVE  Len(Key(dlq).pattern) = 1
<1>1. PICK p : p = [k \in DOMAIN dlq.pattern |->
                      IF isVariable(dlq.pattern[k]) THEN <<>> ELSE dlq.pattern[k]]
  OBVIOUS
<1>2. Key(dlq).pattern = p
  BY <1>1 DEF Key
<1>3. DOMAIN dlq.pattern = 1..1
  BY LenProperties
<1>4. PICK S, n : S = {p[1]} /\ n \in Nat /\ n = 1
  OBVIOUS
<1>5. p \in [1..n -> S] /\ DOMAIN p = 1..1
  BY <1>1, <1>3, <1>4
<1>6. p \in Seq(S)
  BY <1>4, <1>5, SeqDef
<1>7. Len(p) = 1
  <2>1. Len(p) \in Nat /\ DOMAIN p = 1..Len(p)
    BY <1>6, LenProperties
  <2>2. 1 \in 1..Len(p) /\ 2 \notin 1..Len(p)
    BY <1>5, <2>1
  <2> QED BY <2>1, <2>2
<1> QED BY <1>2, <1>7

\* What is added to the cache is of that kind.
LEMMA InsertedAnswers ==
  ASSUME NEW w, NEW dlq, NEW inter, NEW a, Fits(w.atom, dlq), \A c \in contexts : ConjunctiveConcept(c)
  PROVE  \A c \in InsertAnswer(w, dlq, inter, a) : ConjunctiveConcept(c)
<1>1. CASE ~UsesCache(w, dlq)
  BY <1>1 DEF InsertAnswer
<1>2. CASE UsesCache(w, dlq)
  <2>1. PICK value, old, stays, new :
          /\ stays \subseteq old /\ old \subseteq contexts
          /\ new.key = Key(dlq) /\ new.conjunctive = (isConjQuery(dlq) \/ isUnionConjQuery(dlq))
          /\ InsertAnswer(w, dlq, inter, a) = (contexts \ old) \cup Contexts!AddContext(stays, new)
    <3> DEFINE v == IF a.value THEN "T" ELSE "NIL"
               o == CachedFor(dlq)
               s == o \ Contexts!Superfluous(Shape(dlq), inter, v, o)
               n == [key |-> Key(dlq), conjunctive |-> isConjQuery(dlq) \/ isUnionConjQuery(dlq),
                     inter |-> inter, value |-> v, tuples |-> a.tuples]
    <3>1. InsertAnswer(w, dlq, inter, a) = (contexts \ o) \cup Contexts!AddContext(s, n)
      BY <1>2 DEF InsertAnswer
    <3>2. o \subseteq contexts /\ s \subseteq o
      BY DEF CachedFor
    <3>3. n.key = Key(dlq) /\ n.conjunctive = (isConjQuery(dlq) \/ isUnionConjQuery(dlq))
      OBVIOUS
    <3> HIDE DEF v, o, s, n
    <3> QED BY <3>1, <3>2, <3>3
  <2>2. Contexts!AddContext(stays, new) \subseteq stays \cup {new}
    BY DEF Contexts!AddContext
  <2>3. ConjunctiveConcept(new)
    <3>1. SUFFICES ASSUME isConjQuery(dlq) \/ isUnionConjQuery(dlq)
                   PROVE  Len(Key(dlq).pattern) = 1
      BY <2>1 DEF ConjunctiveConcept
    <3>2. w.atom = "dlC"
      BY <1>2, <3>1 DEF UsesCache, cacheQuery
    <3>3. <<w.atom, Len(dlq.pattern)>> \in createAtoms /\ dlq.pattern \in Seq(ToSet(dlq.pattern))
      BY DEF Fits
    <3>4. Len(dlq.pattern) = 1
      BY <3>2, <3>3 DEF createAtoms
    <3> QED BY <3>3, <3>4, KeyOfOne
  <2> QED BY <2>1, <2>2, <2>3
<1> QED BY <1>1, <1>2

\* The contexts and what was returned, when a director had its turn.
LEMMA AnswersOfTurn ==
  ASSUME BuilderThrows \/ Garbled \/ Send
  PROVE  /\ asking # NoQuery /\ phase' = phase
         /\ contexts' = contexts \/ \E a : contexts' = InsertAnswer(asking.query, asking.dlq, asking.proj, a)
BY TurnEnds DEF Throw, Deliver

\* The order's assertion fails for a query that is conjunctive, or for a context that is.
LEMMA WhoAborts ==
  ASSUME CrashInv, ArgumentsInv, NEW w, w \in Queries, NEW inter, NEW reachable, NEW p,
         p = Prepare(w, inter, reachable), Abort(w, inter, p)
  PROVE  \/ w.atom = "dlC" /\ ~Plainly(w)
         \/ \E c \in contexts : c.conjunctive /\ Len(c.key.pattern) = 1
<1>1. /\ Asks(w, inter, p) /\ p.ok /\ UsesCache(w, p.dlq)
      /\ isConjQuery(p.dlq) \/ isUnionConjQuery(p.dlq) \/ \E c \in contexts : c.conjunctive
  BY DEF Abort, AssertionFails
<1>2. CASE \E c \in contexts : c.conjunctive
  BY <1>2 DEF CrashInv, ConjunctiveConcept
<1>3. CASE isConjQuery(p.dlq) \/ isUnionConjQuery(p.dlq)
  <2>1. PICK made : made = createOntology(ontomap, files, w.onto, reachable)
    OBVIOUS
  <2>2. FitsText(p.dlq, w, made.onto)
    BY <1>1, <2>1, Prepared
  <2>3. w.atom = "dlC"
    BY <1>1, <1>3 DEF UsesCache, cacheQuery
  <2>4. Len(w.pattern) = 1
    BY <1>1, <2>3 DEF Asks, createAtoms
  <2>5. "(" \in ToSet(w.text) \/ " v " \in ToSet(w.text) \/ Len(w.pattern) = 2
    BY <1>3, <2>2, Zenon DEF FitsText
  <2>6. Len(w.pattern) # 2
    BY <2>4
  <2>7. "(" \in ToSet(w.text) \/ " v " \in ToSet(w.text)
    BY <2>5, <2>6, Zenon
  <2> QED BY <2>3, <2>7 DEF Plainly
<1> QED BY <1>1, <1>2, <1>3

\* A step that ends in a crash is one of the known ones.
LEMMA CrashStep ==
  ASSUME CrashInv, AskingInv, TurnInv, ArgumentsInv, [Next]_vars
  PROVE  CrashInv'
<1>1. CASE Ask
  <2>1. PICK w, inter, reachable, p :
          /\ w \in Queries /\ p = Prepare(w, inter, reachable) /\ Idle /\ Asks(w, inter, p)
          /\ Reject(w, inter, p) \/ Abort(w, inter, p) \/ CacheHit(w, inter, p) \/ Begin(w, inter, p)
    BY <1>1, AskEnds
  <2>2. contexts' = contexts /\ phase = "queries"
    BY <2>1 DEF Idle, Asks, Reject, Abort, CacheHit, Begin
  <2>3. CASE Abort(w, inter, p)
    <3>1. phase' = "crashed" /\ returned' = Aborted(w, inter)
      BY <2>3 DEF Abort
    <3>2. returned'.kind = "abort" /\ returned'.query = w
      BY <3>1 DEF Aborted
    <3>3. \/ w.atom = "dlC" /\ ~Plainly(w)
          \/ \E c \in contexts : c.conjunctive /\ Len(c.key.pattern) = 1
      BY <2>1, <2>3, WhoAborts
    <3>4. OnlyKnownCrashes'
      BY <2>2, <3>2, <3>3 DEF OnlyKnownCrashes, Asked
    <3> QED BY <2>2, <3>1, <3>4 DEF CrashInv, ConjunctiveConcept
  <2>4. CASE Reject(w, inter, p) \/ CacheHit(w, inter, p) \/ Begin(w, inter, p)
    <3>1. phase' = "queries"
      BY <2>2, <2>4 DEF Reject, CacheHit, Begin
    <3> QED BY <2>2, <3>1 DEF CrashInv, OnlyKnownCrashes, ConjunctiveConcept
  <2> QED BY <2>1, <2>3, <2>4
<1>2. CASE BuilderThrows \/ Garbled \/ Send
  <2>1. /\ asking # NoQuery /\ phase' = phase
        /\ contexts' = contexts \/ \E a : contexts' = InsertAnswer(asking.query, asking.dlq, asking.proj, a)
    BY <1>2, AnswersOfTurn
  <2>2. phase' = "queries" /\ Fits(asking.query.atom, asking.dlq)
    BY <2>1 DEF TurnInv, AskingInv, Underway
  <2>3. \A c \in contexts' : ConjunctiveConcept(c)
    BY <2>1, <2>2, InsertedAnswers DEF CrashInv
  <2> QED BY <2>2, <2>3 DEF CrashInv, OnlyKnownCrashes, ConjunctiveConcept
<1>3. CASE Exit
  <2>1. phase' = "exited" /\ contexts' = {}
    BY <1>3 DEF Exit
  <2> QED BY <2>1 DEF CrashInv, OnlyKnownCrashes
<1>4. CASE SetKBReload \/ SetDLSetup \/ SetDLOpt \/ SetDLDebug \/ KeepArgument \/ OptionsSet \/ Help
  <2>1. phase = "options" /\ phase' # "crashed" /\ contexts' = contexts /\ returned' = returned
    BY <1>4 DEF SetKBReload, SetDLSetup, SetDLOpt, SetDLDebug, KeepArgument, OptionsSet, Help,
                Erase, Looks
  <2> QED BY <2>1 DEF CrashInv, OnlyKnownCrashes, ConjunctiveConcept
<1>5. CASE SetOntology \/ SetDefaults
  <2>1. /\ phase = "options" /\ phase' # "options" /\ contexts' = contexts /\ returned' = returned /\ argv' = argv
        /\ OptionOf(Head(argv)) \in {"--ontology=", "--dftrans=", "--dfcq="}
    BY <1>5 DEF SetOntology, SetDefaults, Looks, commandLine
  <2>2. returned'.kind # "abort"
    BY <2>1 DEF CrashInv, NoQuery
  <2>3. OnlyKnownCrashes'
    BY <2>1, <2>2 DEF OnlyKnownCrashes
  <2> QED BY <2>1, <2>3 DEF CrashInv, ConjunctiveConcept
<1>6. CASE UNCHANGED vars
  BY <1>6 DEF vars, commandLine, CrashInv, OnlyKnownCrashes, Asked, ConjunctiveConcept
<1> QED BY <1>1, <1>2, <1>3, <1>4, <1>5, <1>6 DEF Next

\* Only an option whose converter does not exist, and the assertion of the cache's order when
\* a concept query is conjunctive, bring the process down: no other query does.
THEOREM CrashesAreKnown == Spec => []OnlyKnownCrashes
<1> DEFINE Inv == /\ ArgumentsInv /\ RegistryInv /\ FilesInv
                  /\ TurnInv /\ AskingInv /\ CrashInv
<1>1. Init => Inv
  <2> SUFFICES ASSUME Init PROVE Inv
    OBVIOUS
  <2>1. phase = "options" /\ contexts = {} /\ returned = NoQuery /\ asking = NoQuery
    BY DEF Init
  <2>2. CrashInv /\ TurnInv
    BY <2>1 DEF CrashInv, OnlyKnownCrashes, TurnInv
  <2> QED BY <2>2, RegistryStarts, NobodyAsks
<1>2. Inv /\ [Next]_vars => Inv'
  BY ArgumentsStep, RegistryStep, FilesStep, TurnStep, AskingStep, CrashStep
<1>3. Inv => OnlyKnownCrashes
  BY DEF CrashInv
<1> QED BY <1>1, <1>2, <1>3, PTL DEF Spec
-----------------------------------------------------------------------------
(* The temporary ABox of RACER. *)

NoClone(r) == kbName \notin DOMAIN r.aboxes

\* What a command makes of RACER.
Leaves(r, c, s) ==
  /\ "aboxes" \in DOMAIN s
  /\ c.cmd = "full-reset" => s = FreshRacer
  /\ c.cmd = "set-unique-name-assumption" => s = [r EXCEPT !.una = TRUE]
  /\ c.cmd = "enable-data-substrate-mirroring" => s = [r EXCEPT !.mirror = TRUE]
  /\ c.cmd \in {"owl-read-file", "owl-read-document"} =>
       s = r \/ \E kb : s = [r EXCEPT !.aboxes = Put(@, c.kb, kb)]
  /\ c.cmd = "forget-abox" =>
       \/ c.abox \notin DOMAIN r.aboxes /\ s = r
       \/ s = [r EXCEPT !.aboxes = [n \in DOMAIN @ \ {c.abox} |-> @[n]]]
  /\ c.cmd \in {"kb-ontologies", "retrieve-under-premise"} => s = r

\* Most commands leave the ABoxes alone.
LEMMA Obeyed ==
  ASSUME NEW r, NEW c, NEW docs, "aboxes" \in DOMAIN r
  PROVE  Leaves(r, c, Obey(r, c, docs).racer)
<1> PICK s : s = Obey(r, c, docs).racer
  OBVIOUS
<1> SUFFICES Leaves(r, c, s)
  OBVIOUS
<1> USE DEF Leaves
<1>1. CASE c.cmd = "full-reset"
  BY <1>1 DEF Obey, FreshRacer
<1>2. CASE c.cmd \in {"set-unique-name-assumption", "enable-data-substrate-mirroring"}
  BY <1>2 DEF Obey
<1>3. CASE c.cmd \in {"owl-read-file", "owl-read-document"}
  BY <1>3 DEF Obey
<1>4. CASE c.cmd = "kb-ontologies"
  BY <1>4 DEF Obey
<1>5. CASE c.cmd = "clone-abox"
  BY <1>5 DEF Obey
<1>6. CASE c.cmd = "state"
  BY <1>6 DEF Obey
<1>7. CASE c.cmd = "forget-abox"
  BY <1>7 DEF Obey
<1>8. CASE c.cmd \notin {"full-reset", "set-unique-name-assumption", "enable-data-substrate-mirroring",
                         "owl-read-file", "owl-read-document", "kb-ontologies", "clone-abox",
                         "state", "forget-abox"}
  BY <1>8 DEF Obey
<1> QED BY <1>1, <1>2, <1>3, <1>4, <1>5, <1>6, <1>7, <1>8

\* RACER has no temporary ABox before it is asked, after half a command, at the end, and
\* once it was reset for a query that needs none.
ABoxInv ==
  /\ "aboxes" \in DOMAIN racer
  /\ ~open \/ half \/ phase = "exited" => NoClone(racer)
  /\ /\ asking # NoQuery /\ Retrieves(asking.query.atom, asking.dlq)
     /\ Len(todo) < Len(Chain(asking))
     => NoClone(racer)

\* The link whose turn it is: the reset, one that is built in any case, or the only one of
\* a retrieval that may fail, which is the last.
LastOfRetrieval(q, left) ==
  Retrieves(q.query.atom, q.dlq) /\ Len(left) = 1 /\ RetrievesUnderPremise(Head(left))

\* The place of that link in the chain.
LEMMA LinkInTurn ==
  ASSUME NEW q, NEW left, NEW whole, Underway(q, left, whole)
  PROVE  /\ Len(left) \in 1..Len(Chain(q)) /\ Len(Chain(q)) >= 5
         /\ \/ Len(left) = Len(Chain(q)) /\ Head(left) = FullReset
            \/ Len(left) < Len(Chain(q)) /\ Prepares(Head(left), q.dlq.onto)
            \/ Len(left) < Len(Chain(q)) /\ LastOfRetrieval(q, left)
            \/ /\ Len(left) < Len(Chain(q)) /\ ~Retrieves(q.query.atom, q.dlq)
               /\ Head(left).build.ok = TRUE
<1>1. PICK links : links = Chain(q)
  OBVIOUS
<1>2. /\ links \in Seq(ToSet(links)) /\ Len(links) \in Nat /\ Len(links) >= 5
      /\ left \in Seq(ToSet(links)) /\ left # <<>> /\ SuffixOf(left, links)
  BY <1>1, ChainIsLong DEF Underway
<1>3. Len(left) \in 1..Len(links) /\ Head(left) = links[Len(links) - Len(left) + 1]
  BY <1>2, TailOfSuffix
<1>4. PICK k : k = Len(links) - Len(left) + 1
  OBVIOUS
<1>5. k \in 1..Len(links) /\ (k = 1 <=> Len(left) = Len(links)) /\ (k = Len(links) <=> Len(left) = 1)
  <2>1. PICK m, n : m = Len(links) /\ n = Len(left) /\ m \in Nat /\ n \in 1..m /\ k = m - n + 1
    BY <1>2, <1>3, <1>4
  <2>2. k \in 1..m /\ (k = 1 <=> n = m) /\ (k = m <=> n = 1)
    BY ONLY <2>1
  <2> QED BY <2>1, <2>2
<1>6. /\ links[1] = FullReset
      /\ \A j \in 2..Len(links) :
           \/ Prepares(links[j], q.dlq.onto)
           \/ j = Len(links) /\ Retrieves(q.query.atom, q.dlq) /\ RetrievesUnderPremise(links[j])
           \/ ~Retrieves(q.query.atom, q.dlq) /\ links[j].build.ok = TRUE
  <2>1. Fits(q.query.atom, q.dlq) /\ links = getDirectors(q.query.atom, q.dlq, q.proj).links
    BY <1>1 DEF Chain, Underway
  <2>2. Linked(links, q.query.atom, q.dlq)
    BY <2>1, ChainLinks
  <2> QED BY <2>2 DEF Linked
<1>7. CASE k = 1
  BY <1>1, <1>2, <1>3, <1>4, <1>5, <1>6, <1>7
<1>8. CASE k # 1
  <2>1. k \in 2..Len(links) /\ Len(left) < Len(links) /\ Head(left) = links[k]
    BY <1>2, <1>3, <1>4, <1>5, <1>8
  <2>2. CASE Prepares(links[k], q.dlq.onto)
    BY <1>1, <1>2, <1>3, <2>1, <2>2
  <2>3. CASE k = Len(links) /\ Retrieves(q.query.atom, q.dlq) /\ RetrievesUnderPremise(links[k])
    <3>1. LastOfRetrieval(q, left)
      BY <1>5, <2>1, <2>3 DEF LastOfRetrieval
    <3> QED BY <1>1, <1>2, <1>3, <2>1, <3>1
  <2>4. CASE ~Retrieves(q.query.atom, q.dlq) /\ links[k].build.ok = TRUE
    BY <1>1, <1>2, <1>3, <2>1, <2>4
  <2> QED BY <1>6, <2>1, <2>2, <2>3, <2>4
<1> QED BY <1>7, <1>8

\* What prepares a document, or retrieves of it, makes no temporary ABox.
LEMMA NoCloneMade ==
  ASSUME NEW r, "aboxes" \in DOMAIN r, NoClone(r), NEW l, l.build.ok = TRUE,
         NEW onto, onto.realuri # kbName, Prepares(l, onto) \/ RetrievesUnderPremise(l),
         NEW docs, NEW s, s = Obey(r, l.build.expr, docs).racer
  PROVE  NoClone(s)
<1>1. PICK c : c = l.build.expr
  OBVIOUS
<1>2. \/ c.cmd \in {"kb-ontologies", "retrieve-under-premise"}
      \/ c.cmd = "set-unique-name-assumption" \/ c.cmd = "enable-data-substrate-mirroring"
      \/ c.cmd \in {"owl-read-file", "owl-read-document"} /\ c.kb # kbName
  BY <1>1 DEF Prepares, RetrievesUnderPremise
<1>3. Leaves(r, c, s)
  BY <1>1, Obeyed
<1>4. CASE c.cmd \in {"kb-ontologies", "retrieve-under-premise"}
  <2>1. s = r
    BY <1>3, <1>4 DEF Leaves
  <2> QED BY <2>1
<1>5. CASE c.cmd = "set-unique-name-assumption" \/ c.cmd = "enable-data-substrate-mirroring"
  <2>1. s = [r EXCEPT !.una = TRUE] \/ s = [r EXCEPT !.mirror = TRUE]
    BY <1>3, <1>5 DEF Leaves
  <2>2. s.aboxes = r.aboxes
    BY <2>1
  <2> QED BY <2>2 DEF NoClone
<1>6. CASE c.cmd \in {"owl-read-file", "owl-read-document"} /\ c.kb # kbName
  <2>1. s = r \/ \E kb : s = [r EXCEPT !.aboxes = Put(@, c.kb, kb)]
    BY <1>3, <1>6 DEF Leaves
  <2>2. DOMAIN s.aboxes \subseteq DOMAIN r.aboxes \cup {c.kb}
    BY <2>1 DEF Put
  <2> QED BY <1>6, <2>2 DEF NoClone
<1> QED BY <1>2, <1>4, <1>5, <1>6

\* RACER after a full reset.
LEMMA NoCloneAfterReset ==
  ASSUME NEW r, "aboxes" \in DOMAIN r, NEW docs, NEW s,
         s = Obey(r, FullReset.build.expr, docs).racer
  PROVE  NoClone(s)
<1>1. FullReset.build.expr.cmd = "full-reset"
  BY DEF FullReset, Ignored, QueryDirector, Built
<1>2. Leaves(r, FullReset.build.expr, s)
  BY Obeyed
<1>3. s = FreshRacer
  BY <1>1, <1>2 DEF Leaves
<1> QED BY <1>3 DEF FreshRacer, NoClone
\* What a turn does to RACER and to the buffer.
Unsent == racer' = racer /\ open' = open

\* A builder throws, a command is garbled, or RACER obeys one.
LEMMA TurnsOfRacer ==
  ASSUME BuilderThrows \/ Garbled \/ Send
  PROVE  /\ phase' = phase
         /\ \/ Unsent /\ Finished /\ half' /\ ~Link.build.ok
            \/ Unsent /\ half /\ ~half' /\ asking' = asking /\ todo' = Tail(todo)
            \/ /\ ~half /\ ~half' /\ open' /\ Link.build.ok
               /\ racer' = Obey(racer, Link.build.expr, files).racer
               /\ Continues \/ Finished
<1>1. phase' = phase
  BY DEF BuilderThrows, Garbled, Send, Still
<1>2. CASE BuilderThrows
  BY <1>1, <1>2 DEF BuilderThrows, Unsent, Throw
<1>3. CASE Garbled
  BY <1>1, <1>3 DEF Garbled, Unsent
<1>4. CASE Send
  <2>1. /\ ~half /\ half' = half /\ open' = TRUE /\ Link.build.ok
        /\ racer' = Obey(racer, Link.build.expr, files).racer
    BY <1>4 DEF Send, Sends
  <2>2. PICK read : Goes(read) \/ Refused(read) \/ HandleInconsistency(read)
    BY <1>4 DEF Send, Sends
  <2>3. Continues \/ Finished
    <3>1. CASE Goes(read)
      BY <2>1, <3>1 DEF Goes, Continues, Deliver
    <3>2. CASE Refused(read)
      BY <3>2 DEF Refused, Throw
    <3>3. CASE HandleInconsistency(read)
      <4>1. \E a : Deliver(a)
        BY <3>3 DEF HandleInconsistency
      <4> QED BY <4>1 DEF Deliver
    <3> QED BY <2>2, <3>1, <3>2, <3>3
  <2> QED BY <1>1, <2>1, <2>3
<1> QED BY <1>2, <1>3, <1>4

\* A turn makes a temporary ABox only for a query that is asked of one.
LEMMA ABoxInTurn ==
  ASSUME ABoxInv, AskingInv, TurnInv, RegistryInv, BuilderThrows \/ Garbled \/ Send
  PROVE  ABoxInv'
<1>1. /\ asking # NoQuery /\ phase = "queries" /\ Underway(asking, todo, half)
      /\ asking.dlq.onto.realuri \in DOMAIN ontomap
  BY Turns DEF AskingInv, TurnInv
<1>2. asking.dlq.onto.realuri # kbName
  BY <1>1, TemporaryNames DEF RegistryInv
<1>3. /\ Len(todo) \in 1..Len(Chain(asking)) /\ Len(Chain(asking)) >= 5
      /\ \/ Len(todo) = Len(Chain(asking)) /\ Link = FullReset
         \/ Len(todo) < Len(Chain(asking)) /\ Prepares(Link, asking.dlq.onto)
         \/ Len(todo) < Len(Chain(asking)) /\ LastOfRetrieval(asking, todo)
         \/ /\ Len(todo) < Len(Chain(asking)) /\ ~Retrieves(asking.query.atom, asking.dlq)
            /\ Link.build.ok = TRUE
  BY <1>1, LinkInTurn DEF Link
<1>4. phase' = "queries"
  BY <1>1, TurnsOfRacer
<1>5. CASE Unsent /\ Finished /\ half' /\ ~Link.build.ok
  <2>1. FullReset.build.ok = TRUE
    BY DEF FullReset, Ignored, QueryDirector, Built
  <2>2. Len(todo) < Len(Chain(asking)) /\ LastOfRetrieval(asking, todo)
    <3>1. ~Prepares(Link, asking.dlq.onto)
      BY <1>5 DEF Prepares
    <3>2. Link # FullReset /\ Link.build.ok # TRUE
      BY <1>5, <2>1
    <3> QED BY <1>3, <3>1, <3>2
  <2>3. NoClone(racer)
    BY <1>1, <2>2 DEF ABoxInv, LastOfRetrieval
  <2> QED BY <1>5, <2>3 DEF ABoxInv, NoClone, Unsent, Finished
<1>6. CASE Unsent /\ half /\ ~half' /\ asking' = asking /\ todo' = Tail(todo)
  <2>1. NoClone(racer)
    BY <1>6 DEF ABoxInv
  <2> QED BY <1>6, <2>1 DEF ABoxInv, NoClone, Unsent
<1>7. CASE /\ ~half /\ ~half' /\ open' /\ Link.build.ok
           /\ racer' = Obey(racer, Link.build.expr, files).racer
           /\ Continues \/ Finished
  <2>1. "aboxes" \in DOMAIN racer
    BY DEF ABoxInv
  <2>2. "aboxes" \in DOMAIN racer'
    <3>1. Leaves(racer, Link.build.expr, racer')
      BY <1>7, <2>1, Obeyed
    <3> QED BY <3>1 DEF Leaves
  <2>3. CASE Finished
    BY <1>4, <1>7, <2>2, <2>3 DEF ABoxInv, Finished
  <2>4. CASE Continues /\ ~Retrieves(asking.query.atom, asking.dlq)
    BY <1>4, <1>7, <2>2, <2>4 DEF ABoxInv, Continues
  <2>5. CASE Continues /\ Retrieves(asking.query.atom, asking.dlq)
    <3>1. CASE Link = FullReset
      <4>1. NoClone(racer')
        BY <1>7, <2>1, <3>1, NoCloneAfterReset
      <4> QED BY <1>4, <1>7, <2>2, <4>1 DEF ABoxInv, NoClone
    <3>2. CASE /\ Len(todo) < Len(Chain(asking))
               /\ Prepares(Link, asking.dlq.onto) \/ LastOfRetrieval(asking, todo)
      <4>1. NoClone(racer)
        BY <1>1, <2>5, <3>2 DEF ABoxInv
      <4>2. Link.build.ok = TRUE
        BY <1>7, <3>2, <2>5 DEF Continues, LastOfRetrieval, Prepares
      <4>3. Prepares(Link, asking.dlq.onto) \/ RetrievesUnderPremise(Link)
        BY <3>2 DEF LastOfRetrieval, Link
      <4>4. NoClone(racer')
        BY <1>2, <1>7, <2>1, <4>1, <4>2, <4>3, NoCloneMade
      <4> QED BY <1>4, <1>7, <2>2, <4>4 DEF ABoxInv, NoClone
    <3> QED BY <1>3, <2>5, <3>1, <3>2
  <2> QED BY <1>7, <2>3, <2>4, <2>5
<1> QED BY <1>5, <1>6, <1>7, TurnsOfRacer

\* Whatever was wrapped around it, the KB manager of RACER forgets its ABox at the end.
LEMMA ForgottenAtExit ==
  ASSUME ABoxInv, MembersInv, Exit
  PROVE  ABoxInv'
<1>1. /\ asking' = NoQuery /\ phase' = "exited" /\ open' = FALSE /\ half' = FALSE
      /\ racer' = IF open THEN Forget(removeKB(plugin.kbManager)) ELSE racer
  BY DEF Exit, query
<1>2. PICK l : l = ForgetABox(getKBName(plugin.kbManager))
  OBVIOUS
<1>3. l.build.expr.cmd = "forget-abox" /\ l.build.expr.abox = kbName
  <2>1. Head(plugin.kbManager) = "RacerKBManager"
    BY EmptySeq, HeadTailProperties DEF MembersInv
  <2>2. getKBName(plugin.kbManager) = kbName
    BY <2>1 DEF getKBName, NameOf
  <2> QED BY <1>2, <2>2 DEF ForgetABox, Ignored, QueryDirector, Built
<1>4. removeKB(plugin.kbManager) = <<l>>
  BY <1>2 DEF removeKB
<1>5. <<l>> # <<>> /\ Head(<<l>>) = l
  OBVIOUS
<1>6. Forget(<<l>>) = IF half THEN racer ELSE Obey(racer, l.build.expr, files).racer
  BY <1>5 DEF Forget
<1>7. "aboxes" \in DOMAIN racer
  BY DEF ABoxInv
<1>8. "aboxes" \in DOMAIN racer' /\ NoClone(racer')
  <2>1. CASE ~open \/ half
    <3>1. racer' = racer /\ NoClone(racer)
      BY <1>1, <1>4, <1>6, <2>1 DEF ABoxInv
    <3> QED BY <1>7, <3>1
  <2>2. CASE open /\ ~half
    <3>1. racer' = Obey(racer, l.build.expr, files).racer
      BY <1>1, <1>4, <1>6, <2>2
    <3>2. Leaves(racer, l.build.expr, racer')
      BY <1>7, <3>1, Obeyed
    <3>3. \/ kbName \notin DOMAIN racer.aboxes /\ racer' = racer
          \/ racer' = [racer EXCEPT !.aboxes = [n \in DOMAIN @ \ {kbName} |-> @[n]]]
      BY <1>3, <3>2 DEF Leaves
    <3>4. NoClone(racer')
      BY <1>7, <3>3 DEF NoClone
    <3> QED BY <3>2, <3>4 DEF Leaves
  <2> QED BY <2>1, <2>2
<1> QED BY <1>1, <1>8 DEF ABoxInv, NoClone
\* Nothing else talks to RACER.
LEMMA ABoxStep ==
  ASSUME ABoxInv, AskingInv, TurnInv, RegistryInv, ArgumentsInv, MembersInv, [Next]_vars
  PROVE  ABoxInv'
<1>1. CASE BuilderThrows \/ Garbled \/ Send
  BY <1>1, ABoxInTurn
<1>2. CASE Exit
  BY <1>2, ForgottenAtExit
<1>3. CASE Ask
  <2>1. PICK w, inter, reachable, p :
          /\ w \in Queries /\ p = Prepare(w, inter, reachable) /\ Idle /\ Asks(w, inter, p)
          /\ Reject(w, inter, p) \/ Abort(w, inter, p) \/ CacheHit(w, inter, p) \/ Begin(w, inter, p)
    BY <1>3, AskEnds
  <2>2. /\ UNCHANGED <<racer, open, half>> /\ asking = NoQuery /\ phase = "queries"
        /\ phase' \in {"queries", "crashed"}
    BY <2>1 DEF Idle, Asks, Reject, Abort, CacheHit, Begin, session
  <2>3. CASE asking' = NoQuery
    BY <2>2, <2>3 DEF ABoxInv, NoClone
  <2>4. CASE asking' # NoQuery
    <3>1. Begin(w, inter, p)
      BY <2>1, <2>2, <2>4 DEF Reject, Abort, CacheHit
    <3>2. todo' = Chain(asking') /\ Underway(asking', todo', TRUE)
      BY <2>1, <3>1, Begins
    <3>3. Len(Chain(asking')) \in Nat
      BY <3>2, ChainIsLong DEF Underway
    <3>4. ~(Len(todo') < Len(Chain(asking')))
      BY <3>2, <3>3
    <3> QED BY <2>2, <3>4 DEF ABoxInv, NoClone, Chain
  <2> QED BY <2>3, <2>4
<1>4. CASE SetKBReload \/ SetDLSetup \/ SetDLOpt \/ SetDLDebug \/ Help \/ SetOntology \/ SetDefaults
             \/ KeepArgument \/ OptionsSet \/ UNCHANGED vars
  <2>1. UNCHANGED <<racer, open, half, asking, todo>> /\ (phase' = "exited" => phase = "exited")
    <3>1. CASE SetKBReload \/ SetDLSetup \/ SetDLOpt \/ SetDLDebug
      BY <3>1 DEF SetKBReload, SetDLSetup, SetDLOpt, SetDLDebug, Erase, session, query
    <3>2. CASE Help \/ SetOntology \/ SetDefaults \/ KeepArgument \/ OptionsSet
      BY <3>2 DEF Help, SetOntology, SetDefaults, KeepArgument, OptionsSet, session, query
    <3>3. CASE UNCHANGED vars
      BY <3>3 DEF vars, commandLine, ontologies, session, query
    <3> QED BY <1>4, <3>1, <3>2, <3>3
  <2> QED BY <2>1 DEF ABoxInv, NoClone, Chain
<1> QED BY <1>1, <1>2, <1>3, <1>4 DEF Next

\* RacerInterface.cpp:111: an orderly end leaves no temporary ABox in RACER, whatever was
\* asked before, refused or left half-way, whether the KB manager was wrapped or not.
THEOREM TemporaryABoxAlwaysForgotten == Spec => []TemporaryABoxForgotten
<1> DEFINE Inv == /\ ArgumentsInv /\ RegistryInv /\ FilesInv
                  /\ MembersInv /\ TurnInv /\ AskingInv /\ ABoxInv
<1>1. Init => Inv
  <2> SUFFICES ASSUME Init PROVE Inv
    OBVIOUS
  <2>1. racer = FreshRacer /\ asking = NoQuery
    BY DEF Init
  <2>2. ABoxInv /\ TurnInv
    BY <2>1 DEF ABoxInv, NoClone, FreshRacer, TurnInv
  <2> QED BY <2>2, RegistryStarts, MembersStart, NobodyAsks
<1>2. Inv /\ [Next]_vars => Inv'
  BY ArgumentsStep, RegistryStep, FilesStep, MembersStep, TurnStep, AskingStep, ABoxStep
<1>3. Inv => TemporaryABoxForgotten
  BY DEF ABoxInv, NoClone, TemporaryABoxForgotten
<1> QED BY <1>1, <1>2, <1>3, PTL DEF Spec
=============================================================================
