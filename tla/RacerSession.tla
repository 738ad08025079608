----------------------------- MODULE RacerSession -----------------------------
(***************************************************************************)
(* What the external atoms ask of RACER: the chain of commands that the    *)
(* directors of an atom send for one query (RacerExtAtom.tcc), what the    *)
(* answer drivers make of the answers (RacerAnswerDriver.cpp), how an      *)
(* incoherent ABox is handled (QueryDirector.cpp), and what one query      *)
(* leaves behind for the next: in RACER, in the stream, in the DL-cache,   *)
(* and in the ABox of the ontology.                                        *)
(*                                                                         *)
(* There is one ontology.  RACER is external: it obeys the commands it can *)
(* read, except those in Refusable, which it may answer with an error.  No *)
(* one notices an error that is skipped with the answer: the query goes on *)
(* with a RACER that was not set up for it.                                *)
(* The cache is that of DLCache under an order that keeps queries apart.   *)
(***************************************************************************)
EXTENDS Integers, Sequences, SequencesExt, CacheContexts

CONSTANTS
  Queries,         \* records [atom, plain, query, pattern]
  Facts,           \* the assertions a projected interpretation may hold
  Individuals,
  Mentions,        \* the individuals a fact is about
  OwnIndividuals,  \* those of the ontology's document
  Inconsistent,    \* the interpretations that contradict the ontology
  Entailed,        \* the tuples entailed for a query as it is sent, constants included
  Refusable,       \* the commands RACER may refuse
  MayFailParse     \* the document may have changed when its ABox is parsed

VARIABLES
  racer,      \* what the commands made of RACER
  half,       \* the output buffer holds half a command
  alive,      \* the stream has not failed
  objects,    \* the individuals of the ontology's ABox: {} or {a set of them}
  asking,     \* the query under way, its projected interpretation, and (history)
              \* the commands of its chain that failed unnoticed
  todo,       \* the commands its directors have still to send
  cache,      \* the contexts of the DL-cache, for each query
  returned    \* the last query that was answered or failed

vars == <<racer, half, alive, objects, asking, todo, cache, returned>>

Inters == SUBSET Facts

\* Answers that RacerIgnoreAnswer reads are skipped, errors included; those that
\* RacerAnswerDriver reads are not.
IgnoredCommands == {"full-reset", "set-una", "mirror", "kb-ontologies", "clone-abox"}
ParsedCommands == {"owl-read", "state", "ask", "retrieve"}

\* The queries that are asked of a clone of the ontology's ABox; the others are
\* retrieve commands under a premise.
asksClone(q) == q.plain /\ q.atom \in {"dlConsistent", "dlC", "dlR"}

TuplesOf(q) ==
  {t \in [DOMAIN q.pattern -> Individuals] :
     \A k \in DOMAIN t : Ground(q, k) => t[k] = q.pattern[k]}

\* What RACER answers for individuals in the head of a retrieve command is not
\* modelled: dlCQ, dlUCQ and a negated dlR are asked with variables only.  A dlC
\* that is not plain brings the process down, in the order of the cache (Plugin).
ASSUME SessionConstants ==
  /\ Individuals \subseteq Int \ {Var} /\ OwnIndividuals \subseteq Individuals
  /\ Mentions \in [Facts -> SUBSET Individuals]
  /\ Inconsistent \subseteq Inters
  /\ \A i \in Inconsistent, j \in Inters : i \subseteq j => j \in Inconsistent
  /\ Refusable \subseteq ParsedCommands \union IgnoredCommands
  /\ MayFailParse \in BOOLEAN
  /\ \A q \in Queries :
       /\ q.atom \in {"dlConsistent", "dlC", "dlR", "dlDR", "dlCQ", "dlUCQ"}
       /\ q.plain \in BOOLEAN
       /\ q.pattern \in Seq(Individuals \union {Var})
       /\ asksClone(q) \/ q.atom = "dlDR" \/ \A k \in DOMAIN q.pattern : ~Ground(q, k)
       /\ q.atom \in {"dlConsistent", "dlC"} => q.plain
       /\ q.atom = "dlConsistent" => q.pattern = <<>>

\* The reasoner: entailed tuples fit the query, and a larger interpretation never
\* loses one of a boolean query; consistency it may lose, and has not if it is not
\* inconsistent.
ASSUME ReasonerIsMonotone ==
  /\ \A q \in Queries, i \in Inters : Entailed[q][i] \subseteq TuplesOf(q)
  /\ \A q \in Queries, i, j \in Inters :
       isBoolean(q) /\ q.atom # "dlConsistent" /\ i \subseteq j
         => Entailed[q][i] \subseteq Entailed[q][j]
  /\ \A q \in Queries, i \in Inters :
       q.atom = "dlConsistent" => (Entailed[q][i] # {} <=> i \notin Inconsistent)

-----------------------------------------------------------------------------
(* The chain of commands. *)

\* Variant of Setup: the assumption is set before RACER forgets everything.
SetupUNAFirst(q) ==
  <<"set-una", "full-reset">> \o IF q.atom = "dlDR" THEN <<"mirror">> ELSE <<>>

\* Variant of Setup: RACER keeps what earlier queries told it.
SetupWithoutReset(q) == <<"set-una">> \o IF q.atom = "dlDR" THEN <<"mirror">> ELSE <<>>

\* setupRacer.  RACER forgets everything before each query.
Setup(q) ==
  <<"full-reset", "set-una">> \o IF q.atom = "dlDR" THEN <<"mirror">> ELSE <<>>

\* Assertions go into a clone of the ontology's ABox, or into the premise of a
\* retrieve command.  The premise is never empty: an empty interpretation sends
\* foo(bar) instead, which no query is about and is left out.
Premise(q) ==
  IF asksClone(q) THEN <<"clone-abox", "state", "ask">> ELSE <<"retrieve">>

\* getDirectors, of all atoms.
Directors(q) == Setup(q) \o <<"owl-read", "kb-ontologies">> \o Premise(q)

\* Those that getDirectors puts behind the caching director.
isCached(q) == q.atom \in {"dlC", "dlR"} /\ q.plain

-----------------------------------------------------------------------------
NoQuery == [kind |-> "none"]
Asking(q, i) == [kind |-> "asking", query |-> q, inter |-> i, missed |-> {}]
Answered(q, i, v, ts, d) ==
  [kind |-> "answer", query |-> q, inter |-> i, value |-> v, tuples |-> ts, damage |-> d]
Failed(q, i) == [kind |-> "error", query |-> q, inter |-> i]

\* History: what the commands that failed unnoticed did to the answer.  After a lost
\* reset the rest of the chain does all that is needed, unless the clone is lost too:
\* then the question is asked of what an earlier query left.
Damage(missed) ==
  CASE missed \subseteq {"full-reset"} -> "none"
    [] {"full-reset", "clone-abox"} \subseteq missed -> "any"
    [] OTHER -> "loss"

FreshRacer == [una |-> FALSE, mirror |-> FALSE, kb |-> "none", clone |-> {}]

Init ==
  /\ racer = FreshRacer
  /\ half = FALSE /\ alive = TRUE
  /\ objects = {}
  /\ asking = NoQuery /\ todo = <<>>
  /\ cache = [q \in Queries |-> {}]
  /\ returned = NoQuery

CacheHit(q, i) ==
  /\ asking = NoQuery
  /\ isCached(q)
  /\ \E e \in isValid(q, i, cache[q]) :
       returned' = Answered(q, i, e.value, e.tuples, e.damage)
  /\ UNCHANGED <<racer, half, alive, objects, asking, todo, cache>>

Begin(q, i) ==
  /\ asking = NoQuery
  /\ isCached(q) => isValid(q, i, cache[q]) = {}
  /\ asking' = Asking(q, i) /\ todo' = Directors(q) /\ returned' = NoQuery
  /\ UNCHANGED <<racer, half, alive, objects, cache>>

\* The ends of a query: an answer, which a caching director inserts, or a DLError.
Deliver(v, ts) ==
  LET q == asking.query
      i == asking.inter
      d == Damage(asking.missed)
      kept == cache[q] \ Superfluous(q, i, v, cache[q])
      c == [inter |-> i, value |-> v, tuples |-> ts, damage |-> d]
  IN  /\ returned' = Answered(q, i, v, ts, d)
      /\ asking' = NoQuery /\ todo' = <<>>
      /\ IF isCached(q)
         THEN cache' = [cache EXCEPT ![q] = AddContext(kept, c)]
         ELSE UNCHANGED cache

Throw ==
  /\ returned' = Failed(asking.query, asking.inter)
  /\ asking' = NoQuery /\ todo' = <<>>
  /\ UNCHANGED cache

Continue == todo' = Tail(todo) /\ UNCHANGED <<asking, cache, returned>>

Sends(command) == asking # NoQuery /\ alive /\ Head(todo) = command

-----------------------------------------------------------------------------
(* Commands whose answers are skipped, errors included. *)

Obeys(r) == racer' = r /\ Continue

\* RACER answers with an error, and the chain goes on.
Unnoticed(command) ==
  /\ asking' = [asking EXCEPT !.missed = @ \union {command}]
  /\ todo' = Tail(todo)
  /\ UNCHANGED <<racer, cache, returned>>

Skips(command, r) ==
  /\ Sends(command)
  /\ Obeys(r) \/ (command \in Refusable /\ Unnoticed(command))
  /\ UNCHANGED <<alive, objects>>

\* Behind half a command RACER cannot read this one: it answers with an error, or
\* waits for the rest of the expression and the session ends here (TCPStream).
FullReset ==
  /\ Sends("full-reset")
  /\ \/ ~half /\ Obeys(FreshRacer)
     \/ (half \/ "full-reset" \in Refusable) /\ Unnoticed("full-reset")
  /\ half' = FALSE
  /\ UNCHANGED <<alive, objects>>

SetUNA == Skips("set-una", [racer EXCEPT !.una = TRUE]) /\ UNCHANGED half

EnableMirroring == Skips("mirror", [racer EXCEPT !.mirror = TRUE]) /\ UNCHANGED half

ImportOntologies ==
  Skips("kb-ontologies", [racer EXCEPT !.kb = "imported"]) /\ UNCHANGED half

\* Variant of Cloned: a clone that keeps what an earlier one was told.
ClonedKeeping(clone) == IF clone = {} THEN {{}} ELSE clone

\* The command says :overwrite t.
Cloned(clone) == {{}}

CloneABox ==
  Skips("clone-abox", [racer EXCEPT !.clone = Cloned(@)]) /\ UNCHANGED half

-----------------------------------------------------------------------------
(* Commands whose answers are parsed.  An error throws, unless it says that the  *)
(* ABox is incoherent.                                                           *)

Refuses ==
  /\ asking # NoQuery /\ alive
  /\ Head(todo) \in ParsedCommands \intersect Refusable
  /\ Throw
  /\ UNCHANGED <<racer, half, alive, objects>>

OpenOWL ==
  /\ Sends("owl-read")
  /\ racer' = [racer EXCEPT !.kb = "read"]
  /\ Continue
  /\ UNCHANGED <<half, alive, objects>>

\* handleInconsistency parses the ABox once and keeps it: what an earlier parse
\* left is there for good, and an interpretation's individuals are added to it.
Known == UNION objects

\* Variant of AddedIndividuals: the interpretation is not looked at.
AddedNone == {}

AddedIndividuals == UNION {Mentions[f] : f \in asking.inter}

\* Grounder: every variable of the output list over the universe.
Grounding(q, universe) ==
  {t \in TuplesOf(q) : \A k \in DOMAIN t : ~Ground(q, k) => t[k] \in universe}

\* Variant of TrivialTuples: what a boolean query that is trivially true returns.
TrivialTruth == {<<>>}

\* The tuples of a boolean query that is trivially true: the statement that would
\* set them is commented out.
TrivialTuples == {}

HandleInconsistency ==
  LET q == asking.query
      universe == Known \union (IF objects = {} THEN OwnIndividuals ELSE {})
                    \union AddedIndividuals
  IN  IF isBoolean(q)
      THEN Deliver("T", TrivialTuples) /\ UNCHANGED objects
      ELSE \/ /\ objects' = {universe}
              /\ Deliver("NIL", Grounding(q, universe))
           \/ /\ MayFailParse /\ objects = {}
              /\ \E read \in SUBSET OwnIndividuals : objects' = {read}
              /\ Throw

\* RACER keeps the assertions even if they contradict the ontology, and need not
\* say so before it is asked.  Without a clone it refuses them; none is no error.
State ==
  /\ Sends("state")
  /\ racer' = [racer EXCEPT !.clone = {facts \union asking.inter : facts \in @}]
  /\ \/ /\ racer.clone # {} \/ asking.inter = {}
        /\ Continue /\ UNCHANGED objects
     \/ /\ racer.clone = {} /\ asking.inter # {}
        /\ Throw /\ UNCHANGED objects
     \/ /\ racer.clone # {} /\ racer'.clone \subseteq Inconsistent
        /\ HandleInconsistency
  /\ UNCHANGED <<half, alive>>

IsSetUp(q) == racer.una /\ racer.kb = "imported" /\ (q.atom = "dlDR" => racer.mirror)

\* What RACER concludes from the ontology and some assertions if it finds them
\* consistent.  Unless it was set up for the query it reasons with fewer axioms: it
\* concludes less, and may overlook an inconsistency.
Conclusions(q, facts) ==
  IF IsSetUp(q) THEN {Entailed[q][facts]}
  ELSE IF facts \in Inconsistent THEN SUBSET TuplesOf(q)
  ELSE IF q.atom = "dlConsistent" THEN {Entailed[q][facts]}
  ELSE SUBSET Entailed[q][facts]

\* The answer has the components that were asked for; Answer::addTuple, which would
\* put the constants back, is never called.  "T" is the empty tuple.
Project(q, t) ==
  LET free == {k \in DOMAIN t : ~Ground(q, k)}
      place(j) == CHOOSE k \in free : Cardinality({m \in free : m <= k}) = j
  IN  [j \in 1..Cardinality(free) |-> t[place(j)]]
Projected(q, ts) == {Project(q, t) : t \in ts}

Parse(ts) ==
  Deliver(IF isBoolean(asking.query) /\ ts # {} THEN "T" ELSE "NIL",
          Projected(asking.query, ts))

\* abox-consistent? answers NIL for an incoherent ABox, every other command with
\* an error.
AnswersUnder(facts) ==
  LET q == asking.query
  IN  \/ /\ facts \notin Inconsistent \/ ~IsSetUp(q)
         /\ \E ts \in Conclusions(q, facts) : Parse(ts)
         /\ UNCHANGED objects
      \/ /\ facts \in Inconsistent /\ q.atom = "dlConsistent"
         /\ Parse({}) /\ UNCHANGED objects
      \/ /\ facts \in Inconsistent /\ q.atom # "dlConsistent"
         /\ HandleInconsistency

\* Without a clone there is no ABox of that name.
Ask ==
  /\ Sends("ask")
  /\ \/ \E facts \in racer.clone : AnswersUnder(facts)
     \/ racer.clone = {} /\ Throw /\ UNCHANGED objects
  /\ UNCHANGED <<racer, half, alive>>

\* The datatype builder only takes an output list whose second term is a variable.
Incompatible(q) == q.atom = "dlDR" /\ Ground(q, 2)

Retrieve ==
  /\ Sends("retrieve") /\ ~Incompatible(asking.query)
  /\ AnswersUnder(asking.inter)
  /\ UNCHANGED <<racer, half, alive>>

\* It throws after the premise is in the output buffer.
BuilderThrows ==
  /\ Sends("retrieve") /\ Incompatible(asking.query)
  /\ half' = TRUE
  /\ Throw
  /\ UNCHANGED <<racer, alive, objects>>

\* A failure of the stream is for good (TCPStream, FailureIsFinal).
StreamFails ==
  /\ asking # NoQuery
  /\ alive' = FALSE
  /\ Throw
  /\ UNCHANGED <<racer, half, objects>>

Next ==
  \/ \E q \in Queries, i \in Inters : CacheHit(q, i) \/ Begin(q, i)
  \/ FullReset \/ SetUNA \/ EnableMirroring \/ OpenOWL \/ ImportOntologies
  \/ CloneABox \/ State \/ Ask \/ Retrieve
  \/ Refuses \/ BuilderThrows \/ StreamFails

Spec == Init /\ [][Next]_vars

-----------------------------------------------------------------------------
(* Properties. *)

Values == {"T", "NIL"}
Tuples == Seq(Individuals)
Damages == {"none", "loss", "any"}
Contexts == [inter : Inters, value : Values, tuples : SUBSET Tuples, damage : Damages]

\* The state stays within its sets; what is still to be sent is always the end of
\* the chain of the query under way, and only its first command can be garbled.
TypeOK ==
  /\ racer \in [una : BOOLEAN, mirror : BOOLEAN, kb : {"none", "read", "imported"},
                clone : {{}} \union {{i} : i \in Inters}]
  /\ half \in BOOLEAN /\ alive \in BOOLEAN
  /\ objects \in {{}} \union {{s} : s \in SUBSET Individuals}
  /\ asking \in {NoQuery} \union [kind : {"asking"}, query : Queries, inter : Inters,
                                 missed : SUBSET IgnoredCommands]
  /\ IF asking = NoQuery
     THEN todo = <<>>
     ELSE todo # <<>> /\ IsSuffix(todo, Directors(asking.query))
  /\ half /\ asking # NoQuery => todo = Directors(asking.query)
  /\ \A q \in Queries : cache[q] \subseteq Contexts
  /\ returned \in {NoQuery}
       \union [kind : {"error"}, query : Queries, inter : Inters]
       \union [kind : {"answer"}, query : Queries, inter : Inters, value : Values,
               tuples : SUBSET Tuples, damage : Damages]

IsAnswer == returned.kind = "answer"
Coherent == returned.inter \notin Inconsistent

\* No error was skipped in the chain that answered, or only that of the reset.
Undamaged == IsAnswer /\ returned.damage = "none"

\* An answer under an interpretation that agrees with the ontology is what the
\* ontology and that interpretation entail, whatever was asked, refused, garbled,
\* half done or cached before and even if RACER did not read this chain's reset: no
\* assertion, setting or trivial truth of an earlier query shows, and an error that
\* was skipped harms no answer but the one it came before, which the cache may repeat
\* (RacerExtAtom.tcc, QueryDirector.cpp).
CoherentAnswersExact ==
  Undamaged /\ Coherent =>
    returned.tuples = Projected(returned.query, Entailed[returned.query][returned.inter])

\* RacerAnswerDriver.cpp:436: an error that is skipped loses answers, but adds none;
\* only when both the reset and the clone failed is a query asked of what an earlier
\* one left.
SkippedErrorsOnlyLose ==
  IsAnswer /\ Coherent /\ returned.damage # "any" =>
    returned.tuples \subseteq
      Projected(returned.query, Entailed[returned.query][returned.inter])

\* &dlConsistent is true of the consistent interpretations, also when the state
\* command reports the incoherence before the question is asked.
ConsistencyDecided ==
  Undamaged /\ returned.query.atom = "dlConsistent" =>
    (returned.tuples # {} <=> Coherent)

\* QueryDirector.cpp:175: under an inconsistent interpretation a boolean query has
\* the answer true, also when the answer comes from the cache.
InconsistentIsTrue ==
  Undamaged /\ ~Coherent /\ isBoolean(returned.query)
    /\ returned.query.atom # "dlConsistent" => returned.value = "T"

\* QueryDirector.cpp:181: the answer to a retrieval under an inconsistent
\* interpretation has all tuples over the individuals of the ontology and of that
\* interpretation.
InconsistentRetrievalCovers ==
  Undamaged /\ ~Coherent /\ ~isBoolean(returned.query) =>
    Grounding(returned.query,
              OwnIndividuals \union UNION {Mentions[f] : f \in returned.inter})
      \subseteq returned.tuples

\* QueryDirector.cpp:175, for the tuples that the caller is given.
TrivialIsDelivered ==
  IsAnswer /\ isBoolean(returned.query) /\ returned.query.atom # "dlConsistent" =>
    (returned.value = "T" <=> returned.tuples # {})
=============================================================================
