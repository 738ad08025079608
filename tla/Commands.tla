------------------------------ MODULE Commands ------------------------------
(***************************************************************************)
(* The commands that the builders send (RacerBuilder.cpp) and the chain of *)
(* them that each external atom asks its directors for (RacerExtAtom.tcc). *)
(* A link of the chain is what buildCommand does when its turn comes:      *)
(* [ok, expr], and whether the answer is read or skipped.                  *)
(***************************************************************************)
EXTENDS NRQL

CONSTANTS kbName   \* the name of the KB manager's ABox

\* A director is a builder and the driver that reads what is answered.
QueryDirector(b, driver) == [build |-> b, driver |-> driver]

Answered(b) == QueryDirector(b, "RacerAnswerDriver")

\* The commands without arguments of their own are function objects, which never throw.
Ignored(c) == QueryDirector(Built(c), "RacerIgnoreAnswer")

\* setupRacer, for dlDR too.
setupRacer(atom) ==
  <<Ignored([cmd |-> "full-reset"]), Ignored([cmd |-> "set-unique-name-assumption"])>>
    \o IF atom = "dlDR" THEN <<Ignored([cmd |-> "enable-data-substrate-mirroring"])>> ELSE <<>>

\* The document is read into a knowledge base that has the name of the real URI,
\* from its temporary copy when it was downloaded.
OpenOWL(onto) ==
  Built([cmd |-> IF isLocal(onto.uri) THEN "owl-read-file" ELSE "owl-read-document",
         uri |-> onto.uri, kb |-> onto.realuri])

openOntology(onto) ==
  <<Answered(OpenOWL(onto)), Ignored([cmd |-> "kb-ontologies", kb |-> onto.realuri])>>

increaseABox(dlq, proj) ==
  <<Ignored([cmd |-> "clone-abox", from |-> dlq.onto.realuri, to |-> kbName]),
    Answered(Built([cmd |-> "state", assertions |-> createState(proj, dlq.onto.ns, kbName)]))>>

-----------------------------------------------------------------------------
(* The plain queries. *)

SignedConcept(text, ns) == Signed(isStrongNegated(text), Concept(Unsigned(text), ns))

PatternIndividual(dlq, k) == Individual(dlq.pattern[k], dlq.onto.ns)
PlainRole(dlq) == Role(dlq.query, dlq.onto.ns, FALSE)

ConceptInstances(dlq) ==
  Built([cmd |-> "concept-instances", c |-> SignedConcept(dlq.query, dlq.onto.ns), abox |-> kbName])

IsConceptMember(dlq) ==
  IF isBoolean(dlq) /\ Len(dlq.pattern) = 1
  THEN Built([cmd |-> "individual-instance?", i |-> PatternIndividual(dlq, 1),
              c |-> SignedConcept(dlq.query, dlq.onto.ns), abox |-> kbName])
  ELSE DLBuildingError

RoleIndividuals(dlq) ==
  Built([cmd |-> "retrieve-related-individuals", r |-> PlainRole(dlq), abox |-> kbName])

IsRoleMember(dlq) ==
  IF isBoolean(dlq) /\ Len(dlq.pattern) = 2
  THEN Built([cmd |-> "individuals-related?", i1 |-> PatternIndividual(dlq, 1),
              i2 |-> PatternIndividual(dlq, 2), r |-> PlainRole(dlq), abox |-> kbName])
  ELSE DLBuildingError

Fillers(i, r) == Built([cmd |-> "individual-fillers", i |-> i, r |-> r, abox |-> kbName])

Given(dlq) == Min(typeFlags(dlq.pattern))

\* Variant of From: the role is not inverted for the left object.
FromForward(k, r) == r

\* From the right end the role is inverted.
From(k, r) == IF k = 2 THEN InvertedRole(r) ELSE r

\* What the one given object is related to.
IndividualFillers(dlq) ==
  IF Len(dlq.pattern) = 2 /\ Cardinality(typeFlags(dlq.pattern)) = 1
  THEN Fillers(PatternIndividual(dlq, Given(dlq)), From(Given(dlq), PlainRole(dlq)))
  ELSE DLBuildingError

-----------------------------------------------------------------------------
(* The KB managers: those of --kb-reload are wrapped around that of RACER, which has *)
(* a name of its own.                                                                *)

\* Variant of removeKB: the managers that wrap another one have nothing to remove.
RemoveKBOutermost(managers) ==
  IF Len(managers) > 1 THEN <<>> ELSE <<Ignored([cmd |-> "forget-abox", abox |-> kbName])>>

\* A manager has a name and nothing else: nobody asks which knowledge bases are open.
RacerKBManager == <<"RacerKBManager">>
NullKBManager(managers) == Append(managers, "NullKBManager")

NameOf(manager) == IF manager = "RacerKBManager" THEN kbName ELSE URI("none", <<>>)

\* The wrappers have no name of their own.
getKBName(managers) == NameOf(Head(managers))

ForgetABox(name) == Ignored([cmd |-> "forget-abox", abox |-> name])

\* The wrappers hand it on.
removeKB(managers) == <<ForgetABox(getKBName(managers))>>

-----------------------------------------------------------------------------
(* getDirectors: [ok, links], ok being FALSE for a PluginError. *)

PluginError == [ok |-> FALSE]

Composite(links) == [ok |-> TRUE, links |-> links]

\* Commands about the clone of the ontology's ABox, with the interpretation added.
RacerConceptQuery(dlq) == IF isRetrieval(dlq) THEN ConceptInstances(dlq) ELSE IsConceptMember(dlq)

RacerRoleQuery(dlq) ==
  CASE isRetrieval(dlq) -> RoleIndividuals(dlq)
    [] isBoolean(dlq) -> IsRoleMember(dlq)
    [] OTHER -> IndividualFillers(dlq)

OfClone(atom, dlq) ==
  CASE atom = "dlConsistent" -> Built([cmd |-> "abox-consistent?", abox |-> kbName])
    [] atom = "dlC" -> RacerConceptQuery(dlq)
    [] atom = "dlR" -> RacerRoleQuery(dlq)

\* A retrieve command about the ontology's own ABox, the interpretation as its premise.
Retrieves(atom, dlq) ==
  \/ atom \in {"dlDR", "dlCQ", "dlUCQ"}
  \/ atom = "dlR" /\ (isConjQuery(dlq) \/ isUnionConjQuery(dlq))

HeadOf(atom, dlq) == IF atom = "dlDR" THEN DatatypeHead(dlq) ELSE createHead(dlq)

BodyOf(atom, dlq) ==
  CASE atom = "dlDR" -> DatatypeBody(dlq)
    [] atom = "dlUCQ" -> DisjunctionBody(dlq)
    [] OTHER -> ConjunctionBody(dlq)

ExpectedType(atom, dlq) ==
  CASE atom = "dlC" -> isRetrieval(dlq) \/ isBoolean(dlq)
    [] atom = "dlR" -> Retrieves(atom, dlq) \/ isRetrieval(dlq) \/ isBoolean(dlq) \/ isMixed(dlq)
    [] atom = "dlDR" -> isRetrieval(dlq) \/ isMixed(dlq)
    [] OTHER -> TRUE

getDirectors(atom, dlq, proj) ==
  LET commands ==
        IF Retrieves(atom, dlq)
        THEN <<Answered(RetrieveUnderPremise(HeadOf(atom, dlq), BodyOf(atom, dlq), dlq, proj))>>
        ELSE increaseABox(dlq, proj) \o <<Answered(OfClone(atom, dlq))>>
  IN  IF ExpectedType(atom, dlq)
      THEN Composite(setupRacer(atom) \o openOntology(dlq.onto) \o commands)
      ELSE PluginError

\* Variant of cacheQuery: what kind of query a role atom has is not looked at.
CacheQueryAnyRole(atom, dlq) == atom \in {"dlC", "dlR"}

\* The atoms whose directors stand behind the cache.
cacheQuery(atom, dlq) ==
  \/ atom = "dlC"
  \/ atom = "dlR" /\ ~isConjQuery(dlq) /\ ~isUnionConjQuery(dlq)

=============================================================================
