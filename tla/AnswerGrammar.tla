---------------------------- MODULE AnswerGrammar ----------------------------
(***************************************************************************)
(* The grammar of RACER's answers with its semantic actions                *)
(* (RacerAnswerDriver.cpp).  An answer of the object Answer is             *)
(* [value, incoherent, tuples]; a query's answers are read into one object.*)
(* The alternatives are tried in order, and what an action did stays when  *)
(* its alternative fails later.                                            *)
(***************************************************************************)
EXTENDS Racer

\* Messages are left out, and the way to the query: Answer::addTuple, which uses it, is
\* never called.
isAnswer(a) ==
  /\ DOMAIN a = {"value", "incoherent", "tuples"}
  /\ a.value \in BOOLEAN /\ a.incoherent \in BOOLEAN

NoAnswer == [value |-> FALSE, incoherent |-> FALSE, tuples |-> {}]

setIncoherent(a, isIncoherent) == [a EXCEPT !.incoherent = isIncoherent]

setAnswer(a, value) == [a EXCEPT !.value = value]

\* A name with a namespace is printed as |...| and read as a URI in brackets.
IndividualTerm(x) ==
  IF x # <<>> /\ Head(x) \in Namespaces THEN <<"<">> \o x \o <<">">> ELSE x

isIndividual(b) == b.t = "individual"
isList(b) == b.t = "list" /\ b.of # <<>>

isBinding(b) == isList(b) /\ Len(b.of) = 2 /\ b.of[1].t = "variable" /\ isIndividual(b.of[2])
isTuple(b) == isList(b) /\ \A i \in DOMAIN b.of : isBinding(b.of[i])
isPair(b) == isList(b) /\ Len(b.of) = 2 /\ \A i \in {1, 2} : isIndividual(b.of[i])

TupleTerms(b) == [i \in DOMAIN b.of |-> IndividualTerm(b.of[i].of[2].name)]
PairTerms(b) == [i \in DOMAIN b.of |-> IndividualTerm(b.of[i].name)]

AllOf(b, is(_)) == isList(b) /\ \A i \in DOMAIN b.of : is(b.of[i])
Insert(a, tuples) == [a EXCEPT !.tuples = @ \cup ToSet(tuples)]

\* handle_boolean; only the true answer has the empty tuple.
boolean(a, w) ==
  CASE w = "T" -> [setAnswer(a, TRUE) EXCEPT !.tuples = @ \cup {<<>>}]
    [] w = "NIL" -> setAnswer(a, FALSE)
    [] OTHER -> a

\* boolean | list | status: what is no list of one kind is a status and tells nothing.
AnswerBody(a, b) ==
  IF b.t = "word" THEN boolean(a, b.w)
  ELSE IF AllOf(b, isTuple) THEN Insert(a, [i \in DOMAIN b.of |-> TupleTerms(b.of[i])])
  ELSE IF AllOf(b, isPair) THEN Insert(a, [i \in DOMAIN b.of |-> PairTerms(b.of[i])])
  ELSE IF AllOf(b, isIndividual)
  THEN Insert(a, [i \in DOMAIN b.of |-> <<IndividualTerm(b.of[i].name)>>])
  ELSE a

\* RacerAnswerDriver::parse: [ok, answer].  An error is a DLParsingError, unless it says
\* that the ABox is incoherent.
RacerAnswerDriver(a, reply) ==
  IF reply.kind = "error"
  THEN [ok |-> reply.text = "incoherent", answer |-> setIncoherent(a, TRUE)]
  ELSE [ok |-> TRUE, answer |-> AnswerBody(a, reply.body)]

RacerIgnoreAnswer(a, reply) == [ok |-> TRUE, answer |-> a]

parse(driver, a, reply) ==
  IF driver = "RacerIgnoreAnswer" THEN RacerIgnoreAnswer(a, reply) ELSE RacerAnswerDriver(a, reply)

=============================================================================
