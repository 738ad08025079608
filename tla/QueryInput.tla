----------------------------- MODULE QueryInput -----------------------------
(***************************************************************************)
(* From the input list of an external atom to a query: what kind of query  *)
(* the text is (QueryCtx.cpp), what its output list asks for (DLQuery.cpp),*)
(* and the part of the interpretation that goes with it (Query.cpp).       *)
(***************************************************************************)
EXTENDS AtomSeparator

\* setPatternTuple: the places of ground terms, a bit for each in the code.
typeFlags(pattern) == {i \in DOMAIN pattern : ~isVariable(pattern[i])}

DLQuery(onto, query, cq, ucq, pattern) ==
  [onto |-> onto, query |-> query, cq |-> cq, ucq |-> ucq, pattern |-> pattern]

PlainQuery(onto, query, pattern) == DLQuery(onto, query, {}, <<>>, pattern)

isBoolean(dlq) == typeFlags(dlq.pattern) = DOMAIN dlq.pattern
isRetrieval(dlq) == dlq.pattern # <<>> /\ typeFlags(dlq.pattern) = {}

\* A ground list is mixed too: of the flags' complement there are always bits left.
isMixed(dlq) == dlq.pattern # <<>> /\ typeFlags(dlq.pattern) # {}

isConjQuery(dlq) == dlq.cq # {}
isUnionConjQuery(dlq) == dlq.ucq # <<>>

-----------------------------------------------------------------------------
(* QueryCtx.  A query that cannot be made is a DLError. *)

NoQueryCtx == [ok |-> FALSE]
Made(dlq) == [ok |-> TRUE, dlq |-> dlq]

Conjunctive(onto, parsed, pattern) ==
  IF parsed.ok THEN Made(DLQuery(onto, <<>>, parsed.atoms, <<>>, pattern)) ELSE NoQueryCtx

Union(onto, parsed, pattern) ==
  IF parsed.ok THEN Made(DLQuery(onto, <<>>, {}, parsed.atoms, pattern)) ELSE NoQueryCtx

\* The ontology's namespace is put before a name that is no URI, behind its sign.
Qualified(onto, text) ==
  IF isValid(text) THEN text
  ELSE IF isStrongNegated(text) THEN <<"-">> \o onto.ns \o Tail(text)
  ELSE onto.ns \o text

\* A negated role becomes a conjunctive query of one atom, which RACER can negate.
NegatedRoleText(text, pattern) ==
  text \o <<"(">> \o pattern[1] \o <<",">> \o pattern[2] \o <<")">>

Plain(onto, q, pattern) ==
  IF Len(pattern) = 2 /\ isStrongNegated(q)
  THEN Conjunctive(onto, AtomSeparatorParse(NegatedRoleText(q, pattern)), pattern)
  ELSE Made(PlainQuery(onto, q, pattern))

\* The brackets around a text do not count when it is told what kind it is.
QueryOfText(onto, text, pattern) ==
  LET bare == Unbracketed(text)
  IN  IF isUnion(bare) THEN Union(onto, UnionAtomSeparatorParse(bare), pattern)
      ELSE IF "(" \in ToSet(bare) THEN Conjunctive(onto, AtomSeparatorParse(bare), pattern)
      ELSE Plain(onto, Qualified(onto, text), pattern)

\* The atoms of the four input predicates, with the arity of a concept or a role; the
\* first argument is its name and gets a sign for the minus predicates, which win.
setInterpretation(inter, pc, mc, pr, mr) ==
  LET arity(a) == Len(a.args) - 1
      isPC(a) == a.pred = pc /\ arity(a) = 1
      isMC(a) == a.pred = mc /\ arity(a) = 1
      isPR(a) == a.pred = pr /\ arity(a) = 2
      isMR(a) == a.pred = mr /\ arity(a) = 2
      sign(a) == IF isMC(a) \/ isMR(a) THEN <<"-">> ELSE <<>>
  IN  {[pred |-> sign(a) \o a.args[1], args |-> Tail(a.args)] :
         a \in {b \in inter : isPC(b) \/ isMC(b) \/ isPR(b) \/ isMR(b)}}

\* A dl-query with the interpretation it is asked under.
Query(dlq, proj) == [dlq |-> dlq, proj |-> proj]

Projected(made, proj) == IF made.ok THEN [ok |-> TRUE, query |-> Query(made.dlq, proj)] ELSE NoQueryCtx

\* The whole constructor; dlConsistent has no text.
QueryCtx(onto, input, pattern, inter) ==
  IF Len(input) < 4 THEN NoQueryCtx
  ELSE Projected(IF Len(input) > 5 THEN QueryOfText(onto, input[6], pattern)
                 ELSE Made(PlainQuery(onto, <<" ">>, pattern)),
                 setInterpretation(inter, input[2], input[3], input[4], input[5]))

=============================================================================
