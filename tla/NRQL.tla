-------------------------------- MODULE NRQL --------------------------------
(***************************************************************************)
(* The expressions of RACER's query language that the builders make        *)
(* (RacerQueryExpr.h, RacerNRQL.h) and how the bodies, heads and premises  *)
(* of queries are made of them (RacerNRQLBuilder.cpp).  An expression is a *)
(* record for what its text says; blanks and brackets are left out.        *)
(*                                                                         *)
(* A builder that throws has part of its command on the stream already:    *)
(* the result is [ok, expr], and ok is FALSE then.                         *)
(***************************************************************************)
EXTENDS QueryInput

\* What is written as one symbol: objects, concepts, roles.
Expr(op, t, ns) == [op |-> op, name |-> Symbol(t, ns)]
Variable(name, injective, substrate) ==
  [op |-> "var", name |-> name, injective |-> injective, substrate |-> substrate]
Individual(t, ns) == Expr("ind", t, ns)
Concept(t, ns) == Expr("concept", t, ns)
NegatedConcept(c) == [op |-> "not", of |-> c]
SomeConcept(r, c) == [op |-> "some", role |-> r, of |-> c]
OneOf(is) == [op |-> "one-of", list |-> is]
Role(t, ns, isDatatype) == [op |-> "role", name |-> Symbol(t, ns), datatype |-> isDatatype]
InvertedRole(r) == [op |-> "inv", of |-> r]

\* Assertions of a premise, and those added to a named ABox.
Instance(i, c) == [op |-> "instance", i |-> i, c |-> c]
Related(i1, i2, r) == [op |-> "related", i1 |-> i1, i2 |-> i2, r |-> r]
AddConcept(abox, i, c) == [op |-> "add-concept", abox |-> abox, i |-> i, c |-> c]
AddRole(abox, i1, i2, r) == [op |-> "add-role", abox |-> abox, i1 |-> i1, i2 |-> i2, r |-> r]

\* Query atoms and bodies.
ConceptQuery(c, o) == [op |-> "concept-query", c |-> c, o |-> o]
RoleQuery(r, o1, o2) == [op |-> "role-query", r |-> r, o1 |-> o1, o2 |-> o2]
NegationQuery(a) == [op |-> "not-query", of |-> a]
SameAs(o1, o2) == [op |-> "same-as", o1 |-> o1, o2 |-> o2]
Conjunction(atoms) == [op |-> "and", of |-> atoms]
UnionOf(bodies) == [op |-> "union", of |-> bodies]

Built(e) == [ok |-> TRUE, expr |-> e]
DLBuildingError == [ok |-> FALSE]

-----------------------------------------------------------------------------
(* Premises. *)

\* The sign of a concept is sent as (not ...).
Signed(negated, c) == IF negated THEN NegatedConcept(c) ELSE c

Individuals(args, ns) == [k \in DOMAIN args |-> Individual(args[k], ns)]

\* InterToAssertion.  A negated role becomes an assertion about a concept.
ConceptAssertion(a, ns, i) == Instance(i[1], Signed(isStrongNegated(a.pred), Concept(a.pred, ns)))
RoleAssertion(negated, r, i) ==
  IF negated THEN Instance(i[1], NegatedConcept(SomeConcept(r, OneOf(<<i[2]>>))))
  ELSE Related(i[1], i[2], r)

ToAssertion(a, ns) ==
  IF Len(a.args) = 1 THEN ConceptAssertion(a, ns, Individuals(a.args, ns))
  ELSE RoleAssertion(isStrongNegated(a.pred), Role(a.pred, ns, FALSE), Individuals(a.args, ns))

\* Stands for an empty interpretation, because RACER cannot clone without it.
Foo == Concept(<<"foo">>, NoNamespace)
Bar == Individual(<<"bar">>, NoNamespace)

createPremise(proj, ns) ==
  IF proj = {} THEN {Instance(Bar, Foo)} ELSE {ToAssertion(a, ns) : a \in proj}

\* The same for (state ...): each assertion is one into the ABox of the KB manager.
IntoABox(abox, x) ==
  IF x.op = "instance" THEN AddConcept(abox, x.i, x.c) ELSE AddRole(abox, x.i1, x.i2, x.r)

createState(proj, ns, kbName) == {IntoABox(kbName, x) : x \in createPremise(proj, ns)}

-----------------------------------------------------------------------------
(* Bodies and heads. *)

\* Variables of inequalities: RACER binds each of them to an individual of its own.
injectiveVars(atoms) ==
  {t \in UNION {ToSet(a.args) : a \in {b \in atoms : b.pred = <<"!=">> /\ Len(b.args) = 2}} :
     isVariable(t)}

Object(t, injective, ns) ==
  IF isVariable(t) THEN Variable(t, t \in injective, FALSE) ELSE Individual(t, ns)

Objects(args, injective, ns) == [k \in DOMAIN args |-> Object(args[k], injective, ns)]

\* One atom of a body, o being its objects.
RoleAtom(negated, role) == IF negated THEN NegationQuery(role) ELSE role

AtomAbout(a, o, ns) ==
  IF Len(o) = 1 THEN ConceptQuery(Signed(isStrongNegated(a.pred), Concept(a.pred, ns)), o[1])
  ELSE IF a.pred = <<"==">> THEN SameAs(o[1], o[2])
  ELSE RoleAtom(isStrongNegated(a.pred), RoleQuery(Role(a.pred, ns, FALSE), o[1], o[2]))

BodyAtom(a, injective, ns) == AtomAbout(a, Objects(a.args, injective, ns), ns)

\* Inequalities are left out of the body.
BodyAtoms(atoms, injective, ns) ==
  {BodyAtom(a, injective, ns) :
     a \in {b \in atoms : ~(b.pred = <<"!=">> /\ Len(b.args) = 2)}}

ConjunctionBody(dlq) ==
  Built(Conjunction(BodyAtoms(dlq.cq, injectiveVars(dlq.cq), dlq.onto.ns)))

\* In unions no variable is injective.
DisjunctionBody(dlq) ==
  Built(UnionOf({Conjunction(BodyAtoms(dlq.ucq[i], {}, dlq.onto.ns)) : i \in DOMAIN dlq.ucq}))

\* Variant of createHead: injective variables are not looked for in the head.
CreateHeadNoninjective(dlq) ==
  Built(Objects(dlq.pattern, {}, dlq.onto.ns))

\* Anonymous variables are not among the patterns.
createHead(dlq) ==
  Built(Objects(dlq.pattern, injectiveVars(dlq.cq), dlq.onto.ns))

\* Datatype queries: which of the two objects are asked for.
SubstrateX == Variable(<<"X">>, TRUE, TRUE)
SubstrateY == Variable(<<"Y">>, FALSE, TRUE)

Compatible(dlq) == typeFlags(dlq.pattern) \in {{}, {1}} /\ Len(dlq.pattern) = 2

DatatypeHead(dlq) ==
  IF ~Compatible(dlq) THEN DLBuildingError
  ELSE Built(IF 1 \in typeFlags(dlq.pattern) THEN <<SubstrateY>> ELSE <<SubstrateX, SubstrateY>>)

DatatypeBody(dlq) ==
  LET role == {RoleQuery(Role(dlq.query, dlq.onto.ns, TRUE), SubstrateX, SubstrateY)}
      subject == IF 1 \notin typeFlags(dlq.pattern) THEN {}
                 ELSE {SameAs(Variable(<<"X">>, TRUE, FALSE), Individual(dlq.pattern[1], dlq.onto.ns))}
  IN  IF Compatible(dlq) THEN Built(Conjunction(role \cup subject)) ELSE DLBuildingError

\* (retrieve-under-premise (premise) (head) body :abox |realuri|)
RetrieveUnderPremise(head, body, dlq, proj) ==
  IF head.ok /\ body.ok
  THEN Built([cmd |-> "retrieve-under-premise", premise |-> createPremise(proj, dlq.onto.ns),
              head |-> head.expr, body |-> body.expr, abox |-> dlq.onto.realuri])
  ELSE DLBuildingError

=============================================================================
