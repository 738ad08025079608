---------------------------- MODULE MeaningProofs ----------------------------
(***************************************************************************)
(* Proofs about what the answers of Plugin say: the knowledge that RACER   *)
(* is asked of is what is written, and under a contradiction an answer     *)
(* covers the output list.                                                 *)
(***************************************************************************)
EXTENDS AnswerProofs

-----------------------------------------------------------------------------
(* What is said to RACER is what is written. *)

\* Without brackets a name is its own, and otherwise that of a namespace.
LEMMA NameForms ==
  ASSUME NEW t, isName(t)
  PROVE  /\ Unbracketed(t) # <<>> /\ Unsigned(t) = t /\ t \in Seq(ToSet(t)) /\ t # <<>> /\ ~isStrongNegated(t)
         /\ Unbracketed(t) = t \/ Head(Unbracketed(t)) \in Namespaces
<1>1. t \in Seq(ToSet(t)) /\ t # <<>> /\ Unsigned(t) = t /\ ~isStrongNegated(t)
  BY ONLY isName(t), NameIsClean
<1>2. Unbracketed(t) # <<>> /\ (Unbracketed(t) # t => Head(Unbracketed(t)) \in Namespaces)
  BY ONLY isName(t) DEF isName
<1> QED BY ONLY <1>1, <1>2

\* A name is sent as it is understood (RacerQueryExpr.cpp, URI.cpp).
LEMMA SentAsResolved ==
  ASSUME NEW t, isName(t), ~isVariable(t), NEW ns
  PROVE  Symbol(t, ns) = Resolve(t, ns)
<1>1. PICK b : b = Unbracketed(t)
  OBVIOUS
<1>2. b # <<>> /\ Unsigned(t) = t /\ t \in Seq(ToSet(t)) /\ (b = t \/ Head(b) \in Namespaces)
  BY ONLY <1>1, isName(t), NameForms
<1>3. isValid(t) <=> Head(b) \in Namespaces
  BY ONLY <1>1, <1>2 DEF isValid, HasScheme, getPlainURI
<1>4. getPlainURI(t) = b
  BY ONLY <1>1, <1>2 DEF getPlainURI
<1>5. CASE Head(b) \in Namespaces
  BY ONLY <1>1, <1>3, <1>4, <1>5 DEF Symbol, Resolve
<1>6. CASE Head(b) \notin Namespaces
  <2>1. b = t
    BY ONLY <1>2, <1>6
  <2>2. Resolve(t, ns) = ns \o t
    BY ONLY <1>1, <1>6, <2>1, ~isVariable(t) DEF Resolve
  <2>3. Symbol(t, ns) = IF ns = NoNamespace THEN t ELSE ns \o t
    BY ONLY <1>2, <1>3, <1>6 DEF Symbol
  <2>4. NoNamespace \o t = t
    BY ONLY <1>2, ConcatEmptySeq DEF NoNamespace
  <2> QED BY ONLY <2>2, <2>3, <2>4
<1> QED BY ONLY <1>5, <1>6

\* The sign before a name is found, and taken away.
LEMMA SignOfName ==
  ASSUME NEW t, t \in Seq(ToSet(t)), NEW s, s = <<"-">> \o t
  PROVE  isStrongNegated(s) /\ Unsigned(s) = t
<1>1. PICK T, c : c = "-" /\ T = ToSet(t) \cup {c}
  OBVIOUS
<1>2. t \in Seq(T) /\ c \in T
  BY ONLY <1>1, t \in Seq(ToSet(t))
<1>3. s = <<c>> \o t
  BY ONLY <1>1, s = <<"-">> \o t
<1>4. s # <<>> /\ Head(s) = c /\ Tail(s) = t
  BY ONLY <1>2, <1>3
<1> QED BY ONLY <1>1, <1>4 DEF isStrongNegated, Unsigned

\* With a namespace, a name behind a sign too.
LEMMA SignedAsResolved ==
  ASSUME NEW t, isName(t), ~isVariable(t), NEW ns, ns # NoNamespace, NEW s, s = <<"-">> \o t
  PROVE  Symbol(s, ns) = Resolve(t, ns)
<1>1. PICK b : b = Unbracketed(t)
  OBVIOUS
<1>2. b # <<>> /\ t \in Seq(ToSet(t)) /\ (b = t \/ Head(b) \in Namespaces)
  BY ONLY <1>1, isName(t), NameForms
<1>3. Unsigned(s) = t
  BY ONLY <1>2, s = <<"-">> \o t, SignOfName
<1>4. getPlainURI(s) = b /\ (isValid(s) <=> Head(b) \in Namespaces)
  BY ONLY <1>1, <1>2, <1>3 DEF isValid, HasScheme, getPlainURI
<1>5. CASE Head(b) \in Namespaces
  BY ONLY <1>1, <1>4, <1>5 DEF Symbol, Resolve
<1>6. CASE Head(b) \notin Namespaces
  <2>1. b = t
    BY ONLY <1>2, <1>6
  <2>2. Resolve(t, ns) = ns \o t
    BY ONLY <1>1, <1>6, <2>1, ~isVariable(t) DEF Resolve
  <2> QED BY ONLY <1>3, <1>4, <1>6, <2>2, ns # NoNamespace DEF Symbol
<1> QED BY ONLY <1>5, <1>6

\* The opposite of a fact has the other sign.
LEMMA OppositeIs ==
  /\ \A p, x : Opposite(Fact(FALSE, p, x)) = Fact(TRUE, p, x)
  /\ \A p, x : Opposite(Fact(TRUE, p, x)) = Fact(FALSE, p, x)
<1>1. ASSUME NEW p, NEW x, NEW n, NEW m, m = ~n
      PROVE  Opposite(Fact(n, p, x)) = Fact(m, p, x)
  <2>1. PICK f : f = Fact(n, p, x)
    OBVIOUS
  <2>2. f = [neg |-> n, name |-> p, args |-> x]
    BY ONLY <2>1 DEF Fact
  <2>3. f.neg = n
    BY ONLY <2>2
  <2>4. Opposite(f) = [f EXCEPT !.neg = m]
    BY ONLY <2>3, <1>1 DEF Opposite
  <2>5. [f EXCEPT !.neg = m] = [neg |-> m, name |-> p, args |-> x]
    BY ONLY <2>2
  <2> QED BY ONLY <2>1, <2>4, <2>5 DEF Fact
<1>3. TRUE = ~FALSE /\ FALSE = ~TRUE
  OBVIOUS
<1>4. \A p, x : Opposite(Fact(FALSE, p, x)) = Fact(TRUE, p, x)
  BY ONLY <1>1, <1>3
<1>5. \A p, x : Opposite(Fact(TRUE, p, x)) = Fact(FALSE, p, x)
  BY ONLY <1>1, <1>3
<1> QED BY ONLY <1>4, <1>5

\* The parts of a fact.
LEMMA FactParts ==
  ASSUME NEW n, NEW p, NEW x
  PROVE  Fact(n, p, x).neg = n /\ Fact(n, p, x).name = p /\ Fact(n, p, x).args = x
BY DEF Fact

\* An assertion about individuals, as RACER takes it.
SaidOf(a, ns) ==
  Fact(isStrongNegated(a.pred), Symbol(a.pred, ns), [k \in 1..Len(a.args) |-> Symbol(a.args[k], ns)])

LEMMA AssertionSays ==
  ASSUME NEW a, NEW ns, a.args \in Seq(ToSet(a.args)), Len(a.args) \in {1, 2}
  PROVE  AssertedBy(ToAssertion(a, ns)) = SaidOf(a, ns)
<1>1. PICK neg, p, i, sym : /\ neg = isStrongNegated(a.pred) /\ p = Symbol(a.pred, ns)
                            /\ i = Individuals(a.args, ns)
                            /\ sym = [k \in 1..Len(a.args) |-> Symbol(a.args[k], ns)]
  OBVIOUS
<1>2. neg \in BOOLEAN
  BY ONLY <1>1 DEF isStrongNegated
<1>3. DOMAIN a.args = 1..Len(a.args)
  BY ONLY a.args \in Seq(ToSet(a.args))
<1>4. \A k \in 1..Len(a.args) : i[k].name = sym[k]
  BY ONLY <1>1, <1>3 DEF Individuals, Individual, Expr
<1>5. \A x : Opposite(Fact(FALSE, p, x)) = Fact(TRUE, p, x)
  BY ONLY OppositeIs
<1>6. CASE Len(a.args) = 1
  <2>1. PICK c, x : c = Concept(a.pred, ns) /\ x = i[1]
    OBVIOUS
  <2>2. c.op = "concept" /\ c.name = p
    BY ONLY <1>1, <2>1 DEF Concept, Expr
  <2>3. sym = <<x.name>>
    <3>1. 1 \in 1..Len(a.args) /\ 1..Len(a.args) = {1}
      BY ONLY <1>6
    <3>2. x.name = sym[1]
      BY ONLY <1>4, <2>1, <3>1
    <3>3. sym = [k \in 1..1 |-> Symbol(a.args[k], ns)]
      BY ONLY <1>1, <1>6
    <3> QED BY ONLY <3>2, <3>3
  <2>4. ToAssertion(a, ns) = Instance(x, Signed(neg, c))
    BY ONLY <1>1, <1>6, <2>1 DEF ToAssertion, ConceptAssertion
  <2>5. AssertedBy(ToAssertion(a, ns)) = ConceptLiteral(Signed(neg, c), x.name)
    BY ONLY <2>4 DEF AssertedBy, Instance
  <2>6. UnsignedLiteral(c, x.name) = Fact(FALSE, p, sym)
    BY ONLY <2>2, <2>3 DEF UnsignedLiteral
  <2>7. ConceptLiteral(Signed(neg, c), x.name) = Fact(neg, p, sym)
    <3>1. CASE neg
      <4>1. Signed(neg, c).op = "not" /\ Signed(neg, c).of = c
        BY ONLY <3>1 DEF Signed, NegatedConcept
      <4>2. ConceptLiteral(Signed(neg, c), x.name) = Fact(TRUE, p, sym)
        BY ONLY <1>5, <2>6, <4>1 DEF ConceptLiteral
      <4>3. neg = TRUE
        BY ONLY <1>2, <3>1
      <4> QED BY ONLY <4>2, <4>3
    <3>2. CASE ~neg
      <4>1. Signed(neg, c) = c
        BY ONLY <3>2 DEF Signed
      <4>2. ConceptLiteral(Signed(neg, c), x.name) = Fact(FALSE, p, sym)
        BY ONLY <2>2, <2>6, <4>1 DEF ConceptLiteral
      <4>3. neg = FALSE
        BY ONLY <1>2, <3>2
      <4> QED BY ONLY <4>2, <4>3
    <3> QED BY ONLY <3>1, <3>2
  <2> QED BY ONLY <1>1, <2>5, <2>7 DEF SaidOf
<1>7. CASE Len(a.args) = 2
  <2>1. PICK r, x, y : r = Role(a.pred, ns, FALSE) /\ x = i[1] /\ y = i[2]
    OBVIOUS
  <2>2. r.name = p
    BY ONLY <1>1, <2>1 DEF Role
  <2>3. sym = <<x.name, y.name>>
    <3>1. 1 \in 1..Len(a.args) /\ 2 \in 1..Len(a.args)
      BY ONLY <1>7
    <3>2. x.name = sym[1] /\ y.name = sym[2]
      BY ONLY <1>4, <2>1, <3>1
    <3>3. sym = [k \in 1..2 |-> Symbol(a.args[k], ns)]
      BY ONLY <1>1, <1>7
    <3> QED BY ONLY <3>2, <3>3
  <2>4. ToAssertion(a, ns) = RoleAssertion(neg, r, i)
    BY ONLY <1>1, <1>7, <2>1 DEF ToAssertion
  <2>5. CASE neg
    <3>1. PICK c : c = SomeConcept(r, OneOf(<<y>>))
      OBVIOUS
    <3>2. c.op # "concept" /\ c.role = r /\ c.of.list[1] = y
      BY ONLY <3>1 DEF SomeConcept, OneOf
    <3>3. ToAssertion(a, ns) = Instance(x, NegatedConcept(c))
      BY ONLY <2>1, <2>4, <2>5, <3>1 DEF RoleAssertion
    <3>4. AssertedBy(ToAssertion(a, ns)) = ConceptLiteral(NegatedConcept(c), x.name)
      BY ONLY <3>3 DEF AssertedBy, Instance
    <3>5. UnsignedLiteral(c, x.name) = Fact(FALSE, p, sym)
      BY ONLY <2>2, <2>3, <3>2 DEF UnsignedLiteral
    <3>6. ConceptLiteral(NegatedConcept(c), x.name) = Fact(TRUE, p, sym)
      BY ONLY <1>5, <3>5 DEF ConceptLiteral, NegatedConcept
    <3>7. neg = TRUE
      BY ONLY <1>2, <2>5
    <3> QED BY ONLY <1>1, <3>4, <3>6, <3>7 DEF SaidOf
  <2>6. CASE ~neg
    <3>1. ToAssertion(a, ns) = Related(x, y, r)
      BY ONLY <2>1, <2>4, <2>6 DEF RoleAssertion
    <3>2. AssertedBy(ToAssertion(a, ns)) = Fact(FALSE, p, sym)
      <4>1. PICK e : e = Related(x, y, r)
        OBVIOUS
      <4>2. e.op \notin {"instance", "add-concept"} /\ e.r = r /\ e.i1 = x /\ e.i2 = y
        BY ONLY <4>1 DEF Related
      <4>3. AssertedBy(e) = Fact(FALSE, e.r.name, <<e.i1.name, e.i2.name>>)
        BY ONLY <4>2 DEF AssertedBy
      <4> QED BY ONLY <2>2, <2>3, <3>1, <4>1, <4>2, <4>3
    <3>3. neg = FALSE
      BY ONLY <1>2, <2>6
    <3> QED BY ONLY <1>1, <3>2, <3>3 DEF SaidOf
  <2> QED BY ONLY <2>5, <2>6
<1> QED BY ONLY <1>6, <1>7, Len(a.args) \in {1, 2}

\* The input predicates that an atom is taken for, with the arity of concepts or of roles.
PlacesOf(w, b) == {k \in 1..4 : b.pred = w.preds[k] /\ Len(b.args) = IF k <= 2 THEN 2 ELSE 3}

\* The atom that is projected, and the fact that is stated.
ProjectedAtom(w, b) ==
  [pred |-> (IF 2 \in PlacesOf(w, b) \/ 4 \in PlacesOf(w, b) THEN <<"-">> ELSE <<>>) \o b.args[1],
   args |-> Tail(b.args)]
StatedFact(w, b, ns) ==
  Fact(PlacesOf(w, b) \subseteq {2, 4}, Resolve(b.args[1], ns),
       [k \in 1..Len(b.args) - 1 |-> Resolve(b.args[k + 1], ns)])
TakenFrom(w, inter) == {b \in inter : PlacesOf(w, b) # {}}

LEMMA StatedFrom ==
  ASSUME NEW w, NEW inter, NEW ns
  PROVE  Stated(w, inter, ns) = {StatedFact(w, b, ns) : b \in TakenFrom(w, inter)}
BY DEF Stated, StatedFact, TakenFrom, PlacesOf

\* Where an atom is taken.
LEMMA PlacesAre ==
  ASSUME NEW w, NEW b, NEW n, n = Len(b.args), n \in Nat
  PROVE  /\ 1 \in PlacesOf(w, b) <=> b.pred = w.preds[1] /\ n = 2
         /\ 2 \in PlacesOf(w, b) <=> b.pred = w.preds[2] /\ n = 2
         /\ 3 \in PlacesOf(w, b) <=> b.pred = w.preds[3] /\ n = 3
         /\ 4 \in PlacesOf(w, b) <=> b.pred = w.preds[4] /\ n = 3
         /\ PlacesOf(w, b) \subseteq {1, 2, 3, 4}
         /\ PlacesOf(w, b) # {} => n \in {2, 3}
<1>1. \A k : k \in 1..4 <=> k \in {1, 2, 3, 4}
  OBVIOUS
<1>2. \A k : k \in PlacesOf(w, b) <=> k \in {1, 2, 3, 4} /\ b.pred = w.preds[k] /\ n = IF k <= 2 THEN 2 ELSE 3
  BY ONLY <1>1, n = Len(b.args) DEF PlacesOf
<1>3. PICK P : P = PlacesOf(w, b)
  OBVIOUS
<1>4. PICK p, ps : p = b.pred /\ ps = w.preds
  OBVIOUS
<1>5. \A k : k \in P <=> k \in {1, 2, 3, 4} /\ p = ps[k] /\ n = IF k <= 2 THEN 2 ELSE 3
  BY ONLY <1>2, <1>3, <1>4
<1>6. /\ 1 \in P <=> p = ps[1] /\ n = 2
      /\ 2 \in P <=> p = ps[2] /\ n = 2
      /\ 3 \in P <=> p = ps[3] /\ n = 3
      /\ 4 \in P <=> p = ps[4] /\ n = 3
  BY ONLY <1>5
<1>7. P \subseteq {1, 2, 3, 4} /\ (P # {} => n \in {2, 3})
  BY ONLY <1>5
<1> QED BY ONLY <1>3, <1>4, <1>6, <1>7

\* The projection takes these atoms, and gives those of the minus predicates a sign.
LEMMA ProjectedFrom ==
  ASSUME NEW w, NEW inter, \A b \in inter : b.args \in Seq(ToSet(b.args))
  PROVE  ProjOf(w, inter) = {ProjectedAtom(w, b) : b \in TakenFrom(w, inter)}
<1>1. PICK pc, mc, pr, mr : pc = w.preds[1] /\ mc = w.preds[2] /\ pr = w.preds[3] /\ mr = w.preds[4]
  OBVIOUS
<1> DEFINE arity(a) == Len(a.args) - 1
           isPC(a) == a.pred = pc /\ arity(a) = 1
           isMC(a) == a.pred = mc /\ arity(a) = 1
           isPR(a) == a.pred = pr /\ arity(a) = 2
           isMR(a) == a.pred = mr /\ arity(a) = 2
           sign(a) == IF isMC(a) \/ isMR(a) THEN <<"-">> ELSE <<>>
           taken(a) == isPC(a) \/ isMC(a) \/ isPR(a) \/ isMR(a)
           one(a) == [pred |-> sign(a) \o a.args[1], args |-> Tail(a.args)]
<1>2. ProjOf(w, inter) = {one(a) : a \in {b \in inter : taken(b)}}
  BY ONLY <1>1 DEF ProjOf, setInterpretation
<1>3. ASSUME NEW b \in inter PROVE (taken(b) <=> b \in TakenFrom(w, inter)) /\ one(b) = ProjectedAtom(w, b)
  <2>1. PICK n : n = Len(b.args)
    OBVIOUS
  <2>2. n \in Nat
    <3>1. b.args \in Seq(ToSet(b.args))
      BY ONLY b \in inter, \A c \in inter : c.args \in Seq(ToSet(c.args))
    <3> QED BY ONLY <2>1, <3>1, LenIsNat
  <2>3. /\ 1 \in PlacesOf(w, b) <=> b.pred = w.preds[1] /\ n = 2
        /\ 2 \in PlacesOf(w, b) <=> b.pred = w.preds[2] /\ n = 2
        /\ 3 \in PlacesOf(w, b) <=> b.pred = w.preds[3] /\ n = 3
        /\ 4 \in PlacesOf(w, b) <=> b.pred = w.preds[4] /\ n = 3
        /\ PlacesOf(w, b) \subseteq {1, 2, 3, 4}
    BY ONLY <2>1, <2>2, PlacesAre
  <2>4. (n - 1 = 1 <=> n = 2) /\ (n - 1 = 2 <=> n = 3)
    BY ONLY <2>2
  <2>5. /\ 1 \in PlacesOf(w, b) <=> isPC(b)
        /\ 2 \in PlacesOf(w, b) <=> isMC(b)
        /\ 3 \in PlacesOf(w, b) <=> isPR(b)
        /\ 4 \in PlacesOf(w, b) <=> isMR(b)
    BY ONLY <1>1, <2>1, <2>3, <2>4
  <2>6. taken(b) <=> PlacesOf(w, b) # {}
    <3> HIDE DEF isPC, isMC, isPR, isMR
    <3> QED BY ONLY <2>3, <2>5
  <2>7. one(b) = ProjectedAtom(w, b)
    <3> HIDE DEF isPC, isMC, isPR, isMR
    <3> QED BY ONLY <2>5 DEF ProjectedAtom
  <2> QED BY ONLY <2>6, <2>7, b \in inter DEF TakenFrom
<1>4. PICK S : S = TakenFrom(w, inter)
  OBVIOUS
<1>5. {b \in inter : taken(b)} = S
  BY ONLY <1>3, <1>4 DEF TakenFrom
<1> HIDE DEF one, taken
<1>6. \A b \in S : one(b) = ProjectedAtom(w, b)
  BY ONLY <1>3, <1>4 DEF TakenFrom
<1> QED BY ONLY <1>2, <1>4, <1>5, <1>6

\* No atom is taken for two predicates.
LEMMA OnePlace ==
  ASSUME NEW w \in Queries, IsInjective(w.preds), NEW b, b.args \in Seq(ToSet(b.args)), PlacesOf(w, b) # {}
  PROVE  /\ PlacesOf(w, b) \subseteq {2, 4} <=> (2 \in PlacesOf(w, b) \/ 4 \in PlacesOf(w, b))
         /\ Len(b.args) \in {2, 3}
<1>1. PICK n, P, p, ps : n = Len(b.args) /\ P = PlacesOf(w, b) /\ p = b.pred /\ ps = w.preds
  OBVIOUS
<1>2. n \in Nat
  BY ONLY <1>1, b.args \in Seq(ToSet(b.args)), LenIsNat
<1>3. /\ 1 \in P <=> p = ps[1] /\ n = 2
      /\ 2 \in P <=> p = ps[2] /\ n = 2
      /\ 3 \in P <=> p = ps[3] /\ n = 3
      /\ 4 \in P <=> p = ps[4] /\ n = 3
      /\ P \subseteq {1, 2, 3, 4}
      /\ P # {} => n \in {2, 3}
  BY ONLY <1>1, <1>2, PlacesAre
<1>4. P # {}
  BY ONLY <1>1, PlacesOf(w, b) # {}
<1>5. ps[1] # ps[2] /\ ps[3] # ps[4]
  <2>1. ps \in Seq(ToSet(ps)) /\ Len(ps) = 4
    BY <1>1, WrittenQueries
  <2>2. DOMAIN ps = 1..4
    BY ONLY <2>1
  <2>3. IsInjective(ps)
    BY ONLY <1>1, IsInjective(w.preds)
  <2>4. 1 \in 1..4 /\ 2 \in 1..4 /\ 3 \in 1..4 /\ 4 \in 1..4 /\ 1 # 2 /\ 3 # 4
    OBVIOUS
  <2> QED BY ONLY <2>2, <2>3, <2>4 DEF IsInjective
<1>6. P \subseteq {2, 4} <=> (2 \in P \/ 4 \in P)
  <2>1. ASSUME 2 \in P PROVE P \subseteq {2, 4}
    BY ONLY <1>3, <1>5, <2>1
  <2>2. ASSUME 4 \in P PROVE P \subseteq {2, 4}
    BY ONLY <1>3, <1>5, <2>2
  <2>3. ASSUME P \subseteq {2, 4} PROVE 2 \in P \/ 4 \in P
    BY ONLY <1>4, <2>3
  <2> QED BY ONLY <2>1, <2>2, <2>3
<1> QED BY ONLY <1>1, <1>3, <1>4, <1>6

\* The arguments behind a name.
LEMMA TailParts ==
  ASSUME NEW x, x \in Seq(ToSet(x)), Len(x) \in {2, 3}, NEW y, y = Tail(x)
  PROVE  /\ y \in Seq(ToSet(y)) /\ Len(y) = Len(x) - 1 /\ Len(y) \in {1, 2}
         /\ \A k \in 1..Len(y) : y[k] = x[k + 1] /\ k + 1 \in DOMAIN x
         /\ x # <<>> /\ 1 \in DOMAIN x
<1>1. PICK T : T = ToSet(x)
  OBVIOUS
<1>2. x \in Seq(T) /\ x # <<>>
  BY ONLY <1>1, x \in Seq(ToSet(x)), Len(x) \in {2, 3}
<1>3. y \in Seq(T) /\ Len(y) = Len(x) - 1 /\ \A k \in 1..Len(y) : y[k] = x[k + 1]
  BY ONLY <1>2, y = Tail(x)
<1>4. DOMAIN x = 1..Len(x)
  BY ONLY <1>2
<1>5. PICK n, m : n = Len(x) /\ m = Len(y) /\ m = n - 1 /\ n \in {2, 3}
  BY ONLY <1>3, Len(x) \in {2, 3}
<1>6. m \in {1, 2} /\ 1 \in 1..n /\ \A k \in 1..m : k + 1 \in 1..n
  BY ONLY <1>5
<1>7. y \in Seq(ToSet(y))
  BY ONLY <1>3, OverItsElements
<1> QED BY ONLY <1>2, <1>3, <1>4, <1>5, <1>6, <1>7

\* What is taken of an atom of an interpretation.
GroundAtom(b) ==
  /\ b.args \in Seq(ToSet(b.args)) /\ b.args # <<>>
  /\ \A k \in DOMAIN b.args : isName(b.args[k]) /\ ~isVariable(b.args[k])

LEMMA GroundAtoms ==
  ASSUME NEW w \in Queries, NEW inter \in Interpretations[w]
  PROVE  IsFiniteSet(inter) /\ \A b \in inter : GroundAtom(b)
BY GroundInterpretations DEF GroundAtom

\* What is said of a projected atom is what the atom states, if its sign is kept.
LEMMA SaidIsStated ==
  ASSUME NEW w \in Queries, IsInjective(w.preds), NEW b, GroundAtom(b), PlacesOf(w, b) # {},
         NEW ns, ns = NoNamespace => ~(PlacesOf(w, b) \subseteq {2, 4}),
         NEW a, a = ProjectedAtom(w, b)
  PROVE  /\ SaidOf(a, ns) = StatedFact(w, b, ns)
         /\ a.args \in Seq(ToSet(a.args)) /\ Len(a.args) \in {1, 2}
<1>1. PICK x, y, t, n : x = b.args /\ y = Tail(x) /\ t = x[1] /\ n = Len(x)
  OBVIOUS
<1>2. x \in Seq(ToSet(x)) /\ \A k \in DOMAIN x : isName(x[k]) /\ ~isVariable(x[k])
  BY ONLY <1>1, GroundAtom(b) DEF GroundAtom
<1>3. PICK neg : neg = (2 \in PlacesOf(w, b) \/ 4 \in PlacesOf(w, b))
  OBVIOUS
<1>4. n \in {2, 3} /\ (PlacesOf(w, b) \subseteq {2, 4} <=> neg)
  <2>1. b.args \in Seq(ToSet(b.args))
    BY ONLY <1>1, <1>2
  <2> QED BY ONLY <1>1, <1>3, <2>1, OnePlace, w \in Queries, IsInjective(w.preds), PlacesOf(w, b) # {}
<1>5. /\ y \in Seq(ToSet(y)) /\ Len(y) = Len(x) - 1 /\ Len(y) \in {1, 2}
      /\ \A k \in 1..Len(y) : y[k] = x[k + 1] /\ k + 1 \in DOMAIN x
      /\ x # <<>> /\ 1 \in DOMAIN x
  <2>1. x \in Seq(ToSet(x)) /\ Len(x) \in {2, 3} /\ y = Tail(x)
    BY ONLY <1>1, <1>2, <1>4
  <2> QED BY ONLY <2>1, TailParts
<1>6. isName(t) /\ ~isVariable(t)
  BY ONLY <1>1, <1>2, <1>5
<1>7. a.args = y /\ a.pred = (IF neg THEN <<"-">> ELSE <<>>) \o t
  BY ONLY <1>1, <1>3, a = ProjectedAtom(w, b) DEF ProjectedAtom
<1>8. [k \in 1..Len(a.args) |-> Symbol(a.args[k], ns)] = [k \in 1..n - 1 |-> Resolve(x[k + 1], ns)]
  <2>1. \A k \in 1..Len(y) : Symbol(y[k], ns) = Resolve(x[k + 1], ns)
    <3>1. ASSUME NEW k \in 1..Len(y) PROVE Symbol(y[k], ns) = Resolve(x[k + 1], ns)
      <4>1. y[k] = x[k + 1] /\ k + 1 \in DOMAIN x
        BY ONLY <1>5, k \in 1..Len(y)
      <4>2. isName(y[k]) /\ ~isVariable(y[k])
        BY ONLY <1>2, <4>1
      <4>3. Symbol(y[k], ns) = Resolve(y[k], ns)
        BY ONLY <4>2, SentAsResolved
      <4> QED BY ONLY <4>1, <4>3
    <3> QED BY ONLY <3>1
  <2>2. Len(y) = n - 1
    BY ONLY <1>1, <1>5
  <2> QED BY ONLY <1>7, <2>1, <2>2
<1>9. t \in Seq(ToSet(t)) /\ ~isStrongNegated(t)
  BY ONLY <1>6, NameForms
<1>10. CASE neg
  <2>1. a.pred = <<"-">> \o t
    BY ONLY <1>7, <1>10
  <2>2. isStrongNegated(a.pred)
    BY ONLY <1>9, <2>1, SignOfName
  <2>3. ns # NoNamespace
    BY ONLY <1>4, <1>10, ns = NoNamespace => ~(PlacesOf(w, b) \subseteq {2, 4})
  <2>4. Symbol(a.pred, ns) = Resolve(t, ns)
    BY ONLY <1>6, <2>1, <2>3, SignedAsResolved
  <2>5. isStrongNegated(a.pred) = (PlacesOf(w, b) \subseteq {2, 4})
    BY ONLY <1>4, <1>10, <2>2 DEF isStrongNegated
  <2>6. SaidOf(a, ns) = StatedFact(w, b, ns)
    BY ONLY <1>1, <1>8, <2>4, <2>5 DEF SaidOf, StatedFact
  <2> QED BY ONLY <1>5, <1>7, <2>6
<1>11. CASE ~neg
  <2>1. a.pred = t
    BY ONLY <1>7, <1>9, <1>11, ConcatEmptySeq
  <2>2. ~isStrongNegated(a.pred)
    BY ONLY <1>9, <2>1
  <2>4. Symbol(a.pred, ns) = Resolve(t, ns)
    BY ONLY <1>6, <2>1, SentAsResolved
  <2>5. isStrongNegated(a.pred) = (PlacesOf(w, b) \subseteq {2, 4})
    BY ONLY <1>4, <1>11, <2>2 DEF isStrongNegated
  <2>6. SaidOf(a, ns) = StatedFact(w, b, ns)
    BY ONLY <1>1, <1>8, <2>4, <2>5 DEF SaidOf, StatedFact
  <2> QED BY ONLY <1>5, <1>7, <2>6
<1> QED BY ONLY <1>10, <1>11

\* What an interpretation states is asserted, and with a larger one too.
LEMMA StatedIsAsserted ==
  ASSUME NEW w \in Queries, NEW inter \in Interpretations[w], IsInjective(w.preds), NEW ns,
         ns = NoNamespace => \A l \in Stated(w, inter, ns) : ~l.neg,
         NEW proj, ProjOf(w, inter) \subseteq proj
  PROVE  Stated(w, inter, ns) \subseteq Asserted(proj, ns)
<1>1. PICK S : S = TakenFrom(w, inter)
  OBVIOUS
<1>2. \A b \in inter : GroundAtom(b)
  BY ONLY GroundAtoms, w \in Queries, inter \in Interpretations[w]
<1>3. ProjOf(w, inter) = {ProjectedAtom(w, b) : b \in S}
  <2>1. \A b \in inter : b.args \in Seq(ToSet(b.args))
    BY ONLY <1>2 DEF GroundAtom
  <2> QED BY ONLY <1>1, <2>1, ProjectedFrom
<1>4. Stated(w, inter, ns) = {StatedFact(w, b, ns) : b \in S}
  BY ONLY <1>1, StatedFrom
<1>5. ASSUME NEW b \in S PROVE StatedFact(w, b, ns) \in Asserted(proj, ns)
  <2>1. GroundAtom(b) /\ PlacesOf(w, b) # {}
    BY ONLY <1>1, <1>2, b \in S DEF TakenFrom
  <2>2. PICK a, x : a = ProjectedAtom(w, b) /\ x = ToAssertion(a, ns)
    OBVIOUS
  <2>3. ns = NoNamespace => ~(PlacesOf(w, b) \subseteq {2, 4})
    <3> SUFFICES ASSUME ns = NoNamespace PROVE ~(PlacesOf(w, b) \subseteq {2, 4})
      OBVIOUS
    <3>1. PICK l : l = StatedFact(w, b, ns)
      OBVIOUS
    <3>2. ~l.neg
      BY ONLY <1>4, <3>1, ns = NoNamespace, ns = NoNamespace => \A k \in Stated(w, inter, ns) : ~k.neg, b \in S
    <3>3. l.neg = (PlacesOf(w, b) \subseteq {2, 4})
      BY ONLY <3>1, FactParts DEF StatedFact
    <3> QED BY ONLY <3>2, <3>3
  <2>4. SaidOf(a, ns) = StatedFact(w, b, ns) /\ a.args \in Seq(ToSet(a.args)) /\ Len(a.args) \in {1, 2}
    BY ONLY <2>1, <2>2, <2>3, SaidIsStated, w \in Queries, IsInjective(w.preds)
  <2>5. AssertedBy(x) = SaidOf(a, ns)
    BY ONLY <2>2, <2>4, AssertionSays
  <2>6. a \in proj
    BY ONLY <1>3, <2>2, ProjOf(w, inter) \subseteq proj, b \in S
  <2>7. x \in createPremise(proj, ns)
    BY ONLY <2>2, <2>6 DEF createPremise
  <2> QED BY ONLY <2>4, <2>5, <2>7 DEF Asserted
<1> QED BY ONLY <1>4, <1>5

\* A literal with its parts.
IsFact(l) == l = Fact(l.neg, l.name, l.args) /\ l.neg \in BOOLEAN

LEMMA FactsAre ==
  ASSUME NEW n \in BOOLEAN, NEW p, NEW x
  PROVE  IsFact(Fact(n, p, x))
BY DEF IsFact, Fact

\* The opposite of a literal differs from it in the sign.
LEMMA OppositeParts ==
  ASSUME NEW l, IsFact(l), NEW o, o = Opposite(l)
  PROVE  (o.neg <=> ~l.neg) /\ o.name = l.name
<1>1. PICK n, p, x : n = l.neg /\ p = l.name /\ x = l.args
  OBVIOUS
<1>2. n \in BOOLEAN /\ l = Fact(n, p, x)
  BY ONLY <1>1, IsFact(l) DEF IsFact
<1>3. CASE n
  <2>1. o = Fact(FALSE, p, x)
    <3>1. n = TRUE
      BY ONLY <1>2, <1>3
    <3> QED BY ONLY <1>2, <3>1, o = Opposite(l), OppositeIs
  <2>2. o = [neg |-> FALSE, name |-> p, args |-> x]
    BY ONLY <2>1 DEF Fact
  <2>3. ~o.neg
    BY ONLY <2>2
  <2>4. o.name = p
    BY ONLY <2>2
  <2> QED BY ONLY <1>1, <1>3, <2>3, <2>4
<1>4. CASE ~n
  <2>1. o = Fact(TRUE, p, x)
    <3>1. n = FALSE
      BY ONLY <1>2, <1>4
    <3> QED BY ONLY <1>2, <3>1, o = Opposite(l), OppositeIs
  <2>2. o = [neg |-> TRUE, name |-> p, args |-> x]
    BY ONLY <2>1 DEF Fact
  <2>3. o.neg
    BY ONLY <2>2
  <2>4. o.name = p
    BY ONLY <2>2
  <2> QED BY ONLY <1>1, <1>4, <2>3, <2>4
<1> QED BY ONLY <1>3, <1>4

\* What is known is literals.
LEMMA KnowledgeIsFacts ==
  ASSUME NEW w, NEW inter, setupURI(w.onto) \in DOMAIN Documents
  PROVE  \A l \in Knowledge(w, inter) : IsFact(l)
<1>1. PICK doc, u, ns : doc = DocumentOf(w) /\ u = setupURI(w.onto) /\ ns = NamespaceOf(w)
  OBVIOUS
<1>2. doc = Documents[u] /\ u \in DOMAIN Documents
  BY ONLY <1>1, setupURI(w.onto) \in DOMAIN Documents DEF DocumentOf
<1>3. \A l \in doc.more : l.neg \in BOOLEAN /\ l = Fact(l.neg, l.name, l.args)
  BY ONLY <1>2, DocumentsAreFinite
<1>4. \A l \in doc.more : IsFact(l)
  BY ONLY <1>3 DEF IsFact
<1>5. \A l \in Literals(doc) : l \in doc.more \/ \E p, x : l = Fact(FALSE, p, x)
  BY ONLY DEF Literals
<1>8. \A l \in Literals(doc) : IsFact(l)
  BY ONLY <1>4, <1>5, FactsAre
<1>9. \A l \in Stated(w, inter, ns) : IsFact(l)
  <2>1. ASSUME NEW l \in Stated(w, inter, ns) PROVE IsFact(l)
    <3>1. PICK b : l = StatedFact(w, b, ns)
      BY ONLY StatedFrom, l \in Stated(w, inter, ns)
    <3>2. PICK n, p, x : /\ n = (PlacesOf(w, b) \subseteq {2, 4}) /\ p = Resolve(b.args[1], ns)
                         /\ x = [k \in 1..Len(b.args) - 1 |-> Resolve(b.args[k + 1], ns)]
      OBVIOUS
    <3>3. n \in BOOLEAN
      BY ONLY <3>2
    <3>4. l = Fact(n, p, x)
      BY ONLY <3>1, <3>2 DEF StatedFact
    <3> QED BY ONLY <3>3, <3>4, FactsAre
  <2> QED BY ONLY <2>1
<1> QED BY ONLY <1>1, <1>8, <1>9 DEF Knowledge

\* A contradiction is one of facts about individuals, and RACER is told both sides of it,
\* with data substrate mirroring or without.
LEMMA ContradictionIsSent ==
  ASSUME NEW w \in Queries, NEW inter \in Interpretations[w], Understood(w, inter), ~Coherent(w, inter),
         NEW u, u = setupURI(w.onto), u \in DOMAIN Documents, NEW ns, ns = NamespaceOf(w),
         NEW proj, ProjOf(w, inter) \subseteq proj, NEW m
  PROVE  Contradictory(Loaded(u, m) \cup Asserted(proj, ns))
<1>1. PICK kb, S : kb = Knowledge(w, inter) /\ S = Stated(w, inter, ns)
  OBVIOUS
<1>2. PICK l \in kb : Opposite(l) \in kb
  BY ONLY <1>1, ~Coherent(w, inter) DEF Coherent, Contradictory
<1>3. PICK o : o = Opposite(l)
  OBVIOUS
<1>4. IsFact(l)
  BY ONLY <1>1, <1>2, KnowledgeIsFacts, u = setupURI(w.onto), u \in DOMAIN Documents
<1>5. (o.neg <=> ~l.neg) /\ o.name = l.name
  BY ONLY <1>3, <1>4, OppositeParts
<1>6. \A x \in kb : isDatatypeFact(x) => ~x.neg
  BY ONLY <1>1, Understood(w, inter) DEF Understood, InVocabulary
<1>7. ~isDatatypeFact(l) /\ ~isDatatypeFact(o)
  BY ONLY <1>2, <1>3, <1>5, <1>6 DEF isDatatypeFact
<1>8. S \subseteq Asserted(proj, ns)
  <2>1. IsInjective(w.preds) /\ SignsKept(w, inter)
    BY ONLY Understood(w, inter) DEF Understood
  <2>2. ns = NoNamespace => \A x \in Stated(w, inter, ns) : ~x.neg
    BY ONLY <2>1, ns = NamespaceOf(w) DEF SignsKept
  <2> QED BY ONLY <1>1, <2>1, <2>2, StatedIsAsserted, w \in Queries, inter \in Interpretations[w],
                  ProjOf(w, inter) \subseteq proj
<1>9. PICK L : L = Literals(Documents[u])
  OBVIOUS
<1>10. kb = L \cup S
  BY ONLY <1>1, <1>9, u = setupURI(w.onto), ns = NamespaceOf(w) DEF Knowledge, DocumentOf
<1>11. \A x \in L : ~isDatatypeFact(x) => x \in Loaded(u, m)
  BY ONLY <1>9 DEF Loaded, Said
<1>12. PICK all : all = Loaded(u, m) \cup Asserted(proj, ns)
  OBVIOUS
<1>13. l \in all /\ o \in all
  BY ONLY <1>2, <1>3, <1>7, <1>8, <1>10, <1>11, <1>12
<1> QED BY ONLY <1>3, <1>12, <1>13 DEF Contradictory

-----------------------------------------------------------------------------
(* The trivial answers under a contradictory interpretation. *)

Mentioned(proj) == UNION {ToSet(a.args) : a \in proj}

\* An ABox that was parsed keeps the individuals of its document.
UniverseInv == \A u \in DOMAIN universe : u \in DOMAIN Documents /\ parseABox(Documents[u]) \subseteq universe[u]

\* The individuals that a query is filled with are those of its document and its interpretation.
LEMMA IndividualsOfQuery ==
  ASSUME BasesInv, UniverseInv, asking # NoQuery, NEW u, u = asking.dlq.onto.realuri
  PROVE  u \in DOMAIN Documents /\ parseABox(Documents[u]) \cup Mentioned(asking.proj) \subseteq AllIndividuals(u)
<1>1. PICK v : v \in DOMAIN ontomap /\ asking.dlq.onto = ontomap[v]
  BY ONLY BasesInv, asking # NoQuery DEF BasesInv, StemsInv
<1>2. CanBeRead(ontomap[v], files) /\ ontomap[v].realuri = v /\ v \in DOMAIN Documents
  BY ONLY <1>1, BasesInv, RegisteredCanBeRead DEF BasesInv
<1>3. u = v /\ Read(asking.dlq.onto.uri, files) = Documents[u]
  BY ONLY <1>1, <1>2, u = asking.dlq.onto.realuri DEF CanBeRead
<1>4. parseABox(Documents[u]) \subseteq
        (IF u \in DOMAIN universe THEN universe[u] ELSE parseABox(Read(asking.dlq.onto.uri, files)))
  BY ONLY <1>3, UniverseInv DEF UniverseInv
<1> QED BY ONLY <1>2, <1>3, <1>4 DEF AllIndividuals, Mentioned

\* Only an inconsistency changes what was parsed, and the end.
LEMMA UniverseChanges ==
  ASSUME [Next]_vars
  PROVE  \/ universe' = universe \/ universe' = NoABoxes
         \/ asking # NoQuery /\ universe' = Put(universe, asking.dlq.onto.realuri, AllIndividuals(asking.dlq.onto.realuri))
<1>1. CASE Exit
  BY <1>1 DEF Exit
<1>2. CASE BuilderThrows \/ Garbled
  BY <1>2 DEF BuilderThrows, Garbled
<1>3. CASE Send
  <2>1. asking # NoQuery
    BY ONLY <1>3 DEF Send, Turn
  <2>2. PICK read : Goes(read) \/ Refused(read) \/ HandleInconsistency(read)
    BY ONLY <1>3 DEF Send, Sends
  <2>3. CASE Goes(read) \/ Refused(read)
    BY ONLY <2>3 DEF Goes, Refused
  <2>4. CASE HandleInconsistency(read)
    BY ONLY <2>1, <2>4 DEF HandleInconsistency
  <2> QED BY <2>2, <2>3, <2>4
<1>4. CASE Ask
  BY <1>4 DEF Ask, Reject, Abort, CacheHit, Begin, Asks
<1>5. CASE SetKBReload \/ SetDLSetup \/ SetDLOpt \/ SetDLDebug
  BY <1>5 DEF SetKBReload, SetDLSetup, SetDLOpt, SetDLDebug, Erase, ontologies
<1>6. CASE Help \/ SetOntology \/ SetDefaults \/ KeepArgument \/ OptionsSet
  BY <1>6 DEF Help, SetOntology, SetDefaults, KeepArgument, OptionsSet, ontologies
<1>7. CASE UNCHANGED vars
  BY <1>7 DEF vars, ontologies
<1> QED BY <1>1, <1>2, <1>3, <1>4, <1>5, <1>6, <1>7 DEF Next

\* The ABoxes keep their individuals.
LEMMA UniverseStep ==
  ASSUME BasesInv, UniverseInv, [Next]_vars
  PROVE  UniverseInv'
<1>1. CASE universe' = universe
  BY ONLY <1>1, UniverseInv DEF UniverseInv
<1>2. CASE universe' = NoABoxes
  BY ONLY <1>2 DEF UniverseInv, NoABoxes
<1>3. CASE asking # NoQuery /\ universe' = Put(universe, asking.dlq.onto.realuri, AllIndividuals(asking.dlq.onto.realuri))
  <2>1. PICK u, A, m : u = asking.dlq.onto.realuri /\ A = AllIndividuals(u) /\ m = universe
    OBVIOUS
  <2>2. u \in DOMAIN Documents /\ parseABox(Documents[u]) \subseteq A
    BY ONLY <1>3, <2>1, BasesInv, UniverseInv, IndividualsOfQuery
  <2>3. universe' = [k \in DOMAIN m \cup {u} |-> IF k = u THEN A ELSE m[k]]
    BY ONLY <1>3, <2>1 DEF Put
  <2>4. \A k \in DOMAIN m : k \in DOMAIN Documents /\ parseABox(Documents[k]) \subseteq m[k]
    BY ONLY <2>1, UniverseInv DEF UniverseInv
  <2> QED BY ONLY <2>2, <2>3, <2>4 DEF UniverseInv
<1> QED BY ONLY <1>1, <1>2, <1>3, [Next]_vars, UniverseChanges

-----------------------------------------------------------------------------

\* An output list as the cache has it: no variable is told from another.
Hidden(pattern) == [k \in DOMAIN pattern |-> IF isVariable(pattern[k]) THEN <<>> ELSE pattern[k]]
NoTermIsEmpty(pattern) == \A k \in DOMAIN pattern : pattern[k] # <<>>

Fillings(shown, individuals) ==
  {t \in [DOMAIN shown -> individuals \cup ToSet(shown)] :
     \A k \in DOMAIN shown : IF shown[k] = <<>> THEN t[k] \in individuals ELSE t[k] = shown[k]}

\* What covers an output list over some individuals.
Covers(shown, individuals, value, tuples) ==
  IF \A k \in DOMAIN shown : shown[k] # <<>> THEN value = "T" ELSE Fillings(shown, individuals) \subseteq tuples

\* Which places of an output list are hidden.
LEMMA HiddenPlaces ==
  ASSUME NEW pattern, NoTermIsEmpty(pattern), NEW h, h = Hidden(pattern)
  PROVE  /\ DOMAIN h = DOMAIN pattern
         /\ \A k \in DOMAIN pattern : (h[k] = <<>> <=> isVariable(pattern[k])) /\ (h[k] # <<>> => h[k] = pattern[k])
BY DEF Hidden, NoTermIsEmpty

\* The grounder fills every place that is hidden.
LEMMA GrounderFills ==
  ASSUME NEW pattern, NoTermIsEmpty(pattern), NEW few, NEW many, few \subseteq many
  PROVE  Fillings(Hidden(pattern), few) \subseteq Grounder(pattern, many)
<1>1. PICK h : h = Hidden(pattern)
  OBVIOUS
<1>2. /\ DOMAIN h = DOMAIN pattern
      /\ \A k \in DOMAIN pattern : (h[k] = <<>> <=> isVariable(pattern[k])) /\ (h[k] # <<>> => h[k] = pattern[k])
  BY ONLY <1>1, NoTermIsEmpty(pattern), HiddenPlaces
<1>3. ASSUME NEW t \in Fillings(h, few) PROVE t \in Grounder(pattern, many)
  <2>1. t = [k \in DOMAIN pattern |-> t[k]]
    BY ONLY <1>2, t \in Fillings(h, few) DEF Fillings
  <2>2. \A k \in DOMAIN pattern : IF isVariable(pattern[k]) THEN t[k] \in many ELSE t[k] = pattern[k]
    BY ONLY <1>2, t \in Fillings(h, few), few \subseteq many DEF Fillings
  <2>3. \A k \in DOMAIN pattern : pattern[k] \in ToSet(pattern)
    BY ONLY DEF ToSet
  <2>4. \A k \in DOMAIN pattern : t[k] \in many \cup ToSet(pattern)
    BY ONLY <2>2, <2>3
  <2>5. t \in [DOMAIN pattern -> many \cup ToSet(pattern)]
    BY ONLY <2>1, <2>4
  <2> QED BY ONLY <2>2, <2>5 DEF Grounder
<1> QED BY ONLY <1>1, <1>3

\* The individuals a trivial answer is about, and what a tuple of terms names.
TypedIn(w) == {l.args[1] : l \in {f \in Literals([triples |-> DocumentOf(w).triples, more |-> {}]) : Len(f.args) = 1}}
StatedOf(w, inter) == UNION {ToSet(l.args) : l \in Stated(w, inter, NamespaceOf(w))}
NamedBy(w, t) == [k \in DOMAIN t |-> Resolve(t[k], NamespaceOf(w))]

IsCovered(w, inter, value, tuples) ==
  IF VariablesOf(ToSet(w.pattern)) = {} THEN value = "T"
  ELSE \A t \in [DOMAIN w.pattern -> TypedIn(w) \cup StatedOf(w, inter)] :
         (\A k \in DOMAIN t : ~isVariable(w.pattern[k]) => t[k] = Resolve(w.pattern[k], NamespaceOf(w)))
         => t \in {NamedBy(w, r) : r \in tuples}

\* A subject in brackets names itself.
LEMMA BracketedNames ==
  ASSUME NEW s, s \in Seq(ToSet(s)), s # <<>>, NEW ns, ns # NoNamespace => Head(s) \in Namespaces,
         NEW y, y = <<"<">> \o s \o <<">">>
  PROVE  Resolve(y, ns) = s
<1>1. PICK open1, shut, T : open1 = "<" /\ shut = ">" /\ T = ToSet(s) \cup {open1, shut}
  OBVIOUS
<1>2. s \in Seq(T) /\ open1 \in T /\ shut \in T
  BY ONLY <1>1, s \in Seq(ToSet(s))
<1>3. y = <<open1>> \o s \o <<shut>>
  BY ONLY <1>1, y = <<"<">> \o s \o <<">">>
<1>4. /\ y \in Seq(T) /\ Len(y) = Len(s) + 2 /\ Len(s) \in Nat /\ y # <<>>
      /\ y[1] = open1 /\ y[Len(s) + 2] = shut /\ \A k \in 1..Len(s) : y[k + 1] = s[k]
  BY ONLY <1>2, <1>3
<1>5. Head(y) = open1 /\ Last(y) = shut /\ Len(y) >= 2
  BY ONLY <1>4 DEF Last
<1>6. SubSeq(y, 2, Len(y) - 1) = s
  <2>1. PICK n : n = Len(s)
    OBVIOUS
  <2>2. n \in Nat /\ Len(y) = n + 2 /\ Len(y) - 1 = n + 1
    BY ONLY <1>4, <2>1
  <2>3. PICK z : z = SubSeq(y, 2, n + 1)
    OBVIOUS
  <2>4. z \in Seq(T) /\ Len(z) = n /\ \A k \in 1..n : z[k] = y[k + 1]
    BY ONLY <1>4, <2>2, <2>3
  <2>5. \A k \in 1..n : z[k] = s[k]
    BY ONLY <1>4, <2>1, <2>4
  <2>6. z = s
    BY ONLY <1>2, <2>1, <2>4, <2>5
  <2> QED BY ONLY <2>2, <2>3, <2>6
<1>7. Unbracketed(y) = s
  BY ONLY <1>1, <1>5, <1>6 DEF Unbracketed
<1>8. ~isVariable(y)
  BY ONLY <1>1, <1>5, TokensApart DEF isVariable, Punctuation
<1>9. CASE Head(s) \in Namespaces
  BY ONLY <1>7, <1>9 DEF Resolve
<1>10. CASE Head(s) \notin Namespaces
  <2>1. ns = NoNamespace
    BY ONLY <1>10, ns # NoNamespace => Head(s) \in Namespaces
  <2>2. Resolve(y, ns) = ns \o s
    BY ONLY <1>7, <1>8, <1>10 DEF Resolve
  <2>3. <<>> \o s = s
    BY ONLY <1>2, ConcatEmptySeq
  <2> QED BY ONLY <2>1, <2>2, <2>3 DEF NoNamespace
<1> QED BY ONLY <1>9, <1>10

\* What the document states a type of is an individual of its ABox.
LEMMA TypedIsParsed ==
  ASSUME NEW w, NEW u, u = setupURI(w.onto), u \in DOMAIN Documents, NEW x \in TypedIn(w)
  PROVE  \E y \in parseABox(Documents[u]) : Resolve(y, NamespaceOf(w)) = x
<1>1. PICK doc, ns, D : /\ doc = Documents[u] /\ ns = NamespaceOf(w) /\ D = [triples |-> doc.triples, more |-> {}]
  OBVIOUS
<1>2. DocumentOf(w) = doc /\ ns = namespaceHandler(doc)
  BY ONLY <1>1, u = setupURI(w.onto) DEF DocumentOf, NamespaceOf
<1>3. PICK l : l \in Literals(D) /\ Len(l.args) = 1 /\ x = l.args[1]
  BY ONLY <1>1, <1>2, x \in TypedIn(w) DEF TypedIn
<1>4. D.triples = doc.triples /\ D.more = {}
  BY ONLY <1>1
<1>5. PICK t \in doc.triples :
        \/ t.p = rdfType /\ (Head(t.o) \notin SchemaNamespaces \/ t.o = owlThing) /\ l = Fact(FALSE, t.o, <<t.s>>)
        \/ l = Fact(FALSE, t.p, <<t.s, t.o>>)
  BY ONLY <1>3, <1>4 DEF Literals
<1>6. l # Fact(FALSE, t.p, <<t.s, t.o>>)
  <2> SUFFICES ASSUME l = Fact(FALSE, t.p, <<t.s, t.o>>) PROVE FALSE
    OBVIOUS
  <2>1. l.args = <<t.s, t.o>>
    BY ONLY l = Fact(FALSE, t.p, <<t.s, t.o>>) DEF Fact
  <2>2. Len(l.args) = 2
    BY ONLY <2>1
  <2> QED BY ONLY <1>3, <2>2
<1>7. aboxHandler(t)
  BY ONLY <1>5, <1>6 DEF aboxHandler
<1>8. x = t.s
  <2>1. l = Fact(FALSE, t.o, <<t.s>>)
    BY ONLY <1>5, <1>6
  <2>2. l.args = <<t.s>>
    BY ONLY <2>1 DEF Fact
  <2> QED BY ONLY <1>3, <2>2
<1>9. PICK s, y : s = t.s /\ y = <<"<">> \o s \o <<">">>
  OBVIOUS
<1>10. y \in parseABox(doc)
  BY ONLY <1>5, <1>7, <1>9 DEF parseABox
<1>11. s \in Seq(ToSet(s)) /\ s # <<>> /\ (ns # NoNamespace => Head(s) \in Namespaces)
  BY ONLY <1>1, <1>2, <1>5, <1>9, u \in DOMAIN Documents, DocumentsAreFinite
<1>12. Resolve(y, ns) = s
  BY ONLY <1>9, <1>11, BracketedNames
<1> QED BY ONLY <1>1, <1>8, <1>9, <1>10, <1>12

\* What the interpretation is about is mentioned in its projection.
LEMMA StatedIsMentioned ==
  ASSUME NEW w \in Queries, NEW inter \in Interpretations[w], NEW x \in StatedOf(w, inter)
  PROVE  \E y \in Mentioned(ProjOf(w, inter)) : Resolve(y, NamespaceOf(w)) = x
<1>1. PICK ns : ns = NamespaceOf(w)
  OBVIOUS
<1>2. PICK l \in Stated(w, inter, ns) : x \in ToSet(l.args)
  BY ONLY <1>1, x \in StatedOf(w, inter) DEF StatedOf
<1>3. PICK b \in TakenFrom(w, inter) : l = StatedFact(w, b, ns)
  BY ONLY <1>2, StatedFrom
<1>4. b \in inter /\ PlacesOf(w, b) # {}
  BY ONLY <1>3 DEF TakenFrom
<1>5. PICK z, n : z = b.args /\ n = Len(z)
  OBVIOUS
<1>6. z \in Seq(ToSet(z)) /\ z # <<>>
  BY ONLY <1>4, <1>5, GroundAtoms, w \in Queries, inter \in Interpretations[w] DEF GroundAtom
<1>7. l.args = [k \in 1..n - 1 |-> Resolve(z[k + 1], ns)]
  BY ONLY <1>3, <1>5, FactParts DEF StatedFact
<1>8. PICK k \in 1..n - 1 : x = Resolve(z[k + 1], ns)
  BY ONLY <1>2, <1>7 DEF ToSet
<1>9. PICK a : a = ProjectedAtom(w, b)
  OBVIOUS
<1>10. a \in ProjOf(w, inter)
  <2>1. \A c \in inter : c.args \in Seq(ToSet(c.args))
    BY ONLY GroundAtoms, w \in Queries, inter \in Interpretations[w] DEF GroundAtom
  <2> QED BY ONLY <1>3, <1>9, <2>1, ProjectedFrom
<1>11. a.args = Tail(z)
  BY ONLY <1>5, <1>9 DEF ProjectedAtom
<1>12. z[k + 1] \in ToSet(a.args)
  <2>1. PICK y : y = Tail(z)
    OBVIOUS
  <2>2. Len(y) = n - 1 /\ y \in Seq(ToSet(z)) /\ \A j \in 1..Len(y) : y[j] = z[j + 1]
    <3>1. PICK T : T = ToSet(z)
      OBVIOUS
    <3>2. z \in Seq(T) /\ z # <<>> /\ y = Tail(z)
      BY ONLY <1>6, <2>1, <3>1
    <3>3. Len(y) = Len(z) - 1 /\ y \in Seq(T) /\ \A j \in 1..Len(y) : y[j] = z[j + 1]
      BY ONLY <3>2
    <3> QED BY ONLY <1>5, <3>1, <3>3
  <2>3. k \in DOMAIN y /\ y[k] = z[k + 1]
    BY ONLY <1>8, <2>2
  <2> QED BY ONLY <1>11, <2>1, <2>3 DEF ToSet
<1> QED BY ONLY <1>1, <1>8, <1>10, <1>12 DEF Mentioned

\* An answer that covers the output list over these individuals is a trivial answer.
LEMMA CoversMeans ==
  ASSUME NEW w \in Queries, NEW inter \in Interpretations[w], NEW u, u = setupURI(w.onto), u \in DOMAIN Documents,
         NEW S, S = parseABox(Documents[u]) \cup Mentioned(ProjOf(w, inter)),
         NEW value, NEW tuples, Covers(Hidden(w.pattern), S, value, tuples)
  PROVE  IsCovered(w, inter, value, tuples)
<1>1. PICK h, p, ns, X : h = Hidden(w.pattern) /\ p = w.pattern /\ ns = NamespaceOf(w) /\ X = TypedIn(w) \cup StatedOf(w, inter)
  OBVIOUS
<1>2. NoTermIsEmpty(p)
  BY ONLY <1>1, WrittenQueries, w \in Queries DEF NoTermIsEmpty
<1>3. /\ DOMAIN h = DOMAIN p
      /\ \A k \in DOMAIN p : (h[k] = <<>> <=> isVariable(p[k])) /\ (h[k] # <<>> => h[k] = p[k])
  BY ONLY <1>1, <1>2, HiddenPlaces
<1>4. \A x \in X : \E y \in S : Resolve(y, ns) = x
  <2>1. ASSUME NEW x \in TypedIn(w) PROVE \E y \in S : Resolve(y, ns) = x
    <3>1. \E y \in parseABox(Documents[u]) : Resolve(y, ns) = x
      BY ONLY <1>1, TypedIsParsed, u = setupURI(w.onto), u \in DOMAIN Documents, x \in TypedIn(w)
    <3> QED BY ONLY <3>1, S = parseABox(Documents[u]) \cup Mentioned(ProjOf(w, inter))
  <2>2. ASSUME NEW x \in StatedOf(w, inter) PROVE \E y \in S : Resolve(y, ns) = x
    <3>1. \E y \in Mentioned(ProjOf(w, inter)) : Resolve(y, ns) = x
      BY ONLY <1>1, StatedIsMentioned, w \in Queries, inter \in Interpretations[w], x \in StatedOf(w, inter)
    <3> QED BY ONLY <3>1, S = parseABox(Documents[u]) \cup Mentioned(ProjOf(w, inter))
  <2> QED BY ONLY <1>1, <2>1, <2>2
<1>5. VariablesOf(ToSet(p)) = {} <=> \A k \in DOMAIN h : h[k] # <<>>
  BY ONLY <1>3 DEF VariablesOf, ToSet
<1>6. ASSUME VariablesOf(ToSet(p)) # {}, NEW t \in [DOMAIN p -> X],
             \A k \in DOMAIN t : ~isVariable(p[k]) => t[k] = Resolve(p[k], ns)
      PROVE  \E r \in tuples : t = [k \in DOMAIN r |-> Resolve(r[k], ns)]
  <2>1. Fillings(h, S) \subseteq tuples
    BY ONLY <1>1, <1>5, <1>6, Covers(Hidden(w.pattern), S, value, tuples) DEF Covers
  <2>2. PICK r : r = [k \in DOMAIN p |-> IF isVariable(p[k]) THEN CHOOSE y \in S : Resolve(y, ns) = t[k] ELSE p[k]]
    OBVIOUS
  <2>3. ASSUME NEW k \in DOMAIN p
        PROVE  /\ Resolve(r[k], ns) = t[k] /\ r[k] \in S \cup ToSet(h)
               /\ IF h[k] = <<>> THEN r[k] \in S ELSE r[k] = h[k]
    <3>1. CASE isVariable(p[k])
      <4>1. t[k] \in X
        BY ONLY t \in [DOMAIN p -> X], k \in DOMAIN p
      <4>2. r[k] = CHOOSE y \in S : Resolve(y, ns) = t[k]
        BY ONLY <2>2, <3>1, k \in DOMAIN p
      <4>3. r[k] \in S /\ Resolve(r[k], ns) = t[k]
        BY ONLY <1>4, <4>1, <4>2
      <4>4. h[k] = <<>>
        BY ONLY <1>3, <3>1, k \in DOMAIN p
      <4> QED BY ONLY <4>3, <4>4
    <3>2. CASE ~isVariable(p[k])
      <4>1. r[k] = p[k] /\ t[k] = Resolve(p[k], ns)
        BY ONLY <1>6, <2>2, <3>2, k \in DOMAIN p
      <4>2. h[k] # <<>> /\ h[k] = p[k] /\ h[k] \in ToSet(h)
        BY ONLY <1>3, <3>2, k \in DOMAIN p DEF ToSet
      <4> QED BY ONLY <4>1, <4>2
    <3> QED BY ONLY <3>1, <3>2
  <2>4. r \in [DOMAIN h -> S \cup ToSet(h)] /\ DOMAIN r = DOMAIN p
    BY ONLY <1>3, <2>2, <2>3
  <2>5. r \in Fillings(h, S)
    BY ONLY <1>3, <2>3, <2>4 DEF Fillings
  <2>6. t = [k \in DOMAIN r |-> Resolve(r[k], ns)]
    BY ONLY <2>3, <2>4, t \in [DOMAIN p -> X]
  <2> QED BY ONLY <2>1, <2>5, <2>6
<1>7. CASE VariablesOf(ToSet(p)) = {}
  <2>1. value = "T"
    BY ONLY <1>1, <1>5, <1>7, Covers(Hidden(w.pattern), S, value, tuples) DEF Covers
  <2> QED BY ONLY <1>1, <1>7, <2>1 DEF IsCovered
<1>8. CASE VariablesOf(ToSet(p)) # {}
  BY ONLY <1>1, <1>6, <1>8 DEF IsCovered, NamedBy
<1> QED BY ONLY <1>7, <1>8

\* The individuals that an answer to the query has to cover, when RACER is told a contradiction.
Filled(q) == parseABox(Documents[q.dlq.onto.realuri]) \cup Mentioned(q.proj)
TrueOr(value) == IF value THEN "T" ELSE "NIL"

CoversQuery(q, kb, a) ==
  q.query.atom # "dlConsistent" /\ Contradictory(kb) =>
    Covers(Hidden(q.dlq.pattern), Filled(q), TrueOr(a.value), a.tuples)

\* A query is boolean when its output list hides nothing.
LEMMA BooleanHidesNothing ==
  ASSUME NEW dlq, NoTermIsEmpty(dlq.pattern), NEW h, h = Hidden(dlq.pattern)
  PROVE  isBoolean(dlq) <=> \A k \in DOMAIN h : h[k] # <<>>
<1>1. PICK p : p = dlq.pattern
  OBVIOUS
<1>2. /\ DOMAIN h = DOMAIN p
      /\ \A k \in DOMAIN p : (h[k] = <<>> <=> isVariable(p[k])) /\ (h[k] # <<>> => h[k] = p[k])
  BY ONLY <1>1, NoTermIsEmpty(dlq.pattern), h = Hidden(dlq.pattern), HiddenPlaces
<1>3. isBoolean(dlq) <=> {k \in DOMAIN p : ~isVariable(p[k])} = DOMAIN p
  BY ONLY <1>1 DEF isBoolean, typeFlags
<1> QED BY ONLY <1>2, <1>3

\* Told a contradiction, RACER answers no other query than whether it was told one.
LEMMA ContradictionIsTold ==
  ASSUME NEW c, NEW r, c.abox \in DOMAIN r.aboxes, c.cmd # "abox-consistent?", Contradictory(Known(c, r)),
         NEW read, read = RacerAnswerDriver(NoAnswer, Answer(c, r))
  PROVE  read.answer.incoherent
<1>1. PICK reply : reply = Answer(c, r)
  OBVIOUS
<1>2. reply = Error("incoherent")
  BY ONLY <1>1, c.abox \in DOMAIN r.aboxes, c.cmd # "abox-consistent?", Contradictory(Known(c, r)) DEF Answer
<1>3. reply.kind = "error"
  BY ONLY <1>2 DEF Error
<1>4. read = [ok |-> reply.text = "incoherent", answer |-> setIncoherent(NoAnswer, TRUE)]
  BY ONLY <1>1, <1>3, read = RacerAnswerDriver(NoAnswer, Answer(c, r)) DEF RacerAnswerDriver
<1>5. read.answer = setIncoherent(NoAnswer, TRUE)
  BY ONLY <1>4
<1> QED BY ONLY <1>5 DEF setIncoherent, NoAnswer

\* The command that asks that is the one of &dlConsistent.
LEMMA OnlyOneAsksConsistency ==
  ASSUME NEW atom, NEW dlq, NEW proj, Fits(atom, dlq), atom # "dlConsistent", NEW b, b.ok,
         b = IF Retrieves(atom, dlq) THEN RetrieveUnderPremise(HeadOf(atom, dlq), BodyOf(atom, dlq), dlq, proj)
             ELSE OfClone(atom, dlq)
  PROVE  b.expr.cmd # "abox-consistent?"
<1>1. CASE Retrieves(atom, dlq)
  <2>1. b = RetrieveUnderPremise(HeadOf(atom, dlq), BodyOf(atom, dlq), dlq, proj)
    BY ONLY <1>1, b = IF Retrieves(atom, dlq) THEN RetrieveUnderPremise(HeadOf(atom, dlq), BodyOf(atom, dlq), dlq, proj)
                      ELSE OfClone(atom, dlq)
  <2>2. b.expr.cmd = "retrieve-under-premise"
    BY ONLY <2>1, b.ok, RetrievalParts
  <2> QED BY ONLY <2>2
<1>2. CASE ~Retrieves(atom, dlq)
  <2>1. b = OfClone(atom, dlq)
    BY ONLY <1>2, b = IF Retrieves(atom, dlq) THEN RetrieveUnderPremise(HeadOf(atom, dlq), BodyOf(atom, dlq), dlq, proj)
                      ELSE OfClone(atom, dlq)
  <2>2. CloneCommand(atom, dlq, b)
    BY ONLY <1>2, <2>1, Fits(atom, dlq), CloneCommands
  <2>3. \A e : Built(e).expr = e
    BY DEF Built
  <2> QED BY ONLY <2>2, <2>3, atom # "dlConsistent" DEF CloneCommand, ConceptInstances, RoleIndividuals, Fillers
<1> QED BY ONLY <1>1, <1>2

\* The last director throws, or delivers an answer that covers the query when it has to.
LEMMA AnswerCovers ==
  ASSUME BasesInv, UniverseInv, Send, ~(Len(todo) > 1)
  PROVE  asking # NoQuery /\ (Throw \/ \E a : Deliver(a) /\ CoversQuery(asking, Kb(asking, racer.mirror), a))
<1>1. DialogInv /\ AskingInv /\ StemsInv /\ OntologiesInv /\ RegistryInv /\ FilesInv /\ CopiesInv
  BY ONLY BasesInv DEF BasesInv
<1>2. PICK c, read :
           /\ racer' = racer /\ asking # NoQuery /\ Fits(asking.query.atom, asking.dlq)
           /\ AskedOfKb(asking, c, racer)
           /\ Link.build.ok /\ c = Link.build.expr
           /\ Link.build = IF Retrieves(asking.query.atom, asking.dlq)
                           THEN RetrieveUnderPremise(HeadOf(asking.query.atom, asking.dlq),
                                  BodyOf(asking.query.atom, asking.dlq), asking.dlq, asking.proj)
                           ELSE OfClone(asking.query.atom, asking.dlq)
           /\ read = RacerAnswerDriver(NoAnswer, Answer(c, racer))
           /\ Goes(read) \/ Refused(read) \/ HandleInconsistency(read)
  BY ONLY <1>1, Send, ~(Len(todo) > 1), TheLast
<1>3. PICK q, dlq, kb : q = asking /\ dlq = q.dlq /\ kb = Kb(asking, racer.mirror)
  OBVIOUS
<1>4. NoTermIsEmpty(dlq.pattern)
  <2>1. MeantNow(q)
    BY ONLY <1>1, <1>2, <1>3, MeantUnderway
  <2>2. PICK w : w = q.query /\ w \in Queries /\ dlq.pattern = w.pattern
    BY ONLY <1>3, <2>1 DEF MeantNow
  <2> QED BY ONLY <2>2, WrittenQueries DEF NoTermIsEmpty
<1>5. CASE Refused(read)
  BY ONLY <1>2, <1>5 DEF Refused
<1>6. CASE Goes(read)
  <2>1. Deliver(read.answer) /\ ~read.answer.incoherent
    BY ONLY <1>6, ~(Len(todo) > 1) DEF Goes
  <2>2. ~(q.query.atom # "dlConsistent" /\ Contradictory(kb))
    <3> SUFFICES ASSUME q.query.atom # "dlConsistent", Contradictory(kb) PROVE FALSE
      OBVIOUS
    <3>1. PICK b, atom, proj : b = Link.build /\ atom = q.query.atom /\ proj = q.proj
      OBVIOUS
    <3>2. b = IF Retrieves(atom, dlq) THEN RetrieveUnderPremise(HeadOf(atom, dlq), BodyOf(atom, dlq), dlq, proj)
              ELSE OfClone(atom, dlq)
      BY ONLY <1>2, <1>3, <3>1
    <3>3. b.ok /\ Fits(atom, dlq) /\ atom # "dlConsistent" /\ c = b.expr
      BY ONLY <1>2, <1>3, <3>1, q.query.atom # "dlConsistent"
    <3>4. c.cmd # "abox-consistent?"
      BY ONLY <3>2, <3>3, OnlyOneAsksConsistency
    <3>5. c.abox \in DOMAIN racer.aboxes /\ Contradictory(Known(c, racer))
      BY ONLY <1>2, <1>3, Contradictory(kb) DEF AskedOfKb
    <3> QED BY ONLY <1>2, <2>1, <3>4, <3>5, ContradictionIsTold
  <2>3. CoversQuery(q, kb, read.answer)
    BY ONLY <2>2 DEF CoversQuery
  <2> QED BY ONLY <1>2, <1>3, <2>1, <2>3
<1>7. CASE HandleInconsistency(read)
  <2>1. PICK h : h = Hidden(dlq.pattern)
    OBVIOUS
  <2>2. isBoolean(dlq) <=> \A k \in DOMAIN h : h[k] # <<>>
    BY ONLY <1>4, <2>1, BooleanHidesNothing
  <2>3. isAnswer(read.answer)
    <3>1. isAnswer(NoAnswer)
      BY DEF isAnswer, NoAnswer
    <3>2. read = parse("RacerAnswerDriver", NoAnswer, Answer(c, racer))
      BY ONLY <1>2 DEF parse
    <3> QED BY ONLY <3>1, <3>2, AnswerRead
  <2>4. CASE isBoolean(dlq)
    <3>1. PICK a : a = setAnswer(read.answer, TRUE)
      OBVIOUS
    <3>2. Deliver(a)
      BY ONLY <1>3, <1>7, <2>4, <3>1 DEF HandleInconsistency
    <3>3. TrueOr(a.value) = "T"
      BY ONLY <2>3, <3>1 DEF TrueOr, setAnswer, isAnswer
    <3>4. Covers(h, Filled(q), TrueOr(a.value), a.tuples)
      BY ONLY <2>2, <2>4, <3>3 DEF Covers
    <3>5. CoversQuery(q, kb, a)
      BY ONLY <1>3, <2>1, <3>4 DEF CoversQuery
    <3> QED BY ONLY <1>2, <1>3, <3>2, <3>5
  <2>5. CASE ~isBoolean(dlq)
    <3>1. PICK u, A, m : u = dlq.onto.realuri /\ A = AllIndividuals(u) /\ m = universe'
      OBVIOUS
    <3>2. PICK a : a = [read.answer EXCEPT !.tuples = @ \cup Grounder(dlq.pattern, m[u])]
      OBVIOUS
    <3>3. m = Put(universe, u, A) /\ Deliver(a)
      BY ONLY <1>3, <1>7, <2>5, <3>1, <3>2 DEF HandleInconsistency
    <3>4. m[u] = A
      BY ONLY <3>3, PutGives
    <3>5. Filled(q) \subseteq A
      BY ONLY <1>2, <1>3, <3>1, BasesInv, UniverseInv, IndividualsOfQuery DEF Filled
    <3>6. Fillings(h, Filled(q)) \subseteq Grounder(dlq.pattern, A)
      BY ONLY <1>4, <2>1, <3>5, GrounderFills
    <3>7. Grounder(dlq.pattern, A) \subseteq a.tuples
      BY ONLY <2>3, <3>2, <3>4 DEF isAnswer
    <3>8. Covers(h, Filled(q), TrueOr(a.value), a.tuples)
      BY ONLY <2>2, <2>5, <3>6, <3>7 DEF Covers
    <3>9. CoversQuery(q, kb, a)
      BY ONLY <1>3, <2>1, <3>8 DEF CoversQuery
    <3> QED BY ONLY <1>2, <1>3, <3>3, <3>9
  <2> QED BY ONLY <2>4, <2>5
<1> QED BY ONLY <1>2, <1>5, <1>6, <1>7

\* What a context was answered of: an answer under a contradiction covers its output list.
Kept(c) ==
  /\ c.key.onto \in DOMAIN Documents
  /\ \E m : Contradictory(Loaded(c.key.onto, m) \cup Asserted(c.inter, parseNamespace(c.key.onto))) =>
              Covers(c.key.pattern, parseABox(Documents[c.key.onto]) \cup Mentioned(c.inter), c.value, c.tuples)

CoverInv == \A c \in contexts : Kept(c)

NewContext(dlq, proj, a) ==
  [key |-> Key(dlq), conjunctive |-> isConjQuery(dlq) \/ isUnionConjQuery(dlq),
   inter |-> proj, value |-> TrueOr(a.value), tuples |-> a.tuples]

\* The cache has what it had, and the new context.
LEMMA InsertsOne ==
  ASSUME NEW w, NEW dlq, NEW proj, NEW a
  PROVE  /\ InsertAnswer(w, dlq, proj, a) \subseteq contexts \cup {NewContext(dlq, proj, a)}
         /\ ~UsesCache(w, dlq) => InsertAnswer(w, dlq, proj, a) = contexts
<1>1. CASE ~UsesCache(w, dlq)
  BY ONLY <1>1 DEF InsertAnswer
<1>2. CASE UsesCache(w, dlq)
  <2>1. PICK o, s, n : /\ o = CachedFor(dlq) /\ n = NewContext(dlq, proj, a)
                       /\ s = o \ Contexts!Superfluous(Shape(dlq), proj, TrueOr(a.value), o)
    OBVIOUS
  <2>2. InsertAnswer(w, dlq, proj, a) = (contexts \ o) \cup Contexts!AddContext(s, n)
    BY ONLY <1>2, <2>1 DEF InsertAnswer, NewContext, TrueOr
  <2>3. o \subseteq contexts /\ s \subseteq o
    BY ONLY <2>1 DEF CachedFor
  <2>4. Contexts!AddContext(s, n) \subseteq s \cup {n}
    BY ONLY DEF Contexts!AddContext
  <2> QED BY ONLY <1>2, <2>1, <2>2, <2>3, <2>4
<1> QED BY ONLY <1>1, <1>2

\* The key of a query has its output list without the names of variables.
LEMMA KeyHides ==
  ASSUME NEW dlq
  PROVE  Key(dlq).onto = dlq.onto.realuri /\ Key(dlq).pattern = Hidden(dlq.pattern)
BY DEF Key, Hidden

\* The ontology of the query under way is that of its document.
LEMMA OntologyUnderway ==
  ASSUME BasesInv, asking # NoQuery, NEW u, u = asking.dlq.onto.realuri
  PROVE  u \in DOMAIN Documents /\ asking.dlq.onto.ns = parseNamespace(u)
<1>1. PICK v : v \in DOMAIN ontomap /\ asking.dlq.onto = ontomap[v]
  BY ONLY BasesInv, asking # NoQuery DEF BasesInv, StemsInv
<1>2. ontomap[v] = Ontology(v, ontomap[v].uri) /\ v \in DOMAIN Documents
  BY ONLY <1>1, BasesInv DEF BasesInv, OntologiesInv, RegistryInv
<1>3. \A f : Ontology(v, f).realuri = v /\ Ontology(v, f).ns = parseNamespace(v)
  BY ONLY DEF Ontology
<1>4. asking.dlq.onto.realuri = v /\ asking.dlq.onto.ns = parseNamespace(v)
  BY ONLY <1>1, <1>2, <1>3
<1> QED BY ONLY <1>2, <1>4, u = asking.dlq.onto.realuri

\* What a director delivers is kept with what it covers.
LEMMA DeliveredIsKept ==
  ASSUME BasesInv, CoverInv, asking # NoQuery, NEW m, NEW a, CoversQuery(asking, Kb(asking, m), a)
  PROVE  \A c \in InsertAnswer(asking.query, asking.dlq, asking.proj, a) : Kept(c)
<1>1. PICK q, w, dlq, u, n : /\ q = asking /\ w = q.query /\ dlq = q.dlq /\ u = dlq.onto.realuri
                             /\ n = NewContext(dlq, q.proj, a)
  OBVIOUS
<1>2. InsertAnswer(w, dlq, q.proj, a) \subseteq contexts \cup {n}
  BY ONLY <1>1, InsertsOne
<1>3. CASE ~UsesCache(w, dlq)
  <2>1. InsertAnswer(w, dlq, q.proj, a) = contexts
    BY ONLY <1>3, InsertsOne
  <2> QED BY ONLY <1>1, <2>1, CoverInv DEF CoverInv
<1>4. CASE UsesCache(w, dlq)
  <2>1. w.atom # "dlConsistent"
    BY ONLY <1>4 DEF UsesCache, cacheQuery
  <2>2. u \in DOMAIN Documents /\ dlq.onto.ns = parseNamespace(u)
    BY ONLY <1>1, BasesInv, asking # NoQuery, OntologyUnderway
  <2>3. /\ n.key = Key(dlq) /\ n.inter = q.proj /\ n.value = TrueOr(a.value) /\ n.tuples = a.tuples
    BY ONLY <1>1 DEF NewContext
  <2>4. n.key.onto = u /\ n.key.pattern = Hidden(dlq.pattern)
    BY ONLY <1>1, <2>3, KeyHides
  <2>5. Contradictory(Loaded(u, m) \cup Asserted(q.proj, dlq.onto.ns)) =>
          Covers(Hidden(dlq.pattern), parseABox(Documents[u]) \cup Mentioned(q.proj), TrueOr(a.value), a.tuples)
    BY ONLY <1>1, <2>1, CoversQuery(asking, Kb(asking, m), a) DEF CoversQuery, Kb, Filled
  <2>6. Kept(n)
    BY ONLY <2>2, <2>3, <2>4, <2>5 DEF Kept
  <2> QED BY ONLY <1>1, <1>2, <2>6, CoverInv DEF CoverInv
<1> QED BY ONLY <1>3, <1>4

\* Nothing else keeps an answer.
LEMMA ContextsRest ==
  ASSUME [Next]_vars, ~Send
  PROVE  contexts' = contexts \/ contexts' = {}
<1>1. CASE Exit
  BY <1>1 DEF Exit
<1>2. CASE BuilderThrows \/ Garbled
  BY <1>2 DEF BuilderThrows, Garbled, Throw
<1>3. CASE Ask
  BY <1>3 DEF Ask, Reject, Abort, CacheHit, Begin
<1>4. CASE SetKBReload \/ SetDLSetup \/ SetDLOpt \/ SetDLDebug
  BY <1>4 DEF SetKBReload, SetDLSetup, SetDLOpt, SetDLDebug, Erase
<1>5. CASE Help \/ SetOntology \/ SetDefaults \/ KeepArgument \/ OptionsSet
  BY <1>5 DEF Help, SetOntology, SetDefaults, KeepArgument, OptionsSet
<1>6. CASE UNCHANGED vars
  BY <1>6 DEF vars
<1> QED BY <1>1, <1>2, <1>3, <1>4, <1>5, <1>6 DEF Next

\* Every step keeps to that.
LEMMA CoverStep ==
  ASSUME BasesInv, UniverseInv, CoverInv, [Next]_vars
  PROVE  CoverInv'
<1>1. CASE ~Send
  <2>1. contexts' = contexts \/ contexts' = {}
    BY ONLY <1>1, [Next]_vars, ContextsRest
  <2> QED BY ONLY <2>1, CoverInv DEF CoverInv, Kept
<1>2. CASE Send /\ Len(todo) > 1
  <2>1. contexts' = contexts
    BY ONLY <1>2, BasesInv, BeforeTheLast DEF BasesInv
  <2> QED BY ONLY <2>1, CoverInv DEF CoverInv, Kept
<1>3. CASE Send /\ ~(Len(todo) > 1)
  <2>1. asking # NoQuery /\ (Throw \/ \E a : Deliver(a) /\ CoversQuery(asking, Kb(asking, racer.mirror), a))
    BY ONLY <1>3, BasesInv, UniverseInv, AnswerCovers
  <2>2. CASE Throw
    <3>1. contexts' = contexts
      BY ONLY <2>2 DEF Throw
    <3> QED BY ONLY <3>1, CoverInv DEF CoverInv, Kept
  <2>3. CASE \E a : Deliver(a) /\ CoversQuery(asking, Kb(asking, racer.mirror), a)
    <3>1. PICK a : Deliver(a) /\ CoversQuery(asking, Kb(asking, racer.mirror), a)
      BY ONLY <2>3
    <3>2. contexts' = InsertAnswer(asking.query, asking.dlq, asking.proj, a)
      BY ONLY <3>1 DEF Deliver
    <3>3. \A c \in InsertAnswer(asking.query, asking.dlq, asking.proj, a) : Kept(c)
      BY ONLY <2>1, <3>1, BasesInv, CoverInv, DeliveredIsKept
    <3>4. \A c \in contexts' : Kept(c)
      BY ONLY <3>2, <3>3
    <3> QED BY ONLY <3>4 DEF CoverInv, Kept
  <2> QED BY ONLY <2>1, <2>2, <2>3
<1> QED BY ONLY <1>1, <1>2, <1>3

\* A query that is prepared has the output list, the document and the projection of what is written.
LEMMA PreparedIsMeant ==
  ASSUME BasesInv, [Next]_vars, NEW w \in Queries, NEW inter, NEW reachable, NEW p,
         p = Prepare(w, inter, reachable), p.ok, Asks(w, inter, p), Understood(w, inter),
         NEW u, u = setupURI(w.onto)
  PROVE  /\ p.dlq.pattern = w.pattern /\ p.dlq.onto.realuri = u /\ u \in DOMAIN Documents
         /\ p.proj = ProjOf(w, inter)
<1>1. OntologiesInv' /\ RegistryInv'
  BY ONLY BasesInv, [Next]_vars, BasesStep DEF BasesInv
<1>2. Registers(p.made) /\ RegistryInv
  BY ONLY BasesInv, Asks(w, inter, p) DEF BasesInv, Asks
<1>3. u \in DOMAIN ontomap' /\ p.dlq.onto = ontomap'[u] /\ MadeOf(w, inter, ontomap'[u], p.dlq, p.proj)
  BY ONLY <1>2, PreparedFrom, w \in Queries, p = Prepare(w, inter, reachable), p.ok, u = setupURI(w.onto)
<1>4. PICK onto, file : onto = ontomap'[u] /\ file = onto.uri
  OBVIOUS
<1>5. u \in DOMAIN Documents /\ onto = Ontology(u, file)
  BY ONLY <1>1, <1>3, <1>4 DEF OntologiesInv, RegistryInv
<1>6. OntologyOf(w, onto)
  BY ONLY <1>5, u = setupURI(w.onto), OntologyIsOf
<1>7. IsNamespace(onto.ns) /\ onto.realuri = u
  BY ONLY <1>6, u = setupURI(w.onto) DEF OntologyOf
<1>8. PICK made : made = QueryCtx(onto, InputOf(w), w.pattern, inter)
  OBVIOUS
<1>9. made = [ok |-> TRUE, query |-> Query(p.dlq, p.proj)]
  BY ONLY <1>3, <1>4, <1>8 DEF MadeOf
<1>10. <<w.atom, Len(w.pattern)>> \in createAtoms
  BY ONLY Asks(w, inter, p) DEF Asks
<1>11. PICK dlq : MeantBy(w, onto, dlq) /\ made = [ok |-> TRUE, query |-> Query(dlq, ProjOf(w, inter))]
  BY ONLY <1>7, <1>8, <1>10, UnderstoodIsMade, w \in Queries, Understood(w, inter)
<1>12. p.dlq = dlq /\ p.proj = ProjOf(w, inter)
  BY ONLY <1>9, <1>11 DEF Query
<1>13. dlq.pattern = w.pattern
  BY ONLY <1>11, MeantOutput
<1> QED BY ONLY <1>3, <1>4, <1>5, <1>7, <1>12, <1>13

\* What is found in the cache under a contradiction covers the output list too: a negative answer
\* of a larger interpretation is none, and a retrieval is found under its own interpretation only.
LEMMA HitCovers ==
  ASSUME CoverInv, NEW w \in Queries, NEW inter \in Interpretations[w], Understood(w, inter), ~Coherent(w, inter),
         NEW u, u = setupURI(w.onto), u \in DOMAIN Documents,
         NEW dlq, dlq.pattern = w.pattern, dlq.onto.realuri = u,
         NEW proj, proj = ProjOf(w, inter), NEW e \in cacheHit(dlq, proj)
  PROVE  IsCovered(w, inter, e.value, e.tuples)
<1>1. PICK h, ns, s : h = Hidden(w.pattern) /\ ns = NamespaceOf(w) /\ s = Shape(dlq)
  OBVIOUS
<1>2. NoTermIsEmpty(w.pattern)
  BY ONLY WrittenQueries, w \in Queries DEF NoTermIsEmpty
<1>3. /\ DOMAIN h = DOMAIN w.pattern
      /\ \A k \in DOMAIN w.pattern : (h[k] = <<>> <=> isVariable(w.pattern[k])) /\ (h[k] # <<>> => h[k] = w.pattern[k])
  BY ONLY <1>1, <1>2, HiddenPlaces
<1>4. Contexts!isBoolean(s) <=> \A k \in DOMAIN h : h[k] # <<>>
  <2>1. s.pattern = [k \in DOMAIN w.pattern |-> IF isVariable(w.pattern[k]) THEN 0 ELSE 1]
    BY ONLY <1>1, dlq.pattern = w.pattern DEF Shape
  <2>2. Contexts!isBoolean(s) <=> \A k \in DOMAIN s.pattern : s.pattern[k] # 0
    BY ONLY DEF Contexts!isBoolean, Contexts!Ground, Contexts!Var
  <2>3. DOMAIN s.pattern = DOMAIN h /\ \A k \in DOMAIN h : s.pattern[k] # 0 <=> h[k] # <<>>
    BY ONLY <1>3, <2>1
  <2> QED BY ONLY <2>2, <2>3
<1>5. /\ e \in CachedFor(dlq)
      /\ \/ Contexts!isBoolean(s) /\ e.value = "T"
         \/ Contexts!isBoolean(s) /\ e.value # "T" /\ proj \subseteq e.inter
         \/ ~Contexts!isBoolean(s) /\ e.inter = proj
  BY ONLY <1>1, e \in cacheHit(dlq, proj) DEF cacheHit, Contexts!isValid
<1>6. e \in contexts /\ e.key.onto = u /\ e.key.pattern = h
  <2>1. e \in contexts /\ e.key = Key(dlq)
    BY ONLY <1>5 DEF CachedFor
  <2> QED BY ONLY <1>1, <2>1, KeyHides, dlq.pattern = w.pattern, dlq.onto.realuri = u
<1>7. ASSUME proj \subseteq e.inter
      PROVE  Covers(h, parseABox(Documents[u]) \cup Mentioned(e.inter), e.value, e.tuples)
  <2>1. PICK m : Contradictory(Loaded(u, m) \cup Asserted(e.inter, parseNamespace(u))) =>
                   Covers(h, parseABox(Documents[u]) \cup Mentioned(e.inter), e.value, e.tuples)
    BY ONLY <1>6, CoverInv DEF CoverInv, Kept
  <2>2. ns = parseNamespace(u)
    BY ONLY <1>1, u = setupURI(w.onto) DEF NamespaceOf, DocumentOf, parseNamespace
  <2>3. PICK larger : larger = e.inter
    OBVIOUS
  <2>4. ProjOf(w, inter) \subseteq larger /\ ns = NamespaceOf(w)
    BY ONLY <1>1, <1>7, <2>3, proj = ProjOf(w, inter)
  <2>5. Contradictory(Loaded(u, m) \cup Asserted(larger, ns))
    BY ONLY <2>4, ContradictionIsSent, w \in Queries, inter \in Interpretations[w], Understood(w, inter),
            ~Coherent(w, inter), u = setupURI(w.onto), u \in DOMAIN Documents
  <2> QED BY ONLY <2>1, <2>2, <2>3, <2>5
<1>8. PICK S : S = parseABox(Documents[u]) \cup Mentioned(ProjOf(w, inter))
  OBVIOUS
<1>9. Covers(Hidden(w.pattern), S, e.value, e.tuples)
  <2>1. CASE Contexts!isBoolean(s) /\ e.value = "T"
    BY ONLY <1>1, <1>4, <2>1 DEF Covers
  <2>2. CASE Contexts!isBoolean(s) /\ e.value # "T" /\ proj \subseteq e.inter
    BY ONLY <1>4, <1>7, <2>2 DEF Covers
  <2>3. CASE ~Contexts!isBoolean(s) /\ e.inter = proj
    BY ONLY <1>1, <1>7, <1>8, <2>3, proj = ProjOf(w, inter)
  <2> QED BY ONLY <1>5, <2>1, <2>2, <2>3
<1> QED BY ONLY <1>8, <1>9, CoversMeans, w \in Queries, inter \in Interpretations[w], u = setupURI(w.onto),
                u \in DOMAIN Documents

-----------------------------------------------------------------------------

\* The property, of what was returned.
TrivialFor(r) ==
  r.kind = "answer" /\ ~Coherent(r.query, r.inter) /\ Understood(r.query, r.inter) /\ r.query.atom # "dlConsistent"
    => IsCovered(r.query, r.inter, r.value, r.tuples)

LEMMA TrivialIs ==
  /\ TrivialAnswersCover <=> TrivialFor(returned)
  /\ TrivialAnswersCover' <=> TrivialFor(returned')
BY DEF TrivialAnswersCover, TrivialFor, IsCovered, IsAnswer, Asked, TypedIn, StatedOf, NamedBy

\* The parts of an answer that is returned.
LEMMA ReturnedParts ==
  ASSUME NEW w, NEW inter, NEW v, NEW t, NEW f, NEW r, r = Returned(w, inter, v, t, f)
  PROVE  r.query = w /\ r.inter = inter /\ r.value = v /\ r.tuples = t
BY DEF Returned

\* What is no answer covers nothing.
LEMMA NoAnswerIsTrivial ==
  ASSUME NEW w, NEW inter, NEW r, r \in {NoQuery, Failed(w, inter), Aborted(w, inter)}
  PROVE  TrivialFor(r)
<1>1. r.kind # "answer"
  BY DEF NoQuery, Failed, Aborted
<1> QED BY ONLY <1>1 DEF TrivialFor

\* What a director delivers.
LEMMA DeliveredCovers ==
  ASSUME BasesInv, asking # NoQuery, NEW m, NEW a, Deliver(a), CoversQuery(asking, Kb(asking, m), a)
  PROVE  TrivialFor(returned')
<1>1. PICK q, w, inter, r, u : /\ q = asking /\ w = q.query /\ inter = q.inter /\ r = returned'
                               /\ u = q.dlq.onto.realuri
  OBVIOUS
<1>2. r.query = w /\ r.inter = inter /\ r.value = TrueOr(a.value) /\ r.tuples = a.tuples
  <2>1. r = Returned(w, inter, TrueOr(a.value), a.tuples, "racer")
    BY ONLY <1>1, Deliver(a) DEF Deliver, TrueOr
  <2> QED BY ONLY <2>1, ReturnedParts
<1>3. MeantNow(q)
  BY ONLY <1>1, asking # NoQuery, BasesInv, MeantUnderway DEF BasesInv
<1>4. ASSUME ~Coherent(w, inter), Understood(w, inter), w.atom # "dlConsistent"
      PROVE  IsCovered(w, inter, r.value, r.tuples)
  <2>1. PICK ns, proj : ns = q.dlq.onto.ns /\ proj = q.proj
    OBVIOUS
  <2>2. /\ w \in Queries /\ inter \in Interpretations[w] /\ u = setupURI(w.onto) /\ u \in DOMAIN Documents
        /\ ns = NamespaceOf(w) /\ proj = ProjOf(w, inter) /\ q.dlq.pattern = w.pattern
    BY ONLY <1>1, <1>3, <1>4, <2>1 DEF MeantNow, OntologyOf
  <2>3. Contradictory(Loaded(u, m) \cup Asserted(proj, ns))
    <3>1. ProjOf(w, inter) \subseteq proj
      BY ONLY <2>2
    <3> QED BY ONLY <1>4, <2>2, <3>1, ContradictionIsSent
  <2>4. Contradictory(Kb(q, m))
    BY ONLY <1>1, <2>1, <2>3 DEF Kb
  <2>5. Covers(Hidden(w.pattern), Filled(q), r.value, r.tuples)
    BY ONLY <1>1, <1>2, <1>4, <2>2, <2>4, CoversQuery(asking, Kb(asking, m), a) DEF CoversQuery
  <2>6. Filled(q) = parseABox(Documents[u]) \cup Mentioned(ProjOf(w, inter))
    BY ONLY <1>1, <2>1, <2>2 DEF Filled
  <2> QED BY ONLY <2>2, <2>5, <2>6, CoversMeans
<1> QED BY ONLY <1>1, <1>2, <1>4 DEF TrivialFor

\* An evaluation that returns at once.
LEMMA AskedCovers ==
  ASSUME BasesInv, CoverInv, Ask
  PROVE  TrivialFor(returned')
<1>0. [Next]_vars
  BY ONLY Ask DEF Next
<1>1. PICK w, inter, reachable, p :
           /\ w \in Queries /\ inter \in Interpretations[w] /\ reachable \in BOOLEAN
           /\ reachable \/ ~isLocal(w.onto)
           /\ p = Prepare(w, inter, reachable) /\ Idle /\ Asks(w, inter, p)
           /\ \/ ~p.ok /\ returned' = Failed(w, inter) /\ contexts' = contexts
              \/ p.ok /\ returned' = Aborted(w, inter) /\ contexts' = contexts
              \/ p.ok /\ CacheHit(w, inter, p)
              \/ p.ok /\ returned' = NoQuery /\ contexts' = contexts
  <2>1. PICK w \in Queries : \E inter \in Interpretations[w], reachable \in BOOLEAN : \E p :
           /\ reachable \/ ~isLocal(w.onto)
           /\ p = Prepare(w, inter, reachable) /\ Idle /\ Asks(w, inter, p)
           /\ \/ ~p.ok /\ returned' = Failed(w, inter) /\ contexts' = contexts
              \/ p.ok /\ returned' = Aborted(w, inter) /\ contexts' = contexts
              \/ p.ok /\ CacheHit(w, inter, p)
              \/ p.ok /\ returned' = NoQuery /\ contexts' = contexts
    BY Ask, AskMakes
  <2> QED BY ONLY <2>1
<1>2. CASE returned' \in {NoQuery, Failed(w, inter), Aborted(w, inter)}
  BY ONLY <1>2, NoAnswerIsTrivial
<1>3. CASE p.ok /\ CacheHit(w, inter, p)
  <2>1. PICK e \in cacheHit(p.dlq, p.proj) : returned' = Returned(w, inter, e.value, e.tuples, "cache")
    BY ONLY <1>3 DEF CacheHit
  <2>2. PICK r, u : r = returned' /\ u = setupURI(w.onto)
    OBVIOUS
  <2>3. r.query = w /\ r.inter = inter /\ r.value = e.value /\ r.tuples = e.tuples
    BY ONLY <2>1, <2>2, ReturnedParts
  <2>4. ASSUME ~Coherent(w, inter), Understood(w, inter)
        PROVE  IsCovered(w, inter, e.value, e.tuples)
    <3>1. /\ p.dlq.pattern = w.pattern /\ p.dlq.onto.realuri = u /\ u \in DOMAIN Documents
          /\ p.proj = ProjOf(w, inter)
      BY ONLY <1>0, <1>1, <1>3, <2>2, <2>4, BasesInv, PreparedIsMeant
    <3>2. PICK dlq, proj : dlq = p.dlq /\ proj = p.proj
      OBVIOUS
    <3>3. e \in cacheHit(dlq, proj)
      BY ONLY <2>1, <3>2
    <3> QED BY ONLY <1>1, <2>2, <2>4, <3>1, <3>2, <3>3, CoverInv, HitCovers
  <2> QED BY ONLY <2>2, <2>3, <2>4 DEF TrivialFor
<1> QED BY ONLY <1>1, <1>2, <1>3

\* The steps that answer nothing.
LEMMA ReturnedRests ==
  ASSUME [Next]_vars, ~Send, ~Ask
  PROVE  returned' = returned \/ returned' = Failed(asking.query, asking.inter)
<1>1. CASE Exit
  BY <1>1 DEF Exit
<1>2. CASE BuilderThrows \/ Garbled
  BY <1>2 DEF BuilderThrows, Garbled, Throw
<1>4. CASE SetKBReload \/ SetDLSetup \/ SetDLOpt \/ SetDLDebug
  BY <1>4 DEF SetKBReload, SetDLSetup, SetDLOpt, SetDLDebug, Erase
<1>5. CASE Help \/ SetOntology \/ SetDefaults \/ KeepArgument \/ OptionsSet
  BY <1>5 DEF Help, SetOntology, SetDefaults, KeepArgument, OptionsSet
<1>6. CASE UNCHANGED vars
  BY <1>6 DEF vars
<1> QED BY <1>1, <1>2, <1>4, <1>5, <1>6 DEF Next

\* Every step keeps to the property.
LEMMA TrivialStep ==
  ASSUME BasesInv, UniverseInv, CoverInv, TrivialAnswersCover, [Next]_vars
  PROVE  TrivialAnswersCover'
<1>1. CASE Ask
  <2>1. TrivialFor(returned')
    BY ONLY <1>1, BasesInv, CoverInv, AskedCovers
  <2> QED BY ONLY <2>1, TrivialIs
<1>2. CASE Send /\ Len(todo) > 1
  <2>1. returned' = returned
    BY ONLY <1>2, BasesInv, BeforeTheLast DEF BasesInv
  <2> QED BY ONLY <2>1, TrivialAnswersCover, TrivialIs
<1>3. CASE Send /\ ~(Len(todo) > 1)
  <2>1. asking # NoQuery /\ (Throw \/ \E a : Deliver(a) /\ CoversQuery(asking, Kb(asking, racer.mirror), a))
    BY ONLY <1>3, BasesInv, UniverseInv, AnswerCovers
  <2>2. CASE Throw
    <3>1. returned' = Failed(asking.query, asking.inter)
      BY ONLY <2>2 DEF Throw
    <3>2. TrivialFor(returned')
      BY ONLY <3>1, NoAnswerIsTrivial
    <3> QED BY ONLY <3>2, TrivialIs
  <2>3. CASE \E a : Deliver(a) /\ CoversQuery(asking, Kb(asking, racer.mirror), a)
    <3>1. TrivialFor(returned')
      BY ONLY <2>1, <2>3, BasesInv, DeliveredCovers
    <3> QED BY ONLY <3>1, TrivialIs
  <2> QED BY ONLY <2>1, <2>2, <2>3
<1>4. CASE ~Send /\ ~Ask
  <2>1. returned' = returned \/ returned' = Failed(asking.query, asking.inter)
    BY ONLY <1>4, [Next]_vars, ReturnedRests
  <2>2. CASE returned' = returned
    BY ONLY <2>2, TrivialAnswersCover, TrivialIs
  <2>3. CASE returned' = Failed(asking.query, asking.inter)
    <3>1. TrivialFor(returned')
      BY ONLY <2>3, NoAnswerIsTrivial
    <3> QED BY ONLY <3>1, TrivialIs
  <2> QED BY ONLY <2>1, <2>2, <2>3
<1> QED BY ONLY <1>1, <1>2, <1>3, <1>4

\* QueryDirector.cpp:175 and 181: under a contradictory interpretation a boolean query that is
\* understood is true, and a retrieval gets every individual that the document states a type of
\* or the interpretation is about, whether RACER says so or the cache has it.
THEOREM TrivialAnswersAlwaysCover == Spec => []TrivialAnswersCover
<1> DEFINE Inv == BasesInv /\ UniverseInv /\ CoverInv /\ TrivialAnswersCover
<1>1. Init => Inv
  <2> SUFFICES ASSUME Init PROVE Inv
    OBVIOUS
  <2>1. contexts = {} /\ returned = NoQuery /\ universe = NoABoxes
    BY ONLY Init DEF Init
  <2>2. UniverseInv /\ CoverInv
    BY ONLY <2>1 DEF UniverseInv, CoverInv, NoABoxes
  <2>3. TrivialFor(returned)
    BY ONLY <2>1, NoAnswerIsTrivial
  <2> QED BY ONLY <2>2, <2>3, Init, BasesStart, TrivialIs
<1>2. Inv /\ [Next]_vars => Inv'
  BY BasesStep, UniverseStep, CoverStep, TrivialStep
<1>3. Inv => TrivialAnswersCover
  OBVIOUS
<1> QED BY <1>1, <1>2, <1>3, PTL DEF Spec

=============================================================================
