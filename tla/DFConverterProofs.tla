-------------------------- MODULE DFConverterProofs --------------------------
(***************************************************************************)
(* Proofs about DFConverter for all files, words and knowledge bases.      *)
(* The last part is about its parser: it has the defaults that are written,*)
(* for all files of defaults and full rules: what the grammar makes of the *)
(* text of a default, and how the statics go from one item of a file to    *)
(* the next.                                                               *)
(***************************************************************************)
EXTENDS DFConverter, DataLemmas, SequenceTheorems, TLAPS

-----------------------------------------------------------------------------
(* Lists of terms. *)

\* Terms are inserted one after the other.
LEMMA InsertSteps ==
  ASSUME NEW S, NEW terms \in Seq(S), NEW t1 \in Seq(S)
  PROVE  \E f \in [0..Len(t1) -> Seq(S)] :
           /\ f[0] = terms /\ f[Len(t1)] = insertNewTerms(terms, t1)
           /\ \A k \in 1..Len(t1) :
                f[k] = IF gotThisTerm(f[k - 1], t1[k]) THEN f[k - 1]
                       ELSE Append(f[k - 1], t1[k])
<1> DEFINE n == Len(t1)
           X == Seq(S)
           Ins(acc, t) == IF gotThisTerm(acc, t) THEN acc ELSE Append(acc, t)
           G == [z \in X \X (1..n) |-> Ins(z[1], t1[z[2]])]
           Eq(h) == h = [s \in SUBSET DOMAIN t1 |->
                           IF s = {} THEN terms ELSE Ins(h[s \ {Max(s)}], t1[Max(s)])]
           it == CHOOSE h : Eq(h)
<1>1. n \in Nat /\ DOMAIN t1 = 1..n /\ \A k \in 1..n : t1[k] \in S
  OBVIOUS
<1>2. \A acc \in X, k \in 1..n : Ins(acc, t1[k]) \in X
  BY <1>1
<1>3. /\ G \in [X \X (1..n) -> X]
      /\ \A acc \in X, k \in 1..n : G[<<acc, k>>] = Ins(acc, t1[k])
  BY <1>2
<1> HIDE DEF n, X, Ins, G
<1>4. PICK h \in [SUBSET (1..n) -> X] : SetSteps(h, n, terms, G)
  <2>1. terms \in X
    BY DEF X
  <2> QED BY ONLY <1>1, <1>3, <2>1, SetRecursion
<1>5. \A s \in SUBSET (1..n) : s # {} => Max(s) \in 1..n /\ s \ {Max(s)} \in SUBSET (1..n)
  BY <1>1, MaxOfSet
<1>6. Eq(h)
  BY <1>1, <1>3, <1>4, <1>5 DEF SetSteps
<1>7. Eq(it)
  BY <1>6
<1>8. insertNewTerms(terms, t1) = it[1..n]
  BY <1>1 DEF insertNewTerms, FoldLeft, MapThenFoldSet, Ins
<1> HIDE DEF it
<1>9. /\ it[{}] = terms
      /\ \A s \in SUBSET (1..n) : s # {} => it[s] = Ins(it[s \ {Max(s)}], t1[Max(s)])
  BY <1>1, <1>7
<1>10. SetStepsWithin(it, n, X, terms, G)
  BY <1>3, <1>5, <1>9 DEF SetStepsWithin
<1>11. PICK f \in [0..n -> X] : f[n] = it[1..n] /\ Steps(f, n, terms, G)
  <2>1. terms \in X
    BY DEF X
  <2> QED BY ONLY <1>1, <1>3, <1>10, <2>1, FoldSteps
<1>12. \A k \in 1..n : f[k] = Ins(f[k - 1], t1[k])
  <2>1. \A k \in 1..n : f[k - 1] \in X
    BY <1>1, <1>11
  <2> QED BY <1>3, <1>11, <2>1 DEF Steps
<1> QED BY <1>8, <1>11, <1>12 DEF n, X, Ins, Steps

\* What is appended is added.
LEMMA AppendSet ==
  ASSUME NEW S, NEW s \in Seq(S), NEW e \in S
  PROVE  ToSet(Append(s, e)) = ToSet(s) \union {e}
<1> DEFINE n == Len(s)
           a == Append(s, e)
<1>1. n \in Nat /\ DOMAIN s = 1..n /\ DOMAIN a = 1..(n + 1)
  OBVIOUS
<1>2. a[n + 1] = e /\ \A k \in 1..n : a[k] = s[k]
  OBVIOUS
<1> HIDE DEF n, a
<1>3. 1..(n + 1) = (1..n) \union {n + 1}
  BY <1>1
<1>4. {a[k] : k \in 1..(n + 1)} = {s[k] : k \in 1..n} \union {e}
  BY ONLY <1>2, <1>3
<1> QED BY <1>1, <1>4 DEF ToSet, a

\* Nothing is lost, and nothing comes in that was not there.
LEMMA InsertTerms ==
  ASSUME NEW S, NEW terms \in Seq(S), NEW t1 \in Seq(S)
  PROVE  /\ insertNewTerms(terms, t1) \in Seq(S)
         /\ ToSet(insertNewTerms(terms, t1)) = ToSet(terms) \union ToSet(t1)
<1>1. PICK f \in [0..Len(t1) -> Seq(S)] :
        /\ f[0] = terms /\ f[Len(t1)] = insertNewTerms(terms, t1)
        /\ \A k \in 1..Len(t1) :
             f[k] = IF gotThisTerm(f[k - 1], t1[k]) THEN f[k - 1]
                    ELSE Append(f[k - 1], t1[k])
  BY InsertSteps
<1>2. Len(t1) \in Nat /\ DOMAIN t1 = 1..Len(t1)
  OBVIOUS
<1> DEFINE upto(k) == {t1[i] : i \in 1..k}
           K == {k \in 0..Len(t1) : ToSet(f[k]) = ToSet(terms) \union upto(k)}
<1>3. 0 \in K
  <2>1. upto(0) = {}
    OBVIOUS
  <2> QED BY <1>1, <1>2, <2>1
<1>4. ASSUME NEW k \in 0..(Len(t1) - 1), k \in K PROVE k + 1 \in K
  <2>1. k + 1 \in 1..Len(t1) /\ k \in 0..Len(t1) /\ (k + 1) - 1 = k
    BY <1>2
  <2>2. upto(k + 1) = upto(k) \union {t1[k + 1]}
    <3>1. 1..(k + 1) = (1..k) \union {k + 1}
      OBVIOUS
    <3> QED BY <3>1
  <2>3. f[k] \in Seq(S) /\ ToSet(f[k]) = ToSet(terms) \union upto(k)
    BY <1>1, <1>4, <2>1
  <2> HIDE DEF upto
  <2>4. CASE gotThisTerm(f[k], t1[k + 1])
    <3>1. f[k + 1] = f[k]
      BY <1>1, <2>1, <2>4
    <3>2. t1[k + 1] \in ToSet(f[k])
      BY <2>4 DEF gotThisTerm, ToSet
    <3> QED BY <2>1, <2>2, <2>3, <3>1, <3>2
  <2>5. CASE ~gotThisTerm(f[k], t1[k + 1])
    <3>1. t1[k + 1] \in S
      BY <2>1
    <3>2. f[k + 1] = Append(f[k], t1[k + 1])
      BY <1>1, <2>1, <2>5
    <3>3. ToSet(f[k + 1]) = ToSet(f[k]) \union {t1[k + 1]}
      BY ONLY <2>3, <3>1, <3>2, AppendSet
    <3> QED BY <2>1, <2>2, <2>3, <3>3
  <2> QED BY <2>4, <2>5
<1> HIDE DEF K
<1>5. 0..Len(t1) \subseteq K
  BY ONLY <1>2, <1>3, <1>4, IntervalSet
<1>6. Len(t1) \in K
  BY <1>2, <1>5
<1>7. upto(Len(t1)) = ToSet(t1)
  BY <1>2 DEF ToSet
<1> QED BY <1>1, <1>2, <1>6, <1>7 DEF K

\* Lists are inserted one after the other.
LEMMA DistinctSteps ==
  ASSUME NEW S, NEW lists \in Seq(Seq(S))
  PROVE  \E f \in [0..Len(lists) -> Seq(S)] :
           /\ f[0] = <<>> /\ f[Len(lists)] = DistinctTerms(lists)
           /\ \A k \in 1..Len(lists) : f[k] = insertNewTerms(f[k - 1], lists[k])
<1> DEFINE n == Len(lists)
           X == Seq(S)
           G == [z \in X \X (1..n) |-> insertNewTerms(z[1], lists[z[2]])]
           Eq(h) == h = [s \in SUBSET DOMAIN lists |->
                           IF s = {} THEN <<>>
                           ELSE insertNewTerms(h[s \ {Max(s)}], lists[Max(s)])]
           it == CHOOSE h : Eq(h)
<1>1. n \in Nat /\ DOMAIN lists = 1..n /\ <<>> \in X /\ \A k \in 1..n : lists[k] \in X
  OBVIOUS
<1>2. \A acc \in X, k \in 1..n : insertNewTerms(acc, lists[k]) \in X
  BY <1>1, InsertTerms
<1>3. /\ G \in [X \X (1..n) -> X]
      /\ \A acc \in X, k \in 1..n : G[<<acc, k>>] = insertNewTerms(acc, lists[k])
  BY <1>2
<1> HIDE DEF n, X, G
<1>4. PICK h \in [SUBSET (1..n) -> X] : SetSteps(h, n, <<>>, G)
  BY ONLY <1>1, <1>3, SetRecursion
<1>5. \A s \in SUBSET (1..n) : s # {} => Max(s) \in 1..n /\ s \ {Max(s)} \in SUBSET (1..n)
  BY <1>1, MaxOfSet
<1>6. Eq(h)
  BY <1>1, <1>3, <1>4, <1>5 DEF SetSteps
<1>7. Eq(it)
  BY <1>6
<1>8. DistinctTerms(lists) = it[1..n]
  BY <1>1 DEF DistinctTerms, FoldLeft, MapThenFoldSet
<1> HIDE DEF it
<1>9. /\ it[{}] = <<>>
      /\ \A s \in SUBSET (1..n) :
           s # {} => it[s] = insertNewTerms(it[s \ {Max(s)}], lists[Max(s)])
  BY <1>1, <1>7
<1>10. SetStepsWithin(it, n, X, <<>>, G)
  BY <1>3, <1>5, <1>9 DEF SetStepsWithin
<1>11. PICK f \in [0..n -> X] : f[n] = it[1..n] /\ Steps(f, n, <<>>, G)
  BY ONLY <1>1, <1>3, <1>10, FoldSteps
<1>12. \A k \in 1..n : f[k] = insertNewTerms(f[k - 1], lists[k])
  <2>1. \A k \in 1..n : f[k - 1] \in X
    BY <1>1, <1>11
  <2> QED BY <1>3, <1>11, <2>1 DEF Steps
<1> QED BY <1>8, <1>11, <1>12 DEF n, X, Steps

\* The terms of the lists, and no other.
LEMMA DistinctTermsOf ==
  ASSUME NEW S, NEW lists \in Seq(Seq(S))
  PROVE  /\ DistinctTerms(lists) \in Seq(S)
         /\ ToSet(DistinctTerms(lists)) = UNION {ToSet(lists[i]) : i \in DOMAIN lists}
<1>1. PICK f \in [0..Len(lists) -> Seq(S)] :
        /\ f[0] = <<>> /\ f[Len(lists)] = DistinctTerms(lists)
        /\ \A k \in 1..Len(lists) : f[k] = insertNewTerms(f[k - 1], lists[k])
  BY DistinctSteps
<1>2. Len(lists) \in Nat /\ DOMAIN lists = 1..Len(lists)
  OBVIOUS
<1> DEFINE upto(k) == UNION {ToSet(lists[i]) : i \in 1..k}
           K == {k \in 0..Len(lists) : ToSet(f[k]) = upto(k)}
<1>3. 0 \in K
  <2>1. upto(0) = {} /\ ToSet(<<>>) = {}
    BY DEF ToSet
  <2> QED BY <1>1, <1>2, <2>1
<1>4. ASSUME NEW k \in 0..(Len(lists) - 1), k \in K PROVE k + 1 \in K
  <2>1. k + 1 \in 1..Len(lists) /\ k \in 0..Len(lists) /\ (k + 1) - 1 = k
    BY <1>2
  <2>2. upto(k + 1) = upto(k) \union ToSet(lists[k + 1])
    <3>1. 1..(k + 1) = (1..k) \union {k + 1}
      OBVIOUS
    <3> QED BY <3>1
  <2>3. /\ f[k] \in Seq(S) /\ ToSet(f[k]) = upto(k) /\ lists[k + 1] \in Seq(S)
        /\ f[k + 1] = insertNewTerms(f[k], lists[k + 1])
    BY <1>1, <1>4, <2>1
  <2> HIDE DEF upto
  <2>4. ToSet(f[k + 1]) = ToSet(f[k]) \union ToSet(lists[k + 1])
    BY <2>3, InsertTerms
  <2>5. k + 1 \in 0..Len(lists) /\ ToSet(f[k + 1]) = upto(k + 1)
    BY <2>1, <2>2, <2>3, <2>4
  <2> QED BY <2>5
<1> HIDE DEF K
<1>5. 0..Len(lists) \subseteq K
  BY ONLY <1>2, <1>3, <1>4, IntervalSet
<1>6. Len(lists) \in K
  BY <1>2, <1>5
<1> QED BY <1>1, <1>2, <1>6 DEF K

\* The terms of a conjunction are those of its literals,
LEMMA ConjunctionTerms ==
  ASSUME NEW ps \in Conjunctions
  PROVE  /\ getAllDistinctTerms(ps) \in Seq(Words)
         /\ \A i \in DOMAIN ps : ToSet(ps[i].terms) \subseteq ToSet(getAllDistinctTerms(ps))
<1> DEFINE lists == [i \in DOMAIN ps |-> ps[i].terms]
<1>1. lists \in Seq(Seq(Words))
  <2>1. ps \in Seq(Predicates) /\ \A i \in DOMAIN ps : ps[i] \in Predicates
    BY DEF Conjunctions
  <2>2. \A i \in DOMAIN ps : ps[i].terms \in Seq(Words)
    BY <2>1 DEF Predicates
  <2>3. DOMAIN ps = 1..Len(ps) /\ Len(ps) \in Nat
    BY <2>1
  <2> QED BY <2>2, <2>3
<1>2. DOMAIN lists = DOMAIN ps /\ \A i \in DOMAIN ps : lists[i] = ps[i].terms
  OBVIOUS
<1>3. getAllDistinctTerms(ps) = DistinctTerms(lists)
  BY DEF getAllDistinctTerms
<1> HIDE DEF lists
<1>4. /\ DistinctTerms(lists) \in Seq(Words)
      /\ ToSet(DistinctTerms(lists)) = UNION {ToSet(lists[i]) : i \in DOMAIN lists}
  BY <1>1, DistinctTermsOf
<1> QED BY <1>2, <1>3, <1>4

\* and those of a default are the terms of its three parts.
LEMMA DefaultTerms ==
  ASSUME NEW d, IsDefault(d)
  PROVE  /\ ToSet(getAllDistinctTerms(d.prerequisite)) \subseteq ToSet(AllDistinctTerms(d))
         /\ ToSet(getAllDistinctTerms(d.conclusion)) \subseteq ToSet(AllDistinctTerms(d))
         /\ \A i \in DOMAIN d.justifications :
              ToSet(getAllDistinctTerms(d.justifications[i])) \subseteq ToSet(AllDistinctTerms(d))
<1> DEFINE lists == [i \in DOMAIN d.justifications |-> getAllDistinctTerms(d.justifications[i])]
           pre == getAllDistinctTerms(d.prerequisite)
           just == DistinctTerms(lists)
           con == getAllDistinctTerms(d.conclusion)
<1>1. pre \in Seq(Words) /\ con \in Seq(Words)
  BY ConjunctionTerms DEF IsDefault
<1>2. /\ d.justifications \in Seq(Conjunctions \ {<<>>})
      /\ \A i \in DOMAIN d.justifications : d.justifications[i] \in Conjunctions
      /\ DOMAIN d.justifications = 1..Len(d.justifications) /\ Len(d.justifications) \in Nat
  BY DEF IsDefault, Justifications
<1>3. \A i \in DOMAIN d.justifications : lists[i] \in Seq(Words)
  BY <1>2, ConjunctionTerms
<1>4. lists \in Seq(Seq(Words)) /\ DOMAIN lists = DOMAIN d.justifications
  <2>1. DOMAIN lists = DOMAIN d.justifications
    OBVIOUS
  <2>2. lists \in [DOMAIN d.justifications -> Seq(Words)]
    BY <1>3
  <2> HIDE DEF lists
  <2>3. lists \in [1..Len(d.justifications) -> Seq(Words)]
    BY <1>2, <2>2
  <2>4. lists \in Seq(Seq(Words))
    BY ONLY <1>2, <2>3
  <2> QED BY <2>1, <2>4
<1>5. /\ just \in Seq(Words)
      /\ ToSet(just) = UNION {ToSet(lists[i]) : i \in DOMAIN lists}
  BY <1>4, DistinctTermsOf
<1>6. AllDistinctTerms(d) = insertNewTerms(insertNewTerms(pre, just), con)
  BY DEF AllDistinctTerms, DistinctTermsOfLists
<1>7. \A i \in DOMAIN d.justifications : lists[i] = getAllDistinctTerms(d.justifications[i])
  OBVIOUS
<1> HIDE DEF lists, pre, just, con
<1>8. /\ insertNewTerms(pre, just) \in Seq(Words)
      /\ ToSet(insertNewTerms(pre, just)) = ToSet(pre) \union ToSet(just)
  BY <1>1, <1>5, InsertTerms
<1>9. ToSet(AllDistinctTerms(d)) = ToSet(pre) \union ToSet(just) \union ToSet(con)
  BY <1>1, <1>6, <1>8, InsertTerms
<1> QED BY <1>4, <1>5, <1>7, <1>9 DEF pre, con

-----------------------------------------------------------------------------
(* Safety of rules. *)

\* A rule is safe if its positive body has every variable of its other atoms.
LEMMA BoundRule ==
  ASSUME NEW r,
         \A a \in {r.head} \union r.neg \union r.dl :
           VarsOfTerms(a.terms) \subseteq VarsOfAtoms(r.pos)
  PROVE  Unbound(r) = {}
BY DEF Unbound, VarsOfRule, VarsOfAtoms

\* The atoms that are added to a body for some terms have their variables.
LEMMA SafetyBinds ==
  ASSUME NEW d, NEW terms
  PROVE  VarsOfTerms(terms) \subseteq VarsOfAtoms(SafetyBody(d, terms))
<1> SUFFICES ASSUME NEW t \in VarsOfTerms(terms)
             PROVE  t \in VarsOfAtoms(SafetyBody(d, terms))
  OBVIOUS
<1>1. t \in ToSet(terms) /\ isVar(t)
  BY DEF VarsOfTerms
<1>2. CASE \E i \in DOMAIN d.argument : gotThisTerm(d.argument[i].terms, t)
  <2>1. PICK i \in DOMAIN d.argument : gotThisTerm(d.argument[i].terms, t)
    BY <1>2
  <2> DEFINE a == Atom(d.argument[i].name, d.argument[i].terms)
  <2>2. a \in SafetyBody(d, terms)
    BY DEF SafetyBody
  <2>3. a.terms = d.argument[i].terms
    BY DEF Atom
  <2>4. t \in VarsOfTerms(a.terms)
    BY <1>1, <2>1, <2>3 DEF VarsOfTerms, ToSet, gotThisTerm
  <2> HIDE DEF a
  <2> QED BY <2>2, <2>4 DEF VarsOfAtoms
<1>3. CASE \A i \in DOMAIN d.argument : ~gotThisTerm(d.argument[i].terms, t)
  <2> DEFINE a == Atom(<<"dom">>, <<t>>)
  <2>1. a \in SafetyBody(d, terms)
    BY <1>1, <1>3 DEF SafetyBody
  <2>2. a.terms = <<t>>
    BY DEF Atom
  <2>3. t \in VarsOfTerms(a.terms)
    <3>1. DOMAIN <<t>> = {1} /\ <<t>>[1] = t
      OBVIOUS
    <3>2. t \in ToSet(<<t>>)
      BY <3>1 DEF ToSet
    <3> QED BY <1>1, <2>2, <3>2 DEF VarsOfTerms
  <2> HIDE DEF a
  <2> QED BY <2>1, <2>3 DEF VarsOfAtoms
<1> QED BY <1>2, <1>3

\* The dl-atoms that ask for a conjunction have no variables but its own,
LEMMA BodyTerms ==
  ASSUME NEW ps \in Conjunctions, NEW cqmode, NEW lambda, NEW naf,
         NEW a \in Bodies(cqmode, lambda, ps, naf)
  PROVE  VarsOfTerms(a.terms) \subseteq VarsOfTerms(getAllDistinctTerms(ps))
<1>1. CASE a = DLAtom(naf, lambda, <<ps>>, getAllDistinctTerms(ps))
  BY <1>1 DEF DLAtom
<1>2. CASE a \in getDLBodies(lambda, ps, naf)
  <2>1. PICK i \in DOMAIN ps : a = DLAtom(naf, lambda, <<<<ps[i]>>>>, ps[i].terms)
    BY <1>2 DEF getDLBodies
  <2>2. a.terms = ps[i].terms
    BY <2>1 DEF DLAtom
  <2>3. ToSet(ps[i].terms) \subseteq ToSet(getAllDistinctTerms(ps))
    BY ConjunctionTerms
  <2> QED BY <2>2, <2>3 DEF VarsOfTerms
<1> QED BY <1>1, <1>2 DEF Bodies

\* and so have those that ask for the negation of a justification.
LEMMA NegatedTerms ==
  ASSUME NEW just \in Conjunctions \ {<<>>}, NEW cqmode, NEW naf, NEW lambda
  PROVE  VarsOfTerms(NegatedJustification(cqmode, naf, lambda, just).terms)
           \subseteq VarsOfTerms(getAllDistinctTerms(just))
<1> DEFINE a == NegatedJustification(cqmode, naf, lambda, just)
<1>1. a.terms = getAllDistinctTerms(just) \/ a.terms = just[1].terms
  BY DEF NegatedJustification, DLAtom
<1>2. 1 \in DOMAIN just
  BY DEF Conjunctions
<1>3. ToSet(just[1].terms) \subseteq ToSet(getAllDistinctTerms(just))
  BY <1>2, ConjunctionTerms
<1> HIDE DEF a
<1> QED BY <1>1, <1>3 DEF a, VarsOfTerms

\* A constraint is safe if the atom it rejects has the variables of its dl-atoms.
LEMMA SafeConstraint ==
  ASSUME NEW D, NEW p, \A a \in D : VarsOfTerms(a.terms) \subseteq VarsOfTerms(p.terms)
  PROVE  Unbound(Constraint(D, {p})) = {}
<1> DEFINE r == Constraint(D, {p})
<1>1. r.head = Fail /\ r.neg = {Fail} /\ r.pos = {p} /\ r.dl = D
  BY DEF Constraint, DLRule
<1>2. Fail.terms = <<>>
  BY DEF Fail, Atom
<1>3. VarsOfTerms(<<>>) = {}
  BY DEF VarsOfTerms, ToSet
<1>4. VarsOfAtoms(r.pos) = VarsOfTerms(p.terms)
  BY <1>1 DEF VarsOfAtoms
<1> HIDE DEF r
<1>5. \A a \in {r.head} \union r.neg \union r.dl :
        VarsOfTerms(a.terms) \subseteq VarsOfAtoms(r.pos)
  BY <1>1, <1>2, <1>3, <1>4
<1>6. Unbound(r) = {}
  BY <1>5, BoundRule
<1> QED BY <1>6 DEF r

\* A rule with a body is safe.
Safe(r) == r.pos \union r.neg \union r.dl # {} => Unbound(r) = {}

\* The rules from the name of a conjunction to its literals are,
LEMMA SafeLiterals ==
  ASSUME NEW d, IsDefault(d), NEW name, NEW prefix,
         NEW r \in additionalDLRules4Conclusion(d, Atom(name, getAllDistinctTerms(d.conclusion)),
                                                prefix)
  PROVE  Safe(r)
<1> DEFINE p_all == Atom(name, getAllDistinctTerms(d.conclusion))
<1>1. p_all.terms = getAllDistinctTerms(d.conclusion)
  BY DEF Atom
<1> HIDE DEF p_all
<1>2. PICK i \in DOMAIN d.conclusion :
        r = DLRule(Atom(<<prefix>> \o getSignedPredicateName(d.conclusion[i]),
                        d.conclusion[i].terms), {}, {p_all}, {})
  BY DEF additionalDLRules4Conclusion, p_all
<1>3. /\ r.head.terms = d.conclusion[i].terms
      /\ r.dl = {} /\ r.pos = {p_all} /\ r.neg = {}
  BY <1>2 DEF DLRule, Atom
<1>4. ToSet(d.conclusion[i].terms) \subseteq ToSet(getAllDistinctTerms(d.conclusion))
  BY ConjunctionTerms DEF IsDefault
<1>5. VarsOfAtoms(r.pos) = VarsOfTerms(p_all.terms)
  BY <1>3 DEF VarsOfAtoms
<1>6. VarsOfTerms(r.head.terms) \subseteq VarsOfAtoms(r.pos)
  BY <1>1, <1>3, <1>4, <1>5 DEF VarsOfTerms
<1>7. \A a \in {r.head} \union r.neg \union r.dl :
        VarsOfTerms(a.terms) \subseteq VarsOfAtoms(r.pos)
  BY <1>3, <1>6
<1>8. Unbound(r) = {}
  BY <1>7, BoundRule
<1> QED BY <1>8 DEF Safe

\* and facts have no body.
LEMMA SafeFacts ==
  ASSUME NEW d, NEW r \in getFacts_Pi(d) \union getFacts_Omega_Upsilon(d)
  PROVE  Safe(r)
<1>1. CASE r \in getFacts_Pi(d)
  <2>1. PICK prefix \in {"in_", "p_"}, i \in DOMAIN d.conclusion :
          r = DLRule(Atom(<<prefix>> \o d.conclusion[i].name, d.conclusion[i].terms), {}, {}, {})
    BY <1>1 DEF getFacts_Pi
  <2>2. r.pos = {} /\ r.neg = {} /\ r.dl = {}
    BY <2>1 DEF DLRule
  <2> QED BY <2>2 DEF Safe
<1>2. CASE r \in getFacts_Omega_Upsilon(d)
  <2>1. PICK i \in DOMAIN d.conclusion :
          r = DLRule(Atom(<<"in_">> \o d.conclusion[i].name, d.conclusion[i].terms), {}, {}, {})
    BY <1>2 DEF getFacts_Omega_Upsilon
  <2>2. r.pos = {} /\ r.neg = {} /\ r.dl = {}
    BY <2>1 DEF DLRule
  <2> QED BY <2>2 DEF Safe
<1> QED BY <1>1, <1>2

\* The variables of a conjunction are variables of the default.
LEMMA DefaultVars ==
  ASSUME NEW d, IsDefault(d)
  PROVE  /\ VarsOfTerms(getAllDistinctTerms(d.prerequisite))
              \subseteq VarsOfTerms(AllDistinctTerms(d))
         /\ VarsOfTerms(getAllDistinctTerms(d.conclusion))
              \subseteq VarsOfTerms(AllDistinctTerms(d))
         /\ \A i \in DOMAIN d.justifications :
              VarsOfTerms(getAllDistinctTerms(d.justifications[i]))
                \subseteq VarsOfTerms(AllDistinctTerms(d))
BY DefaultTerms DEF VarsOfTerms

\* A rule whose body has the atoms that make some terms safe, and others, is safe if its
\* other atoms have no variables but those.
LEMMA SafeByBody ==
  ASSUME NEW d, NEW terms, NEW r, SafetyBody(d, terms) \subseteq r.pos,
         \A a \in {r.head} \union r.neg \union r.dl :
           VarsOfTerms(a.terms) \subseteq VarsOfTerms(terms)
  PROVE  Unbound(r) = {}
<1>1. VarsOfTerms(terms) \subseteq VarsOfAtoms(r.pos)
  <2>1. VarsOfTerms(terms) \subseteq VarsOfAtoms(SafetyBody(d, terms))
    BY SafetyBinds
  <2>2. VarsOfAtoms(SafetyBody(d, terms)) \subseteq VarsOfAtoms(r.pos)
    BY DEF VarsOfAtoms
  <2> QED BY <2>1, <2>2
<1> QED BY <1>1, BoundRule

\* The rule that derives a conclusion from the whole default is safe, with other atoms
\* in its body or without.
LEMMA SafeDerivation ==
  ASSUME NEW d, IsDefault(d), NEW prefix, NEW cqmode, NEW lambda, NEW negated, NEW more,
         \A a \in negated : VarsOfTerms(a.terms) \subseteq VarsOfTerms(AllDistinctTerms(d))
  PROVE  Safe(DLRule(Conclusion(d, prefix),
                     Bodies(cqmode, lambda, d.prerequisite, FALSE) \union negated,
                     SafetyBody(d, AllDistinctTerms(d)) \union more, {}))
<1> DEFINE r == DLRule(Conclusion(d, prefix),
                       Bodies(cqmode, lambda, d.prerequisite, FALSE) \union negated,
                       SafetyBody(d, AllDistinctTerms(d)) \union more, {})
<1>1. /\ r.head.terms = getAllDistinctTerms(d.conclusion)
      /\ r.dl = Bodies(cqmode, lambda, d.prerequisite, FALSE) \union negated
      /\ r.pos = SafetyBody(d, AllDistinctTerms(d)) \union more
      /\ r.neg = {}
  BY DEF DLRule, Conclusion, Atom
<1> HIDE DEF r
<1>2. \A a \in Bodies(cqmode, lambda, d.prerequisite, FALSE) :
        VarsOfTerms(a.terms) \subseteq VarsOfTerms(AllDistinctTerms(d))
  <2>1. d.prerequisite \in Conjunctions
    BY DEF IsDefault
  <2>2. \A a \in Bodies(cqmode, lambda, d.prerequisite, FALSE) :
          VarsOfTerms(a.terms) \subseteq VarsOfTerms(getAllDistinctTerms(d.prerequisite))
    BY <2>1, BodyTerms
  <2> QED BY <2>2, DefaultVars
<1>3. \A a \in {r.head} \union r.neg \union r.dl :
        VarsOfTerms(a.terms) \subseteq VarsOfTerms(AllDistinctTerms(d))
  BY <1>1, <1>2, DefaultVars
<1>4. SafetyBody(d, AllDistinctTerms(d)) \subseteq r.pos
  BY <1>1
<1>5. Unbound(r) = {}
  BY <1>3, <1>4, SafeByBody
<1> QED BY <1>5 DEF Safe, r

\* The two rules that guess between a pair of atoms with the same terms are safe.
LEMMA SafeGuess ==
  ASSUME NEW d, NEW terms, NEW p, NEW q, p.terms = terms, q.terms = terms
  PROVE  Safe(DLRule(p, {}, SafetyBody(d, terms), {q}))
<1> DEFINE r == DLRule(p, {}, SafetyBody(d, terms), {q})
<1>1. r.head = p /\ r.dl = {} /\ r.pos = SafetyBody(d, terms) /\ r.neg = {q}
  BY DEF DLRule
<1> HIDE DEF r
<1>2. \A a \in {r.head} \union r.neg \union r.dl :
        VarsOfTerms(a.terms) \subseteq VarsOfTerms(terms)
  BY <1>1
<1>3. Unbound(r) = {}
  BY <1>1, <1>2, SafeByBody
<1> QED BY <1>3 DEF Safe, r

\* So is a constraint between the dl-atoms of a conjunction and an atom with its terms.
LEMMA SafeTest ==
  ASSUME NEW ps \in Conjunctions, NEW cqmode, NEW lambda, NEW naf, NEW p,
         p.terms = getAllDistinctTerms(ps)
  PROVE  Safe(Constraint(Bodies(cqmode, lambda, ps, naf), {p}))
<1>1. \A a \in Bodies(cqmode, lambda, ps, naf) :
        VarsOfTerms(a.terms) \subseteq VarsOfTerms(p.terms)
  BY BodyTerms
<1> QED BY <1>1, SafeConstraint DEF Safe

\* The same for one literal of it.
LEMMA SafeLiteralTest ==
  ASSUME NEW l, NEW lambda, NEW naf, NEW p, p.terms = l.terms
  PROVE  Safe(Constraint(getDLBodies(lambda, <<l>>, naf), {p}))
<1>1. DOMAIN <<l>> = {1} /\ <<l>>[1] = l
  OBVIOUS
<1>2. \A a \in getDLBodies(lambda, <<l>>, naf) :
        VarsOfTerms(a.terms) \subseteq VarsOfTerms(p.terms)
  BY <1>1 DEF getDLBodies, DLAtom
<1> QED BY <1>2, SafeConstraint DEF Safe

-----------------------------------------------------------------------------
(* The three rewritings. *)

\* The dl-atoms that negate the justifications have no variables but the default's.
LEMMA JustificationVars ==
  ASSUME NEW d, IsDefault(d), NEW cqmode, NEW naf, NEW lambda,
         NEW i \in DOMAIN d.justifications
  PROVE  /\ d.justifications[i] \in Conjunctions \ {<<>>}
         /\ VarsOfTerms(NegatedJustification(cqmode, naf, lambda, d.justifications[i]).terms)
              \subseteq VarsOfTerms(getAllDistinctTerms(d.justifications[i]))
         /\ VarsOfTerms(NegatedJustification(cqmode, naf, lambda, d.justifications[i]).terms)
              \subseteq VarsOfTerms(AllDistinctTerms(d))
<1>1. d.justifications[i] \in Conjunctions \ {<<>>}
  BY DEF IsDefault, Justifications
<1>2. VarsOfTerms(NegatedJustification(cqmode, naf, lambda, d.justifications[i]).terms)
        \subseteq VarsOfTerms(getAllDistinctTerms(d.justifications[i]))
  BY <1>1, NegatedTerms
<1> QED BY <1>1, <1>2, DefaultVars

\* Omega: one rule that is the default itself.
LEMMA SafeOmega ==
  ASSUME NEW d, IsDefault(d), NEW lambda, NEW cqmode,
         NEW r \in getDLRules_Omega(d, lambda, cqmode)
  PROVE  Safe(r)
<1> DEFINE negated == {NegatedJustification(cqmode, TRUE, lambda, j) : j \in ToSet(d.justifications)}
           p == Conclusion(d, "in_")
           rule == DLRule(p, Bodies(cqmode, lambda, d.prerequisite, FALSE) \union negated,
                          SafetyBody(d, AllDistinctTerms(d)), {})
<1>1. CASE r \in getFacts_Omega_Upsilon(d)
  BY <1>1, SafeFacts
<1>2. CASE r = rule
  <2>1. \A a \in negated : VarsOfTerms(a.terms) \subseteq VarsOfTerms(AllDistinctTerms(d))
    BY JustificationVars DEF ToSet
  <2>2. rule = DLRule(p, Bodies(cqmode, lambda, d.prerequisite, FALSE) \union negated,
                      SafetyBody(d, AllDistinctTerms(d)) \union {}, {})
    OBVIOUS
  <2> HIDE DEF negated
  <2> QED BY <1>2, <2>1, <2>2, SafeDerivation
<1>3. CASE r \in additionalDLRules4Conclusion(d, p, "in_")
  BY <1>3, SafeLiterals DEF Conclusion
<1> QED BY <1>1, <1>2, <1>3 DEF getDLRules_Omega

\* Pi: the conclusion is guessed, derived and compared.
LEMMA SafePi ==
  ASSUME NEW d, IsDefault(d), NEW lambda, NEW lambda_prime, NEW cqmode,
         NEW r \in getDLRules_Pi(d, lambda, lambda_prime, cqmode)
  PROVE  Safe(r)
<1> DEFINE p_in == Conclusion(d, "in_")
           p_out == Conclusion(d, "out_")
           p_p == Conclusion(d, "p_")
           terms == getAllDistinctTerms(d.conclusion)
           safe == SafetyBody(d, terms)
           negated == {NegatedJustification(cqmode, TRUE, lambda_prime, j) :
                         j \in ToSet(d.justifications)}
           Literal(prefix, i) ==
             Atom(<<prefix>> \o getSignedPredicateName(d.conclusion[i]), d.conclusion[i].terms)
<1>1. d.conclusion \in Conjunctions
  BY DEF IsDefault
<1>2. p_in.terms = terms /\ p_out.terms = terms /\ p_p.terms = terms
  BY DEF Conclusion, Atom
<1>3. \A prefix, i : Literal(prefix, i).terms = d.conclusion[i].terms
  BY DEF Atom
<1>4. CASE r \in getFacts_Pi(d)
  BY <1>4, SafeFacts
<1>5. CASE r \in {DLRule(p_in, {}, safe, {p_out}), DLRule(p_out, {}, safe, {p_in})}
  <2> HIDE DEF p_in, p_out, p_p, terms
  <2> QED BY <1>2, <1>5, SafeGuess
<1>6. CASE r = Constraint(Bodies(cqmode, lambda_prime, d.conclusion, FALSE), {p_out})
  <2> HIDE DEF p_in, p_out, p_p
  <2> QED BY <1>1, <1>2, <1>6, SafeTest
<1>7. CASE r = DLRule(p_p, Bodies(cqmode, lambda, d.prerequisite, FALSE) \union negated,
                      SafetyBody(d, AllDistinctTerms(d)), {})
  <2>1. \A a \in negated : VarsOfTerms(a.terms) \subseteq VarsOfTerms(AllDistinctTerms(d))
    BY JustificationVars DEF ToSet
  <2> HIDE DEF negated
  <2>2. r = DLRule(p_p, Bodies(cqmode, lambda, d.prerequisite, FALSE) \union negated,
                   SafetyBody(d, AllDistinctTerms(d)) \union {}, {})
    BY <1>7
  <2> QED BY <2>1, <2>2, SafeDerivation
<1>8. CASE r \in additionalDLRules4Conclusion(d, p_in, "in_")
                   \union additionalDLRules4Conclusion(d, p_p, "p_")
  BY <1>8, SafeLiterals DEF Conclusion
<1>9. CASE r \in {Constraint(Bodies(TRUE, lambda, d.conclusion, TRUE), {p_in}),
                  Constraint(Bodies(TRUE, lambda, d.conclusion, FALSE), {p_out})}
  <2> HIDE DEF p_in, p_out, p_p
  <2>1. CASE r = Constraint(Bodies(TRUE, lambda, d.conclusion, TRUE), {p_in})
    BY <1>1, <1>2, <2>1, SafeTest
  <2>2. CASE r = Constraint(Bodies(TRUE, lambda, d.conclusion, FALSE), {p_out})
    BY <1>1, <1>2, <2>2, SafeTest
  <2> QED BY <1>9, <2>1, <2>2
<1>10. CASE r \in {Constraint(getDLBodies(lambda, <<d.conclusion[i]>>, TRUE), {Literal("in_", i)}) :
                     i \in DOMAIN d.conclusion}
  <2>1. PICK i : r = Constraint(getDLBodies(lambda, <<d.conclusion[i]>>, TRUE), {Literal("in_", i)})
    BY <1>10
  <2> HIDE DEF Literal
  <2> QED BY <1>3, <2>1, SafeLiteralTest
<1>11. CASE r \in {Constraint(getDLBodies(lambda, <<d.conclusion[i]>>, FALSE),
                              {Literal("out_", i)}) : i \in DOMAIN d.conclusion}
  <2>1. PICK i : r = Constraint(getDLBodies(lambda, <<d.conclusion[i]>>, FALSE),
                                {Literal("out_", i)})
    BY <1>11
  <2> HIDE DEF Literal
  <2> QED BY <1>3, <2>1, SafeLiteralTest
<1>12. \/ r \in getFacts_Pi(d)
       \/ r \in {DLRule(p_in, {}, safe, {p_out}), DLRule(p_out, {}, safe, {p_in})}
       \/ r = Constraint(Bodies(cqmode, lambda_prime, d.conclusion, FALSE), {p_out})
       \/ r = DLRule(p_p, Bodies(cqmode, lambda, d.prerequisite, FALSE) \union negated,
                     SafetyBody(d, AllDistinctTerms(d)), {})
       \/ r \in additionalDLRules4Conclusion(d, p_in, "in_")
                  \union additionalDLRules4Conclusion(d, p_p, "p_")
       \/ r \in {Constraint(Bodies(TRUE, lambda, d.conclusion, TRUE), {p_in}),
                 Constraint(Bodies(TRUE, lambda, d.conclusion, FALSE), {p_out})}
       \/ r \in {Constraint(getDLBodies(lambda, <<d.conclusion[i]>>, TRUE), {Literal("in_", i)}) :
                   i \in DOMAIN d.conclusion}
       \/ r \in {Constraint(getDLBodies(lambda, <<d.conclusion[i]>>, FALSE),
                            {Literal("out_", i)}) : i \in DOMAIN d.conclusion}
  BY Zenon DEF getDLRules_Pi
<1> QED BY <1>4, <1>5, <1>6, <1>7, <1>8, <1>9, <1>10, <1>11, <1>12

\* Upsilon: the justifications are guessed and tested.
LEMMA SafeUpsilon ==
  ASSUME NEW d, IsDefault(d), NEW lambda, NEW cqmode,
         NEW r \in getDLRules_Upsilon(d, lambda, cqmode)
  PROVE  Safe(r)
<1> DEFINE Guess(prefix, j) ==
             Atom(behalf_name(d.justifications[j], prefix, d.id, j),
                  getAllDistinctTerms(d.justifications[j]))
           safe(j) == SafetyBody(d, getAllDistinctTerms(d.justifications[j]))
           Negated(naf, j) == {NegatedJustification(cqmode, naf, lambda, d.justifications[j])}
           guesses == {Guess("cons_", j) : j \in DOMAIN d.justifications}
           p == Conclusion(d, "in_")
<1>1. \A prefix, j : Guess(prefix, j).terms = getAllDistinctTerms(d.justifications[j])
  BY DEF Atom
<1>2. CASE r \in getFacts_Omega_Upsilon(d)
  BY <1>2, SafeFacts
<1>3. CASE r = DLRule(p, Bodies(cqmode, lambda, d.prerequisite, FALSE),
                      SafetyBody(d, AllDistinctTerms(d)) \union guesses, {})
  <2>1. r = DLRule(p, Bodies(cqmode, lambda, d.prerequisite, FALSE) \union {},
                   SafetyBody(d, AllDistinctTerms(d)) \union guesses, {})
    BY <1>3
  <2> HIDE DEF guesses
  <2> QED BY <2>1, SafeDerivation
<1>4. CASE r \in additionalDLRules4Conclusion(d, p, "in_")
  BY <1>4, SafeLiterals DEF Conclusion
<1>5. ASSUME NEW j \in DOMAIN d.justifications,
             r \in {DLRule(Guess("cons_", j), {}, safe(j), {Guess("incons_", j)}),
                    DLRule(Guess("incons_", j), {}, safe(j), {Guess("cons_", j)}),
                    Constraint(Negated(FALSE, j), {Guess("cons_", j)}),
                    Constraint(Negated(TRUE, j), {Guess("incons_", j)})}
      PROVE  Safe(r)
  <2> DEFINE terms == getAllDistinctTerms(d.justifications[j])
  <2>1. Guess("cons_", j).terms = terms /\ Guess("incons_", j).terms = terms
    BY <1>1
  <2>2. \A naf : \A a \in Negated(naf, j) : VarsOfTerms(a.terms) \subseteq VarsOfTerms(terms)
    BY JustificationVars
  <2>3. safe(j) = SafetyBody(d, terms)
    OBVIOUS
  <2> HIDE DEF Guess, Negated, safe, terms
  <2>4. CASE r \in {DLRule(Guess("cons_", j), {}, safe(j), {Guess("incons_", j)}),
                    DLRule(Guess("incons_", j), {}, safe(j), {Guess("cons_", j)})}
    BY <2>1, <2>3, <2>4, SafeGuess
  <2>5. CASE r = Constraint(Negated(FALSE, j), {Guess("cons_", j)})
    <3>1. Unbound(r) = {}
      BY <2>1, <2>2, <2>5, SafeConstraint
    <3> QED BY <3>1 DEF Safe
  <2>6. CASE r = Constraint(Negated(TRUE, j), {Guess("incons_", j)})
    <3>1. Unbound(r) = {}
      BY <2>1, <2>2, <2>6, SafeConstraint
    <3> QED BY <3>1 DEF Safe
  <2> QED BY <1>5, <2>4, <2>5, <2>6
<1>6. \/ r \in getFacts_Omega_Upsilon(d)
      \/ r = DLRule(p, Bodies(cqmode, lambda, d.prerequisite, FALSE),
                    SafetyBody(d, AllDistinctTerms(d)) \union guesses, {})
      \/ r \in additionalDLRules4Conclusion(d, p, "in_")
      \/ \E j \in DOMAIN d.justifications :
           r \in {DLRule(Guess("cons_", j), {}, safe(j), {Guess("incons_", j)}),
                  DLRule(Guess("incons_", j), {}, safe(j), {Guess("cons_", j)}),
                  Constraint(Negated(FALSE, j), {Guess("cons_", j)}),
                  Constraint(Negated(TRUE, j), {Guess("incons_", j)})}
  BY Zenon DEF getDLRules_Upsilon
<1> QED BY <1>2, <1>3, <1>4, <1>5, <1>6

\* Every rule that is made of well-formed defaults is safe if it has a body.
LEMMA SafeRules ==
  ASSUME NEW dfs, \A i \in DOMAIN dfs : IsDefault(dfs[i]), NEW cqmode, NEW dftrans,
         NEW r \in getDLRules(dfs, cqmode, dftrans)
  PROVE  Safe(r)
<1> DEFINE in == getLambda(dfs, "in_")
           p == getLambda(dfs, "p_")
<1>1. PICK i \in DOMAIN dfs :
        r \in CASE dftrans = 1 -> getDLRules_Pi(dfs[i], p, in, cqmode)
                [] dftrans = 2 -> getDLRules_Omega(dfs[i], in, cqmode)
                [] dftrans = 3 -> getDLRules_Upsilon(dfs[i], in, cqmode)
                [] OTHER -> {}
  BY DEF getDLRules
<1> HIDE DEF in, p
<1>2. CASE dftrans = 1
  BY <1>1, <1>2, SafePi
<1>3. CASE dftrans = 2
  BY <1>1, <1>3, SafeOmega
<1>4. CASE dftrans = 3
  BY <1>1, <1>4, SafeUpsilon
<1>5. CASE dftrans \notin {1, 2, 3}
  BY <1>1, <1>5
<1> QED BY <1>2, <1>3, <1>4, <1>5

-----------------------------------------------------------------------------
(* The parser. *)

Arguments == {a \in Seq([name : Seq(Words), terms : Seq(Words)]) : Len(a) <= 1}

\* Statics whose lists hold what they are for, and that agree with s in what only
\* push_default and push_others change.
Ready(s) ==
  [lst_term : Seq(Words), lst_predicate : Conjunctions, lst_justification : Justifications,
   prerequisite : Conjunctions, justifications : Justifications, conclusion : Conjunctions,
   argument : Arguments, defaults : {s.defaults}, others : {s.others},
   namespaces : {s.namespaces}]

\* A place in the file, or none.
Places(s) == [at : 0..(Len(input) + 1), s : Ready(s)]

\* Behind a literal there is a predicate in the list.
BehindLiteral(s) == {r \in Places(s) : r.at # 0 => r.s.lst_predicate # <<>>}

\* The characters of the file.
InputInv ==
  /\ input \in Seq(ToSet(input))
  /\ \A tok \in ToSet(input) : IsToken(tok)

\* They are tokens, at the places from one to their number.
LEMMA InputTokens ==
  ASSUME InputInv
  PROVE  /\ Len(input) \in Nat /\ DOMAIN input = 1..Len(input)
         /\ \A i \in DOMAIN input : IsToken(input[i])
<1>1. input \in Seq(ToSet(input)) /\ \A tok \in ToSet(input) : IsToken(tok)
  BY DEF InputInv
<1>2. Len(input) \in Nat /\ DOMAIN input = 1..Len(input)
  BY <1>1
<1> QED BY <1>1, <1>2 DEF ToSet

\* To go back is to take the statics of the place that was tried.
LEMMA BackPlace ==
  ASSUME NEW S, NEW r \in Places(S), NEW a \in Places(S)
  PROVE  BackTo(r, a) \in Places(S) /\ BackTo(r, a).at = r.at /\ BackTo(r, a).s = a.s
<1> DEFINE A == 0..(Len(input) + 1)
           Y == Ready(S)
<1>1. r \in [at : A, s : Y] /\ a \in [at : A, s : Y]
  BY DEF Places
<1> HIDE DEF A, Y
<1>2. BackTo(r, a) \in [at : A, s : Y] /\ BackTo(r, a).at = r.at /\ BackTo(r, a).s = a.s
  BY <1>1 DEF BackTo
<1> QED BY <1>2 DEF Places, A, Y

\* A place with another number is one.
LEMMA OtherPlace ==
  ASSUME NEW S, NEW r \in Places(S), NEW k \in 0..(Len(input) + 1), NEW q,
         q = [r EXCEPT !.at = k]
  PROVE  q \in Places(S) /\ q.at = k /\ q.s = r.s
<1> DEFINE A == 0..(Len(input) + 1)
           Y == Ready(S)
<1>1. r \in [at : A, s : Y] /\ k \in A
  BY DEF Places
<1> HIDE DEF A, Y
<1>2. q \in [at : A, s : Y] /\ q.at = k /\ q.s = r.s
  BY <1>1
<1> QED BY <1>2 DEF Places, A, Y

\* So is one with other statics.
LEMMA OtherStatics ==
  ASSUME NEW S, NEW r \in Places(S), NEW s \in Ready(S)
  PROVE  [r EXCEPT !.s = s] \in Places(S)
<1> DEFINE A == 0..(Len(input) + 1)
           Y == Ready(S)
<1>1. r \in [at : A, s : Y] /\ s \in Y
  BY DEF Places
<1> HIDE DEF A, Y
<1>2. [r EXCEPT !.s = s] \in [at : A, s : Y]
  BY <1>1
<1> QED BY <1>2 DEF Places, A, Y

\* A character is read or not; the statics stay.
LEMMA TokPlace ==
  ASSUME InputInv, NEW S, NEW r \in Places(S), NEW t
  PROVE  Tok(r, t) \in Places(S) /\ Tok(r, t).s = r.s
<1>1. Len(input) \in Nat /\ DOMAIN input = 1..Len(input)
  BY InputTokens
<1>2. CASE Matches(r, t)
  <2>1. PICK k \in 0..(Len(input) + 1) : k = r.at + 1
    BY <1>1, <1>2 DEF Matches
  <2>2. Tok(r, t) = [r EXCEPT !.at = k]
    BY <1>2, <2>1 DEF Tok
  <2> QED BY <2>2, OtherPlace
<1>3. CASE ~Matches(r, t)
  <2>1. PICK k \in 0..(Len(input) + 1) : k = 0
    BY <1>1
  <2>2. Tok(r, t) = [r EXCEPT !.at = k]
    BY <1>3, <2>1 DEF Tok, Fails
  <2> QED BY <2>2, OtherPlace
<1> QED BY <1>2, <1>3

\* What is in the lists,
LEMMA ReadyFields ==
  ASSUME NEW S, NEW s \in Ready(S)
  PROVE  /\ s.lst_term \in Seq(Words)
         /\ s.lst_predicate \in Conjunctions /\ s.lst_justification \in Justifications
         /\ s.prerequisite \in Conjunctions /\ s.justifications \in Justifications
         /\ s.conclusion \in Conjunctions /\ s.argument \in Arguments
         /\ s.defaults = S.defaults /\ s.others = S.others /\ s.namespaces = S.namespaces
<1> DEFINE T == Seq(Words)
           D == {S.defaults}
           O == {S.others}
           N == {S.namespaces}
<1>1. s \in [lst_term : T, lst_predicate : Conjunctions, lst_justification : Justifications,
             prerequisite : Conjunctions, justifications : Justifications,
             conclusion : Conjunctions, argument : Arguments,
             defaults : D, others : O, namespaces : N]
  BY DEF Ready
<1> HIDE DEF T, D, O, N
<1>2. /\ s.lst_term \in T
      /\ s.lst_predicate \in Conjunctions /\ s.lst_justification \in Justifications
      /\ s.prerequisite \in Conjunctions /\ s.justifications \in Justifications
      /\ s.conclusion \in Conjunctions /\ s.argument \in Arguments
      /\ s.defaults \in D /\ s.others \in O /\ s.namespaces \in N
  BY <1>1
<1> QED BY <1>2 DEF T, D, O, N

\* and what may be written into them.
LEMMA ReadyWith ==
  ASSUME NEW S, NEW s \in Ready(S), NEW q
  PROVE  /\ \A v \in Seq(Words) : q = [s EXCEPT !.lst_term = v] =>
              q \in Ready(S) /\ q.lst_predicate = s.lst_predicate
         /\ \A v \in Conjunctions : q = [s EXCEPT !.lst_predicate = v] =>
              q \in Ready(S) /\ q.lst_predicate = v
         /\ \A v \in Conjunctions : q = [s EXCEPT !.prerequisite = v] => q \in Ready(S)
         /\ \A v \in Conjunctions : q = [s EXCEPT !.conclusion = v] => q \in Ready(S)
         /\ \A v \in Justifications : q = [s EXCEPT !.lst_justification = v] => q \in Ready(S)
         /\ \A v \in Justifications : q = [s EXCEPT !.justifications = v] => q \in Ready(S)
         /\ \A v \in Arguments : q = [s EXCEPT !.argument = v] => q \in Ready(S)
<1> DEFINE T == Seq(Words)
           D == {S.defaults}
           O == {S.others}
           N == {S.namespaces}
           R == [lst_term : T, lst_predicate : Conjunctions, lst_justification : Justifications,
                 prerequisite : Conjunctions, justifications : Justifications,
                 conclusion : Conjunctions, argument : Arguments,
                 defaults : D, others : O, namespaces : N]
<1>1. s \in R
  BY DEF Ready
<1> HIDE DEF T, D, O, N
<1>2. \A v \in T : q = [s EXCEPT !.lst_term = v] =>
        q \in R /\ q.lst_predicate = s.lst_predicate
  BY <1>1
<1>3. \A v \in Conjunctions : q = [s EXCEPT !.lst_predicate = v] =>
        q \in R /\ q.lst_predicate = v
  BY <1>1
<1>4. \A v \in Conjunctions : q = [s EXCEPT !.prerequisite = v] => q \in R
  BY <1>1
<1>5. \A v \in Conjunctions : q = [s EXCEPT !.conclusion = v] => q \in R
  BY <1>1
<1>6. \A v \in Justifications : q = [s EXCEPT !.lst_justification = v] => q \in R
  BY <1>1
<1>7. \A v \in Justifications : q = [s EXCEPT !.justifications = v] => q \in R
  BY <1>1
<1>8. \A v \in Arguments : q = [s EXCEPT !.argument = v] => q \in R
  BY <1>1
<1> HIDE DEF R
<1>9. R = Ready(S) /\ T = Seq(Words)
  BY DEF R, Ready, T, D, O, N
<1> QED BY <1>2, <1>3, <1>4, <1>5, <1>6, <1>7, <1>8, <1>9

\* Statics with other terms.
LEMMA TermsReady ==
  ASSUME NEW S, NEW s \in Ready(S), NEW terms \in Seq(Words)
  PROVE  /\ push_lst_term(s, terms) \in Ready(S)
         /\ push_lst_term(s, terms).lst_predicate = s.lst_predicate
<1>1. PICK v \in Seq(Words) : v = s.lst_term \o terms
  <2>1. s.lst_term \in Seq(Words)
    BY ReadyFields
  <2>2. s.lst_term \o terms \in Seq(Words)
    BY <2>1
  <2> QED BY <2>2
<1>2. push_lst_term(s, terms) = [s EXCEPT !.lst_term = v]
  BY <1>1 DEF push_lst_term
<1> QED BY <1>2, ReadyWith

\* A literal is pushed with its terms,
LEMMA LiteralReady ==
  ASSUME NEW S, NEW s \in Ready(S), NEW p \in Predicates
  PROVE  /\ push_lst_literal(s, p) \in Ready(S)
         /\ push_lst_literal(s, p).lst_predicate # <<>>
<1>1. PICK terms \in Seq(Words) : terms = s.lst_term
  BY ReadyFields
<1>2. PICK l \in Predicates : l = [p EXCEPT !.terms = terms]
  BY DEF Predicates
<1>3. s.lst_predicate \in Seq(Predicates)
  BY ReadyFields DEF Conjunctions
<1>4. PICK more \in Seq(Predicates) : more = Append(s.lst_predicate, l)
  <2>1. Append(s.lst_predicate, l) \in Seq(Predicates)
    BY <1>3
  <2> QED BY <2>1
<1>5. more # <<>> /\ more \in Conjunctions /\ <<>> \in Seq(Words)
  BY <1>3, <1>4 DEF Conjunctions
<1>6. PICK u \in Ready(S) : u = [s EXCEPT !.lst_predicate = more] /\ u.lst_predicate = more
  <2>1. PICK u : u = [s EXCEPT !.lst_predicate = more]
    OBVIOUS
  <2>2. u \in Ready(S) /\ u.lst_predicate = more
    BY <1>5, <2>1, ReadyWith
  <2> QED BY <2>1, <2>2
<1>7. push_lst_literal(s, p) = [u EXCEPT !.lst_term = <<>>]
  BY <1>1, <1>2, <1>4, <1>6 DEF push_lst_literal
<1>8. push_lst_literal(s, p) \in Ready(S) /\ push_lst_literal(s, p).lst_predicate = more
  BY <1>5, <1>6, <1>7, ReadyWith
<1> QED BY <1>5, <1>8

\* and what is no literal leaves the list of predicates as it is.
LEMMA LitPlace ==
  ASSUME InputInv, NEW S, NEW r \in Places(S)
  PROVE  /\ lit_(r) \in BehindLiteral(S)
         /\ lit_(r).at = 0 => lit_(r).s.lst_predicate = r.s.lst_predicate
<1>1. Len(input) \in Nat /\ DOMAIN input = 1..Len(input)
  BY InputTokens
<1>2. r.s \in Ready(S) /\ 0 \in 0..(Len(input) + 1)
  BY <1>1 DEF Places
<1>3. CASE ~Matches(r, "lit")
  <2>1. PICK k \in 0..(Len(input) + 1) : k = 0
    BY <1>2
  <2>2. lit_(r) = [r EXCEPT !.at = k]
    BY <1>3, <2>1 DEF lit_, Fails
  <2>3. lit_(r) \in Places(S) /\ lit_(r).at = 0 /\ lit_(r).s = r.s
    BY <2>1, <2>2, OtherPlace
  <2> QED BY <2>3 DEF BehindLiteral
<1>4. CASE Matches(r, "lit")
  <2> DEFINE l == input[r.at]
             s == push_lst_term(r.s, l.p.terms)
  <2>1. l.p \in Predicates /\ r.at + 1 \in 0..(Len(input) + 1) /\ r.at + 1 # 0
    BY <1>1, <1>4, InputTokens DEF Matches, IsToken
  <2>2. l.p.terms \in Seq(Words)
    BY <2>1 DEF Predicates
  <2>3. s \in Ready(S) /\ s.lst_predicate = r.s.lst_predicate
    BY <1>2, <2>2, TermsReady
  <2>4. lit_(r) = IF l.ok THEN [at |-> r.at + 1, s |-> push_lst_literal(s, l.p)]
                  ELSE [at |-> 0, s |-> s]
    BY <1>4 DEF lit_
  <2> HIDE DEF l, s
  <2>5. push_lst_literal(s, l.p) \in Ready(S) /\ push_lst_literal(s, l.p).lst_predicate # <<>>
    BY <2>1, <2>3, LiteralReady
  <2>6. CASE l.ok
    BY <2>1, <2>4, <2>5, <2>6 DEF BehindLiteral, Places
  <2>7. CASE ~l.ok
    BY <1>2, <2>3, <2>4, <2>7 DEF BehindLiteral, Places
  <2> QED BY <2>6, <2>7
<1> QED BY <1>3, <1>4

\* A star over the places of the file: where the parser is, it goes on by the step G or
\* stays.
Loop(it, r, G) ==
  it = [k \in 0..Len(input) |->
          IF r.at \notin 1..k THEN r
          ELSE IF it[k - 1].at # k THEN it[k - 1] ELSE G[it[k - 1]]]

\* The same as long as the places are in X.
LoopWithin(it, r, X, G) ==
  /\ it[0] = r
  /\ \A k \in 1..Len(input) : it[k - 1] \in X =>
       it[k] = IF r.at \notin 1..k THEN r
               ELSE IF it[k - 1].at # k THEN it[k - 1] ELSE G[it[k - 1]]

\* There is such a star for every step,
LEMMA LoopExists ==
  ASSUME InputInv, NEW X, NEW r \in X, NEW G \in [X -> X]
  PROVE  \E f \in [0..Len(input) -> X] : Loop(f, r, G)
<1> DEFINE n == Len(input)
           H == [z \in X \X (1..n) |-> IF r.at \notin 1..z[2] THEN r
                                       ELSE IF z[1].at # z[2] THEN z[1] ELSE G[z[1]]]
<1>1. n \in Nat
  BY InputTokens
<1>2. /\ H \in [X \X (1..n) -> X]
      /\ \A q \in X, k \in 1..n : H[<<q, k>>] = IF r.at \notin 1..k THEN r
                                              ELSE IF q.at # k THEN q ELSE G[q]
  OBVIOUS
<1> HIDE DEF n, H
<1>3. PICK f \in [0..n -> X] : Steps(f, n, r, H)
  BY ONLY <1>1, <1>2, r \in X, Recursion
<1>4. f[0] = r /\ \A k \in 1..n : f[k - 1] \in X /\ f[k] = H[<<f[k - 1], k>>]
  <2>1. \A k \in 1..n : k - 1 \in 0..n
    BY <1>1
  <2> QED BY <1>3, <2>1 DEF Steps
<1>5. ASSUME NEW k \in 0..n
      PROVE  f[k] = IF r.at \notin 1..k THEN r
                    ELSE IF f[k - 1].at # k THEN f[k - 1] ELSE G[f[k - 1]]
  <2>1. CASE k = 0
    BY <1>4, <2>1
  <2>2. CASE k # 0
    <3>1. k \in 1..n
      BY <1>1, <2>2
    <3>2. f[k - 1] \in X /\ f[k] = H[<<f[k - 1], k>>]
      BY <1>4, <3>1
    <3>3. PICK q \in X : q = f[k - 1]
      BY <3>2
    <3>4. H[<<q, k>>] = IF r.at \notin 1..k THEN r ELSE IF q.at # k THEN q ELSE G[q]
      BY ONLY <1>2, <3>1, q \in X
    <3> QED BY ONLY <3>2, <3>3, <3>4
  <2> QED BY <2>1, <2>2
<1>6. f = [k \in 0..n |-> IF r.at \notin 1..k THEN r
                          ELSE IF f[k - 1].at # k THEN f[k - 1] ELSE G[f[k - 1]]]
  BY <1>3, <1>5
<1> QED BY <1>3, <1>6 DEF Loop, n

\* and it ends in X.
LEMMA LoopStays ==
  ASSUME InputInv, NEW X, NEW r \in X, NEW G \in [X -> X], NEW it, LoopWithin(it, r, X, G)
  PROVE  it[Len(input)] \in X
<1> DEFINE n == Len(input)
           S == {k \in 0..n : it[k] \in X}
<1>1. n \in Nat
  BY InputTokens
<1>2. 0 \in S
  BY <1>1 DEF LoopWithin
<1>3. ASSUME NEW k \in 0..(n - 1), k \in S PROVE k + 1 \in S
  <2>1. k + 1 \in 1..n /\ k + 1 \in 0..n /\ (k + 1) - 1 = k /\ it[k] \in X
    BY <1>1, <1>3
  <2>2. it[k + 1] = IF r.at \notin 1..(k + 1) THEN r
                    ELSE IF it[k].at # k + 1 THEN it[k] ELSE G[it[k]]
    BY <2>1 DEF LoopWithin
  <2>3. it[k + 1] \in X
    BY <2>1, <2>2
  <2> QED BY <2>1, <2>3
<1> HIDE DEF S
<1>4. 0..n \subseteq S
  BY ONLY <1>1, <1>2, <1>3, IntervalSet
<1> QED BY <1>1, <1>4 DEF S

\* Where the parser goes from behind a literal, and from behind a justification.
NextLiteral(q) == LET n == lit_(Tok(q, "&")) IN IF n.at = 0 THEN BackTo(q, n) ELSE n
NextJustification(q) ==
  LET n == justification_(Tok(q, ",")) IN IF n.at = 0 THEN BackTo(q, n) ELSE n

\* How the stars go on as long as their places are in X.
LiteralStar(r, X, G, it) ==
  /\ G \in [X -> X] /\ \A q \in X : q.at # 0 => G[q] = NextLiteral(q)
  /\ LoopWithin(it, r, X, G) /\ MoreLiterals(r) = it[Len(input)]

JustificationStar(r, X, G, it) ==
  /\ G \in [X -> X] /\ \A q \in X : q.at # 0 => G[q] = NextJustification(q)
  /\ LoopWithin(it, r, X, G) /\ MoreJustifications(r) = it[Len(input)]

\* The star of a conjunction does,
LEMMA MoreLiteralsLoop ==
  ASSUME InputInv, NEW X, NEW r \in X, \A q \in X : q.at # 0 => NextLiteral(q) \in X
  PROVE  \E G, it : LiteralStar(r, X, G, it)
<1> DEFINE G == [q \in X |-> IF q.at = 0 THEN q ELSE NextLiteral(q)]
           Eq(h) == h = [k \in 0..Len(input) |->
                           IF r.at \notin 1..k THEN r
                           ELSE IF h[k - 1].at # k THEN h[k - 1] ELSE NextLiteral(h[k - 1])]
           it == CHOOSE h : Eq(h)
<1>1. Len(input) \in Nat
  BY InputTokens
<1>2. MoreLiterals(r) = it[Len(input)]
  BY DEF MoreLiterals, NextLiteral
<1> HIDE DEF it
<1>3. G \in [X -> X] /\ \A q \in X : q.at # 0 => G[q] = NextLiteral(q)
  OBVIOUS
<1> HIDE DEF G
<1>4. PICK h \in [0..Len(input) -> X] : Loop(h, r, G)
  BY <1>3, LoopExists
<1>5. Eq(h)
  <2>1. ASSUME NEW k \in 0..Len(input)
        PROVE  h[k] = IF r.at \notin 1..k THEN r
                      ELSE IF h[k - 1].at # k THEN h[k - 1] ELSE NextLiteral(h[k - 1])
    <3>1. h[k] = IF r.at \notin 1..k THEN r
                 ELSE IF h[k - 1].at # k THEN h[k - 1] ELSE G[h[k - 1]]
      BY <1>4 DEF Loop
    <3>2. CASE r.at \notin 1..k
      BY <3>1, <3>2
    <3>3. CASE r.at \in 1..k /\ h[k - 1].at # k
      BY <3>1, <3>3
    <3>4. CASE r.at \in 1..k /\ h[k - 1].at = k
      <4>1. k - 1 \in 0..Len(input) /\ k # 0
        BY <1>1, <3>4
      <4>2. h[k - 1] \in X
        BY <1>4, <4>1
      <4>3. G[h[k - 1]] = NextLiteral(h[k - 1])
        BY <1>3, <3>4, <4>1, <4>2
      <4> QED BY <3>1, <3>4, <4>3
    <3> QED BY <3>2, <3>3, <3>4
  <2> QED BY <1>4, <2>1
<1>6. Eq(it)
  BY <1>5 DEF it
<1>7. \A k \in 0..Len(input) :
        it[k] = IF r.at \notin 1..k THEN r
                ELSE IF it[k - 1].at # k THEN it[k - 1] ELSE NextLiteral(it[k - 1])
  BY <1>6
<1>8. LoopWithin(it, r, X, G)
  <2>1. it[0] = r
    BY <1>1, <1>7
  <2>2. ASSUME NEW k \in 1..Len(input), it[k - 1] \in X
        PROVE  it[k] = IF r.at \notin 1..k THEN r
                       ELSE IF it[k - 1].at # k THEN it[k - 1] ELSE G[it[k - 1]]
    <3>1. k \in 0..Len(input) /\ k # 0
      BY <1>1
    <3>2. it[k - 1].at = k => G[it[k - 1]] = NextLiteral(it[k - 1])
      BY <1>3, <2>2, <3>1
    <3> QED BY <1>7, <3>1, <3>2
  <2> QED BY <2>1, <2>2 DEF LoopWithin
<1> QED BY <1>2, <1>3, <1>8 DEF LiteralStar

\* and the star of the justifications.
LEMMA MoreJustificationsLoop ==
  ASSUME InputInv, NEW X, NEW r \in X, \A q \in X : q.at # 0 => NextJustification(q) \in X
  PROVE  \E G, it : JustificationStar(r, X, G, it)
<1> DEFINE G == [q \in X |-> IF q.at = 0 THEN q ELSE NextJustification(q)]
           Eq(h) == h = [k \in 0..Len(input) |->
                           IF r.at \notin 1..k THEN r
                           ELSE IF h[k - 1].at # k THEN h[k - 1] ELSE NextJustification(h[k - 1])]
           it == CHOOSE h : Eq(h)
<1>1. Len(input) \in Nat
  BY InputTokens
<1>2. MoreJustifications(r) = it[Len(input)]
  BY DEF MoreJustifications, NextJustification
<1> HIDE DEF it
<1>3. G \in [X -> X] /\ \A q \in X : q.at # 0 => G[q] = NextJustification(q)
  OBVIOUS
<1> HIDE DEF G
<1>4. PICK h \in [0..Len(input) -> X] : Loop(h, r, G)
  BY <1>3, LoopExists
<1>5. Eq(h)
  <2>1. ASSUME NEW k \in 0..Len(input)
        PROVE  h[k] = IF r.at \notin 1..k THEN r
                      ELSE IF h[k - 1].at # k THEN h[k - 1] ELSE NextJustification(h[k - 1])
    <3>1. h[k] = IF r.at \notin 1..k THEN r
                 ELSE IF h[k - 1].at # k THEN h[k - 1] ELSE G[h[k - 1]]
      BY <1>4 DEF Loop
    <3>2. CASE r.at \notin 1..k
      BY <3>1, <3>2
    <3>3. CASE r.at \in 1..k /\ h[k - 1].at # k
      BY <3>1, <3>3
    <3>4. CASE r.at \in 1..k /\ h[k - 1].at = k
      <4>1. k - 1 \in 0..Len(input) /\ k # 0
        BY <1>1, <3>4
      <4>2. h[k - 1] \in X
        BY <1>4, <4>1
      <4>3. G[h[k - 1]] = NextJustification(h[k - 1])
        BY <1>3, <3>4, <4>1, <4>2
      <4> QED BY <3>1, <3>4, <4>3
    <3> QED BY <3>2, <3>3, <3>4
  <2> QED BY <1>4, <2>1
<1>6. Eq(it)
  BY <1>5 DEF it
<1>7. \A k \in 0..Len(input) :
        it[k] = IF r.at \notin 1..k THEN r
                ELSE IF it[k - 1].at # k THEN it[k - 1] ELSE NextJustification(it[k - 1])
  BY <1>6
<1>8. LoopWithin(it, r, X, G)
  <2>1. it[0] = r
    BY <1>1, <1>7
  <2>2. ASSUME NEW k \in 1..Len(input), it[k - 1] \in X
        PROVE  it[k] = IF r.at \notin 1..k THEN r
                       ELSE IF it[k - 1].at # k THEN it[k - 1] ELSE G[it[k - 1]]
    <3>1. k \in 0..Len(input) /\ k # 0
      BY <1>1
    <3>2. it[k - 1].at = k => G[it[k - 1]] = NextJustification(it[k - 1])
      BY <1>3, <2>2, <3>1
    <3> QED BY <1>7, <3>1, <3>2
  <2> QED BY <2>1, <2>2 DEF LoopWithin
<1> QED BY <1>2, <1>3, <1>8 DEF JustificationStar

\* Literals are read as long as there are more of them,
LEMMA MoreLiteralsPlace ==
  ASSUME InputInv, NEW S, NEW r \in BehindLiteral(S)
  PROVE  MoreLiterals(r) \in BehindLiteral(S)
<1> DEFINE X == BehindLiteral(S)
<1>1. ASSUME NEW q \in X, q.at # 0 PROVE NextLiteral(q) \in X
  <2> DEFINE n == lit_(Tok(q, "&"))
  <2>1. q \in Places(S) /\ q.s.lst_predicate # <<>>
    BY <1>1 DEF BehindLiteral
  <2>2. Tok(q, "&") \in Places(S) /\ Tok(q, "&").s = q.s
    BY <2>1, TokPlace
  <2>3. n \in X /\ (n.at = 0 => n.s.lst_predicate = q.s.lst_predicate)
    BY <2>2, LitPlace
  <2>4. n \in Places(S)
    BY <2>3 DEF BehindLiteral
  <2>5. NextLiteral(q) = IF n.at = 0 THEN BackTo(q, n) ELSE n
    BY DEF NextLiteral
  <2> HIDE DEF n
  <2>6. CASE n.at = 0
    <3>1. BackTo(q, n) \in Places(S) /\ BackTo(q, n).s = n.s
      BY <2>1, <2>4, BackPlace
    <3>2. BackTo(q, n) \in X
      BY <2>1, <2>3, <2>6, <3>1 DEF BehindLiteral
    <3> QED BY <2>5, <2>6, <3>2
  <2> QED BY <2>3, <2>5, <2>6
<1>2. r \in X
  OBVIOUS
<1> HIDE DEF X
<1>3. PICK G, it : LiteralStar(r, X, G, it)
  BY <1>1, <1>2, MoreLiteralsLoop
<1>4. it[Len(input)] \in X
  BY <1>2, <1>3, LoopStays DEF LiteralStar
<1> QED BY <1>3, <1>4 DEF X, LiteralStar

\* so that a conjunction has one.
LEMMA ConjunctionPlace ==
  ASSUME InputInv, NEW S, NEW r \in Places(S)
  PROVE  conjunction_(r) \in BehindLiteral(S)
BY LitPlace, MoreLiteralsPlace DEF conjunction_

\* No justification is empty.
LEMMA JustificationPlace ==
  ASSUME InputInv, NEW S, NEW r \in Places(S)
  PROVE  justification_(r) \in Places(S)
<1> DEFINE q == conjunction_(r)
<1>1. q \in Places(S) /\ (q.at # 0 => q.s.lst_predicate # <<>>)
  BY ConjunctionPlace DEF BehindLiteral
<1>2. justification_(r) = IF q.at = 0 THEN q ELSE [q EXCEPT !.s = push_lst_justification(@)]
  BY DEF justification_, On
<1> HIDE DEF q
<1>3. CASE q.at = 0
  BY <1>1, <1>2, <1>3
<1>4. CASE q.at # 0
  <2>1. q.s \in Ready(S)
    BY <1>1 DEF Places
  <2>2. /\ q.s.lst_justification \in Seq(Conjunctions \ {<<>>})
        /\ q.s.lst_predicate \in Conjunctions \ {<<>>}
    BY <1>1, <1>4, <2>1, ReadyFields DEF Justifications
  <2>3. PICK more \in Justifications : more = Append(q.s.lst_justification, q.s.lst_predicate)
    <3>1. Append(q.s.lst_justification, q.s.lst_predicate) \in Seq(Conjunctions \ {<<>>})
      BY ONLY <2>2
    <3> QED BY <3>1 DEF Justifications
  <2>4. PICK u : u = [q.s EXCEPT !.lst_justification = more]
    OBVIOUS
  <2>5. u \in Ready(S)
    BY <2>1, <2>4, ReadyWith
  <2>6. push_lst_justification(q.s) = [u EXCEPT !.lst_predicate = <<>>]
    BY <2>3, <2>4 DEF push_lst_justification
  <2>7. <<>> \in Conjunctions
    BY DEF Conjunctions
  <2>8. push_lst_justification(q.s) \in Ready(S)
    BY <2>5, <2>6, <2>7, ReadyWith
  <2> QED BY <1>1, <1>2, <1>4, <2>8, OtherStatics
<1> QED BY <1>3, <1>4

\* Justifications are read as long as there are more of them.
LEMMA MoreJustificationsPlace ==
  ASSUME InputInv, NEW S, NEW r \in Places(S)
  PROVE  MoreJustifications(r) \in Places(S)
<1> DEFINE X == Places(S)
<1>1. ASSUME NEW q \in X, q.at # 0 PROVE NextJustification(q) \in X
  <2> DEFINE n == justification_(Tok(q, ","))
  <2>1. n \in X
    BY TokPlace, JustificationPlace
  <2>2. NextJustification(q) = IF n.at = 0 THEN BackTo(q, n) ELSE n
    BY DEF NextJustification
  <2> HIDE DEF n
  <2>3. BackTo(q, n) \in X
    BY <2>1, BackPlace
  <2> QED BY <2>1, <2>2, <2>3
<1>2. r \in X
  OBVIOUS
<1> HIDE DEF X
<1>3. PICK G, it : JustificationStar(r, X, G, it)
  BY <1>1, <1>2, MoreJustificationsLoop
<1>4. it[Len(input)] \in X
  BY <1>2, <1>3, LoopStays DEF JustificationStar
<1> QED BY <1>3, <1>4 DEF X, JustificationStar

\* The parts of a default are read into lists of their kind.
LEMMA JustificationsPlace ==
  ASSUME InputInv, NEW S, NEW r \in Places(S)
  PROVE  justifications_(r) \in Places(S)
<1> DEFINE q == MoreJustifications(justification_(r))
<1>1. q \in Places(S)
  BY JustificationPlace, MoreJustificationsPlace
<1>2. justifications_(r) = IF q.at = 0 THEN q ELSE [q EXCEPT !.s = set_justifications(@)]
  BY DEF justifications_, On
<1> HIDE DEF q
<1>3. q.s \in Ready(S) /\ <<>> \in Justifications
  BY <1>1 DEF Places, Justifications
<1>4. PICK u : u = [q.s EXCEPT !.justifications = q.s.lst_justification]
  OBVIOUS
<1>5. u \in Ready(S)
  <2>1. q.s.lst_justification \in Justifications
    BY <1>3, ReadyFields
  <2> QED BY <1>3, <1>4, <2>1, ReadyWith
<1>6. set_justifications(q.s) = [u EXCEPT !.lst_justification = <<>>]
  BY <1>4 DEF set_justifications
<1>7. set_justifications(q.s) \in Ready(S)
  BY <1>3, <1>5, <1>6, ReadyWith
<1> QED BY <1>1, <1>2, <1>7, OtherStatics

\* The prerequisite,
LEMMA PrerequisitePlace ==
  ASSUME InputInv, NEW S, NEW r \in Places(S)
  PROVE  prerequisite_(r) \in Places(S)
<1> DEFINE q == conjunction_(r)
<1>1. q \in Places(S)
  BY ConjunctionPlace DEF BehindLiteral
<1>2. prerequisite_(r) = IF q.at = 0 THEN q ELSE [q EXCEPT !.s = set_prerequisite(@)]
  BY DEF prerequisite_, On
<1> HIDE DEF q
<1>3. q.s \in Ready(S) /\ <<>> \in Conjunctions
  BY <1>1 DEF Places, Conjunctions
<1>4. PICK u : u = [q.s EXCEPT !.prerequisite = q.s.lst_predicate]
  OBVIOUS
<1>5. u \in Ready(S)
  <2>1. q.s.lst_predicate \in Conjunctions
    BY <1>3, ReadyFields
  <2> QED BY <1>3, <1>4, <2>1, ReadyWith
<1>6. set_prerequisite(q.s) = [u EXCEPT !.lst_predicate = <<>>]
  BY <1>4 DEF set_prerequisite
<1>7. set_prerequisite(q.s) \in Ready(S)
  BY <1>3, <1>5, <1>6, ReadyWith
<1> QED BY <1>1, <1>2, <1>7, OtherStatics

\* the argument,
LEMMA ArgumentPlace ==
  ASSUME InputInv, NEW S, NEW r \in Places(S)
  PROVE  argument_(r) \in Places(S)
<1>1. CASE ~Matches(r, "arg")
  BY <1>1 DEF argument_
<1>2. CASE Matches(r, "arg")
  <2> DEFINE a == input[r.at]
             s == push_lst_term(r.s, a.terms)
  <2>1. /\ a.name \in Seq(Words) /\ a.terms \in Seq(Words)
        /\ r.at + 1 \in 0..(Len(input) + 1)
    BY <1>2, InputTokens DEF Matches, IsToken
  <2>2. r.s \in Ready(S)
    BY DEF Places
  <2>3. s \in Ready(S)
    BY <2>1, <2>2, TermsReady
  <2>4. argument_(r) = IF a.ok THEN [at |-> r.at + 1, s |-> set_argument(s, a.name)]
                       ELSE [r EXCEPT !.s = s]
    BY <1>2 DEF argument_
  <2> HIDE DEF a, s
  <2>5. PICK arg \in Arguments : arg = <<Atom(a.name, s.lst_term)>>
    <3>1. s.lst_term \in Seq(Words)
      BY <2>3, ReadyFields
    <3>2. PICK b \in [name : Seq(Words), terms : Seq(Words)] : b = Atom(a.name, s.lst_term)
      BY <2>1, <3>1 DEF Atom
    <3>3. <<b>> \in Seq([name : Seq(Words), terms : Seq(Words)]) /\ Len(<<b>>) <= 1
      BY ONLY <3>2
    <3> QED BY <3>2, <3>3 DEF Arguments
  <2>6. PICK u : u = [s EXCEPT !.argument = arg]
    OBVIOUS
  <2>7. u \in Ready(S)
    BY <2>3, <2>5, <2>6, ReadyWith
  <2>8. set_argument(s, a.name) = [u EXCEPT !.lst_term = <<>>]
    BY <2>5, <2>6 DEF set_argument
  <2>9. set_argument(s, a.name) \in Ready(S)
    <3>1. <<>> \in Seq(Words)
      OBVIOUS
    <3> QED BY <2>7, <2>8, <3>1, ReadyWith
  <2>10. CASE a.ok
    BY <2>1, <2>4, <2>9, <2>10 DEF Places
  <2>11. CASE ~a.ok
    BY <2>3, <2>4, <2>11, OtherStatics
  <2> QED BY <2>10, <2>11
<1> QED BY <1>1, <1>2

\* the conclusion,
LEMMA ConclusionPlace ==
  ASSUME InputInv, NEW S, NEW r \in Places(S)
  PROVE  conclusion_(r) \in Places(S)
<1> DEFINE q == conjunction_(r)
           o == IF q.at = 0 THEN q ELSE [q EXCEPT !.s = set_conclusion(@)]
<1>1. q \in Places(S)
  BY ConjunctionPlace DEF BehindLiteral
<1>2. conclusion_(r) = argument_(Tok(o, "]"))
  BY DEF conclusion_, On
<1>3. o = IF q.at = 0 THEN q ELSE [q EXCEPT !.s = set_conclusion(@)]
  OBVIOUS
<1> HIDE DEF q, o
<1>4. q.s \in Ready(S) /\ <<>> \in Conjunctions
  BY <1>1 DEF Places, Conjunctions
<1>5. PICK u : u = [q.s EXCEPT !.conclusion = q.s.lst_predicate]
  OBVIOUS
<1>6. u \in Ready(S)
  <2>1. q.s.lst_predicate \in Conjunctions
    BY <1>4, ReadyFields
  <2> QED BY <1>4, <1>5, <2>1, ReadyWith
<1>7. set_conclusion(q.s) = [u EXCEPT !.lst_predicate = <<>>]
  BY <1>5 DEF set_conclusion
<1>8. set_conclusion(q.s) \in Ready(S)
  BY <1>4, <1>6, <1>7, ReadyWith
<1>9. o \in Places(S)
  BY <1>1, <1>3, <1>8, OtherStatics
<1> QED BY <1>2, <1>9, TokPlace, ArgumentPlace

\* and the whole default, whatever it leaves out.
LEMMA AlternativePlace ==
  ASSUME InputInv, NEW S, NEW r \in Places(S), NEW has_prerequisite, NEW has_justifications
  PROVE  Alternative(r, has_prerequisite, has_justifications) \in Places(S)
<1> DEFINE opened == Tok(r, "[")
           first == IF has_prerequisite THEN prerequisite_(opened) ELSE opened
           middle == Tok(first, ";")
           second == IF has_justifications THEN justifications_(middle) ELSE middle
           closed == Tok(second, "]/[")
<1>1. Alternative(r, has_prerequisite, has_justifications) = conclusion_(closed)
  BY DEF Alternative
<1>2. opened \in Places(S)
  BY TokPlace
<1> HIDE DEF opened
<1>3. first \in Places(S)
  BY <1>2, PrerequisitePlace
<1> HIDE DEF first
<1>4. middle \in Places(S)
  BY <1>3, TokPlace
<1> HIDE DEF middle
<1>5. second \in Places(S)
  BY <1>4, JustificationsPlace
<1> HIDE DEF second
<1>6. closed \in Places(S)
  BY <1>5, TokPlace
<1> HIDE DEF closed
<1> QED BY <1>1, <1>6, ConclusionPlace

\* The alternatives are tried one after the other until one matches, as long as their
\* places are in X.
LEMMA Tries ==
  ASSUME NEW X, NEW r, Fails(r) \in X,
         \A q \in X, k \in 1..4 : Alternative(BackTo(r, q), k \in {1, 3}, k \in {1, 2}) \in X
  PROVE  \E f \in [0..4 -> X] :
           /\ f[0] = Fails(r) /\ default_(r) = f[4]
           /\ \A k \in 1..4 :
                f[k] = IF f[k - 1].at # 0 THEN f[k - 1]
                       ELSE Alternative(BackTo(r, f[k - 1]), k \in {1, 3}, k \in {1, 2})
<1> DEFINE next(q, k) == IF q.at # 0 THEN q
                         ELSE Alternative(BackTo(r, q), k \in {1, 3}, k \in {1, 2})
           G == [z \in X \X (1..4) |-> next(z[1], z[2])]
           Eq(h) == h = [k \in 0..4 |-> IF k = 0 THEN Fails(r) ELSE next(h[k - 1], k)]
           it == CHOOSE h : Eq(h)
<1>1. \A q \in X, k \in 1..4 : next(q, k) \in X
  OBVIOUS
<1>2. default_(r) = it[4]
  BY DEF default_
<1> HIDE DEF next, it
<1>3. G \in [X \X (1..4) -> X] /\ \A q \in X, k \in 1..4 : G[<<q, k>>] = next(q, k)
  BY <1>1
<1> HIDE DEF G
<1>4. PICK h \in [0..4 -> X] : Steps(h, 4, Fails(r), G)
  BY <1>3, Recursion
<1>5. h[0] = Fails(r) /\ \A k \in 1..4 : h[k] = next(h[k - 1], k)
  <2>1. \A k \in 1..4 : h[k - 1] \in X
    BY <1>4
  <2> QED BY <1>3, <1>4, <2>1 DEF Steps
<1>6. Eq(h)
  <2>1. \A k \in 0..4 : h[k] = IF k = 0 THEN Fails(r) ELSE next(h[k - 1], k)
    BY <1>5
  <2> QED BY <1>4, <2>1
<1>7. Eq(it)
  BY <1>6 DEF it
<1>8. it = h
  <2>1. it[0] = h[0] /\ it[1] = h[1] /\ it[2] = h[2] /\ it[3] = h[3] /\ it[4] = h[4]
    BY <1>5, <1>7
  <2>2. \A k \in 0..4 : it[k] = h[k]
    BY <2>1
  <2> QED BY <1>4, <1>7, <2>2
<1> QED BY <1>2, <1>4, <1>5, <1>8 DEF next

\* The grammar leaves what only push_default and push_others change as it is, also
\* when no alternative matches.
LEMMA DefaultPlace ==
  ASSUME InputInv, NEW S, NEW r \in Places(S)
  PROVE  default_(r) \in Places(S)
<1> DEFINE X == Places(S)
<1>1. Fails(r) \in X
  <2>1. PICK k \in 0..(Len(input) + 1) : k = 0
    BY InputTokens
  <2> QED BY <2>1, OtherPlace DEF Fails
<1>2. \A q \in X, k \in 1..4 : Alternative(BackTo(r, q), k \in {1, 3}, k \in {1, 2}) \in X
  BY BackPlace, AlternativePlace
<1> HIDE DEF X
<1>3. PICK f \in [0..4 -> X] : default_(r) = f[4]
  BY <1>1, <1>2, Tries
<1> QED BY <1>3 DEF X

-----------------------------------------------------------------------------
(* The inductive invariant. *)

Defaults ==
  [prerequisite : Conjunctions, justifications : Justifications, conclusion : Conjunctions,
   argument : Arguments, id : Nat \ {0}]

\* The lists hold what they are for, and a default's number is its place.
StaticsInv ==
  /\ statics \in Ready(statics)
  /\ statics.defaults \in Seq(Defaults)
  /\ \A i \in DOMAIN statics.defaults : statics.defaults[i].id = i

PlaceInv == InputInv /\ at \in 1..(Len(input) + 1)

\* A host that does not rewrite never parses.
ConverterInv ==
  /\ converter \in [cqmode : BOOLEAN, dftrans : 0..3, ontology : BOOLEAN,
                    individuals : {converter.individuals}]
  /\ converter.dftrans = 0 => input = <<>>

\* What was converted is there, and its rules are safe.
OutInv ==
  /\ phase \in {"idle", "parse", "converted", "shown"}
  /\ phase = "converted" => out.kind \in {"program", "text"}
  /\ out.kind = "program" => \A r \in out.rules : Safe(r)

IInv == StaticsInv /\ PlaceInv /\ ConverterInv /\ OutInv

\* What the parser makes is a default in the sense of the type invariant.
LEMMA DefaultType ==
  ASSUME NEW d \in Defaults
  PROVE  IsDefault(d)
<1> DEFINE I == Nat \ {0}
<1>1. d \in [prerequisite : Conjunctions, justifications : Justifications,
             conclusion : Conjunctions, argument : Arguments, id : I]
  BY DEF Defaults
<1> HIDE DEF I
<1>2. DOMAIN d = {"prerequisite", "justifications", "conclusion", "argument", "id"}
  BY <1>1
<1>3. /\ d.prerequisite \in Conjunctions /\ d.justifications \in Justifications
      /\ d.conclusion \in Conjunctions /\ d.id \in I /\ d.argument \in Arguments
  BY <1>1
<1> QED BY <1>2, <1>3 DEF IsDefault, Arguments, I

\* Statics with other defaults,
LEMMA ReadyDefaults ==
  ASSUME NEW S, NEW s \in Ready(S), NEW x, NEW t, t = [s EXCEPT !.defaults = x]
  PROVE  t \in Ready(t) /\ t.defaults = x
<1> DEFINE T == Seq(Words)
           R(D, O, N) ==
             [lst_term : T, lst_predicate : Conjunctions, lst_justification : Justifications,
              prerequisite : Conjunctions, justifications : Justifications,
              conclusion : Conjunctions, argument : Arguments,
              defaults : D, others : O, namespaces : N]
<1>1. \A u : Ready(u) = R({u.defaults}, {u.others}, {u.namespaces})
  BY DEF Ready
<1>2. s.defaults = S.defaults /\ s.others = S.others /\ s.namespaces = S.namespaces
  BY ReadyFields
<1>3. PICK D, O, N, X : D = {s.defaults} /\ O = {s.others} /\ N = {s.namespaces} /\ X = {x}
  OBVIOUS
<1>4. s \in R(D, O, N)
  BY <1>1, <1>2, <1>3
<1>5. t \in R(X, O, N) /\ t.defaults = x /\ t.others = s.others /\ t.namespaces = s.namespaces
  <2> HIDE DEF T
  <2> QED BY <1>3, <1>4
<1> HIDE DEF R
<1> QED BY <1>1, <1>2, <1>3, <1>5

\* other text
LEMMA ReadyOthers ==
  ASSUME NEW S, NEW s \in Ready(S), NEW x, NEW t, t = [s EXCEPT !.others = x]
  PROVE  t \in Ready(t) /\ t.defaults = S.defaults
<1> DEFINE T == Seq(Words)
           R(D, O, N) ==
             [lst_term : T, lst_predicate : Conjunctions, lst_justification : Justifications,
              prerequisite : Conjunctions, justifications : Justifications,
              conclusion : Conjunctions, argument : Arguments,
              defaults : D, others : O, namespaces : N]
<1>1. \A u : Ready(u) = R({u.defaults}, {u.others}, {u.namespaces})
  BY DEF Ready
<1>2. s.defaults = S.defaults /\ s.others = S.others /\ s.namespaces = S.namespaces
  BY ReadyFields
<1>3. PICK D, O, N, X : D = {s.defaults} /\ O = {s.others} /\ N = {s.namespaces} /\ X = {x}
  OBVIOUS
<1>4. s \in R(D, O, N)
  BY <1>1, <1>2, <1>3
<1>5. t \in R(D, X, N) /\ t.defaults = s.defaults /\ t.others = x /\ t.namespaces = s.namespaces
  <2> HIDE DEF T
  <2> QED BY <1>3, <1>4
<1> HIDE DEF R
<1> QED BY <1>1, <1>2, <1>3, <1>5

\* or other namespaces.
LEMMA ReadyNamespaces ==
  ASSUME NEW S, NEW s \in Ready(S), NEW x, NEW t, t = [s EXCEPT !.namespaces = x]
  PROVE  t \in Ready(t) /\ t.defaults = S.defaults
<1> DEFINE T == Seq(Words)
           R(D, O, N) ==
             [lst_term : T, lst_predicate : Conjunctions, lst_justification : Justifications,
              prerequisite : Conjunctions, justifications : Justifications,
              conclusion : Conjunctions, argument : Arguments,
              defaults : D, others : O, namespaces : N]
<1>1. \A u : Ready(u) = R({u.defaults}, {u.others}, {u.namespaces})
  BY DEF Ready
<1>2. s.defaults = S.defaults /\ s.others = S.others /\ s.namespaces = S.namespaces
  BY ReadyFields
<1>3. PICK D, O, N, X : D = {s.defaults} /\ O = {s.others} /\ N = {s.namespaces} /\ X = {x}
  OBVIOUS
<1>4. s \in R(D, O, N)
  BY <1>1, <1>2, <1>3
<1>5. t \in R(D, O, X) /\ t.defaults = s.defaults /\ t.others = s.others /\ t.namespaces = x
  <2> HIDE DEF T
  <2> QED BY <1>3, <1>4
<1> HIDE DEF R
<1> QED BY <1>1, <1>2, <1>3, <1>5

\* Other lists do not matter as long as the defaults are the same,
LEMMA StaticsOthers ==
  ASSUME StaticsInv, statics' \in Ready(statics'), statics'.defaults = statics.defaults
  PROVE  StaticsInv'
BY DEF StaticsInv

\* as after an alternative that did not match,
LEMMA StaticsBack ==
  ASSUME StaticsInv, NEW s \in Ready(statics)
  PROVE  s \in Ready(s) /\ s.defaults = statics.defaults
<1>1. s.defaults = statics.defaults /\ s.others = statics.others /\ s.namespaces = statics.namespaces
  BY ReadyFields
<1> QED BY <1>1 DEF Ready

\* and a new default gets the next number.
LEMMA StaticsPush ==
  ASSUME StaticsInv, NEW s \in Ready(statics), statics' = push_default(s)
  PROVE  StaticsInv'
<1> DEFINE n == Len(statics.defaults)
           d == Default(s.prerequisite, s.justifications, s.conclusion, s.argument, n + 1)
           more == Append(statics.defaults, d)
<1>1. n \in Nat /\ DOMAIN statics.defaults = 1..n /\ statics.defaults \in Seq(Defaults)
  BY DEF StaticsInv
<1>2. d \in Defaults /\ d.id = n + 1
  <2>1. /\ s.prerequisite \in Conjunctions /\ s.justifications \in Justifications
        /\ s.conclusion \in Conjunctions /\ s.argument \in Arguments
    BY ReadyFields
  <2>2. n + 1 \in Nat \ {0}
    BY <1>1
  <2> QED BY <2>1, <2>2 DEF Default, Defaults
<1>3. s.defaults = statics.defaults
  BY ReadyFields
<1>4. PICK u : u = [s EXCEPT !.argument = <<>>]
  OBVIOUS
<1>5. u \in Ready(statics)
  <2>1. <<>> \in Arguments
    BY DEF Arguments
  <2> QED BY <1>4, <2>1, ReadyWith
<1>6. statics' = [u EXCEPT !.defaults = more]
  BY <1>3, <1>4 DEF push_default
<1> HIDE DEF n, d
<1>7. more \in Seq(Defaults) /\ DOMAIN more = 1..(n + 1) /\ more[n + 1] = d
      /\ \A i \in 1..n : more[i] = statics.defaults[i]
  BY <1>1, <1>2 DEF n
<1> HIDE DEF more
<1>8. statics' \in Ready(statics') /\ statics'.defaults = more
  BY <1>5, <1>6, ReadyDefaults
<1>9. \A i \in 1..(n + 1) : more[i].id = i
  <2>1. \A i \in 1..(n + 1) : i = n + 1 \/ i \in 1..n
    BY <1>1
  <2>2. \A i \in 1..n : more[i].id = i
    BY <1>1, <1>7 DEF StaticsInv
  <2> QED BY <1>2, <1>7, <2>1, <2>2
<1> QED BY <1>7, <1>8, <1>9 DEF StaticsInv

\* The grammar begins where the parser is.
LEMMA HerePlace ==
  ASSUME StaticsInv, PlaceInv
  PROVE  default_(Here) \in Places(statics)
<1>1. at \in 0..(Len(input) + 1)
  BY InputTokens DEF PlaceInv
<1>2. Here \in Places(statics)
  BY <1>1 DEF Here, Places, StaticsInv
<1> QED BY <1>2, DefaultPlace DEF PlaceInv

\* The number of the place behind a full stop.
LEMMA LeastDot ==
  ASSUME PlaceInv, Dots(at) # {}
  PROVE  LET dot == CHOOSE i \in Dots(at) : \A j \in Dots(at) : i <= j
         IN dot + 1 \in 1..(Len(input) + 1)
<1> DEFINE T == Dots(at)
           dot == CHOOSE i \in T : \A j \in T : i <= j
<1>1. Len(input) \in Nat /\ at \in 1..(Len(input) + 1)
  BY InputTokens DEF PlaceInv
<1>2. \A i \in T : i \in Nat /\ i \in 1..Len(input)
  BY <1>1 DEF Dots
<1>3. T \subseteq Nat /\ T # {}
  BY <1>2
<1> HIDE DEF T
<1>4. PICK x \in T : \A y \in T : x <= y
  BY <1>3, LeastMember
<1>5. dot \in T
  BY <1>4
<1> HIDE DEF dot
<1>6. dot \in 1..Len(input)
  BY <1>2, <1>5
<1>7. dot + 1 \in 1..(Len(input) + 1)
  BY <1>1, <1>6
<1> QED BY <1>7 DEF dot, T

\* At first nothing was read.
LEMMA InitInv ==
  ASSUME Init
  PROVE  IInv
<1>1. StaticsInv
  <2>1. /\ <<>> \in Seq(Words) /\ <<>> \in Conjunctions /\ <<>> \in Justifications
        /\ <<>> \in Arguments /\ <<>> \in Seq(Defaults) /\ DOMAIN <<>> = {}
    BY DEF Conjunctions, Justifications, Arguments
  <2>2. statics = [lst_term |-> <<>>, lst_predicate |-> <<>>, lst_justification |-> <<>>,
                   prerequisite |-> <<>>, justifications |-> <<>>, conclusion |-> <<>>,
                   argument |-> <<>>, defaults |-> <<>>, others |-> <<>>, namespaces |-> <<>>]
    BY DEF Init
  <2>3. statics.defaults = <<>> /\ statics.others = <<>> /\ statics.namespaces = <<>>
    BY <2>2
  <2>4. statics \in Ready(statics)
    <3>1. PICK T, A, D : T = Seq(Words) /\ A = Arguments /\ D = {<<>>}
      OBVIOUS
    <3>2. <<>> \in T /\ <<>> \in A /\ <<>> \in D
      BY <2>1, <3>1
    <3>3. statics \in [lst_term : T, lst_predicate : Conjunctions,
                       lst_justification : Justifications, prerequisite : Conjunctions,
                       justifications : Justifications, conclusion : Conjunctions,
                       argument : A, defaults : D, others : D, namespaces : D]
      BY <2>1, <2>2, <3>2
    <3> QED BY <2>3, <3>1, <3>3 DEF Ready
  <2> QED BY <2>1, <2>3, <2>4 DEF StaticsInv
<1>2. PlaceInv
  <2>1. input = <<>> /\ at = 1
    BY DEF Init
  <2>2. ToSet(input) = {} /\ input \in Seq(ToSet(input)) /\ Len(input) = 0
    BY <2>1 DEF ToSet
  <2> QED BY <2>1, <2>2 DEF PlaceInv, InputInv
<1>3. ConverterInv
  BY DEF Init, ConverterInv, Converters
<1>4. OutInv
  BY DEF Init, OutInv, Nothing
<1> QED BY <1>1, <1>2, <1>3, <1>4 DEF IInv

\* What a step does to each part, if it does anything to it.
LEMMA SameStatics ==
  ASSUME StaticsInv, UNCHANGED statics
  PROVE  StaticsInv'
BY DEF StaticsInv

\* The file stays while it is read,
LEMMA SamePlace ==
  ASSUME PlaceInv, UNCHANGED input, at' \in 1..(Len(input) + 1)
  PROVE  PlaceInv'
BY DEF PlaceInv, InputInv

\* and the settings stay.
LEMMA SameConverter ==
  ASSUME ConverterInv, UNCHANGED <<converter, input>>
  PROVE  ConverterInv'
BY DEF ConverterInv

\* Every step keeps the invariant.
LEMMA StepInv ==
  ASSUME IInv, Next
  PROVE  IInv'
<1>1. StaticsInv /\ PlaceInv /\ ConverterInv /\ OutInv
  BY DEF IInv
<1>2. Len(input) \in Nat /\ DOMAIN input = 1..Len(input) /\ at \in 1..(Len(input) + 1)
  BY <1>1, InputTokens DEF PlaceInv
<1>3. PICK r : r = default_(Here)
  OBVIOUS
<1>4. r \in Places(statics)
  BY <1>1, <1>3, HerePlace
<1>5. r.at \in 0..(Len(input) + 1) /\ r.s \in Ready(statics)
  BY <1>4 DEF Places
<1>6. ASSUME NEW file \in Files, Copy(file) PROVE IInv'
  <2>1. OutInv'
    BY <1>6 DEF Copy, OutInv
  <2>2. UNCHANGED <<statics, input, at, converter>>
    BY <1>6 DEF Copy
  <2> QED BY <1>1, <1>2, <2>1, <2>2, SameStatics, SamePlace, SameConverter DEF IInv
<1>7. ASSUME NEW file \in Files, Start(file) PROVE IInv'
  <2>1. /\ UNCHANGED <<statics, converter, out>> /\ converter.dftrans # 0
        /\ input' = Tokens(file) /\ at' = 1 /\ phase' = "parse"
    BY <1>7 DEF Start
  <2>2. InputInv'
    BY <2>1, FilesAreTokens DEF InputInv
  <2>3. Len(input') \in Nat
    BY <2>2 DEF InputInv
  <2>4. PlaceInv'
    BY <2>1, <2>2, <2>3 DEF PlaceInv
  <2>5. ConverterInv'
    BY <1>1, <2>1 DEF ConverterInv
  <2>6. OutInv'
    BY <1>1, <2>1 DEF OutInv
  <2> QED BY <1>1, <2>1, <2>4, <2>5, <2>6, SameStatics DEF IInv
<1>8. ASSUME PushNamespace PROVE IInv'
  <2>1. /\ at \in DOMAIN input /\ at' = at + 1 /\ UNCHANGED <<input, phase, converter, out>>
        /\ statics' = [push_others(statics, <<input[at]>>) EXCEPT !.namespaces = Append(@, input[at])]
    BY <1>8 DEF PushNamespace, Parsing
  <2>2. PICK u : u = push_others(statics, <<input[at]>>)
    OBVIOUS
  <2>3. u \in Ready(u) /\ u.defaults = statics.defaults
    <3>1. PICK x : x = statics.others \o <<input[at]>>
      OBVIOUS
    <3>2. u = [statics EXCEPT !.others = x] /\ statics \in Ready(statics)
      BY <1>1, <2>2, <3>1 DEF push_others, StaticsInv
    <3> QED BY <3>2, ReadyOthers
  <2>4. statics' = [u EXCEPT !.namespaces = Append(u.namespaces, input[at])]
    BY <2>1, <2>2
  <2>5. statics' \in Ready(statics') /\ statics'.defaults = statics.defaults
    <3>1. PICK x : x = Append(u.namespaces, input[at])
      OBVIOUS
    <3>2. statics' = [u EXCEPT !.namespaces = x]
      BY <2>4, <3>1
    <3> QED BY <2>3, <3>2, ReadyNamespaces
  <2>6. StaticsInv'
    BY <1>1, <2>5, StaticsOthers
  <2>7. at' \in 1..(Len(input) + 1)
    BY <1>2, <2>1
  <2>8. OutInv'
    BY <1>1, <2>1 DEF OutInv
  <2> QED BY <1>1, <2>1, <2>6, <2>7, <2>8, SamePlace, SameConverter DEF IInv
<1>9. ASSUME LeadingComment \/ ReadComment PROVE IInv'
  <2>1. /\ at \in DOMAIN input /\ at' \in {at + 1, Len(input) + 1}
        /\ UNCHANGED <<statics, input, phase, converter, out>>
    BY <1>9 DEF LeadingComment, ReadComment, InSecondStar, Parsing, BehindComment
  <2>2. at' \in 1..(Len(input) + 1)
    BY <1>2, <2>1
  <2>3. OutInv'
    BY <1>1, <2>1 DEF OutInv
  <2> QED BY <1>1, <2>1, <2>2, <2>3, SameStatics, SamePlace, SameConverter DEF IInv
<1>10. ASSUME ReadDefault PROVE IInv'
  <2>1. /\ r.at # 0 /\ at' = r.at /\ statics' = push_default(r.s)
        /\ UNCHANGED <<input, phase, converter, out>>
    BY <1>3, <1>10 DEF ReadDefault
  <2>2. StaticsInv'
    BY <1>1, <1>5, <2>1, StaticsPush
  <2>3. at' \in 1..(Len(input) + 1)
    BY <1>2, <1>5, <2>1
  <2>4. OutInv'
    BY <1>1, <2>1 DEF OutInv
  <2> QED BY <1>1, <2>1, <2>2, <2>3, <2>4, SamePlace, SameConverter DEF IInv
<1>11. ASSUME ReadOthers PROVE IInv'
  <2> DEFINE dot == CHOOSE i \in Dots(at) : \A j \in Dots(at) : i <= j
  <2>1. /\ Dots(at) # {} /\ at' = dot + 1
        /\ statics' = push_others(r.s, SubSeq(input, at, dot))
        /\ UNCHANGED <<input, phase, converter, out>>
    BY <1>3, <1>11 DEF ReadOthers
  <2>2. at' \in 1..(Len(input) + 1)
    BY <1>1, <2>1, LeastDot
  <2> HIDE DEF dot
  <2>3. statics' = [r.s EXCEPT !.others = r.s.others \o SubSeq(input, at, dot)]
    BY <2>1 DEF push_others
  <2>4. statics' \in Ready(statics') /\ statics'.defaults = statics.defaults
    <3>1. PICK x : x = r.s.others \o SubSeq(input, at, dot)
      OBVIOUS
    <3>2. PICK s, t : s = r.s /\ t = statics'
      OBVIOUS
    <3>3. t = [s EXCEPT !.others = x] /\ s \in Ready(statics)
      BY <1>5, <2>3, <3>1, <3>2
    <3>4. t \in Ready(t) /\ t.defaults = statics.defaults
      BY ONLY <3>3, ReadyOthers
    <3> QED BY <3>2, <3>4
  <2>5. StaticsInv'
    BY <1>1, <2>4, StaticsOthers
  <2>6. OutInv'
    BY <1>1, <2>1 DEF OutInv
  <2> QED BY <1>1, <2>1, <2>2, <2>5, <2>6, SamePlace, SameConverter DEF IInv
<1>12. ASSUME SyntaxError PROVE IInv'
  <2>1. /\ statics' = r.s /\ out' = [kind |-> "error"] /\ phase' = "idle"
        /\ UNCHANGED <<input, at, converter>>
    BY <1>3, <1>12 DEF SyntaxError
  <2>2. StaticsInv'
    BY <1>1, <1>5, <2>1, StaticsBack, StaticsOthers
  <2>3. OutInv'
    BY <2>1 DEF OutInv
  <2> QED BY <1>1, <1>2, <2>1, <2>2, <2>3, SamePlace, SameConverter DEF IInv
<1>13. ASSUME WriteInput PROVE IInv'
  <2>1. OutInv'
    BY <1>13 DEF WriteInput, OutInv
  <2>2. UNCHANGED <<statics, input, at, converter>>
    BY <1>13 DEF WriteInput
  <2> QED BY <1>1, <1>2, <2>1, <2>2, SameStatics, SamePlace, SameConverter DEF IInv
<1>14. ASSUME RewriteFails PROVE IInv'
  <2>1. OutInv'
    BY <1>14 DEF RewriteFails, OutInv
  <2>2. UNCHANGED <<statics, input, at, converter>>
    BY <1>14 DEF RewriteFails
  <2> QED BY <1>1, <1>2, <2>1, <2>2, SameStatics, SamePlace, SameConverter DEF IInv
<1>15. ASSUME Rewrite PROVE IInv'
  <2>1. UNCHANGED <<statics, input, at>>
    BY <1>15 DEF Rewrite
  <2>2. ConverterInv'
    <3>1. converter' = [converter EXCEPT !.individuals = readIndividuals]
      BY <1>15 DEF Rewrite
    <3>2. converter' \in [cqmode : BOOLEAN, dftrans : 0..3, ontology : BOOLEAN,
                          individuals : {converter'.individuals}]
          /\ converter'.dftrans = converter.dftrans
      BY <1>1, <3>1 DEF ConverterInv
    <3> QED BY <1>1, <2>1, <3>2 DEF ConverterInv
  <2>3. OutInv'
    <3>1. /\ phase' = "converted" /\ out'.kind = "program"
          /\ out'.rules = getDLRules(statics.defaults, converter.cqmode, converter.dftrans)
      BY <1>15 DEF Rewrite
    <3>2. \A i \in DOMAIN statics.defaults : IsDefault(statics.defaults[i])
      BY <1>1, DefaultType DEF StaticsInv
    <3>3. \A q \in out'.rules : Safe(q)
      BY <3>1, <3>2, SafeRules
    <3> QED BY <3>1, <3>3 DEF OutInv
  <2> QED BY <1>1, <1>2, <2>1, <2>2, <2>3, SameStatics, SamePlace DEF IInv
<1>16. ASSUME BuildResult PROVE IInv'
  <2>1. phase' = "shown" /\ UNCHANGED <<statics, input, at, converter, out>>
    BY <1>16 DEF BuildResult
  <2>2. OutInv'
    BY <1>1, <2>1 DEF OutInv
  <2> QED BY <1>1, <1>2, <2>1, <2>2, SameStatics, SamePlace, SameConverter DEF IInv
<1>17. ASSUME NextFile PROVE IInv'
  <2>1. /\ phase' = "idle" /\ out' = [kind |-> "nothing"]
        /\ UNCHANGED <<statics, input, at, converter>>
    BY <1>17 DEF NextFile, Nothing
  <2>2. OutInv'
    BY <2>1 DEF OutInv
  <2> QED BY <1>1, <1>2, <2>1, <2>2, SameStatics, SamePlace, SameConverter DEF IInv
<1>18. ASSUME Rests PROVE IInv'
  <2>1. UNCHANGED <<statics, input, at, converter, phase, out>>
    BY <1>18 DEF Rests, vars
  <2>2. OutInv'
    BY <1>1, <2>1 DEF OutInv
  <2> QED BY <1>1, <1>2, <2>1, <2>2, SameStatics, SamePlace, SameConverter DEF IInv
<1> QED BY <1>6, <1>7, <1>8, <1>9, <1>10, <1>11, <1>12, <1>13, <1>14, <1>15, <1>16, <1>17,
           <1>18 DEF Next

\* So it always holds.
LEMMA InvAlways == Spec => []IInv
<1>1. IInv /\ [Next]_vars => IInv'
  <2>1. ASSUME IInv, UNCHANGED vars PROVE IInv'
    <3>1. UNCHANGED <<statics, input, at, converter, phase, out>>
      BY <2>1 DEF vars
    <3>2. StaticsInv /\ PlaceInv /\ ConverterInv /\ OutInv
      BY <2>1 DEF IInv
    <3>3. OutInv'
      BY <3>1, <3>2 DEF OutInv
    <3>4. at' \in 1..(Len(input) + 1)
      BY <3>1, <3>2 DEF PlaceInv
    <3> QED BY <3>1, <3>2, <3>3, <3>4, SameStatics, SamePlace, SameConverter DEF IInv
  <2> QED BY <2>1, StepInv
<1> QED BY <1>1, InitInv, PTL DEF Spec

-----------------------------------------------------------------------------
(* Names. *)

\* What is in front of a sequence, and the sequence, can be told from both together.
LEMMA HeadAndRest ==
  ASSUME NEW X, NEW s \in Seq(X), NEW t \in Seq(X), NEW a \in X, NEW b \in X,
         <<a>> \o s = <<b>> \o t
  PROVE  a = b /\ s = t
<1>1. <<a>> \in Seq(X) /\ <<b>> \in Seq(X)
  BY ONLY a \in X, b \in X
<1>2. (<<a>> \o s)[1] = a
  BY ONLY a \in X, s \in Seq(X)
<1>3. (<<b>> \o t)[1] = b
  BY ONLY b \in X, t \in Seq(X)
<1>4. a = b
  BY <1>2, <1>3
<1>5. <<a>> \o s = <<a>> \o t
  BY <1>4
<1>6. s = t
  BY ONLY a \in X, s \in Seq(X), t \in Seq(X), <1>1, <1>5, ConcatSimplifications
<1> QED BY <1>4, <1>6

\* Two literals whose signed names are the same are spelled alike.
LEMMA SignedAlike ==
  ASSUME NEW l \in Predicates, NEW m \in Predicates,
         getSignedPredicateName(l) = getSignedPredicateName(m)
  PROVE  SpelledAlike(l, m)
<1>1. l.neg \in BOOLEAN /\ m.neg \in BOOLEAN /\ l.name \in Seq(Words) /\ m.name \in Seq(Words)
  BY DEF Predicates
<1>2. PICK X : X = Words \union {"neg_"}
  OBVIOUS
<1>3. l.name \in Seq(X) /\ m.name \in Seq(X) /\ "neg_" \in X
  <2>1. Words \subseteq X /\ "neg_" \in X
    BY <1>2
  <2> QED BY ONLY <1>1, <2>1
<1>4. CASE l.neg /\ m.neg
  <2>1. <<"neg_">> \o l.name = <<"neg_">> \o m.name
    BY <1>4 DEF getSignedPredicateName
  <2>2. PICK n, s, t : n = "neg_" /\ s = l.name /\ t = m.name
    OBVIOUS
  <2>3. n \in X /\ s \in Seq(X) /\ t \in Seq(X) /\ <<n>> \o s = <<n>> \o t
    BY <1>3, <2>1, <2>2
  <2>4. s = t
    BY ONLY <2>3, HeadAndRest
  <2> QED BY <1>1, <1>4, <2>2, <2>4 DEF SpelledAlike
<1>5. CASE l.neg /\ ~m.neg
  BY <1>5 DEF getSignedPredicateName, SpelledAlike
<1>6. CASE ~l.neg /\ m.neg
  BY <1>6 DEF getSignedPredicateName, SpelledAlike
<1>7. CASE ~l.neg /\ ~m.neg
  BY <1>1, <1>7 DEF getSignedPredicateName, SpelledAlike
<1> QED BY <1>1, <1>4, <1>5, <1>6, <1>7

\* A conjunction of one literal has its signed name behind the prefix,
LEMMA NameOfLiteral ==
  ASSUME NEW c \in Conjunctions, Len(c) = 1, NEW prefix, NEW i, NEW k
  PROVE  /\ c[1] \in Predicates
         /\ behalf_name(c, prefix, i, k) = <<prefix>> \o getSignedPredicateName(c[1])
<1>1. c \in Seq(Predicates) /\ 1 \in 1..Len(c)
  BY DEF Conjunctions
<1>2. c[1] \in Predicates
  BY <1>1
<1> QED BY <1>2 DEF behalf_name

\* which is a sequence of the pieces that the names of defaults are made of;
NamePieces == Words \union {"neg_"}

LEMMA SignedPieces ==
  ASSUME NEW l \in Predicates
  PROVE  getSignedPredicateName(l) \in Seq(NamePieces)
<1>1. l.name \in Seq(Words)
  BY DEF Predicates
<1>2. Words \subseteq NamePieces /\ "neg_" \in NamePieces
  BY DEF NamePieces
<1>3. l.name \in Seq(NamePieces) /\ <<"neg_">> \o l.name \in Seq(NamePieces)
  BY ONLY <1>1, <1>2
<1> QED BY <1>3 DEF getSignedPredicateName

\* and any other has its prefix and its numbers.
LEMMA NameOfMany ==
  ASSUME NEW c, Len(c) # 1, NEW prefix, NEW i, NEW k \in Nat, NEW name,
         name = behalf_name(c, prefix, i, k)
  PROVE  /\ name[1] = "all_" /\ name[2] = prefix /\ name[3] = i
         /\ k = 0 => Len(name) = 3
         /\ k # 0 => Len(name) = 5 /\ name[5] = k
<1>1. PICK u, v : u = "all_" /\ v = "_"
  OBVIOUS
<1>2. PICK X : X = {u, v, prefix, i, k}
  OBVIOUS
<1>3. u \in X /\ v \in X /\ prefix \in X /\ i \in X /\ k \in X
  BY <1>2
<1>4. <<u, prefix, i>> \in Seq(X) /\ <<v, k>> \in Seq(X)
  BY ONLY <1>3
<1>5. PICK s : s = <<u, prefix, i>>
  OBVIOUS
<1>6. PICK t : t = (IF k > 0 THEN <<v, k>> ELSE <<>>)
  OBVIOUS
<1>7. name = s \o t
  BY <1>1, <1>5, <1>6, Zenon DEF behalf_name
<1>8. s \in Seq(X) /\ Len(s) = 3 /\ s[1] = u /\ s[2] = prefix /\ s[3] = i
  BY ONLY <1>3, <1>4, <1>5
<1>9. CASE k = 0
  <2>1. t = <<>>
    BY ONLY <1>6, <1>9
  <2>2. s \o t = s
    BY ONLY <1>8, <2>1, ConcatEmptySeq
  <2> QED BY <1>1, <1>7, <1>8, <1>9, <2>2
<1>10. CASE k # 0
  <2>1. t = <<v, k>>
    BY <1>6, <1>10
  <2>2. t \in Seq(X) /\ Len(t) = 2 /\ t[2] = k
    BY ONLY <1>3, <1>4, <2>1
  <2>3. /\ Len(s \o t) = Len(s) + Len(t)
        /\ \A n \in 1..(Len(s) + Len(t)) :
             (s \o t)[n] = IF n <= Len(s) THEN s[n] ELSE t[n - Len(s)]
    BY ONLY <1>8, <2>2, ConcatProperties
  <2>4. Len(s \o t) = 5 /\ (s \o t)[5] = k
    BY ONLY <1>8, <2>2, <2>3
  <2>5. (s \o t)[1] = u /\ (s \o t)[2] = prefix /\ (s \o t)[3] = i
    BY ONLY <1>8, <2>2, <2>3
  <2> QED BY <1>1, <1>7, <1>10, <2>4, <2>5
<1> QED BY <1>9, <1>10

NamePrefixes == {"in_", "cons_"}

\* The name of a conjunction says which literal it is, or which numbers it has.
LEMMA NameOf ==
  ASSUME NEW p \in Conjunctions, NEW q \in Conjunctions, NEW a \in NamePrefixes, NEW b \in NamePrefixes,
         NEW i \in Nat, NEW j \in Nat, NEW k \in Nat, NEW l \in Nat,
         behalf_name(p, a, i, k) = behalf_name(q, b, j, l)
  PROVE  /\ a = b
         /\ \/ i = j /\ k = l
            \/ Len(p) = 1 /\ Len(q) = 1 /\ SpelledAlike(p[1], q[1])
<1>1. ASSUME NEW c \in Conjunctions, NEW f \in NamePrefixes, NEW n, NEW m, Len(c) = 1
      PROVE  behalf_name(c, f, n, m)[1] # "all_"
  <2>1. behalf_name(c, f, n, m) = <<f>> \o getSignedPredicateName(c[1])
    BY <1>1, NameOfLiteral
  <2>2. getSignedPredicateName(c[1]) \in Seq(NamePieces)
    BY <1>1, NameOfLiteral, SignedPieces
  <2>3. (<<f>> \o getSignedPredicateName(c[1]))[1] = f
    <3>1. PICK X, s : X = NamePieces \union {f} /\ s = getSignedPredicateName(c[1])
      OBVIOUS
    <3>2. NamePieces \subseteq X /\ f \in X /\ s \in Seq(NamePieces)
      BY <2>2, <3>1
    <3>3. s \in Seq(X)
      BY ONLY <3>2
    <3>4. (<<f>> \o s)[1] = f
      BY ONLY <3>2, <3>3
    <3> QED BY <3>1, <3>4
  <2> QED BY <2>1, <2>3 DEF NamePrefixes
<1>2. CASE Len(p) = 1 /\ Len(q) = 1
  <2>1. <<a>> \o getSignedPredicateName(p[1]) = <<b>> \o getSignedPredicateName(q[1])
    BY <1>2, NameOfLiteral
  <2>2. p[1] \in Predicates /\ q[1] \in Predicates
    BY <1>2, NameOfLiteral
  <2>3. PICK s \in Seq(NamePieces) : s = getSignedPredicateName(p[1])
    BY <2>2, SignedPieces
  <2>4. PICK t \in Seq(NamePieces) : t = getSignedPredicateName(q[1])
    BY <2>2, SignedPieces
  <2>5. PICK X : X = NamePieces \union {a, b}
    OBVIOUS
  <2>6. NamePieces \subseteq X /\ a \in X /\ b \in X
    BY <2>5
  <2>7. s \in Seq(X) /\ t \in Seq(X)
    BY ONLY <2>3, <2>4, <2>6
  <2>8. <<a>> \o s = <<b>> \o t
    BY <2>1, <2>3, <2>4
  <2>9. a = b /\ s = t
    BY ONLY <2>6, <2>7, <2>8, HeadAndRest
  <2>10. SpelledAlike(p[1], q[1])
    BY <2>2, <2>3, <2>4, <2>9, SignedAlike
  <2> QED BY <1>2, <2>9, <2>10
<1>3. CASE Len(p) # 1 /\ Len(q) # 1
  <2>1. PICK x, y : x = behalf_name(p, a, i, k) /\ y = behalf_name(q, b, j, l)
    OBVIOUS
  <2>2. /\ x[2] = a /\ x[3] = i /\ (k = 0 => Len(x) = 3) /\ (k # 0 => Len(x) = 5 /\ x[5] = k)
        /\ y[2] = b /\ y[3] = j /\ (l = 0 => Len(y) = 3) /\ (l # 0 => Len(y) = 5 /\ y[5] = l)
    BY <1>3, <2>1, NameOfMany
  <2>3. x = y
    BY <2>1
  <2> QED BY ONLY <2>2, <2>3
<1>4. CASE Len(p) = 1 /\ Len(q) # 1
  BY <1>1, <1>4, NameOfMany
<1>5. CASE Len(p) # 1 /\ Len(q) = 1
  BY <1>1, <1>5, NameOfMany
<1> QED BY <1>2, <1>3, <1>4, <1>5

\* What has a name in a default is a conjunction.
LEMMA NamedConjunction ==
  ASSUME NEW d, IsDefault(d), NEW k \in NamedPlaces(d)
  PROVE  /\ ConjunctionAt(d, k) \in Conjunctions /\ k \in Nat /\ d.id \in Nat
         /\ NameAt(d, k) = behalf_name(ConjunctionAt(d, k), IF k = 0 THEN "in_" ELSE "cons_",
                                       d.id, k)
<1>1. d.conclusion \in Conjunctions /\ d.justifications \in Justifications /\ d.id \in Nat
  BY DEF IsDefault
<1>2. k \in 0..Len(d.justifications) /\ Len(d.justifications) \in Nat
  BY <1>1 DEF NamedPlaces, Justifications
<1>3. k # 0 => d.justifications[k] \in Conjunctions
  <2>1. PICK js, C : js = d.justifications /\ C = Conjunctions \ {<<>>}
    OBVIOUS
  <2>2. js \in Seq(C)
    BY <1>1, <2>1 DEF Justifications
  <2>3. k # 0 => k \in 1..Len(js)
    BY <1>2, <2>1
  <2>4. k # 0 => js[k] \in C
    BY ONLY <2>2, <2>3
  <2> QED BY <2>1, <2>4
<1>4. ConjunctionAt(d, k) \in Conjunctions
  BY <1>1, <1>3 DEF ConjunctionAt
<1> QED BY <1>1, <1>2, <1>4 DEF NameAt

-----------------------------------------------------------------------------
(* The theorems. *)

\* The lists of the parser hold what they are for, its place is in the file, and what it
\* made a default of has no empty justification, for all files.
THEOREM ConverterTypeCorrect == Spec => []TypeOK
<1>1. IInv => TypeOK
  <2> SUFFICES ASSUME IInv PROVE TypeOK
    OBVIOUS
  <2>1. StaticsInv /\ PlaceInv /\ ConverterInv /\ OutInv
    BY DEF IInv
  <2>2. statics.lst_predicate \in Conjunctions /\ statics.lst_justification \in Justifications
    BY <2>1, ReadyFields DEF StaticsInv
  <2>3. \A i \in DOMAIN statics.defaults : IsDefault(statics.defaults[i])
    BY <2>1, DefaultType DEF StaticsInv
  <2>4. at \in 1..(Len(input) + 1)
    BY <2>1 DEF PlaceInv
  <2>5. converter.dftrans = 0 => input = <<>>
    BY <2>1 DEF ConverterInv
  <2> QED BY <2>1, <2>2, <2>3, <2>4, <2>5 DEF TypeOK, OutInv
<1> QED BY <1>1, InvAlways, PTL

\* Every rule of a program that has a body is safe: dom or the argument binds all its
\* variables, whichever of the three rewritings made it (Default.cpp, DLRules).
THEOREM RulesAlwaysSafe == Spec => []RulesAreSafe
<1>1. IInv => RulesAreSafe
  BY DEF IInv, OutInv, RulesAreSafe, Safe
<1> QED BY <1>1, InvAlways, PTL

\* The names that are guessed for conjunctions meet only where one literal is spelled like
\* another, -f like neg_f or with another namespace: not between a conclusion and a
\* justification, nor where a number is in the name (Pred1Dim.cpp, behalf_name).
THEOREM NamesAlwaysApart == Spec => []AuxiliaryNamesApart
<1>1. IInv => AuxiliaryNamesApart
  <2> SUFFICES ASSUME IInv, NEW i \in DOMAIN statics.defaults, NEW j \in DOMAIN statics.defaults,
                      NEW k \in NamedPlaces(statics.defaults[i]),
                      NEW l \in NamedPlaces(statics.defaults[j]),
                      NameAt(statics.defaults[i], k) = NameAt(statics.defaults[j], l)
               PROVE  \/ i = j /\ k = l
                      \/ /\ (k = 0) <=> (l = 0)
                         /\ Len(ConjunctionAt(statics.defaults[i], k)) = 1
                         /\ Len(ConjunctionAt(statics.defaults[j], l)) = 1
                         /\ SpelledAlike(ConjunctionAt(statics.defaults[i], k)[1],
                                         ConjunctionAt(statics.defaults[j], l)[1])
    BY DEF AuxiliaryNamesApart
  <2>1. StaticsInv
    BY DEF IInv
  <2>2. PICK d, e : d = statics.defaults[i] /\ e = statics.defaults[j]
    OBVIOUS
  <2>3. d.id = i /\ e.id = j
    BY <2>1, <2>2 DEF StaticsInv
  <2>4. IsDefault(d) /\ IsDefault(e)
    BY <2>1, <2>2, DefaultType DEF StaticsInv
  <2>5. PICK p, q, a, b : /\ p = ConjunctionAt(d, k) /\ q = ConjunctionAt(e, l)
                          /\ a = (IF k = 0 THEN "in_" ELSE "cons_")
                          /\ b = (IF l = 0 THEN "in_" ELSE "cons_")
    OBVIOUS
  <2>6. /\ p \in Conjunctions /\ k \in Nat /\ i \in Nat /\ NameAt(d, k) = behalf_name(p, a, i, k)
        /\ q \in Conjunctions /\ l \in Nat /\ j \in Nat /\ NameAt(e, l) = behalf_name(q, b, j, l)
    BY <2>2, <2>3, <2>4, <2>5, NamedConjunction
  <2>7. a \in NamePrefixes /\ b \in NamePrefixes /\ (a = b => ((k = 0) <=> (l = 0)))
    BY <2>5 DEF NamePrefixes
  <2>8. behalf_name(p, a, i, k) = behalf_name(q, b, j, l)
    BY <2>2, <2>6
  <2>9. /\ a = b
        /\ \/ i = j /\ k = l
           \/ Len(p) = 1 /\ Len(q) = 1 /\ SpelledAlike(p[1], q[1])
    BY <2>6, <2>7, <2>8, NameOf
  <2> QED BY <2>2, <2>5, <2>7, <2>9
<1> QED BY <1>1, InvAlways, PTL

-----------------------------------------------------------------------------
(* Places and statics. *)

\* A place of the parser.
At(a, l) == [at |-> a, s |-> l]

\* Statics without terms that wait for their literal.
Lists(pl, jl, pre, js, con, arg, s) ==
  [lst_term |-> <<>>, lst_predicate |-> pl, lst_justification |-> jl,
   prerequisite |-> pre, justifications |-> js, conclusion |-> con, argument |-> arg,
   defaults |-> s.defaults, others |-> s.others, namespaces |-> s.namespaces]

\* What the semantic actions make of them.
LEMMA ListsSteps ==
  ASSUME NEW pl, NEW jl, NEW pre, NEW js, NEW con, NEW arg, NEW s
  PROVE  /\ push_lst_justification(Lists(pl, jl, pre, js, con, arg, s)) =
              Lists(<<>>, Append(jl, pl), pre, js, con, arg, s)
         /\ set_prerequisite(Lists(pl, jl, pre, js, con, arg, s)) =
              Lists(<<>>, jl, pl, js, con, arg, s)
         /\ set_conclusion(Lists(pl, jl, pre, js, con, arg, s)) =
              Lists(<<>>, jl, pre, js, pl, arg, s)
         /\ set_justifications(Lists(pl, jl, pre, js, con, arg, s)) =
              Lists(pl, <<>>, pre, jl, con, arg, s)
<1>1. PICK l : l = Lists(pl, jl, pre, js, con, arg, s)
  OBVIOUS
<1>2. l.lst_predicate = pl /\ l.lst_justification = jl
  BY <1>1 DEF Lists
<1>3. push_lst_justification(l) = Lists(<<>>, Append(jl, pl), pre, js, con, arg, s)
  <2>1. PICK u : u = [l EXCEPT !.lst_justification = Append(jl, pl)]
    OBVIOUS
  <2>2. u = Lists(pl, Append(jl, pl), pre, js, con, arg, s)
    BY <1>1, <2>1 DEF Lists
  <2>3. push_lst_justification(l) = [u EXCEPT !.lst_predicate = <<>>]
    BY <1>2, <2>1 DEF push_lst_justification
  <2> QED BY <2>2, <2>3 DEF Lists
<1>4. set_prerequisite(l) = Lists(<<>>, jl, pl, js, con, arg, s)
  <2>1. PICK u : u = [l EXCEPT !.prerequisite = pl]
    OBVIOUS
  <2>2. u = Lists(pl, jl, pl, js, con, arg, s)
    BY <1>1, <2>1 DEF Lists
  <2>3. set_prerequisite(l) = [u EXCEPT !.lst_predicate = <<>>]
    BY <1>2, <2>1 DEF set_prerequisite
  <2> QED BY <2>2, <2>3 DEF Lists
<1>5. set_conclusion(l) = Lists(<<>>, jl, pre, js, pl, arg, s)
  <2>1. PICK u : u = [l EXCEPT !.conclusion = pl]
    OBVIOUS
  <2>2. u = Lists(pl, jl, pre, js, pl, arg, s)
    BY <1>1, <2>1 DEF Lists
  <2>3. set_conclusion(l) = [u EXCEPT !.lst_predicate = <<>>]
    BY <1>2, <2>1 DEF set_conclusion
  <2> QED BY <2>2, <2>3 DEF Lists
<1>6. set_justifications(l) = Lists(pl, <<>>, pre, jl, con, arg, s)
  <2>1. PICK u : u = [l EXCEPT !.justifications = jl]
    OBVIOUS
  <2>2. u = Lists(pl, jl, pre, jl, con, arg, s)
    BY <1>1, <2>1 DEF Lists
  <2>3. set_justifications(l) = [u EXCEPT !.lst_justification = <<>>]
    BY <1>2, <2>1 DEF set_justifications
  <2> QED BY <2>2, <2>3 DEF Lists
<1> QED BY <1>1, <1>3, <1>4, <1>5, <1>6

\* A literal is read with its own terms,
LEMMA LiteralPushed ==
  ASSUME NEW pl, NEW jl, NEW pre, NEW js, NEW con, NEW arg, NEW s, NEW p \in Predicates
  PROVE  push_lst_literal(push_lst_term(Lists(pl, jl, pre, js, con, arg, s), p.terms), p) =
           Lists(Append(pl, p), jl, pre, js, con, arg, s)
<1>1. PICK l : l = Lists(pl, jl, pre, js, con, arg, s)
  OBVIOUS
<1>2. PICK terms \in Seq(Words) : terms = p.terms
  BY DEF Predicates
<1>3. l.lst_term \o terms = terms
  <2>1. l.lst_term = <<>>
    BY <1>1 DEF Lists
  <2> QED BY <2>1
<1>4. PICK u : u = push_lst_term(l, p.terms)
  OBVIOUS
<1>5. /\ u = [l EXCEPT !.lst_term = terms]
      /\ u.lst_term = terms /\ u.lst_predicate = pl
  <2>1. u = [l EXCEPT !.lst_term = terms]
    BY <1>2, <1>3, <1>4 DEF push_lst_term
  <2> QED BY <1>1, <2>1 DEF Lists
<1>6. [p EXCEPT !.terms = u.lst_term] = p
  BY <1>2, <1>5 DEF Predicates
<1>7. PICK v : v = [u EXCEPT !.lst_predicate = Append(pl, p)]
  OBVIOUS
<1>8. push_lst_literal(u, p) = [v EXCEPT !.lst_term = <<>>]
  BY <1>5, <1>6, <1>7 DEF push_lst_literal
<1>9. PICK w : w = [l EXCEPT !.lst_predicate = Append(pl, p)]
  OBVIOUS
<1>10. w = Lists(Append(pl, p), jl, pre, js, con, arg, s)
  BY <1>1, <1>9 DEF Lists
<1>11. v = [w EXCEPT !.lst_term = terms]
  BY <1>1, <1>5, <1>7, <1>9 DEF Lists
<1>12. [v EXCEPT !.lst_term = <<>>] = w
  <2>1. PICK more : more = Append(pl, p)
    OBVIOUS
  <2>2. w = Lists(more, jl, pre, js, con, arg, s)
    BY <1>10, <2>1
  <2>3. v = [lst_term |-> terms, lst_predicate |-> more, lst_justification |-> jl,
             prerequisite |-> pre, justifications |-> js, conclusion |-> con,
             argument |-> arg, defaults |-> s.defaults, others |-> s.others,
             namespaces |-> s.namespaces]
    BY <1>11, <2>2 DEF Lists
  <2> QED BY ONLY <2>2, <2>3 DEF Lists
<1> QED BY <1>1, <1>4, <1>8, <1>10, <1>12

\* and an argument too.
LEMMA ArgumentSet ==
  ASSUME NEW pl, NEW jl, NEW pre, NEW js, NEW con, NEW arg, NEW s,
         NEW a \in [name : Seq(Words), terms : Seq(Words)]
  PROVE  set_argument(push_lst_term(Lists(pl, jl, pre, js, con, arg, s), a.terms), a.name) =
           Lists(pl, jl, pre, js, con, <<a>>, s)
<1>1. PICK l : l = Lists(pl, jl, pre, js, con, arg, s)
  OBVIOUS
<1>2. PICK terms \in Seq(Words) : terms = a.terms
  OBVIOUS
<1>3. l.lst_term \o terms = terms
  <2>1. l.lst_term = <<>>
    BY <1>1 DEF Lists
  <2> QED BY <2>1
<1>4. PICK u : u = push_lst_term(l, a.terms)
  OBVIOUS
<1>5. u = [l EXCEPT !.lst_term = terms] /\ u.lst_term = terms
  <2>1. u = [l EXCEPT !.lst_term = terms]
    BY <1>2, <1>3, <1>4 DEF push_lst_term
  <2> QED BY <1>1, <2>1 DEF Lists
<1>6. Atom(a.name, u.lst_term) = a
  BY <1>2, <1>5 DEF Atom
<1>7. PICK v : v = [u EXCEPT !.argument = <<a>>]
  OBVIOUS
<1>8. set_argument(u, a.name) = [v EXCEPT !.lst_term = <<>>]
  BY <1>6, <1>7 DEF set_argument
<1>9. PICK w : w = [l EXCEPT !.argument = <<a>>]
  OBVIOUS
<1>10. w = Lists(pl, jl, pre, js, con, <<a>>, s)
  BY <1>1, <1>9 DEF Lists
<1>11. v = [w EXCEPT !.lst_term = terms]
  BY <1>1, <1>5, <1>7, <1>9 DEF Lists
<1>12. [v EXCEPT !.lst_term = <<>>] = w
  <2>1. v = [lst_term |-> terms, lst_predicate |-> pl, lst_justification |-> jl,
             prerequisite |-> pre, justifications |-> js, conclusion |-> con,
             argument |-> <<a>>, defaults |-> s.defaults, others |-> s.others,
             namespaces |-> s.namespaces]
    BY <1>10, <1>11 DEF Lists
  <2> QED BY <1>10, <2>1 DEF Lists
<1> QED BY <1>1, <1>4, <1>8, <1>10, <1>12

\* There is a token at a place.
Seen(a, t) == a \in DOMAIN input /\ input[a].t = t

LEMMA TokReads ==
  ASSUME NEW a, NEW l, NEW t
  PROVE  Tok(At(a, l), t) = IF Seen(a, t) THEN At(a + 1, l) ELSE At(0, l)
BY DEF Tok, Matches, Fails, At, Seen

\* The signs of which there are names for the prover.
Comma == ","
Semicolon == ";"

\* No more literals, and no more justifications.
EndsConjunction(a) == ~Seen(a, "&")
EndsJustifications(a) == ~Seen(a, Comma)

\* Nothing is at no place.
LEMMA NothingSeen ==
  ASSUME InputInv, NEW t
  PROVE  ~Seen(0, t)
BY InputTokens DEF Seen

LEMMA LitReads ==
  ASSUME NEW pl, NEW jl, NEW pre, NEW js, NEW con, NEW arg, NEW s, NEW a
  PROVE  /\ \A p \in Predicates : a \in DOMAIN input /\ input[a] = LiteralToken(p) =>
              lit_(At(a, Lists(pl, jl, pre, js, con, arg, s))) =
                At(a + 1, Lists(Append(pl, p), jl, pre, js, con, arg, s))
         /\ ~Seen(a, "lit") =>
              lit_(At(a, Lists(pl, jl, pre, js, con, arg, s))) =
                At(0, Lists(pl, jl, pre, js, con, arg, s))
<1> DEFINE l == Lists(pl, jl, pre, js, con, arg, s)
<1>1. ASSUME NEW p \in Predicates, a \in DOMAIN input, input[a] = LiteralToken(p)
      PROVE  lit_(At(a, l)) = At(a + 1, Lists(Append(pl, p), jl, pre, js, con, arg, s))
  <2>1. input[a].t = "lit" /\ input[a].p = p /\ input[a].ok = TRUE
    BY <1>1 DEF LiteralToken
  <2>2. Matches(At(a, l), "lit") /\ At(a, l).at = a /\ At(a, l).s = l
    BY <1>1, <2>1 DEF Matches, At
  <2>3. lit_(At(a, l)) = [at |-> a + 1, s |-> push_lst_literal(push_lst_term(l, p.terms), p)]
    BY <2>1, <2>2 DEF lit_
  <2> QED BY <2>3, LiteralPushed DEF At
<1>2. ASSUME ~Seen(a, "lit") PROVE lit_(At(a, l)) = At(0, l)
  <2>1. ~Matches(At(a, l), "lit")
    BY <1>2 DEF Matches, At, Seen
  <2> QED BY <2>1 DEF lit_, Fails, At
<1> QED BY <1>1, <1>2

-----------------------------------------------------------------------------
(* Stars. *)

\* Steps that go from each of n places to one behind it, and stay at the last one.
IsLadder(E, n, X, G) ==
  /\ n \in Nat \ {0} /\ E \in [1..n -> X] /\ G \in [X -> X]
  /\ \A k \in 1..n : E[k].at \in Nat \ {0}
  /\ \A k \in 1..(n - 1) : E[k].at < E[k + 1].at /\ E[k].at <= Len(input) /\ G[E[k]] = E[k + 1]
  /\ G[E[n]] = E[n]

\* A star over them ends there.
LEMMA Ladder ==
  ASSUME InputInv, NEW n, NEW X, NEW E, NEW G, NEW it, IsLadder(E, n, X, G), NEW e,
         e = E[1], LoopWithin(it, e, X, G)
  PROVE  it[Len(input)] = E[n]
<1> USE DEF IsLadder
<1> DEFINE N == Len(input)
           OnRung(k, i) == it[k] = E[i] /\ (i = n \/ E[i].at > k)
           S == {k \in 0..N : \E i \in 1..n : OnRung(k, i)}
<1>1. N \in Nat
  BY InputTokens
<1> HIDE DEF N
<1>2. 0 \in S
  <2>1. 1 \in 1..n /\ E[1].at > 0 /\ it[0] = E[1]
    BY DEF LoopWithin
  <2> QED BY <1>1, <2>1
<1>3. ASSUME NEW k \in 0..(N - 1), k \in S PROVE k + 1 \in S
  <2>1. PICK i \in 1..n : OnRung(k, i)
    BY <1>3
  <2>2. k + 1 \in 1..N /\ k + 1 \in 0..N /\ (k + 1) - 1 = k
    BY <1>1
  <2>3. it[k] \in X /\ it[k] = E[i]
    BY <2>1
  <2>4. it[k + 1] = IF E[1].at \notin 1..(k + 1) THEN E[1]
                    ELSE IF E[i].at # k + 1 THEN E[i] ELSE G[E[i]]
    <3>1. /\ it[k + 1 - 1] \in X =>
               it[k + 1] = IF e.at \notin 1..(k + 1) THEN e
                           ELSE IF it[k + 1 - 1].at # k + 1 THEN it[k + 1 - 1]
                           ELSE G[it[k + 1 - 1]]
      BY <2>2 DEF LoopWithin, N
    <3> QED BY ONLY <2>2, <2>3, <3>1, e = E[1]
  <2>5. E[1].at \in Nat \ {0} /\ E[i].at \in Nat \ {0} /\ 1 \in 1..n
    OBVIOUS
  <2>6. \E j \in 1..n : OnRung(k + 1, j)
    <3>1. CASE E[1].at \notin 1..(k + 1)
      <4>1. E[1].at > k + 1
        BY <2>2, <2>5, <3>1
      <4> QED BY <2>4, <2>5, <3>1, <4>1
    <3>2. CASE E[1].at \in 1..(k + 1) /\ E[i].at # k + 1
      <4>1. i = n \/ E[i].at > k + 1
        BY <2>1, <2>2, <2>5, <3>2
      <4> QED BY <2>4, <3>2, <4>1
    <3>3. CASE E[1].at \in 1..(k + 1) /\ E[i].at = k + 1 /\ i = n
      BY <2>4, <3>3
    <3>4. CASE E[1].at \in 1..(k + 1) /\ E[i].at = k + 1 /\ i # n
      <4>1. i \in 1..(n - 1) /\ i + 1 \in 1..n
        BY <3>4
      <4>2. it[k + 1] = E[i + 1] /\ E[i + 1].at > k + 1
        <5>1. E[i].at < E[i + 1].at /\ G[E[i]] = E[i + 1]
          BY <4>1
        <5>2. E[i + 1].at \in Nat
          BY <4>1
        <5> QED BY <2>4, <2>5, <3>4, <5>1, <5>2
      <4> QED BY <4>1, <4>2
    <3> QED BY <3>1, <3>2, <3>3, <3>4
  <2> QED BY <2>2, <2>6
<1> HIDE DEF S
<1>4. 0..N \subseteq S
  BY ONLY <1>1, <1>2, <1>3, IntervalSet
<1>5. PICK i \in 1..n : OnRung(N, i)
  <2>1. N \in 0..N
    BY <1>1
  <2> QED BY <1>4, <2>1 DEF S
<1>6. i = n
  <2>1. SUFFICES ASSUME i # n PROVE FALSE
    OBVIOUS
  <2>2. i \in 1..(n - 1)
    BY <2>1
  <2>3. E[i].at <= N /\ E[i].at > N /\ E[i].at \in Nat
    BY <1>5, <2>1, <2>2 DEF N
  <2> QED BY <1>1, <2>3
<1> QED BY <1>5, <1>6 DEF N

-----------------------------------------------------------------------------
(* How a default is written. *)

\* Everything that may be in a text.
Alphabet ==
  ToSet(input) \cup {Sign(t) : t \in {"[", Semicolon, "]/[", "]", "&", Comma}}
    \cup {LiteralToken(l) : l \in Predicates}
    \cup {ArgumentToken(a) : a \in [name : Seq(Words), terms : Seq(Words)]}

\* Pieces stand in a text with a sign between one and the next.
Pieces(pos, sep, pieces, big, a) ==
  /\ pos \in [1..Len(pieces) -> Nat \ {0}] /\ pos[1] = a
  /\ pos[Len(pieces)] + Len(pieces[Len(pieces)]) = a + Len(Between(sep, pieces))
  /\ \A k \in 1..Len(pieces) : Stands(pieces[k], big, pos[k])
  /\ \A k \in 1..(Len(pieces) - 1) :
       /\ pos[k] + Len(pieces[k]) \in DOMAIN big
       /\ big[pos[k] + Len(pieces[k])] = Sign(sep)
       /\ pos[k + 1] = pos[k] + Len(pieces[k]) + 1

\* That is how they stand when they are joined by it.
LEMMA BetweenStands ==
  ASSUME NEW T, NEW big \in Seq(T), NEW sep, Sign(sep) \in T, NEW pieces \in Seq(Seq(T)),
         pieces # <<>>, NEW a, Stands(Between(sep, pieces), big, a)
  PROVE  \E pos : Pieces(pos, sep, pieces, big, a)
<1> DEFINE n == Len(pieces)
           s == [i \in DOMAIN pieces |-> IF i = 1 THEN pieces[i] ELSE <<Sign(sep)>> \o pieces[i]]
<1>1. n \in Nat \ {0} /\ DOMAIN pieces = 1..n /\ 1 \in 1..n /\ n \in 1..n
      /\ DOMAIN big = 1..Len(big) /\ Len(big) \in Nat
  OBVIOUS
<1>2. \A k \in 1..n : pieces[k] \in Seq(T)
  OBVIOUS
<1>3. <<Sign(sep)>> \in Seq(T) /\ Len(<<Sign(sep)>>) = 1 /\ <<Sign(sep)>>[1] = Sign(sep)
  OBVIOUS
<1>4. ASSUME NEW k \in 1..n
      PROVE  /\ <<Sign(sep)>> \o pieces[k] \in Seq(T) /\ Len(pieces[k]) \in Nat
             /\ Len(<<Sign(sep)>> \o pieces[k]) = 1 + Len(pieces[k])
  BY <1>2, <1>3
<1>5. \A k \in 1..n : s[k] = IF k = 1 THEN pieces[k] ELSE <<Sign(sep)>> \o pieces[k]
  BY <1>1
<1>6. \A k \in 1..n : s[k] \in Seq(T)
  BY <1>2, <1>4, <1>5
<1>7. s \in Seq(Seq(T)) /\ Len(s) = n
  <2>1. s \in [1..n -> Seq(T)]
    BY <1>1, <1>6
  <2> HIDE DEF s
  <2> HIDE DEF n
  <2> QED BY ONLY <1>1, <2>1, FromFunction
<1>8. Between(sep, pieces) = FlattenSeq(s)
  BY DEF Between
<1> HIDE DEF s, n
<1>9. PICK p \in [1..(n + 1) -> Nat \ {0}] :
        /\ p[1] = a /\ p[n + 1] = a + Len(FlattenSeq(s))
        /\ \A k \in 1..n : p[k + 1] = p[k] + Len(s[k]) /\ Stands(s[k], big, p[k])
  <2>1. Stands(FlattenSeq(s), big, a)
    BY <1>8
  <2>2. PICK p : Layout(p, s, big, a)
    BY <1>7, <2>1, StandsJoined
  <2> QED BY ONLY <1>7, <2>2 DEF Layout
<1> DEFINE pos == [k \in 1..n |-> IF k = 1 THEN p[k] ELSE p[k] + 1]
<1>10. ASSUME NEW k \in 1..n
       PROVE  /\ p[k] \in Nat \ {0} /\ p[k + 1] \in Nat \ {0} /\ pos[k] \in Nat \ {0}
              /\ pos[k] = IF k = 1 THEN p[k] ELSE p[k] + 1
              /\ pos[k] + Len(pieces[k]) = p[k + 1] /\ Stands(pieces[k], big, pos[k])
              /\ k # 1 => p[k] \in DOMAIN big /\ big[p[k]] = Sign(sep)
  <2>1. p[k] \in Nat \ {0} /\ p[k + 1] \in Nat \ {0}
    <3>1. k \in 1..(n + 1) /\ k + 1 \in 1..(n + 1)
      BY <1>1
    <3> QED BY <1>9, <3>1
  <2>2. p[k + 1] = p[k] + Len(s[k]) /\ Stands(s[k], big, p[k])
    BY <1>9
  <2>3. CASE k = 1
    <3>1. s[k] = pieces[k] /\ pos[k] = p[k]
      BY <1>5, <2>3
    <3> QED BY <2>1, <2>2, <2>3, <3>1
  <2>4. CASE k # 1
    <3>1. s[k] = <<Sign(sep)>> \o pieces[k] /\ pos[k] = p[k] + 1
      BY <1>5, <2>4
    <3> HIDE DEF pos
    <3>2. Stands(<<Sign(sep)>>, big, p[k]) /\ Stands(pieces[k], big, p[k] + 1)
      <4>1. Stands(<<Sign(sep)>> \o pieces[k], big, p[k])
        BY <2>2, <3>1
      <4>2. /\ Stands(<<Sign(sep)>>, big, p[k])
            /\ Stands(pieces[k], big, p[k] + Len(<<Sign(sep)>>))
        BY ONLY <1>2, <1>3, <4>1, StandsParts, big \in Seq(T)
      <4> QED BY ONLY <1>3, <4>2
    <3>3. p[k] + 1 <= Len(big) + 1 /\ big[p[k] + 1 - 1] = Sign(sep)
      BY <1>3, <3>2 DEF Stands
    <3>4. p[k] \in DOMAIN big /\ big[p[k]] = Sign(sep)
      <4>1. p[k] + 1 - 1 = p[k] /\ p[k] \in 1..Len(big)
        BY ONLY <1>1, <2>1, <3>3
      <4> QED BY <1>1, <3>3, <4>1
    <3>5. pos[k] + Len(pieces[k]) = p[k + 1]
      <4>1. PICK m \in Nat, u \in Nat : m = Len(pieces[k]) /\ u = p[k]
        BY <1>4, <2>1
      <4>2. p[k + 1] = u + (1 + m)
        BY <1>4, <2>2, <3>1, <4>1
      <4>3. pos[k] = u + 1
        BY ONLY <3>1, <4>1
      <4>4. PICK x, y, z : x = pos[k] /\ y = Len(pieces[k]) /\ z = p[k + 1]
        OBVIOUS
      <4>5. y = m /\ x = u + 1 /\ z = u + (1 + m)
        BY ONLY <4>1, <4>2, <4>3, <4>4
      <4>6. x + y = z
        BY ONLY <4>5, m \in Nat, u \in Nat
      <4> QED BY ONLY <4>4, <4>6
    <3>6. pos[k] \in Nat \ {0}
      BY ONLY <2>1, <3>1
    <3>7. Stands(pieces[k], big, pos[k])
      BY ONLY <3>1, <3>2
    <3> QED BY ONLY <2>1, <2>4, <3>1, <3>4, <3>5, <3>6, <3>7
  <2> QED BY <2>3, <2>4
<1> HIDE DEF pos
<1>11. pos \in [1..n -> Nat \ {0}]
  BY <1>10 DEF pos
<1>12. pos[1] = a /\ pos[n] + Len(pieces[n]) = a + Len(Between(sep, pieces))
  BY <1>1, <1>8, <1>9, <1>10
<1>13. ASSUME NEW k \in 1..(n - 1)
       PROVE  /\ pos[k] + Len(pieces[k]) \in DOMAIN big
              /\ big[pos[k] + Len(pieces[k])] = Sign(sep)
              /\ pos[k + 1] = pos[k] + Len(pieces[k]) + 1
  <2>1. k \in 1..n /\ k + 1 \in 1..n /\ k + 1 # 1
    BY <1>1
  <2>2. pos[k] + Len(pieces[k]) = p[k + 1] /\ p[k + 1] \in DOMAIN big /\ big[p[k + 1]] = Sign(sep)
        /\ pos[k + 1] = p[k + 1] + 1
    BY <1>10, <2>1
  <2> QED BY <2>2
<1> QED BY <1>10, <1>11, <1>12, <1>13 DEF n, Pieces


\* The characters of the file are in it, and what a default is written with.
LEMMA InAlphabet ==
  ASSUME InputInv
  PROVE  /\ input \in Seq(Alphabet)
         /\ \A t \in {"[", Semicolon, "]/[", "]", "&", Comma} : Sign(t) \in Alphabet
         /\ \A l \in Predicates : LiteralToken(l) \in Alphabet
         /\ \A a \in [name : Seq(Words), terms : Seq(Words)] : ArgumentToken(a) \in Alphabet
<1>1. input \in Seq(ToSet(input))
  BY DEF InputInv
<1>2. ToSet(input) \subseteq Alphabet
  BY DEF Alphabet
<1>3. PICK T : T = ToSet(input)
  OBVIOUS
<1>4. input \in Seq(Alphabet)
  BY <1>1, <1>2, <1>3
<1> QED BY <1>4 DEF Alphabet

\* Different signs are not seen at one place.
LEMMA SignSeen ==
  ASSUME NEW a \in DOMAIN input, NEW t, input[a] = Sign(t)
  PROVE  \A u : Seen(a, u) <=> t = u
BY DEF Sign, Seen

\* Other signs end a conjunction, a slash the justifications too.
LEMMA SignEnds ==
  ASSUME NEW a \in DOMAIN input
  PROVE  /\ input[a] = Sign(Comma) => EndsConjunction(a) /\ ~Seen(a, "lit")
         /\ input[a] = Sign(Semicolon) => EndsConjunction(a) /\ ~Seen(a, "lit")
         /\ input[a] = Sign("]") => EndsConjunction(a) /\ ~Seen(a, "lit")
         /\ input[a] = Sign("]/[") =>
              EndsConjunction(a) /\ EndsJustifications(a) /\ ~Seen(a, "lit")
<1>1. ASSUME input[a] = Sign(Comma) PROVE EndsConjunction(a) /\ ~Seen(a, "lit")
  BY <1>1, SignSeen, Zenon DEF EndsConjunction, Comma, Semicolon
<1>2. ASSUME input[a] = Sign(Semicolon) PROVE EndsConjunction(a) /\ ~Seen(a, "lit")
  BY <1>2, SignSeen, Zenon DEF EndsConjunction, Comma, Semicolon
<1>3. ASSUME input[a] = Sign("]") PROVE EndsConjunction(a) /\ ~Seen(a, "lit")
  BY <1>3, SignSeen, Zenon DEF EndsConjunction, Comma, Semicolon
<1>4. ASSUME input[a] = Sign("]/[")
      PROVE  EndsConjunction(a) /\ EndsJustifications(a) /\ ~Seen(a, "lit")
  BY <1>4, SignSeen, Zenon DEF EndsConjunction, Comma, Semicolon, EndsJustifications
<1> QED BY <1>1, <1>2, <1>3, <1>4, Zenon

\* The literals of a conjunction with their signs.
LEMMA ConjunctionStands ==
  ASSUME InputInv, NEW c \in Conjunctions \ {<<>>}, NEW a,
         Stands(TextOfConjunction(c), input, a)
  PROVE  \E pos \in [1..Len(c) -> Nat \ {0}] :
           /\ pos[1] = a /\ pos[Len(c)] + 1 = a + Len(TextOfConjunction(c))
           /\ \A k \in 1..Len(c) : pos[k] \in DOMAIN input /\ input[pos[k]] = LiteralToken(c[k])
           /\ \A k \in 1..(Len(c) - 1) :
                pos[k] + 1 \in DOMAIN input /\ input[pos[k] + 1] = Sign("&")
                /\ pos[k + 1] = pos[k] + 2
<1> DEFINE T == Alphabet
           p == [i \in DOMAIN c |-> <<LiteralToken(c[i])>>]
<1>1. PICK n \in Nat \ {0} : n = Len(c) /\ DOMAIN c = 1..n /\ \A k \in 1..n : c[k] \in Predicates
  BY DEF Conjunctions
<1>2. ASSUME NEW k \in 1..n
      PROVE  p[k] \in Seq(T) /\ Len(p[k]) = 1 /\ p[k][1] = LiteralToken(c[k])
  <2>1. PICK tok \in T : tok = LiteralToken(c[k])
    BY <1>1, InAlphabet
  <2>2. <<tok>> \in Seq(T) /\ Len(<<tok>>) = 1 /\ <<tok>>[1] = tok
    BY ONLY tok \in T
  <2>3. p[k] = <<tok>>
    BY <1>1, <2>1
  <2> QED BY ONLY <2>1, <2>2, <2>3
<1>3. input \in Seq(T) /\ Sign("&") \in T
  BY InAlphabet
<1> HIDE DEF T
<1>4. DOMAIN p = 1..n /\ p = [k \in 1..n |-> p[k]]
  BY <1>1
<1>5. TextOfConjunction(c) = Between("&", p)
  BY DEF TextOfConjunction
<1> HIDE DEF p
<1>6. PICK q \in Seq(Seq(T)) : q = p /\ Len(q) = n
  <2>1. p \in [1..n -> Seq(T)]
    BY ONLY <1>2, <1>4
  <2> QED BY ONLY <2>1, n \in Nat \ {0}, FromFunction
<1>7. \A k \in 1..n : Len(q[k]) = 1 /\ q[k][1] = LiteralToken(c[k])
  BY <1>2, <1>6
<1>8. q # <<>>
  BY ONLY <1>6, n \in Nat \ {0}
<1>9. Stands(Between("&", q), input, a)
  BY <1>5, <1>6
<1>10. PICK pos : Pieces(pos, "&", q, input, a)
  BY <1>3, <1>6, <1>8, <1>9, BetweenStands
<1>11. /\ pos \in [1..n -> Nat \ {0}] /\ pos[1] = a
       /\ pos[n] + Len(q[n]) = a + Len(TextOfConjunction(c))
       /\ \A k \in 1..n : Stands(q[k], input, pos[k])
       /\ \A k \in 1..(n - 1) : /\ pos[k] + Len(q[k]) \in DOMAIN input
                                /\ input[pos[k] + Len(q[k])] = Sign("&")
                                /\ pos[k + 1] = pos[k] + Len(q[k]) + 1
  BY <1>5, <1>6, <1>10 DEF Pieces
<1>12. ASSUME NEW k \in 1..n
       PROVE  pos[k] \in DOMAIN input /\ input[pos[k]] = LiteralToken(c[k])
  <2>1. Len(q[k]) = 1 /\ q[k][1] = LiteralToken(c[k]) /\ Stands(q[k], input, pos[k])
    BY <1>7, <1>11
  <2>2. pos[k] \in Nat \ {0} /\ pos[k] + 1 <= Len(input) + 1 /\ input[pos[k] + 1 - 1] = q[k][1]
    BY <2>1 DEF Stands
  <2>3. pos[k] + 1 - 1 = pos[k] /\ pos[k] \in 1..Len(input)
    BY <2>2, InputTokens
  <2> QED BY <2>1, <2>2, <2>3, InputTokens
<1>13. ASSUME NEW k \in 1..(n - 1)
       PROVE  /\ pos[k] + 1 \in DOMAIN input /\ input[pos[k] + 1] = Sign("&")
              /\ pos[k + 1] = pos[k] + 2
  <2>1. k \in 1..n
    OBVIOUS
  <2>2. Len(q[k]) = 1 /\ pos[k] \in Nat
    BY <1>7, <1>11, <2>1
  <2>3. pos[k] + 1 \in DOMAIN input /\ input[pos[k] + 1] = Sign("&") /\ pos[k + 1] = pos[k] + 1 + 1
    BY <1>11, <2>2
  <2> QED BY <2>2, <2>3
<1>14. pos[n] + 1 = a + Len(TextOfConjunction(c))
  <2>1. n \in 1..n
    OBVIOUS
  <2> QED BY <1>7, <1>11, <2>1
<1> QED BY <1>1, <1>11, <1>12, <1>13, <1>14

\* A star ends where the next round fails and leaves the statics as they are, and goes
\* on where it does not.
LEMMA LoopEnds ==
  ASSUME NEW a, NEW l
  PROVE  /\ lit_(Tok(At(a, l), "&")) = At(0, l) => NextLiteral(At(a, l)) = At(a, l)
         /\ justification_(Tok(At(a, l), Comma)) = At(0, l) =>
              NextJustification(At(a, l)) = At(a, l)
         /\ \A q, n : justification_(Tok(q, Comma)) = n /\ n.at # 0 => NextJustification(q) = n
<1>1. At(0, l).at = 0 /\ BackTo(At(a, l), At(0, l)) = At(a, l)
  BY DEF At, BackTo
<1> QED BY <1>1 DEF NextLiteral, NextJustification, Comma

\* Where nothing was read it reads nothing,
LEMMA NoMoreLiterals ==
  ASSUME InputInv, NEW l
  PROVE  MoreLiterals(At(0, l)) = At(0, l)
<1> DEFINE r == At(0, l)
           X == {r}
<1>1. r.at = 0 /\ r \in X /\ \A q \in X : q.at = 0
  BY DEF At
<1> HIDE DEF r
<1>2. \A q \in X : q.at # 0 => NextLiteral(q) \in X
  BY <1>1
<1> HIDE DEF X
<1>3. PICK G, it : LiteralStar(r, X, G, it)
  BY <1>1, <1>2, MoreLiteralsLoop
<1>4. it[Len(input)] \in X
  BY <1>1, <1>3, LoopStays DEF LiteralStar
<1> QED BY <1>3, <1>4 DEF X, r, LiteralStar

\* nor does a conjunction where there is no literal.
LEMMA ConjunctionMissing ==
  ASSUME InputInv, NEW pl, NEW jl, NEW pre, NEW js, NEW con, NEW arg, NEW s, NEW a,
         ~Seen(a, "lit")
  PROVE  conjunction_(At(a, Lists(pl, jl, pre, js, con, arg, s))) =
           At(0, Lists(pl, jl, pre, js, con, arg, s))
BY LitReads, NoMoreLiterals DEF conjunction_

\* A conjunction is read as it is written.
LEMMA ConjunctionReads ==
  ASSUME InputInv, NEW c \in Conjunctions \ {<<>>}, NEW a,
         Stands(TextOfConjunction(c), input, a),
         EndsConjunction(a + Len(TextOfConjunction(c))),
         NEW jl, NEW pre, NEW js, NEW con, NEW arg, NEW s
  PROVE  conjunction_(At(a, Lists(<<>>, jl, pre, js, con, arg, s))) =
           At(a + Len(TextOfConjunction(c)), Lists(c, jl, pre, js, con, arg, s))
<1>1. PICK n \in Nat \ {0} : n = Len(c) /\ \A k \in 1..n : c[k] \in Predicates
  BY DEF Conjunctions
<1>2. PICK pos \in [1..n -> Nat \ {0}] :
        /\ pos[1] = a /\ pos[n] + 1 = a + Len(TextOfConjunction(c))
        /\ \A k \in 1..n : pos[k] \in DOMAIN input /\ input[pos[k]] = LiteralToken(c[k])
        /\ \A k \in 1..(n - 1) :
             pos[k] + 1 \in DOMAIN input /\ input[pos[k] + 1] = Sign("&")
             /\ pos[k + 1] = pos[k] + 2
  BY <1>1, ConjunctionStands
<1> DEFINE upto(k) == SubSeq(c, 1, k)
           list(k) == Lists(upto(k), jl, pre, js, con, arg, s)
           E == [k \in 1..n |-> At(pos[k] + 1, list(k))]
           X == {E[k] : k \in 1..n}
<1>3. /\ upto(0) = <<>> /\ upto(n) = c
      /\ \A k \in 0..(n - 1) : upto(k + 1) = Append(upto(k), c[k + 1])
  <2>1. c \in Seq(Predicates)
    BY DEF Conjunctions
  <2>2. /\ SubSeq(c, 1, 0) = <<>> /\ SubSeq(c, 1, Len(c)) = c
        /\ \A i \in 0..(Len(c) - 1) : SubSeq(c, 1, i + 1) = Append(SubSeq(c, 1, i), c[i + 1])
    BY ONLY <2>1, PrefixSteps
  <2> QED BY ONLY <1>1, <2>2
<1> HIDE DEF upto
<1>4. \A k \in 1..n : E[k] = At(pos[k] + 1, list(k)) /\ E[k].at = pos[k] + 1
  BY DEF At
<1>5. ASSUME NEW k \in 0..(n - 1)
      PROVE  lit_(At(pos[k + 1], list(k))) = E[k + 1]
  <2>1. k + 1 \in 1..n
    OBVIOUS
  <2>2. /\ c[k + 1] \in Predicates /\ pos[k + 1] \in DOMAIN input
        /\ input[pos[k + 1]] = LiteralToken(c[k + 1])
    BY <1>1, <1>2, <2>1
  <2>3. PICK ul : ul = upto(k)
    OBVIOUS
  <2>4. lit_(At(pos[k + 1], Lists(ul, jl, pre, js, con, arg, s))) =
          At(pos[k + 1] + 1, Lists(Append(ul, c[k + 1]), jl, pre, js, con, arg, s))
    BY <2>2, LitReads
  <2>5. Append(ul, c[k + 1]) = upto(k + 1)
    BY <1>3, <2>3
  <2> QED BY <1>4, <2>1, <2>3, <2>4, <2>5
<1>6. ASSUME NEW k \in 1..(n - 1)
      PROVE  /\ NextLiteral(E[k]) = E[k + 1] /\ E[k + 1].at # 0
             /\ E[k].at < E[k + 1].at /\ E[k].at <= Len(input)
  <2>1. k \in 1..n /\ k + 1 \in 1..n /\ k \in 0..(n - 1)
    OBVIOUS
  <2>2. /\ pos[k] + 1 \in DOMAIN input /\ input[pos[k] + 1] = Sign("&") /\ pos[k + 1] = pos[k] + 2
        /\ pos[k] \in Nat /\ pos[k + 1] \in Nat
    BY <1>2, <2>1
  <2>3. Seen(pos[k] + 1, "&")
    BY <2>2, SignSeen
  <2>4. Tok(E[k], "&") = At(pos[k] + 1 + 1, list(k))
    BY <1>4, <2>1, <2>3, TokReads
  <2>5. pos[k] + 1 + 1 = pos[k + 1]
    BY <2>2
  <2>6. lit_(Tok(E[k], "&")) = E[k + 1]
    BY <1>5, <2>1, <2>4, <2>5
  <2>7. E[k].at = pos[k] + 1 /\ E[k + 1].at = pos[k + 1] + 1
    BY <1>4, <2>1
  <2>8. pos[k] + 1 <= Len(input)
    BY <2>2, InputTokens
  <2>9. E[k + 1].at # 0 /\ E[k].at < E[k + 1].at
    BY ONLY <2>2, <2>7
  <2> QED BY <2>6, <2>7, <2>8, <2>9 DEF NextLiteral
<1>7. NextLiteral(E[n]) = E[n]
  <2>1. n \in 1..n
    OBVIOUS
  <2>2. E[n] = At(pos[n] + 1, list(n)) /\ ~Seen(pos[n] + 1, "&")
    BY <1>2, <1>4, <2>1 DEF EndsConjunction
  <2>3. Tok(E[n], "&") = At(0, list(n))
    BY <2>2, TokReads
  <2>4. lit_(At(0, list(n))) = At(0, list(n))
    BY LitReads, NothingSeen
  <2> QED BY <2>2, <2>3, <2>4, LoopEnds
<1>8. E \in [1..n -> X] /\ E[1] \in X /\ E[n] \in X /\ \A k \in 1..(n - 1) : E[k + 1] \in X
  <2>1. 1 \in 1..n /\ n \in 1..n /\ \A k \in 1..(n - 1) : k + 1 \in 1..n
    OBVIOUS
  <2> QED BY <2>1
<1>9. \A k \in 1..n : E[k].at \in Nat \ {0}
  BY <1>2, <1>4
<1> HIDE DEF E
<1>10. ASSUME NEW q \in X PROVE NextLiteral(q) \in X
  <2>1. PICK k \in 1..n : q = E[k]
    OBVIOUS
  <2>2. k = n \/ k \in 1..(n - 1)
    OBVIOUS
  <2> QED BY <1>6, <1>7, <1>8, <2>1, <2>2
<1> HIDE DEF X
<1>11. PICK e \in X : e = E[1]
  BY <1>8
<1>12. PICK G, it : LiteralStar(e, X, G, it)
  <2>1. \A q \in X : q.at # 0 => NextLiteral(q) \in X
    BY <1>10
  <2> QED BY ONLY <2>1, InputInv, MoreLiteralsLoop, e \in X
<1>13. it[Len(input)] = E[n]
  <2>1. \A k \in 1..n : E[k] \in X /\ E[k].at # 0
    BY <1>8, <1>9
  <2>2. n \in 1..n /\ \A k \in 1..(n - 1) : k \in 1..n
    OBVIOUS
  <2>3. G \in [X -> X] /\ LoopWithin(it, e, X, G) /\ \A q \in X : q.at # 0 => G[q] = NextLiteral(q)
    BY <1>12 DEF LiteralStar
  <2>4. G[E[n]] = E[n] /\ \A k \in 1..(n - 1) : G[E[k]] = E[k + 1]
    BY <1>6, <1>7, <2>1, <2>2, <2>3
  <2>5. IsLadder(E, n, X, G)
    BY <1>6, <1>8, <1>9, <2>3, <2>4 DEF IsLadder
  <2> QED BY <1>11, <2>3, <2>5, Ladder
<1>14. lit_(At(a, Lists(<<>>, jl, pre, js, con, arg, s))) = E[1]
  <2>1. 0 \in 0..(n - 1) /\ 0 + 1 = 1
    OBVIOUS
  <2> QED BY <1>2, <1>3, <1>5, <2>1
<1>15. E[n] = At(a + Len(TextOfConjunction(c)), Lists(c, jl, pre, js, con, arg, s))
  <2>1. n \in 1..n
    OBVIOUS
  <2> QED BY <1>2, <1>3, <1>4, <2>1
<1> QED BY <1>11, <1>12, <1>13, <1>14, <1>15 DEF conjunction_, LiteralStar

\* What is written with the alphabet is in it.
LEMMA BetweenText ==
  ASSUME NEW T, NEW sep, Sign(sep) \in T, NEW pieces \in Seq(Seq(T))
  PROVE  Between(sep, pieces) \in Seq(T)
<1> DEFINE n == Len(pieces)
           s == [i \in DOMAIN pieces |-> IF i = 1 THEN pieces[i] ELSE <<Sign(sep)>> \o pieces[i]]
<1>1. n \in Nat /\ DOMAIN pieces = 1..n /\ \A k \in 1..n : pieces[k] \in Seq(T)
  OBVIOUS
<1>2. <<Sign(sep)>> \in Seq(T)
  OBVIOUS
<1>3. \A x, y \in Seq(T) : x \o y \in Seq(T)
  OBVIOUS
<1> HIDE DEF n
<1>4. ASSUME NEW k \in 1..n PROVE s[k] \in Seq(T)
  BY <1>1, <1>2, <1>3
<1>5. s = [k \in 1..n |-> s[k]]
  BY <1>1
<1> HIDE DEF s
<1>6. s \in [1..n -> Seq(T)]
  BY ONLY <1>4, <1>5
<1>7. s \in Seq(Seq(T))
  BY ONLY <1>1, <1>6, FromFunction
<1> QED BY <1>7, FlattenAppend DEF Between, s

\* Between no pieces there is nothing.
LEMMA BetweenNothing ==
  ASSUME NEW sep, NEW pieces, pieces = <<>>
  PROVE  Between(sep, pieces) = <<>>
<1> DEFINE s == [i \in DOMAIN pieces |-> IF i = 1 THEN pieces[i] ELSE <<Sign(sep)>> \o pieces[i]]
<1>1. DOMAIN pieces = 1..0
  OBVIOUS
<1>2. s \in [1..0 -> {}]
  BY <1>1
<1>3. Between(sep, pieces) = FlattenSeq(s)
  BY DEF Between
<1> HIDE DEF s
<1>4. s \in Seq({}) /\ Len(s) = 0
  BY ONLY <1>2, 0 \in Nat, FromFunction
<1>5. s = <<>>
  BY ONLY <1>4
<1>6. FlattenSeq(<<>>) = <<>>
  <2>1. PICK T : T = {}
    OBVIOUS
  <2>2. <<>> \in Seq(Seq(T)) /\ <<>> \in Seq(T)
    OBVIOUS
  <2> QED BY <2>2, FlattenAppend
<1> QED BY <1>3, <1>5, <1>6

LEMMA ConjunctionText ==
  ASSUME InputInv, NEW c \in Conjunctions
  PROVE  TextOfConjunction(c) \in Seq(Alphabet) /\ Len(TextOfConjunction(c)) \in Nat
<1> DEFINE T == Alphabet
           p == [i \in DOMAIN c |-> <<LiteralToken(c[i])>>]
<1>1. PICK n \in Nat : n = Len(c) /\ DOMAIN c = 1..n /\ \A k \in 1..n : c[k] \in Predicates
  BY DEF Conjunctions
<1>2. ASSUME NEW k \in 1..n PROVE p[k] \in Seq(T)
  <2>1. PICK tok \in T : tok = LiteralToken(c[k])
    BY <1>1, InAlphabet
  <2>2. <<tok>> \in Seq(T)
    BY ONLY tok \in T
  <2>3. p[k] = <<tok>>
    BY <1>1, <2>1
  <2> QED BY ONLY <2>2, <2>3
<1>3. p = [k \in 1..n |-> p[k]]
  BY <1>1
<1>4. Sign("&") \in T
  BY InAlphabet
<1>5. TextOfConjunction(c) = Between("&", p)
  BY DEF TextOfConjunction
<1> HIDE DEF T, p
<1>6. p \in [1..n -> Seq(T)]
  BY ONLY <1>2, <1>3
<1>7. p \in Seq(Seq(T))
  BY ONLY <1>6, n \in Nat, FromFunction
<1>8. TextOfConjunction(c) \in Seq(T)
  BY <1>4, <1>5, <1>7, BetweenText
<1>9. Len(TextOfConjunction(c)) \in Nat
  BY ONLY <1>8
<1> QED BY <1>8, <1>9 DEF T

\* A justification is read as a conjunction is and goes to the list,
LEMMA JustificationReads ==
  ASSUME InputInv, NEW c \in Conjunctions \ {<<>>}, NEW a,
         Stands(TextOfConjunction(c), input, a),
         EndsConjunction(a + Len(TextOfConjunction(c))),
         NEW jl, NEW pre, NEW js, NEW con, NEW arg, NEW s
  PROVE  justification_(At(a, Lists(<<>>, jl, pre, js, con, arg, s))) =
           At(a + Len(TextOfConjunction(c)), Lists(<<>>, Append(jl, c), pre, js, con, arg, s))
<1> DEFINE b == a + Len(TextOfConjunction(c))
           l == Lists(c, jl, pre, js, con, arg, s)
<1>1. conjunction_(At(a, Lists(<<>>, jl, pre, js, con, arg, s))) = At(b, l)
  BY ConjunctionReads
<1>2. b # 0
  <2>1. a \in Nat \ {0} /\ Len(TextOfConjunction(c)) \in Nat
    BY ConjunctionText DEF Stands
  <2> QED BY <2>1
<1>3. push_lst_justification(l) = Lists(<<>>, Append(jl, c), pre, js, con, arg, s)
  BY ListsSteps
<1> HIDE DEF b, l
<1>4. justification_(At(a, Lists(<<>>, jl, pre, js, con, arg, s))) =
        At(b, push_lst_justification(l))
  BY <1>1, <1>2 DEF justification_, On, At
<1> QED BY <1>3, <1>4 DEF b

\* or there is none.
LEMMA JustificationMissing ==
  ASSUME InputInv, NEW pl, NEW jl, NEW pre, NEW js, NEW con, NEW arg, NEW s, NEW a,
         ~Seen(a, "lit")
  PROVE  justification_(At(a, Lists(pl, jl, pre, js, con, arg, s))) =
           At(0, Lists(pl, jl, pre, js, con, arg, s))
BY ConjunctionMissing DEF justification_, On, At

\* Where nothing was read there are no more justifications.
LEMMA NoMoreJustifications ==
  ASSUME InputInv, NEW l
  PROVE  MoreJustifications(At(0, l)) = At(0, l)
<1> DEFINE r == At(0, l)
           X == {r}
<1>1. r.at = 0 /\ r \in X /\ \A q \in X : q.at = 0
  BY DEF At
<1> HIDE DEF r
<1>2. \A q \in X : q.at # 0 => NextJustification(q) \in X
  BY <1>1
<1> HIDE DEF X
<1>3. PICK G, it : JustificationStar(r, X, G, it)
  BY <1>1, <1>2, MoreJustificationsLoop
<1>4. it[Len(input)] \in X
  BY <1>1, <1>3, LoopStays DEF JustificationStar
<1> QED BY <1>3, <1>4 DEF X, r, JustificationStar

LEMMA JustificationsMissing ==
  ASSUME InputInv, NEW pl, NEW jl, NEW pre, NEW js, NEW con, NEW arg, NEW s, NEW a,
         ~Seen(a, "lit")
  PROVE  justifications_(At(a, Lists(pl, jl, pre, js, con, arg, s))) =
           At(0, Lists(pl, jl, pre, js, con, arg, s))
<1>1. justifications_(At(a, Lists(pl, jl, pre, js, con, arg, s))) =
        On(At(0, Lists(pl, jl, pre, js, con, arg, s)), set_justifications)
  BY JustificationMissing, NoMoreJustifications DEF justifications_
<1> QED BY <1>1 DEF On, At

\* How conjunctions are written between commas.
TextsOf(js) == [i \in DOMAIN js |-> TextOfConjunction(js[i])]

\* Where they stand.
LEMMA JustificationsStand ==
  ASSUME InputInv, NEW js \in Justifications \ {<<>>}, NEW a,
         Stands(Between(Comma, TextsOf(js)), input, a)
  PROVE  \E pos : Pieces(pos, Comma, TextsOf(js), input, a) /\ Len(TextsOf(js)) = Len(js)
<1> DEFINE T == Alphabet
           p == TextsOf(js)
<1>1. PICK n \in Nat \ {0} :
        n = Len(js) /\ DOMAIN js = 1..n /\ \A k \in 1..n : js[k] \in Conjunctions
  <2>1. PICK C : C = Conjunctions \ {<<>>}
    OBVIOUS
  <2>2. js \in Seq(C) /\ js # <<>>
    BY <2>1 DEF Justifications
  <2>3. Len(js) \in Nat \ {0} /\ DOMAIN js = 1..Len(js) /\ \A k \in 1..Len(js) : js[k] \in C
    BY ONLY <2>2
  <2> QED BY <2>1, <2>3
<1>2. ASSUME NEW k \in 1..n PROVE p[k] \in Seq(T)
  BY <1>1, ConjunctionText DEF TextsOf
<1>3. p = [k \in 1..n |-> p[k]]
  BY <1>1 DEF TextsOf
<1>4. input \in Seq(T) /\ Sign(Comma) \in T
  BY InAlphabet
<1> HIDE DEF T, p
<1>5. p \in [1..n -> Seq(T)]
  BY ONLY <1>2, <1>3
<1>6. PICK q \in Seq(Seq(T)) : q = p /\ Len(q) = n
  BY ONLY <1>5, n \in Nat \ {0}, FromFunction
<1>7. q # <<>>
  BY ONLY <1>6, n \in Nat \ {0}
<1>8. Stands(Between(Comma, q), input, a)
  BY <1>6 DEF p
<1>9. PICK pos : Pieces(pos, Comma, q, input, a)
  BY <1>4, <1>6, <1>7, <1>8, BetweenStands
<1> QED BY <1>1, <1>6, <1>9 DEF p

\* Behind a text that stands at a.
Behind(a, text) == a + Len(text)

\* The justifications are read one by one.
LEMMA JustificationsRead ==
  ASSUME InputInv, NEW js \in Justifications \ {<<>>}, NEW a, NEW b,
         b = Behind(a, Between(Comma, TextsOf(js))),
         Stands(Between(Comma, TextsOf(js)), input, a),
         EndsConjunction(b), EndsJustifications(b),
         NEW pre, NEW old, NEW con, NEW arg, NEW s
  PROVE  justifications_(At(a, Lists(<<>>, <<>>, pre, old, con, arg, s))) =
           At(b, Lists(<<>>, <<>>, pre, js, con, arg, s))
<1> DEFINE p == TextsOf(js)
<1>1. PICK n \in Nat \ {0} :
        n = Len(js) /\ DOMAIN js = 1..n /\ \A k \in 1..n : js[k] \in Conjunctions \ {<<>>}
  <2>1. PICK C : C = Conjunctions \ {<<>>}
    OBVIOUS
  <2>2. js \in Seq(C) /\ js # <<>>
    BY <2>1 DEF Justifications
  <2>3. Len(js) \in Nat \ {0} /\ DOMAIN js = 1..Len(js) /\ \A k \in 1..Len(js) : js[k] \in C
    BY ONLY <2>2
  <2> QED BY <2>1, <2>3
<1>2. PICK pos : Pieces(pos, Comma, p, input, a) /\ Len(p) = n
  BY <1>1, JustificationsStand
<1>3. \A k \in 1..n : p[k] = TextOfConjunction(js[k]) /\ Len(p[k]) \in Nat
  BY <1>1, ConjunctionText DEF TextsOf
<1> HIDE DEF p
<1>4. /\ pos \in [1..n -> Nat \ {0}] /\ pos[1] = a /\ pos[n] + Len(p[n]) = b
      /\ \A k \in 1..n : Stands(p[k], input, pos[k])
      /\ \A k \in 1..(n - 1) : /\ pos[k] + Len(p[k]) \in DOMAIN input
                               /\ input[pos[k] + Len(p[k])] = Sign(Comma)
                               /\ pos[k + 1] = pos[k] + Len(p[k]) + 1
  <2>1. b = a + Len(Between(Comma, p))
    BY DEF p, Behind
  <2> QED BY <1>2, <2>1 DEF Pieces
<1>24. PICK end \in [1..n -> Nat \ {0}] : \A k \in 1..n : end[k] = pos[k] + Len(p[k])
  <2> DEFINE e == [k \in 1..n |-> pos[k] + Len(p[k])]
  <2>1. \A k \in 1..n : e[k] = pos[k] + Len(p[k]) /\ pos[k] + Len(p[k]) \in Nat \ {0}
    BY <1>3, <1>4
  <2>2. e \in [1..n -> Nat \ {0}]
    BY <2>1
  <2> HIDE DEF e
  <2> QED BY ONLY <2>1, <2>2
<1> DEFINE upto(k) == SubSeq(js, 1, k)
           list(k) == Lists(<<>>, upto(k), pre, old, con, arg, s)
           E == [k \in 1..n |-> At(end[k], list(k))]
           X == {E[k] : k \in 1..n}
<1>5. /\ upto(0) = <<>> /\ upto(n) = js
      /\ \A k \in 0..(n - 1) : upto(k + 1) = Append(upto(k), js[k + 1])
  <2>1. PICK C : js \in Seq(C)
    BY DEF Justifications
  <2>2. /\ SubSeq(js, 1, 0) = <<>> /\ SubSeq(js, 1, Len(js)) = js
        /\ \A i \in 0..(Len(js) - 1) : SubSeq(js, 1, i + 1) = Append(SubSeq(js, 1, i), js[i + 1])
    BY ONLY <2>1, PrefixSteps
  <2> QED BY ONLY <1>1, <2>2
<1> HIDE DEF upto
<1>6. \A k \in 1..n : E[k] = At(end[k], list(k)) /\ E[k].at = end[k]
  BY DEF At
<1>7. ASSUME NEW k \in 1..n PROVE EndsConjunction(end[k])
  <2>1. CASE k = n
    BY <1>4, <1>24, <2>1
  <2>2. CASE k # n
    <3>1. k \in 1..(n - 1)
      BY <2>2
    <3> QED BY <1>4, <1>24, <3>1, SignEnds
  <2> QED BY <2>1, <2>2
<1>8. ASSUME NEW k \in 0..(n - 1)
      PROVE  justification_(At(pos[k + 1], list(k))) = E[k + 1]
  <2>1. k + 1 \in 1..n
    OBVIOUS
  <2>2. PICK c \in Conjunctions \ {<<>>} : c = js[k + 1]
    BY <1>1, <2>1
  <2>3. p[k + 1] = TextOfConjunction(c) /\ Stands(TextOfConjunction(c), input, pos[k + 1])
    BY <1>3, <1>4, <2>1, <2>2
  <2>4. pos[k + 1] + Len(TextOfConjunction(c)) = end[k + 1] /\ EndsConjunction(end[k + 1])
    BY <1>7, <1>24, <2>1, <2>3
  <2>5. PICK ul : ul = upto(k)
    OBVIOUS
  <2>6. justification_(At(pos[k + 1], Lists(<<>>, ul, pre, old, con, arg, s))) =
          At(end[k + 1], Lists(<<>>, Append(ul, c), pre, old, con, arg, s))
    BY <2>3, <2>4, JustificationReads
  <2>7. Append(ul, c) = upto(k + 1)
    BY <1>5, <2>2, <2>5
  <2> QED BY <1>6, <2>1, <2>5, <2>6, <2>7
<1>9. ASSUME NEW k \in 1..(n - 1)
      PROVE  /\ NextJustification(E[k]) = E[k + 1] /\ E[k + 1].at # 0
             /\ E[k].at < E[k + 1].at /\ E[k].at <= Len(input)
  <2>1. k \in 1..n /\ k + 1 \in 1..n /\ k \in 0..(n - 1)
    OBVIOUS
  <2>2. PICK o \in Nat : o = Len(p[k + 1])
    BY <1>3, <2>1
  <2>3. /\ end[k] \in DOMAIN input /\ input[end[k]] = Sign(Comma)
        /\ pos[k + 1] = end[k] + 1 /\ end[k] \in Nat /\ end[k + 1] = pos[k + 1] + o
    BY <1>4, <1>24, <2>1, <2>2
  <2>4. Seen(end[k], Comma)
    BY <2>3, SignSeen
  <2>5. E[k] = At(end[k], list(k)) /\ E[k].at = end[k] /\ E[k + 1].at = end[k + 1]
    BY <1>6, <2>1
  <2>6. Tok(E[k], Comma) = At(pos[k + 1], list(k))
    BY <2>3, <2>4, <2>5, TokReads
  <2>7. justification_(Tok(E[k], Comma)) = E[k + 1]
    BY <1>8, <2>1, <2>6
  <2>8. E[k + 1].at # 0 /\ E[k].at < E[k + 1].at /\ E[k].at <= Len(input)
    BY <2>2, <2>3, <2>5, InputTokens
  <2> QED BY <2>7, <2>8, LoopEnds
<1>10. NextJustification(E[n]) = E[n]
  <2>1. n \in 1..n
    OBVIOUS
  <2>2. E[n] = At(b, list(n))
    BY <1>4, <1>6, <1>24, <2>1
  <2>3. Tok(E[n], Comma) = At(0, list(n))
    BY <2>2, TokReads DEF EndsJustifications
  <2>4. justification_(At(0, list(n))) = At(0, list(n))
    BY JustificationMissing, NothingSeen
  <2> QED BY <2>2, <2>3, <2>4, LoopEnds
<1>11. E \in [1..n -> X] /\ E[1] \in X /\ E[n] \in X /\ \A k \in 1..(n - 1) : E[k + 1] \in X
  <2>1. 1 \in 1..n /\ n \in 1..n /\ \A k \in 1..(n - 1) : k + 1 \in 1..n
    OBVIOUS
  <2> QED BY <2>1
<1>12. \A k \in 1..n : E[k].at \in Nat \ {0}
  BY <1>6
<1> HIDE DEF E
<1>13. \A q \in X : NextJustification(q) \in X
  <2>1. ASSUME NEW q \in X PROVE NextJustification(q) \in X
    <3>1. PICK k \in 1..n : q = E[k]
      OBVIOUS
    <3>2. k = n \/ k \in 1..(n - 1)
      OBVIOUS
    <3> QED BY <1>9, <1>10, <1>11, <3>1, <3>2
  <2> QED BY <2>1
<1> HIDE DEF X
<1>14. PICK e \in X : e = E[1]
  BY <1>11
<1>15. PICK G, it : JustificationStar(e, X, G, it)
  BY ONLY <1>13, e \in X, InputInv, MoreJustificationsLoop
<1>16. it[Len(input)] = E[n]
  <2>1. \A k \in 1..n : E[k] \in X /\ E[k].at # 0
    BY <1>11, <1>12
  <2>2. n \in 1..n /\ \A k \in 1..(n - 1) : k \in 1..n
    OBVIOUS
  <2>3. /\ G \in [X -> X] /\ LoopWithin(it, e, X, G)
        /\ \A q \in X : q.at # 0 => G[q] = NextJustification(q)
    BY <1>15 DEF JustificationStar
  <2>4. G[E[n]] = E[n] /\ \A k \in 1..(n - 1) : G[E[k]] = E[k + 1]
    BY <1>9, <1>10, <2>1, <2>2, <2>3
  <2>5. IsLadder(E, n, X, G)
    BY <1>9, <1>11, <1>12, <2>3, <2>4 DEF IsLadder
  <2> QED BY <1>14, <2>3, <2>5, Ladder
<1>17. justification_(At(a, Lists(<<>>, <<>>, pre, old, con, arg, s))) = E[1]
  <2>1. 0 \in 0..(n - 1) /\ 0 + 1 = 1
    OBVIOUS
  <2> QED BY <1>4, <1>5, <1>8, <2>1
<1>18. E[n] = At(b, Lists(<<>>, js, pre, old, con, arg, s)) /\ b # 0
  <2>1. n \in 1..n
    OBVIOUS
  <2> QED BY <1>4, <1>5, <1>6, <1>12, <1>24, <2>1
<1>19. MoreJustifications(E[1]) = At(b, Lists(<<>>, js, pre, old, con, arg, s))
  BY <1>14, <1>15, <1>16, <1>18 DEF JustificationStar
<1>20. set_justifications(Lists(<<>>, js, pre, old, con, arg, s)) =
         Lists(<<>>, <<>>, pre, js, con, arg, s)
  BY ListsSteps
<1>21. PICK l : l = Lists(<<>>, js, pre, old, con, arg, s)
  OBVIOUS
<1>22. On(At(b, l), set_justifications) = At(b, set_justifications(l))
  BY <1>18 DEF On, At
<1> QED BY <1>17, <1>19, <1>20, <1>21, <1>22 DEF justifications_

-----------------------------------------------------------------------------
(* The alternatives of a default. *)

\* The signs of a default stand at a, semicolon, slash and close, its parts between them.
Marks(w, a, semicolon, slash, close) ==
  /\ a \in DOMAIN input /\ input[a] = Sign("[")
  /\ Stands(TextOfConjunction(w.prerequisite), input, a + 1)
  /\ semicolon = Behind(a + 1, TextOfConjunction(w.prerequisite))
  /\ semicolon \in DOMAIN input /\ input[semicolon] = Sign(Semicolon)
  /\ Stands(Between(Comma, TextsOf(w.justifications)), input, semicolon + 1)
  /\ slash = Behind(semicolon + 1, Between(Comma, TextsOf(w.justifications)))
  /\ slash \in DOMAIN input /\ input[slash] = Sign("]/[")
  /\ Stands(TextOfConjunction(w.conclusion), input, slash + 1)
  /\ close = Behind(slash + 1, TextOfConjunction(w.conclusion))
  /\ close \in DOMAIN input /\ input[close] = Sign("]")
  /\ \A i \in 1..Len(w.argument) :
       close + i \in DOMAIN input /\ input[close + i] = ArgumentToken(w.argument[i])
  /\ a + Len(TextOf(w)) = close + 1 + Len(w.argument)

\* A sign that is a text.
LEMMA SignText ==
  ASSUME InputInv, NEW t, Sign(t) \in Alphabet
  PROVE  /\ <<Sign(t)>> \in Seq(Alphabet) /\ Len(<<Sign(t)>>) = 1
         /\ \A a : Stands(<<Sign(t)>>, input, a) =>
              a \in Nat \ {0} /\ a \in DOMAIN input /\ input[a] = Sign(t)
<1>1. PICK x \in Alphabet : x = Sign(t)
  OBVIOUS
<1>2. <<x>> \in Seq(Alphabet) /\ Len(<<x>>) = 1 /\ <<x>>[1] = x
  BY ONLY x \in Alphabet
<1>3. ASSUME NEW a, Stands(<<x>>, input, a)
      PROVE  a \in Nat \ {0} /\ a \in DOMAIN input /\ input[a] = x
  <2>1. a \in Nat \ {0} /\ a + 1 <= Len(input) + 1 /\ input[a + 1 - 1] = x
    BY <1>2, <1>3 DEF Stands
  <2>2. a + 1 - 1 = a /\ a \in 1..Len(input)
    BY <2>1, InputTokens
  <2> QED BY <2>1, <2>2, InputTokens
<1> QED BY <1>1, <1>2, <1>3

\* The conjunctions between the commas.
LEMMA JustificationsText ==
  ASSUME InputInv, NEW js \in Justifications
  PROVE  Between(Comma, TextsOf(js)) \in Seq(Alphabet)
<1> DEFINE T == Alphabet
           p == TextsOf(js)
<1>1. PICK n \in Nat : n = Len(js) /\ DOMAIN js = 1..n /\ \A k \in 1..n : js[k] \in Conjunctions
  <2>1. PICK C : C = Conjunctions \ {<<>>}
    OBVIOUS
  <2>2. js \in Seq(C)
    BY <2>1 DEF Justifications
  <2>3. Len(js) \in Nat /\ DOMAIN js = 1..Len(js) /\ \A k \in 1..Len(js) : js[k] \in C
    BY ONLY <2>2
  <2> QED BY <2>1, <2>3
<1>2. ASSUME NEW k \in 1..n PROVE p[k] \in Seq(T)
  BY <1>1, ConjunctionText DEF TextsOf
<1>3. p = [k \in 1..n |-> p[k]]
  BY <1>1 DEF TextsOf
<1>4. Sign(Comma) \in T
  BY InAlphabet
<1> HIDE DEF T, p
<1>5. p \in [1..n -> Seq(T)]
  BY ONLY <1>2, <1>3
<1>6. p \in Seq(Seq(T))
  BY ONLY <1>5, n \in Nat, FromFunction
<1>7. Between(Comma, p) \in Seq(T)
  BY <1>4, <1>6, BetweenText
<1> QED BY <1>7 DEF T, p

\* The text of a default's argument.
TextOfArgument(w) == [i \in DOMAIN w.argument |-> ArgumentToken(w.argument[i])]

LEMMA ArgumentText ==
  ASSUME InputInv, NEW w, IsWritten(w)
  PROVE  /\ TextOfArgument(w) \in Seq(Alphabet) /\ Len(TextOfArgument(w)) = Len(w.argument)
         /\ \A i \in 1..Len(w.argument) : TextOfArgument(w)[i] = ArgumentToken(w.argument[i])
<1> DEFINE A == [name : Seq(Words), terms : Seq(Words)]
           t == TextOfArgument(w)
<1>1. \A x \in A : ArgumentToken(x) \in Alphabet
  BY InAlphabet
<1>2. w.argument \in Seq(A)
  BY DEF IsWritten
<1> HIDE DEF A
<1>3. PICK n \in Nat : /\ n = Len(w.argument) /\ DOMAIN w.argument = 1..n
                       /\ \A i \in 1..n : w.argument[i] \in A
  BY ONLY <1>2
<1>4. \A i \in 1..n : t[i] = ArgumentToken(w.argument[i]) /\ t[i] \in Alphabet
  BY <1>1, <1>3 DEF TextOfArgument
<1>5. t = [i \in 1..n |-> t[i]]
  BY <1>3 DEF TextOfArgument
<1> HIDE DEF t
<1>6. t \in [1..n -> Alphabet]
  BY ONLY <1>4, <1>5
<1>7. t \in Seq(Alphabet) /\ Len(t) = n
  BY ONLY <1>6, n \in Nat, FromFunction
<1> QED BY <1>3, <1>4, <1>7 DEF t

LEMMA TextParts ==
  ASSUME NEW w
  PROVE  TextOf(w) =
           <<Sign("[")>> \o TextOfConjunction(w.prerequisite) \o <<Sign(Semicolon)>>
             \o Between(Comma, TextsOf(w.justifications)) \o <<Sign("]/[")>>
             \o TextOfConjunction(w.conclusion) \o <<Sign("]")>> \o TextOfArgument(w)
BY Zenon DEF TextOf, Semicolon, Comma, TextsOf, TextOfArgument

\* The text of a default stands with its signs and parts.
LEMMA DefaultStands ==
  ASSUME InputInv, NEW w, IsWritten(w), NEW a, Stands(TextOf(w), input, a)
  PROVE  \E semicolon, slash, close : Marks(w, a, semicolon, slash, close)
<1> DEFINE T == Alphabet
<1>1. /\ w.prerequisite \in Conjunctions /\ w.conclusion \in Conjunctions
      /\ w.justifications \in Justifications
  BY DEF IsWritten
<1>2. PICK t1 \in Seq(T) : t1 = <<Sign("[")>> /\ Len(t1) = 1
  BY InAlphabet, SignText
<1>3. PICK t2 \in Seq(T) : t2 = TextOfConjunction(w.prerequisite)
  BY <1>1, ConjunctionText
<1>4. PICK t3 \in Seq(T) : t3 = <<Sign(Semicolon)>> /\ Len(t3) = 1
  BY InAlphabet, SignText
<1>5. PICK t4 \in Seq(T) : t4 = Between(Comma, TextsOf(w.justifications))
  BY <1>1, JustificationsText
<1>6. PICK t5 \in Seq(T) : t5 = <<Sign("]/[")>> /\ Len(t5) = 1
  BY InAlphabet, SignText
<1>7. PICK t6 \in Seq(T) : t6 = TextOfConjunction(w.conclusion)
  BY <1>1, ConjunctionText
<1>8. PICK t7 \in Seq(T) : t7 = <<Sign("]")>> /\ Len(t7) = 1
  BY InAlphabet, SignText
<1>9. PICK t8 \in Seq(T) : /\ t8 = TextOfArgument(w) /\ Len(t8) = Len(w.argument)
                           /\ \A i \in 1..Len(t8) : t8[i] = ArgumentToken(w.argument[i])
  BY ArgumentText
<1>10. input \in Seq(T)
  BY InAlphabet
<1>11. Stands(t1 \o t2 \o t3 \o t4 \o t5 \o t6 \o t7 \o t8, input, a)
  BY <1>2, <1>3, <1>4, <1>5, <1>6, <1>7, <1>8, <1>9, TextParts
<1>12. Len(TextOf(w)) = Len(t1 \o t2 \o t3 \o t4 \o t5 \o t6 \o t7 \o t8)
  BY <1>2, <1>3, <1>4, <1>5, <1>6, <1>7, <1>8, <1>9, TextParts
<1> HIDE DEF T
<1>13. \A x, y \in Seq(T) : x \o y \in Seq(T) /\ Len(x \o y) = Len(x) + Len(y) /\ Len(x) \in Nat
  OBVIOUS
<1>14. PICK x2 \in Seq(T) : x2 = t1 \o t2 /\ Len(x2) = Len(t1) + Len(t2)
  BY ONLY <1>13, t1 \in Seq(T), t2 \in Seq(T)
<1>15. PICK x3 \in Seq(T) : x3 = x2 \o t3 /\ Len(x3) = Len(x2) + Len(t3)
  BY ONLY <1>13, x2 \in Seq(T), t3 \in Seq(T)
<1>16. PICK x4 \in Seq(T) : x4 = x3 \o t4 /\ Len(x4) = Len(x3) + Len(t4)
  BY ONLY <1>13, x3 \in Seq(T), t4 \in Seq(T)
<1>17. PICK x5 \in Seq(T) : x5 = x4 \o t5 /\ Len(x5) = Len(x4) + Len(t5)
  BY ONLY <1>13, x4 \in Seq(T), t5 \in Seq(T)
<1>18. PICK x6 \in Seq(T) : x6 = x5 \o t6 /\ Len(x6) = Len(x5) + Len(t6)
  BY ONLY <1>13, x5 \in Seq(T), t6 \in Seq(T)
<1>19. PICK x7 \in Seq(T) : x7 = x6 \o t7 /\ Len(x7) = Len(x6) + Len(t7)
  BY ONLY <1>13, x6 \in Seq(T), t7 \in Seq(T)
<1>20. PICK x8 \in Seq(T) : x8 = x7 \o t8 /\ Len(x8) = Len(x7) + Len(t8)
  BY ONLY <1>13, x7 \in Seq(T), t8 \in Seq(T)
<1>21. x8 = t1 \o t2 \o t3 \o t4 \o t5 \o t6 \o t7 \o t8
  BY ONLY <1>14, <1>15, <1>16, <1>17, <1>18, <1>19, <1>20
<1>22. Stands(x8, input, a) /\ Len(TextOf(w)) = Len(x8)
  BY ONLY <1>11, <1>12, <1>21
<1>23. Stands(x7, input, a) /\ Stands(t8, input, a + Len(x7))
  BY <1>10, <1>20, <1>22, StandsParts
<1>24. Stands(x6, input, a) /\ Stands(t7, input, a + Len(x6))
  BY <1>10, <1>19, <1>23, StandsParts
<1>25. Stands(x5, input, a) /\ Stands(t6, input, a + Len(x5))
  BY <1>10, <1>18, <1>24, StandsParts
<1>26. Stands(x4, input, a) /\ Stands(t5, input, a + Len(x4))
  BY <1>10, <1>17, <1>25, StandsParts
<1>27. Stands(x3, input, a) /\ Stands(t4, input, a + Len(x3))
  BY <1>10, <1>16, <1>26, StandsParts
<1>28. Stands(x2, input, a) /\ Stands(t3, input, a + Len(x2))
  BY <1>10, <1>15, <1>27, StandsParts
<1>29. Stands(t1, input, a) /\ Stands(t2, input, a + Len(t1))
  BY <1>10, <1>14, <1>28, StandsParts
<1>30. a \in Nat \ {0}
  BY <1>22 DEF Stands
<1>31. PICK n2 \in Nat, n4 \in Nat, n6 \in Nat, n8 \in Nat :
         n2 = Len(t2) /\ n4 = Len(t4) /\ n6 = Len(t6) /\ n8 = Len(t8)
  BY ONLY <1>13, t2 \in Seq(T), t4 \in Seq(T), t6 \in Seq(T), t8 \in Seq(T)
<1>32. /\ Len(t1) = 1 /\ Len(x2) = 1 + n2 /\ Len(x3) = 1 + n2 + 1 /\ Len(x4) = 1 + n2 + 1 + n4
       /\ Len(x5) = 1 + n2 + 1 + n4 + 1 /\ Len(x6) = 1 + n2 + 1 + n4 + 1 + n6
       /\ Len(x7) = 1 + n2 + 1 + n4 + 1 + n6 + 1 /\ Len(x8) = 1 + n2 + 1 + n4 + 1 + n6 + 1 + n8
  <2>1. Len(t1) = 1 /\ Len(t3) = 1 /\ Len(t5) = 1 /\ Len(t7) = 1
    BY ONLY <1>2, <1>4, <1>6, <1>8
  <2>2. Len(x2) = 1 + n2 /\ Len(x3) = 1 + n2 + 1 /\ Len(x4) = 1 + n2 + 1 + n4
    BY ONLY <1>14, <1>15, <1>16, <1>31, <2>1
  <2>3. Len(x5) = 1 + n2 + 1 + n4 + 1 /\ Len(x6) = 1 + n2 + 1 + n4 + 1 + n6
    BY ONLY <1>17, <1>18, <1>31, <2>1, <2>2
  <2>4. Len(x7) = 1 + n2 + 1 + n4 + 1 + n6 + 1 /\ Len(x8) = 1 + n2 + 1 + n4 + 1 + n6 + 1 + n8
    BY ONLY <1>19, <1>20, <1>31, <2>1, <2>3
  <2> QED BY ONLY <2>1, <2>2, <2>3, <2>4
<1>33. PICK semicolon, slash, close :
         /\ semicolon = (a + 1) + n2 /\ slash = (semicolon + 1) + n4 /\ close = (slash + 1) + n6
  OBVIOUS
<1>34. /\ a + Len(t1) = a + 1 /\ a + Len(x2) = semicolon /\ a + Len(x3) = semicolon + 1
       /\ a + Len(x4) = slash /\ a + Len(x5) = slash + 1 /\ a + Len(x6) = close
       /\ a + Len(x7) = close + 1 /\ a + Len(x8) = close + 1 + n8
  BY ONLY <1>30, <1>32, <1>33, n2 \in Nat, n4 \in Nat, n6 \in Nat, n8 \in Nat
<1>35. /\ a \in DOMAIN input /\ input[a] = Sign("[")
       /\ semicolon \in DOMAIN input /\ input[semicolon] = Sign(Semicolon)
       /\ slash \in DOMAIN input /\ input[slash] = Sign("]/[")
       /\ close \in DOMAIN input /\ input[close] = Sign("]")
  <2>1. /\ Stands(t1, input, a) /\ Stands(t3, input, semicolon) /\ Stands(t5, input, slash)
        /\ Stands(t7, input, close)
    BY ONLY <1>24, <1>26, <1>28, <1>29, <1>34
  <2>2. a \in DOMAIN input /\ input[a] = Sign("[")
    BY <1>2, <2>1, InAlphabet, SignText
  <2>3. semicolon \in DOMAIN input /\ input[semicolon] = Sign(Semicolon)
    BY <1>4, <2>1, InAlphabet, SignText
  <2>4. slash \in DOMAIN input /\ input[slash] = Sign("]/[")
    BY <1>6, <2>1, InAlphabet, SignText
  <2>5. close \in DOMAIN input /\ input[close] = Sign("]")
    BY <1>8, <2>1, InAlphabet, SignText
  <2> QED BY ONLY <2>2, <2>3, <2>4, <2>5
<1>36. /\ Stands(t2, input, a + 1) /\ semicolon = Behind(a + 1, t2)
       /\ Stands(t4, input, semicolon + 1) /\ slash = Behind(semicolon + 1, t4)
       /\ Stands(t6, input, slash + 1) /\ close = Behind(slash + 1, t6)
  BY ONLY <1>25, <1>27, <1>29, <1>31, <1>33, <1>34 DEF Behind
<1>37. ASSUME NEW i \in 1..n8
       PROVE  close + i \in DOMAIN input /\ input[close + i] = ArgumentToken(w.argument[i])
  <2>1. Stands(t8, input, close + 1)
    BY ONLY <1>23, <1>34
  <2>2. /\ close + 1 \in Nat \ {0} /\ close + 1 + n8 <= Len(input) + 1
        /\ input[(close + 1) + i - 1] = ArgumentToken(w.argument[i])
    BY <1>9, <1>31, <2>1 DEF Stands
  <2>3. close \in Nat
    BY ONLY <1>30, <1>33, n2 \in Nat, n4 \in Nat, n6 \in Nat
  <2>4. (close + 1) + i - 1 = close + i /\ close + i \in 1..Len(input)
    BY ONLY <2>2, <2>3, i \in 1..n8, n8 \in Nat, InputTokens, InputInv
  <2> QED BY <2>2, <2>4, InputTokens
<1>38. Len(w.argument) = n8 /\ a + Len(TextOf(w)) = close + 1 + Len(w.argument)
  BY ONLY <1>9, <1>22, <1>31, <1>34
<1>39. Marks(w, a, semicolon, slash, close)
  BY ONLY <1>3, <1>5, <1>7, <1>35, <1>36, <1>37, <1>38 DEF Marks
<1> QED BY <1>39

\* A conjunction that is written begins with a literal, and so do justifications.
LEMMA FirstLiteral ==
  ASSUME InputInv, NEW a
  PROVE  /\ \A c \in Conjunctions \ {<<>>} :
              Stands(TextOfConjunction(c), input, a) => a \in DOMAIN input /\ Seen(a, "lit")
         /\ \A js \in Justifications \ {<<>>} :
              Stands(Between(Comma, TextsOf(js)), input, a) => Seen(a, "lit")
<1>1. ASSUME NEW c \in Conjunctions \ {<<>>}, Stands(TextOfConjunction(c), input, a)
      PROVE  a \in DOMAIN input /\ Seen(a, "lit")
  <2>1. PICK n \in Nat \ {0} : n = Len(c)
    BY DEF Conjunctions
  <2>2. PICK pos : /\ pos[1] = a
                   /\ \A k \in 1..Len(c) :
                        pos[k] \in DOMAIN input /\ input[pos[k]] = LiteralToken(c[k])
    BY <1>1, ConjunctionStands
  <2>3. 1 \in 1..Len(c)
    BY <2>1
  <2>4. a \in DOMAIN input /\ input[a] = LiteralToken(c[1])
    BY ONLY <2>2, <2>3
  <2> QED BY ONLY <2>4 DEF Seen, LiteralToken
<1>2. ASSUME NEW js \in Justifications \ {<<>>}, Stands(Between(Comma, TextsOf(js)), input, a)
      PROVE  Seen(a, "lit")
  <2>1. PICK C : C = Conjunctions \ {<<>>}
    OBVIOUS
  <2>2. js \in Seq(C) /\ js # <<>>
    BY <2>1 DEF Justifications
  <2>3. 1 \in 1..Len(js) /\ 1 \in DOMAIN js /\ js[1] \in C
    BY ONLY <2>2
  <2>4. PICK c \in Conjunctions \ {<<>>} : c = js[1]
    BY ONLY <2>1, <2>3
  <2>5. PICK pos : Pieces(pos, Comma, TextsOf(js), input, a) /\ Len(TextsOf(js)) = Len(js)
    BY <1>2, JustificationsStand
  <2>6. pos[1] = a /\ \A k \in 1..Len(js) : Stands(TextsOf(js)[k], input, pos[k])
    BY ONLY <2>5 DEF Pieces
  <2>7. TextsOf(js)[1] = TextOfConjunction(c)
    BY <2>3, <2>4 DEF TextsOf
  <2>8. Stands(TextOfConjunction(c), input, a)
    BY ONLY <2>3, <2>6, <2>7
  <2> QED BY <1>1, <2>8
<1> QED BY <1>1, <1>2

\* A part that is left out takes no place.
LEMMA NoText ==
  ASSUME NEW a \in Nat
  PROVE  /\ Behind(a, TextOfConjunction(<<>>)) = a
         /\ Behind(a, Between(Comma, TextsOf(<<>>))) = a
<1>1. PICK z : z = <<>> /\ DOMAIN z = 1..0
  OBVIOUS
<1>2. [i \in DOMAIN z |-> <<LiteralToken(z[i])>>] = <<>>
  <2>1. PICK s : s = [i \in DOMAIN z |-> <<LiteralToken(z[i])>>]
    OBVIOUS
  <2>2. s \in [1..0 -> {}]
    BY <1>1, <2>1
  <2>3. s \in Seq({}) /\ Len(s) = 0
    BY ONLY <2>2, 0 \in Nat, FromFunction
  <2>4. s = <<>>
    BY ONLY <2>3
  <2> QED BY ONLY <2>1, <2>4
<1>3. TextsOf(z) = <<>>
  <2>1. TextsOf(z) \in [1..0 -> {}]
    BY <1>1 DEF TextsOf
  <2>2. PICK s : s = TextsOf(z)
    OBVIOUS
  <2>3. s \in Seq({}) /\ Len(s) = 0
    BY ONLY <2>1, <2>2, 0 \in Nat, FromFunction
  <2>4. s = <<>>
    BY ONLY <2>3
  <2> QED BY ONLY <2>2, <2>4
<1>4. TextOfConjunction(<<>>) = <<>>
  <2>1. TextOfConjunction(z) = Between("&", [i \in DOMAIN z |-> <<LiteralToken(z[i])>>])
    BY DEF TextOfConjunction
  <2>2. TextOfConjunction(z) = <<>>
    BY <1>2, <2>1, BetweenNothing
  <2> QED BY ONLY <1>1, <2>2
<1>5. Between(Comma, TextsOf(<<>>)) = <<>>
  BY <1>1, <1>3, BetweenNothing
<1> QED BY <1>4, <1>5 DEF Behind

\* What reads nothing at no place.
LEMMA NothingRead ==
  ASSUME InputInv, NEW pl, NEW jl, NEW pre, NEW js, NEW con, NEW arg, NEW s, NEW l,
         l = Lists(pl, jl, pre, js, con, arg, s)
  PROVE  /\ \A t : Tok(At(0, l), t) = At(0, l)
         /\ prerequisite_(At(0, l)) = At(0, l)
         /\ justifications_(At(0, l)) = At(0, l)
         /\ conclusion_(At(0, l)) = At(0, l)
<1>1. \A t : ~Seen(0, t)
  BY NothingSeen
<1>2. \A t : Tok(At(0, l), t) = At(0, l)
  BY <1>1, TokReads
<1>3. conjunction_(At(0, l)) = At(0, l)
  BY <1>1, ConjunctionMissing
<1>4. justifications_(At(0, l)) = At(0, l)
  BY <1>1, JustificationsMissing
<1>5. At(0, l).at = 0
  BY DEF At
<1>6. prerequisite_(At(0, l)) = At(0, l)
  BY <1>3, <1>5 DEF prerequisite_, On
<1>7. argument_(At(0, l)) = At(0, l)
  <2>1. ~Matches(At(0, l), "arg")
    BY <1>1 DEF Matches, At, Seen
  <2> QED BY <2>1 DEF argument_
<1>8. conclusion_(At(0, l)) = At(0, l)
  BY <1>2, <1>3, <1>5, <1>7 DEF conclusion_, On
<1> QED BY <1>2, <1>4, <1>6, <1>8

\* The prerequisite is read into its list, or there is none.
LEMMA PrerequisiteReads ==
  ASSUME InputInv, NEW a, NEW pre, NEW js, NEW con, NEW arg, NEW s
  PROVE  /\ ~Seen(a, "lit") =>
              prerequisite_(At(a, Lists(<<>>, <<>>, pre, js, con, arg, s))) =
                At(0, Lists(<<>>, <<>>, pre, js, con, arg, s))
         /\ \A c \in Conjunctions \ {<<>>} : \A b :
              /\ Stands(TextOfConjunction(c), input, a)
              /\ b = Behind(a, TextOfConjunction(c)) /\ EndsConjunction(b)
              => prerequisite_(At(a, Lists(<<>>, <<>>, pre, js, con, arg, s))) =
                   At(b, Lists(<<>>, <<>>, c, js, con, arg, s))
<1>1. ASSUME ~Seen(a, "lit")
      PROVE  prerequisite_(At(a, Lists(<<>>, <<>>, pre, js, con, arg, s))) =
               At(0, Lists(<<>>, <<>>, pre, js, con, arg, s))
  BY <1>1, ConjunctionMissing DEF prerequisite_, On, At
<1>2. ASSUME NEW c \in Conjunctions \ {<<>>}, NEW b, Stands(TextOfConjunction(c), input, a),
             b = Behind(a, TextOfConjunction(c)), EndsConjunction(b)
      PROVE  prerequisite_(At(a, Lists(<<>>, <<>>, pre, js, con, arg, s))) =
               At(b, Lists(<<>>, <<>>, c, js, con, arg, s))
  <2>1. b = a + Len(TextOfConjunction(c)) /\ b # 0
    <3>1. a \in Nat \ {0} /\ Len(TextOfConjunction(c)) \in Nat
      BY <1>2, ConjunctionText DEF Stands
    <3>2. b = a + Len(TextOfConjunction(c))
      BY <1>2 DEF Behind
    <3> QED BY ONLY <3>1, <3>2
  <2>2. PICK l : l = Lists(c, <<>>, pre, js, con, arg, s)
    OBVIOUS
  <2>3. conjunction_(At(a, Lists(<<>>, <<>>, pre, js, con, arg, s))) = At(b, l)
    BY <1>2, <2>1, <2>2, ConjunctionReads
  <2>4. set_prerequisite(l) = Lists(<<>>, <<>>, c, js, con, arg, s)
    BY <2>2, ListsSteps
  <2> QED BY <2>1, <2>3, <2>4 DEF prerequisite_, On, At
<1> QED BY <1>1, <1>2

\* An argument is read where there is one.
LEMMA ArgumentReads ==
  ASSUME InputInv, NEW w, IsWritten(w), NEW b \in Nat, NEW pre, NEW js, NEW con, NEW s,
         Len(w.argument) = 0 => ~Seen(b, "arg"),
         Len(w.argument) = 1 => b \in DOMAIN input /\ input[b] = ArgumentToken(w.argument[1])
  PROVE  argument_(At(b, Lists(<<>>, <<>>, pre, js, con, <<>>, s))) =
           At(b + Len(w.argument), Lists(<<>>, <<>>, pre, js, con, w.argument, s))
<1> DEFINE l == Lists(<<>>, <<>>, pre, js, con, <<>>, s)
           A == [name : Seq(Words), terms : Seq(Words)]
<1>1. PICK arg \in Seq(A) : arg = w.argument /\ Len(arg) <= 1
  BY DEF IsWritten
<1> HIDE DEF A
<1>2. CASE Len(arg) = 0
  <2>1. arg = <<>>
    BY ONLY <1>2, arg \in Seq(A)
  <2>2. ~Matches(At(b, l), "arg")
    BY <1>1, <1>2 DEF Matches, At, Seen
  <2>3. argument_(At(b, l)) = At(b, l)
    BY <2>2 DEF argument_
  <2>4. b + Len(w.argument) = b
    BY <1>1, <1>2
  <2> QED BY <1>1, <2>1, <2>3, <2>4
<1>3. CASE Len(arg) = 1
  <2>1. PICK x \in A : x = arg[1]
    BY ONLY <1>3, arg \in Seq(A)
  <2>7. <<x>> \in Seq(A) /\ Len(<<x>>) = 1 /\ <<x>>[1] = x
    BY ONLY x \in A
  <2>2. x = arg[1] /\ arg = <<x>>
    <3>1. PICK y \in Seq(A) : y = <<x>> /\ Len(y) = 1 /\ y[1] = x
      BY ONLY <2>7
    <3>2. arg = y
      BY ONLY <1>3, <2>1, <3>1, arg \in Seq(A)
    <3> QED BY ONLY <2>1, <3>1, <3>2
  <2>3. /\ b \in DOMAIN input /\ input[b].t = "arg" /\ input[b].ok = TRUE
        /\ input[b].name = x.name /\ input[b].terms = x.terms
    BY <1>1, <1>3, <2>2 DEF ArgumentToken
  <2>4. Matches(At(b, l), "arg") /\ At(b, l).at = b /\ At(b, l).s = l
    BY <2>3 DEF Matches, At
  <2>5. argument_(At(b, l)) =
          [at |-> b + 1, s |-> set_argument(push_lst_term(l, x.terms), x.name)]
    BY <2>3, <2>4 DEF argument_
  <2>6. set_argument(push_lst_term(l, x.terms), x.name) =
          Lists(<<>>, <<>>, pre, js, con, <<x>>, s)
    BY ArgumentSet DEF A
  <2> QED BY <1>1, <1>3, <2>2, <2>5, <2>6 DEF At
<1>4. Len(arg) = 0 \/ Len(arg) = 1
  <2>1. PICK n \in Nat : n = Len(arg)
    BY ONLY arg \in Seq(A)
  <2>2. n <= 1
    BY ONLY <1>1, <2>1
  <2>3. n = 0 \/ n = 1
    BY ONLY <2>2, n \in Nat
  <2> QED BY ONLY <2>1, <2>3
<1> QED BY <1>2, <1>3, <1>4

\* The conclusion is read, and the argument behind it.
LEMMA ConclusionReads ==
  ASSUME InputInv, NEW w, IsWritten(w), NEW a, NEW semicolon, NEW slash, NEW close,
         Marks(w, a, semicolon, slash, close),
         Len(w.argument) = 0 => ~Seen(close + 1, "arg"),
         NEW pre, NEW js, NEW con, NEW s
  PROVE  conclusion_(At(slash + 1, Lists(<<>>, <<>>, pre, js, con, <<>>, s))) =
           At(a + Len(TextOf(w)), Lists(<<>>, <<>>, pre, js, w.conclusion, w.argument, s))
<1>1. PICK c \in Conjunctions \ {<<>>} : c = w.conclusion
  BY DEF IsWritten
<1>2. PICK start : start = slash + 1
  OBVIOUS
<1>3. /\ Stands(TextOfConjunction(c), input, start)
      /\ close = Behind(start, TextOfConjunction(c))
      /\ close \in DOMAIN input /\ input[close] = Sign("]")
  BY <1>1, <1>2 DEF Marks
<1>4. EndsConjunction(close) /\ close = start + Len(TextOfConjunction(c)) /\ close # 0
  <2>1. close \in Nat \ {0}
    BY <1>3, InputTokens
  <2> QED BY <1>3, <2>1, SignEnds DEF Behind
<1>5. PICK l : l = Lists(c, <<>>, pre, js, con, <<>>, s)
  OBVIOUS
<1>6. conjunction_(At(start, Lists(<<>>, <<>>, pre, js, con, <<>>, s))) = At(close, l)
  BY <1>3, <1>4, <1>5, ConjunctionReads
<1>7. PICK m : m = Lists(<<>>, <<>>, pre, js, c, <<>>, s) /\ set_conclusion(l) = m
  BY <1>5, ListsSteps
<1>8. On(conjunction_(At(start, Lists(<<>>, <<>>, pre, js, con, <<>>, s))), set_conclusion) =
        At(close, m)
  BY <1>4, <1>6, <1>7 DEF On, At
<1>9. Tok(At(close, m), "]") = At(close + 1, m)
  BY <1>3, SignSeen, TokReads
<1>10. Len(w.argument) = 1 =>
         close + 1 \in DOMAIN input /\ input[close + 1] = ArgumentToken(w.argument[1])
  BY DEF Marks
<1>11. argument_(At(close + 1, m)) =
         At(close + 1 + Len(w.argument), Lists(<<>>, <<>>, pre, js, c, w.argument, s))
  <2>1. PICK b \in Nat : b = close + 1
    <3>1. close \in Nat
      BY <1>3, InputTokens
    <3> QED BY ONLY <3>1
  <2>2. /\ Len(w.argument) = 0 => ~Seen(b, "arg")
        /\ Len(w.argument) = 1 => b \in DOMAIN input /\ input[b] = ArgumentToken(w.argument[1])
    BY <1>10, <2>1
  <2>3. argument_(At(b, Lists(<<>>, <<>>, pre, js, c, <<>>, s))) =
          At(b + Len(w.argument), Lists(<<>>, <<>>, pre, js, c, w.argument, s))
    BY <2>2, ArgumentReads
  <2> QED BY <1>7, <2>1, <2>3
<1>12. close + 1 + Len(w.argument) = a + Len(TextOf(w))
  BY DEF Marks
<1> QED BY <1>1, <1>2, <1>8, <1>9, <1>11, <1>12 DEF conclusion_

-----------------------------------------------------------------------------
\* The steps of an alternative.
LEMMA AlternativeSteps ==
  ASSUME NEW r, NEW p, NEW j, NEW opened, NEW first, NEW middle, NEW second, NEW closed,
         opened = Tok(r, "["),
         first = IF p THEN prerequisite_(opened) ELSE opened,
         middle = Tok(first, Semicolon),
         second = IF j THEN justifications_(middle) ELSE middle,
         closed = Tok(second, "]/[")
  PROVE  Alternative(r, p, j) = conclusion_(closed)
BY Zenon DEF Alternative, Semicolon

\* What is at the places of a default and what is not.
LEMMA MarksSeen ==
  ASSUME InputInv, NEW w, IsWritten(w), NEW a, NEW semicolon, NEW slash, NEW close,
         Marks(w, a, semicolon, slash, close)
  PROVE  /\ a \in Nat \ {0} /\ semicolon \in Nat \ {0} /\ slash \in Nat \ {0}
         /\ Seen(a, "[") /\ Seen(semicolon, Semicolon) /\ Seen(slash, "]/[")
         /\ ~Seen(semicolon, "lit") /\ ~Seen(slash, "lit")
         /\ EndsConjunction(semicolon) /\ EndsConjunction(slash) /\ EndsJustifications(slash)
         /\ w.prerequisite = <<>> => semicolon = a + 1
         /\ w.prerequisite # <<>> => Seen(a + 1, "lit")
         /\ w.justifications = <<>> => slash = semicolon + 1
         /\ w.justifications # <<>> => Seen(semicolon + 1, "lit")
<1>1. /\ a \in DOMAIN input /\ input[a] = Sign("[")
      /\ semicolon \in DOMAIN input /\ input[semicolon] = Sign(Semicolon)
      /\ slash \in DOMAIN input /\ input[slash] = Sign("]/[")
  BY DEF Marks
<1>2. a \in Nat \ {0} /\ semicolon \in Nat \ {0} /\ slash \in Nat \ {0}
  BY <1>1, InputTokens
<1>3. Seen(a, "[") /\ Seen(semicolon, Semicolon) /\ Seen(slash, "]/[")
  BY <1>1, SignSeen
<1>4. /\ ~Seen(semicolon, "lit") /\ ~Seen(slash, "lit")
      /\ EndsConjunction(semicolon) /\ EndsConjunction(slash) /\ EndsJustifications(slash)
  BY <1>1, SignEnds
<1>5. w.prerequisite = <<>> => semicolon = a + 1
  <2>1. PICK b \in Nat : b = a + 1
    BY <1>2
  <2>2. semicolon = Behind(b, TextOfConjunction(w.prerequisite))
    BY <2>1 DEF Marks
  <2>3. Behind(b, TextOfConjunction(<<>>)) = b
    BY NoText
  <2> QED BY <2>1, <2>2, <2>3
<1>6. w.prerequisite # <<>> => Seen(a + 1, "lit")
  BY FirstLiteral DEF Marks, IsWritten
<1>7. w.justifications = <<>> => slash = semicolon + 1
  <2>1. PICK b \in Nat : b = semicolon + 1
    BY <1>2
  <2>2. slash = Behind(b, Between(Comma, TextsOf(w.justifications)))
    BY <2>1 DEF Marks
  <2>3. Behind(b, Between(Comma, TextsOf(<<>>))) = b
    BY NoText
  <2> QED BY <2>1, <2>2, <2>3
<1>8. w.justifications # <<>> => Seen(semicolon + 1, "lit")
  BY FirstLiteral DEF Marks, IsWritten
<1> QED BY <1>1, <1>2, <1>3, <1>4, <1>5, <1>6, <1>7, <1>8

\* Where a literal is there is no sign.
LEMMA LiteralNoSign ==
  ASSUME NEW a, Seen(a, "lit")
  PROVE  ~Seen(a, Semicolon) /\ ~Seen(a, "]/[")
BY Zenon DEF Seen, Semicolon

\* The part of a default before its slash, in the alternatives that have a prerequisite
\* exactly when one is written,
LEMMA PrerequisiteFound ==
  ASSUME InputInv, NEW w, IsWritten(w), NEW a, NEW semicolon, NEW slash, NEW close,
         Marks(w, a, semicolon, slash, close), NEW p, p <=> w.prerequisite # <<>>,
         NEW pre, NEW js, NEW con, NEW s, NEW l, NEW m, NEW first,
         l = Lists(<<>>, <<>>, pre, js, con, <<>>, s),
         m = Lists(<<>>, <<>>, IF p THEN w.prerequisite ELSE pre, js, con, <<>>, s),
         first = IF p THEN prerequisite_(Tok(At(a, l), "[")) ELSE Tok(At(a, l), "[")
  PROVE  Tok(first, Semicolon) = At(semicolon + 1, m)
<1>1. Tok(At(a, l), "[") = At(a + 1, l)
  BY MarksSeen, TokReads
<1>2. first = At(semicolon, m)
  <2>1. CASE p
    <3>1. PICK c \in Conjunctions \ {<<>>} : c = w.prerequisite
      BY <2>1 DEF IsWritten
    <3>2. PICK b : b = a + 1
      OBVIOUS
    <3>3. /\ Stands(TextOfConjunction(c), input, b)
          /\ semicolon = Behind(b, TextOfConjunction(c)) /\ EndsConjunction(semicolon)
      BY <3>1, <3>2, MarksSeen DEF Marks
    <3>4. prerequisite_(At(b, Lists(<<>>, <<>>, pre, js, con, <<>>, s))) =
            At(semicolon, Lists(<<>>, <<>>, c, js, con, <<>>, s))
      BY <3>3, PrerequisiteReads
    <3> QED BY <1>1, <2>1, <3>1, <3>2, <3>4
  <2>2. CASE ~p
    <3>1. semicolon = a + 1 /\ m = l
      BY <2>2, MarksSeen
    <3> QED BY <1>1, <2>2, <3>1
  <2> QED BY <2>1, <2>2
<1> QED BY <1>2, MarksSeen, TokReads

\* and in the others.
LEMMA PrerequisiteLacks ==
  ASSUME InputInv, NEW w, IsWritten(w), NEW a, NEW semicolon, NEW slash, NEW close,
         Marks(w, a, semicolon, slash, close), NEW p, ~(p <=> w.prerequisite # <<>>),
         NEW pre, NEW js, NEW con, NEW s, NEW l, NEW first,
         l = Lists(<<>>, <<>>, pre, js, con, <<>>, s),
         first = IF p THEN prerequisite_(Tok(At(a, l), "[")) ELSE Tok(At(a, l), "[")
  PROVE  Tok(first, Semicolon) = At(0, l)
<1>1. Tok(At(a, l), "[") = At(a + 1, l)
  BY MarksSeen, TokReads
<1>2. CASE p
  <2>1. ~Seen(a + 1, "lit")
    BY <1>2, MarksSeen
  <2>2. PICK b : b = a + 1
    OBVIOUS
  <2>3. prerequisite_(At(b, Lists(<<>>, <<>>, pre, js, con, <<>>, s))) =
          At(0, Lists(<<>>, <<>>, pre, js, con, <<>>, s))
    BY <2>1, <2>2, PrerequisiteReads
  <2>4. first = At(0, l)
    BY <1>1, <1>2, <2>2, <2>3
  <2> QED BY <2>4, NothingRead
<1>3. CASE ~p
  <2>1. ~Seen(a + 1, Semicolon) /\ first = At(a + 1, l)
    BY <1>1, <1>3, MarksSeen, LiteralNoSign
  <2> QED BY <2>1, TokReads
<1> QED BY <1>2, <1>3

\* The alternative that has the parts which are written reads the default, and keeps
\* what the statics say of those that are not.
LEMMA AlternativeReads ==
  ASSUME InputInv, NEW w, IsWritten(w), NEW a, NEW semicolon, NEW slash, NEW close,
         Marks(w, a, semicolon, slash, close),
         Len(w.argument) = 0 => ~Seen(close + 1, "arg"),
         NEW p, p <=> w.prerequisite # <<>>, NEW j, j <=> w.justifications # <<>>,
         NEW pre, NEW js, NEW con, NEW s
  PROVE  Alternative(At(a, Lists(<<>>, <<>>, pre, js, con, <<>>, s)), p, j) =
           At(a + Len(TextOf(w)),
              Lists(<<>>, <<>>, IF p THEN w.prerequisite ELSE pre,
                    IF j THEN w.justifications ELSE js, w.conclusion, w.argument, s))
<1>1. PICK l : l = Lists(<<>>, <<>>, pre, js, con, <<>>, s)
  OBVIOUS
<1>2. PICK q : q = IF p THEN w.prerequisite ELSE pre
  OBVIOUS
<1>3. PICK i : i = IF j THEN w.justifications ELSE js
  OBVIOUS
<1>4. PICK first : first = IF p THEN prerequisite_(Tok(At(a, l), "[")) ELSE Tok(At(a, l), "[")
  OBVIOUS
<1>5. PICK m, n : /\ m = Lists(<<>>, <<>>, q, js, con, <<>>, s)
                  /\ n = Lists(<<>>, <<>>, q, i, con, <<>>, s)
  OBVIOUS
<1>6. Tok(first, Semicolon) = At(semicolon + 1, m)
  BY <1>1, <1>2, <1>4, <1>5, PrerequisiteFound
<1>7. PICK second : second = IF j THEN justifications_(Tok(first, Semicolon))
                                  ELSE Tok(first, Semicolon)
  OBVIOUS
<1>8. second = At(slash, n)
  <2>1. CASE j
    <3>1. PICK ws \in Justifications \ {<<>>} : ws = w.justifications
      BY <2>1 DEF IsWritten
    <3>2. PICK b : b = semicolon + 1
      OBVIOUS
    <3>3. /\ Stands(Between(Comma, TextsOf(ws)), input, b)
          /\ slash = Behind(b, Between(Comma, TextsOf(ws)))
          /\ EndsConjunction(slash) /\ EndsJustifications(slash)
      BY <3>1, <3>2, MarksSeen DEF Marks
    <3>4. justifications_(At(b, Lists(<<>>, <<>>, q, js, con, <<>>, s))) =
            At(slash, Lists(<<>>, <<>>, q, ws, con, <<>>, s))
      BY <3>3, JustificationsRead
    <3> QED BY <1>3, <1>5, <1>6, <1>7, <2>1, <3>1, <3>2, <3>4
  <2>2. CASE ~j
    <3>1. slash = semicolon + 1 /\ n = m
      BY <1>3, <1>5, <2>2, MarksSeen
    <3> QED BY <1>6, <1>7, <2>2, <3>1
  <2> QED BY <2>1, <2>2
<1>9. Tok(second, "]/[") = At(slash + 1, n)
  BY <1>8, MarksSeen, TokReads
<1>10. conclusion_(At(slash + 1, n)) =
         At(a + Len(TextOf(w)), Lists(<<>>, <<>>, q, i, w.conclusion, w.argument, s))
  BY <1>5, ConclusionReads
<1>11. Alternative(At(a, l), p, j) = conclusion_(Tok(second, "]/["))
  BY <1>4, <1>7, AlternativeSteps
<1> QED BY <1>1, <1>2, <1>3, <1>9, <1>10, <1>11

\* The others do not match; a prerequisite that is written may have been set.
LEMMA AlternativeFails ==
  ASSUME InputInv, NEW w, IsWritten(w), NEW a, NEW semicolon, NEW slash, NEW close,
         Marks(w, a, semicolon, slash, close), NEW p, NEW j,
         ~(p <=> w.prerequisite # <<>>) \/ ~(j <=> w.justifications # <<>>),
         NEW pre, NEW js, NEW con, NEW s
  PROVE  Alternative(At(a, Lists(<<>>, <<>>, pre, js, con, <<>>, s)), p, j) =
           At(0, Lists(<<>>, <<>>, IF p /\ w.prerequisite # <<>> THEN w.prerequisite ELSE pre,
                       js, con, <<>>, s))
<1>1. PICK l : l = Lists(<<>>, <<>>, pre, js, con, <<>>, s)
  OBVIOUS
<1>2. PICK first : first = IF p THEN prerequisite_(Tok(At(a, l), "[")) ELSE Tok(At(a, l), "[")
  OBVIOUS
<1>3. PICK middle : middle = Tok(first, Semicolon)
  OBVIOUS
<1>4. PICK second : second = IF j THEN justifications_(middle) ELSE middle
  OBVIOUS
<1>5. Alternative(At(a, l), p, j) = conclusion_(Tok(second, "]/["))
  BY <1>2, <1>3, <1>4, AlternativeSteps
<1>6. CASE ~(p <=> w.prerequisite # <<>>)
  <2>1. middle = At(0, l)
    BY <1>1, <1>2, <1>3, <1>6, PrerequisiteLacks
  <2>2. second = At(0, l)
    BY <1>1, <1>4, <2>1, NothingRead
  <2>3. conclusion_(Tok(second, "]/[")) = At(0, l)
    BY <1>1, <2>2, NothingRead
  <2>4. PICK q : q = IF p /\ w.prerequisite # <<>> THEN w.prerequisite ELSE pre
    OBVIOUS
  <2>5. ~(p /\ w.prerequisite # <<>>)
    BY <1>6
  <2>6. q = pre
    BY <2>4, <2>5
  <2>7. At(0, l) = At(0, Lists(<<>>, <<>>, q, js, con, <<>>, s))
    BY <1>1, <2>6
  <2> QED BY <1>1, <1>5, <2>3, <2>4, <2>7
<1>7. CASE (p <=> w.prerequisite # <<>>) /\ ~(j <=> w.justifications # <<>>)
  <2>1. PICK q : q = IF p THEN w.prerequisite ELSE pre
    OBVIOUS
  <2>2. PICK m : m = Lists(<<>>, <<>>, q, js, con, <<>>, s)
    OBVIOUS
  <2>3. middle = At(semicolon + 1, m)
    BY <1>1, <1>2, <1>3, <1>7, <2>1, <2>2, PrerequisiteFound
  <2>4. Tok(second, "]/[") = At(0, m)
    <3>1. CASE j
      <4>1. PICK b : b = semicolon + 1 /\ ~Seen(b, "lit")
        BY <1>7, <3>1, MarksSeen
      <4>2. second = At(0, m)
        BY <1>4, <2>2, <2>3, <3>1, <4>1, JustificationsMissing
      <4> QED BY <2>2, <4>2, NothingRead
    <3>2. CASE ~j
      <4>1. PICK b : b = semicolon + 1 /\ ~Seen(b, "]/[")
        BY <1>7, <3>2, MarksSeen, LiteralNoSign
      <4>2. second = At(b, m)
        BY <1>4, <2>3, <3>2, <4>1
      <4> QED BY <4>1, <4>2, TokReads
    <3> QED BY <3>1, <3>2
  <2>5. conclusion_(Tok(second, "]/[")) = At(0, m)
    BY <2>2, <2>4, NothingRead
  <2>6. q = IF p /\ w.prerequisite # <<>> THEN w.prerequisite ELSE pre
    BY <1>7, <2>1
  <2> QED BY <1>1, <1>5, <2>2, <2>5, <2>6
<1> QED BY <1>6, <1>7

-----------------------------------------------------------------------------
(* What the parser makes of an item. *)

\* Where no default begins there is none, and the statics stay as they are.
LEMMA DefaultMissing ==
  ASSUME InputInv, NEW pre, NEW js, NEW con, NEW s, NEW l, NEW a,
         l = Lists(<<>>, <<>>, pre, js, con, <<>>, s),
         NEW S, At(a, l) \in Places(S), ~Seen(a, "[")
  PROVE  default_(At(a, l)) = At(0, l)
<1> DEFINE r == At(a, l)
           X == {At(0, l)}
<1>1. Fails(r) = At(0, l) /\ BackTo(r, At(0, l)) = r /\ At(0, l).at = 0
  BY DEF Fails, At, BackTo
<1>2. Tok(r, "[") = At(0, l)
  BY TokReads
<1>3. ASSUME NEW p, NEW j PROVE Alternative(r, p, j) = At(0, l)
  <2>1. PICK first : first = IF p THEN prerequisite_(Tok(r, "[")) ELSE Tok(r, "[")
    OBVIOUS
  <2>2. PICK middle : middle = Tok(first, Semicolon)
    OBVIOUS
  <2>3. PICK second : second = IF j THEN justifications_(middle) ELSE middle
    OBVIOUS
  <2>4. first = At(0, l)
    BY <1>2, <2>1, NothingRead
  <2>5. middle = At(0, l)
    BY <2>2, <2>4, NothingRead
  <2>6. second = At(0, l)
    BY <2>3, <2>5, NothingRead
  <2>7. conclusion_(Tok(second, "]/[")) = At(0, l)
    BY <2>6, NothingRead
  <2> HIDE DEF r
  <2>8. Alternative(r, p, j) = conclusion_(Tok(second, "]/["))
    BY <2>1, <2>2, <2>3, AlternativeSteps
  <2> QED BY <2>7, <2>8
<1> HIDE DEF r
<1>4. \A q \in X, k \in 1..4 : Alternative(BackTo(r, q), k \in {1, 3}, k \in {1, 2}) \in X
  BY <1>1, <1>3
<1>5. Fails(r) \in X
  BY <1>1
<1> HIDE DEF X
<1>6. PICK f \in [0..4 -> X] : default_(r) = f[4]
  BY <1>4, <1>5, Tries
<1>7. default_(r) \in X
  BY <1>6
<1> QED BY <1>7 DEF X, r

\* A default is read as it is written, with the parts of the one before for those that
\* are left out.
LEMMA DefaultReads ==
  ASSUME InputInv, NEW w, IsWritten(w), NEW a, Stands(TextOf(w), input, a),
         Len(w.argument) = 0 => ~Seen(a + Len(TextOf(w)), "arg"),
         NEW pre, NEW js, NEW con, NEW s, NEW l,
         l = Lists(<<>>, <<>>, pre, js, con, <<>>, s),
         NEW S, At(a, l) \in Places(S)
  PROVE  default_(At(a, l)) =
           At(a + Len(TextOf(w)),
              Lists(<<>>, <<>>, IF w.prerequisite # <<>> THEN w.prerequisite ELSE pre,
                    IF w.justifications # <<>> THEN w.justifications ELSE js,
                    w.conclusion, w.argument, s))
<1> DEFINE r == At(a, l)
           X == Places(S)
           P == w.prerequisite # <<>>
           J == w.justifications # <<>>
           try(q, k) == Alternative(BackTo(r, q), k \in {1, 3}, k \in {1, 2})
           hit == At(a + Len(TextOf(w)),
                     Lists(<<>>, <<>>, IF P THEN w.prerequisite ELSE pre,
                           IF J THEN w.justifications ELSE js, w.conclusion, w.argument, s))
           failed(z) == At(0, Lists(<<>>, <<>>, z, js, con, <<>>, s))
           Failed(q) == \E z : (z = pre \/ P) /\ q = failed(z)
           Fits(k) == (k \in {1, 3} <=> P) /\ (k \in {1, 2} <=> J)
<1>1. PICK semicolon, slash, close : Marks(w, a, semicolon, slash, close)
  BY DefaultStands
<1>2. Len(w.argument) = 0 => ~Seen(close + 1, "arg")
  <2>1. /\ a + Len(TextOf(w)) = close + 1 + Len(w.argument)
        /\ close \in DOMAIN input /\ DOMAIN input = 1..Len(input)
    BY <1>1, InputTokens DEF Marks
  <2>2. ASSUME Len(w.argument) = 0 PROVE a + Len(TextOf(w)) = close + 1
    BY ONLY <2>1, <2>2
  <2> QED BY <2>2
<1>3. Fails(r) = failed(pre)
  BY DEF Fails, At
<1>4. Fails(r) \in X
  <2>1. PICK k \in 0..(Len(input) + 1) : k = 0
    BY InputTokens
  <2> QED BY <2>1, OtherPlace DEF Fails
<1>5. \A q \in X, k \in 1..4 : try(q, k) \in X
  BY BackPlace, AlternativePlace
<1>6. \A z : BackTo(r, failed(z)) = At(a, Lists(<<>>, <<>>, z, js, con, <<>>, s))
             /\ failed(z).at = 0
  BY DEF BackTo, At
<1>7. hit.at # 0
  <2>1. PICK A : w.argument \in Seq(A)
    BY DEF IsWritten
  <2>2. PICK o \in Nat : o = Len(w.argument)
    BY ONLY <2>1
  <2>3. PICK c \in Nat : c = close
    BY <1>1, InputTokens DEF Marks
  <2>4. a + Len(TextOf(w)) = c + 1 + o
    BY <1>1, <2>2, <2>3 DEF Marks
  <2>5. hit.at = a + Len(TextOf(w))
    BY DEF At
  <2> HIDE DEF hit
  <2>6. c + 1 + o # 0
    BY ONLY c \in Nat, o \in Nat
  <2> QED BY ONLY <2>4, <2>5, <2>6
<1>8. ASSUME NEW q, Failed(q), NEW k \in 1..4
      PROVE  /\ q.at = 0
             /\ Fits(k) => try(q, k) = hit
             /\ ~Fits(k) => Failed(try(q, k))
  <2>1. PICK z : (z = pre \/ P) /\ q = failed(z)
    BY <1>8
  <2>2. try(q, k) = Alternative(At(a, Lists(<<>>, <<>>, z, js, con, <<>>, s)),
                                k \in {1, 3}, k \in {1, 2})
    BY <1>6, <2>1
  <2>3. ASSUME Fits(k) PROVE try(q, k) = hit
    <3>1. PICK p, j : p = (k \in {1, 3}) /\ j = (k \in {1, 2})
      OBVIOUS
    <3>2. (p <=> P) /\ (j <=> J)
      BY <2>3, <3>1
    <3>3. Alternative(At(a, Lists(<<>>, <<>>, z, js, con, <<>>, s)), p, j) =
            At(a + Len(TextOf(w)),
               Lists(<<>>, <<>>, IF p THEN w.prerequisite ELSE z,
                     IF j THEN w.justifications ELSE js, w.conclusion, w.argument, s))
      BY <1>1, <1>2, <3>2, AlternativeReads
    <3> QED BY <2>1, <2>2, <3>1, <3>2, <3>3
  <2>4. ASSUME ~Fits(k) PROVE Failed(try(q, k))
    <3>1. PICK p, j : p = (k \in {1, 3}) /\ j = (k \in {1, 2})
      OBVIOUS
    <3>2. ~(p <=> w.prerequisite # <<>>) \/ ~(j <=> w.justifications # <<>>)
      BY <2>4, <3>1
    <3>3. Alternative(At(a, Lists(<<>>, <<>>, z, js, con, <<>>, s)), p, j) =
            At(0, Lists(<<>>, <<>>, IF p /\ w.prerequisite # <<>> THEN w.prerequisite ELSE z,
                        js, con, <<>>, s))
      BY <1>1, <3>2, AlternativeFails
    <3>4. PICK y : y = IF p /\ w.prerequisite # <<>> THEN w.prerequisite ELSE z
      OBVIOUS
    <3> QED BY <2>1, <2>2, <3>1, <3>3, <3>4
  <2> QED BY <1>6, <2>1, <2>3, <2>4
<1>9. PICK f \in [0..4 -> X] :
        /\ f[0] = Fails(r) /\ default_(r) = f[4]
        /\ \A k \in 1..4 : f[k] = IF f[k - 1].at # 0 THEN f[k - 1] ELSE try(f[k - 1], k)
  BY <1>4, <1>5, Tries
<1>10. Failed(f[0])
  BY <1>3, <1>9
<1> HIDE DEF hit, Failed, try, r
<1>11. /\ f[1] = IF f[0].at # 0 THEN f[0] ELSE try(f[0], 1)
       /\ f[2] = IF f[1].at # 0 THEN f[1] ELSE try(f[1], 2)
       /\ f[3] = IF f[2].at # 0 THEN f[2] ELSE try(f[2], 3)
       /\ f[4] = IF f[3].at # 0 THEN f[3] ELSE try(f[3], 4)
  BY <1>9
<1>12. IF Fits(1) THEN f[1] = hit ELSE Failed(f[1])
  BY <1>8, <1>10, <1>11
<1>13. IF Fits(1) \/ Fits(2) THEN f[2] = hit ELSE Failed(f[2])
  BY <1>7, <1>8, <1>11, <1>12
<1>14. IF Fits(1) \/ Fits(2) \/ Fits(3) THEN f[3] = hit ELSE Failed(f[3])
  BY <1>7, <1>8, <1>11, <1>13
<1>15. IF Fits(1) \/ Fits(2) \/ Fits(3) \/ Fits(4) THEN f[4] = hit ELSE Failed(f[4])
  BY <1>7, <1>8, <1>11, <1>14
<1>16. Fits(1) \/ Fits(2) \/ Fits(3) \/ Fits(4)
  OBVIOUS
<1> QED BY <1>9, <1>15, <1>16 DEF hit, r

-----------------------------------------------------------------------------
(* The defaults that are expected. *)

Items == UNION {ToSet(file) : file \in Files}

Written ==
  [prerequisite : Conjunctions, justifications : Justifications, conclusion : Conjunctions,
   argument : Arguments]

\* The parts that the next default inherits.
Kept(acc) ==
  IF acc = <<>> THEN [prerequisite |-> <<>>, justifications |-> <<>>]
  ELSE [prerequisite |-> Last(acc).prerequisite, justifications |-> Last(acc).justifications]

\* What it does not say is theirs.
LEMMA InheritsKept ==
  ASSUME NEW acc \in Seq(Written), NEW w, IsWritten(w)
  PROVE  /\ Inherits(acc, w) \in Written
         /\ Inherits(acc, w) =
              [prerequisite |-> IF w.prerequisite # <<>> THEN w.prerequisite
                                ELSE Kept(acc).prerequisite,
               justifications |-> IF w.justifications # <<>> THEN w.justifications
                                  ELSE Kept(acc).justifications,
               conclusion |-> w.conclusion, argument |-> w.argument]
<1>1. PICK pre, js : pre = Kept(acc).prerequisite /\ js = Kept(acc).justifications
  OBVIOUS
<1>2. acc = <<>> => pre = <<>> /\ js = <<>>
  BY <1>1 DEF Kept
<1>3. acc # <<>> => pre = Last(acc).prerequisite /\ js = Last(acc).justifications
  BY <1>1 DEF Kept
<1>4. pre \in Conjunctions /\ js \in Justifications
  <2>1. <<>> \in Conjunctions /\ <<>> \in Justifications
    BY DEF Conjunctions, Justifications
  <2>2. CASE acc = <<>>
    BY <1>2, <2>1, <2>2
  <2>3. CASE acc # <<>>
    <3>1. Last(acc) \in Written
      BY <2>3 DEF Last
    <3>2. Last(acc).prerequisite \in Conjunctions /\ Last(acc).justifications \in Justifications
      BY <3>1 DEF Written
    <3> QED BY <1>3, <2>3, <3>2
  <2> QED BY <2>2, <2>3
<1>5. Inherits(acc, w) =
        [prerequisite |-> IF w.prerequisite # <<>> THEN w.prerequisite ELSE pre,
         justifications |-> IF w.justifications # <<>> THEN w.justifications ELSE js,
         conclusion |-> w.conclusion, argument |-> w.argument]
  BY <1>2, <1>3 DEF Inherits
<1>6. Inherits(acc, w) \in Written
  <2>1. /\ w.prerequisite \in Conjunctions /\ w.justifications \in Justifications
        /\ w.conclusion \in Conjunctions /\ w.argument \in Arguments
    BY DEF IsWritten, Arguments
  <2> QED BY <1>4, <1>5, <2>1 DEF Written
<1> QED BY <1>1, <1>5, <1>6

\* A default adds itself to what is expected, and nothing else does.
Adds(acc, it) == IF it.kind # "default" THEN acc ELSE Append(acc, Inherits(acc, it.written))

LEMMA AddsWritten ==
  ASSUME NEW acc \in Seq(Written), NEW it \in Items
  PROVE  Adds(acc, it) \in Seq(Written)
<1>1. it.kind = "default" => IsWritten(it.written)
  BY FilesAreWritten DEF Items
<1>2. CASE it.kind # "default"
  BY <1>2 DEF Adds
<1>3. CASE it.kind = "default"
  <2>1. Inherits(acc, it.written) \in Written
    BY <1>1, <1>3, InheritsKept
  <2> QED BY <1>3, <2>1 DEF Adds
<1> QED BY <1>2, <1>3

\* They are added one after the other.
LEMMA ExpectedSteps ==
  ASSUME NEW items \in Seq(Items)
  PROVE  \E f \in [0..Len(items) -> Seq(Written)] :
           /\ f[0] = <<>> /\ f[Len(items)] = Expected(items)
           /\ \A k \in 1..Len(items) : f[k] = Adds(f[k - 1], items[k])
<1> DEFINE n == Len(items)
           X == Seq(Written)
           G == [z \in X \X (1..n) |-> Adds(z[1], items[z[2]])]
           Eq(h) == h = [s \in SUBSET DOMAIN items |->
                           IF s = {} THEN <<>> ELSE Adds(h[s \ {Max(s)}], items[Max(s)])]
           it == CHOOSE h : Eq(h)
<1>1. n \in Nat /\ DOMAIN items = 1..n /\ \A k \in 1..n : items[k] \in Items
  OBVIOUS
<1>2. \A acc \in X, k \in 1..n : Adds(acc, items[k]) \in X
  BY <1>1, AddsWritten
<1>3. /\ G \in [X \X (1..n) -> X]
      /\ \A acc \in X, k \in 1..n : G[<<acc, k>>] = Adds(acc, items[k])
  BY <1>2
<1>4. <<>> \in X
  OBVIOUS
<1> HIDE DEF n, X, G
<1>5. PICK h \in [SUBSET (1..n) -> X] : SetSteps(h, n, <<>>, G)
  BY ONLY <1>1, <1>3, <1>4, SetRecursion
<1>6. \A s \in SUBSET (1..n) : s # {} => Max(s) \in 1..n /\ s \ {Max(s)} \in SUBSET (1..n)
  BY <1>1, MaxOfSet
<1>7. Eq(h)
  BY <1>1, <1>3, <1>5, <1>6 DEF SetSteps
<1>8. Eq(it)
  BY <1>7
<1>9. Expected(items) = it[1..n]
  BY <1>1 DEF Expected, FoldLeft, MapThenFoldSet, Adds
<1> HIDE DEF it
<1>10. /\ it[{}] = <<>>
       /\ \A s \in SUBSET (1..n) : s # {} => it[s] = Adds(it[s \ {Max(s)}], items[Max(s)])
  BY <1>1, <1>8
<1>11. SetStepsWithin(it, n, X, <<>>, G)
  BY <1>3, <1>6, <1>10 DEF SetStepsWithin
<1>12. PICK f \in [0..n -> X] : f[n] = it[1..n] /\ Steps(f, n, <<>>, G)
  BY ONLY <1>1, <1>3, <1>4, <1>11, FoldSteps
<1>13. \A k \in 1..n : f[k] = Adds(f[k - 1], items[k])
  <2>1. \A k \in 1..n : f[k - 1] \in X
    BY <1>1, <1>12
  <2> QED BY <1>3, <1>12, <2>1 DEF Steps
<1> QED BY <1>9, <1>12, <1>13 DEF n, X, Steps

\* Of no items there are none.
LEMMA ExpectedType ==
  ASSUME NEW items \in Seq(Items)
  PROVE  Expected(items) \in Seq(Written) /\ Expected(<<>>) = <<>>
<1>1. ASSUME NEW s \in Seq(Items)
      PROVE  Expected(s) \in Seq(Written) /\ (s = <<>> => Expected(s) = <<>>)
  <2>1. PICK f \in [0..Len(s) -> Seq(Written)] :
          /\ f[0] = <<>> /\ f[Len(s)] = Expected(s)
          /\ \A k \in 1..Len(s) : f[k] = Adds(f[k - 1], s[k])
    BY ExpectedSteps
  <2>2. Len(s) \in 0..Len(s) /\ (s = <<>> => Len(s) = 0)
    OBVIOUS
  <2> QED BY <2>1, <2>2
<1>2. PICK e \in Seq(Items) : e = <<>>
  <2>1. <<>> \in Seq(Items)
    OBVIOUS
  <2> QED BY <2>1
<1> QED BY <1>1, <1>2

\* One more item, one more step.
LEMMA ExpectedAppend ==
  ASSUME NEW items \in Seq(Items), NEW it \in Items
  PROVE  Expected(Append(items, it)) = Adds(Expected(items), it)
<1> DEFINE n == Len(items)
           more == Append(items, it)
<1>1. /\ n \in Nat /\ more \in Seq(Items) /\ Len(more) = n + 1 /\ more[n + 1] = it
      /\ \A k \in 1..n : more[k] = items[k]
  OBVIOUS
<1>2. PICK f \in [0..n -> Seq(Written)] :
        /\ f[0] = <<>> /\ f[n] = Expected(items)
        /\ \A k \in 1..n : f[k] = Adds(f[k - 1], items[k])
  BY ExpectedSteps
<1> HIDE DEF more
<1>3. PICK g \in [0..(n + 1) -> Seq(Written)] :
        /\ g[0] = <<>> /\ g[n + 1] = Expected(more)
        /\ \A k \in 1..(n + 1) : g[k] = Adds(g[k - 1], more[k])
  <2>1. PICK g \in [0..Len(more) -> Seq(Written)] :
          /\ g[0] = <<>> /\ g[Len(more)] = Expected(more)
          /\ \A k \in 1..Len(more) : g[k] = Adds(g[k - 1], more[k])
    BY <1>1, ExpectedSteps
  <2> QED BY <1>1, <2>1
<1> DEFINE S == {k \in 0..n : g[k] = f[k]}
<1>4. 0 \in S
  BY <1>1, <1>2, <1>3
<1>5. ASSUME NEW k \in 0..(n - 1), k \in S PROVE k + 1 \in S
  <2>1. k + 1 \in 1..n /\ k + 1 \in 1..(n + 1) /\ k + 1 \in 0..n /\ (k + 1) - 1 = k
    BY <1>1
  <2>2. f[k + 1] = Adds(f[k], items[k + 1]) /\ g[k + 1] = Adds(g[k], more[k + 1])
    BY <1>2, <1>3, <2>1
  <2>3. more[k + 1] = items[k + 1] /\ g[k] = f[k]
    BY <1>1, <1>5, <2>1
  <2> QED BY <2>1, <2>2, <2>3
<1> HIDE DEF S
<1>6. 0..n \subseteq S
  BY ONLY <1>1, <1>4, <1>5, IntervalSet
<1>7. n \in 0..n /\ n + 1 \in 1..(n + 1) /\ (n + 1) - 1 = n
  BY <1>1
<1>8. g[n] = f[n]
  <2>1. n \in S
    BY ONLY <1>6, <1>7
  <2> QED BY <2>1 DEF S
<1>9. g[n + 1] = Adds(g[n], it)
  BY <1>1, <1>3, <1>7
<1> QED BY <1>2, <1>3, <1>8, <1>9 DEF more

\* What was there stays in its place.
LEMMA AddsPrefix ==
  ASSUME NEW has \in Seq(Written), NEW acc \in Seq(Written), IsPrefix(has, acc), NEW it \in Items
  PROVE  IsPrefix(has, Adds(acc, it))
<1>1. Adds(acc, it) = acc \/ \E d : Adds(acc, it) = Append(acc, d)
  BY DEF Adds
<1>2. Adds(acc, it) \in Seq(Written)
  BY AddsWritten
<1>3. ASSUME NEW d, Adds(acc, it) = Append(acc, d) PROVE IsPrefix(has, Adds(acc, it))
  <2>1. PICK more : more = Adds(acc, it)
    OBVIOUS
  <2>2. PICK m, n : m = Len(has) /\ n = Len(acc)
    OBVIOUS
  <2>3. m \in Nat /\ n \in Nat /\ m <= n /\ SubSeq(has, 1, m) = SubSeq(acc, 1, m)
    BY <2>2 DEF IsPrefix
  <2>4. more \in Seq(Written) /\ Len(more) = n + 1 /\ \A k \in 1..n : more[k] = acc[k]
    BY <1>2, <1>3, <2>1, <2>2
  <2>5. SubSeq(acc, 1, m) = [k \in 1..m |-> acc[k]]
    BY <2>2, <2>3
  <2>6. SubSeq(more, 1, m) = [k \in 1..m |-> more[k]]
    BY <2>3, <2>4
  <2>7. \A k \in 1..m : more[k] = acc[k]
    BY <2>3, <2>4
  <2>8. SubSeq(more, 1, m) = SubSeq(acc, 1, m)
    BY <2>5, <2>6, <2>7
  <2>9. m <= n + 1
    BY <2>3
  <2> QED BY <2>1, <2>2, <2>3, <2>4, <2>8, <2>9 DEF IsPrefix
<1> QED BY <1>1, <1>3

LEMMA ExpectedPrefix ==
  ASSUME NEW earlier \in Seq(Items), NEW file \in Seq(Items), NEW m \in 0..Len(file)
  PROVE  IsPrefix(Expected(earlier \o SubSeq(file, 1, m)), Expected(earlier \o file))
<1> DEFINE n == Len(file)
           part(i) == earlier \o SubSeq(file, 1, i)
           has == Expected(part(m))
           S == {i \in 0..n : i >= m => IsPrefix(has, Expected(part(i)))}
<1>1. n \in Nat /\ m \in Nat /\ m <= n /\ \A i \in 1..n : file[i] \in Items
  OBVIOUS
<1>2. /\ SubSeq(file, 1, n) = file
      /\ \A i \in 0..n : SubSeq(file, 1, i) \in Seq(Items)
      /\ \A i \in 0..(n - 1) : SubSeq(file, 1, i + 1) = Append(SubSeq(file, 1, i), file[i + 1])
  BY PrefixSteps
<1>3. \A i \in 0..n : part(i) \in Seq(Items)
  BY <1>2
<1>4. ASSUME NEW i \in 0..(n - 1)
      PROVE  Expected(part(i + 1)) = Adds(Expected(part(i)), file[i + 1])
  <2>1. i \in 0..n /\ i + 1 \in 1..n
    BY <1>1
  <2>2. PICK s \in Seq(Items), it \in Items : s = SubSeq(file, 1, i) /\ it = file[i + 1]
    BY <1>1, <1>2, <2>1
  <2>3. earlier \o Append(s, it) = Append(earlier \o s, it)
    OBVIOUS
  <2>4. part(i + 1) = Append(part(i), it)
    BY <1>2, <2>2, <2>3
  <2> QED BY <1>3, <2>1, <2>2, <2>4, ExpectedAppend
<1> HIDE DEF part, n
<1>5. \A i \in 0..n : Expected(part(i)) \in Seq(Written)
  BY <1>3, ExpectedType
<1>6. IsPrefix(has, has)
  <2>1. has \in Seq(Written)
    BY <1>1, <1>5 DEF n
  <2> HIDE DEF has
  <2> QED BY <2>1 DEF IsPrefix
<1>7. 0 \in S
  <2>1. 0 \in 0..n /\ (0 >= m => m = 0)
    BY <1>1
  <2> QED BY <1>6, <2>1
<1>8. ASSUME NEW i \in 0..(n - 1), i \in S PROVE i + 1 \in S
  <2>1. i \in 0..n /\ i + 1 \in 0..n /\ i + 1 \in 1..n
    BY <1>1
  <2>2. CASE i >= m
    <3>1. IsPrefix(has, Expected(part(i)))
      BY <1>8, <2>2
    <3>2. IsPrefix(has, Adds(Expected(part(i)), file[i + 1]))
      <4>1. has \in Seq(Written) /\ Expected(part(i)) \in Seq(Written) /\ file[i + 1] \in Items
        BY <1>1, <1>5, <2>1 DEF n
      <4> HIDE DEF has
      <4> QED BY <3>1, <4>1, AddsPrefix
    <3> QED BY <1>4, <2>1, <3>2
  <2>3. CASE ~(i >= m)
    <3>1. i + 1 >= m => i + 1 = m
      BY <1>1, <2>3
    <3> QED BY <1>6, <2>1, <3>1
  <2> QED BY <2>2, <2>3
<1> HIDE DEF S
<1>9. 0..n \subseteq S
  BY ONLY <1>1, <1>7, <1>8, IntervalSet
<1>10. n \in S /\ n >= m
  BY <1>1, <1>9
<1> QED BY <1>2, <1>10 DEF S, part, n

-----------------------------------------------------------------------------
(* The items of a file. *)

IsPlain(it) == it.kind \in {"default", "text"}

\* The first of a default is its bracket, and a full rule ends with its only full stop.
LEMMA ItemStands ==
  ASSUME InputInv, NEW it \in Items, IsPlain(it), NEW a, Stands(it.tokens, input, a)
  PROVE  /\ a \in DOMAIN input /\ a \in Nat \ {0}
         /\ Seen(a, "[") \/ Seen(a, "text") \/ Seen(a, ".")
         /\ it.kind = "default" => Seen(a, "[")
         /\ it.kind = "text" =>
              /\ ~Seen(a, "[")
              /\ \E d \in Dots(a) : d + 1 = a + Len(it.tokens) /\ \A j \in Dots(a) : d <= j
<1>1. CASE it.kind = "default"
  <2>1. IsWritten(it.written) /\ it.tokens = TextOf(it.written)
    BY <1>1, FilesAreWritten DEF Items
  <2>2. PICK semicolon, slash, close : Marks(it.written, a, semicolon, slash, close)
    BY <2>1, DefaultStands
  <2>3. a \in Nat \ {0} /\ Seen(a, "[")
    BY <2>1, <2>2, MarksSeen
  <2> QED BY <1>1, <2>3 DEF Seen
<1>2. CASE it.kind = "text"
  <2>1. PICK s : s = it.tokens
    OBVIOUS
  <2>2. s \in Seq(ToSet(s)) /\ IsText(s)
    BY <1>2, <2>1, FilesAreTokens, FilesAreWritten DEF Items
  <2>3. PICK n \in Nat : n = Len(s) /\ n # 0 /\ s[n].t = "."
    BY <2>2 DEF IsText, Last
  <2>4. \A m \in 1..(n - 1) : s[m].t = "text"
    BY <2>2, <2>3 DEF IsText
  <2>5. /\ a \in Nat \ {0} /\ a + n <= Len(input) + 1
        /\ \A m \in 1..n : input[a + m - 1] = s[m]
    BY <2>1, <2>3 DEF Stands
  <2>6. PICK e \in Nat : e = Len(input) /\ DOMAIN input = 1..e
    BY InputTokens
  <2>7. PICK d \in Nat : d + 1 = a + n
    <3>1. a + n - 1 \in Nat /\ (a + n - 1) + 1 = a + n
      BY <2>3, <2>5
    <3> QED BY <3>1
  <2>8. d \in a..e /\ a \in 1..e
    BY <2>3, <2>5, <2>6, <2>7
  <2>9. input[d] = s[n]
    <3>1. a + n - 1 = d /\ n \in 1..n
      BY <2>3, <2>5, <2>7
    <3> QED BY <2>5, <3>1
  <2>10. d \in Dots(a)
    BY <2>3, <2>6, <2>8, <2>9 DEF Dots
  <2>11. ASSUME NEW j \in Dots(a) PROVE d <= j
    <3>1. j \in a..e /\ input[j].t = "."
      BY <2>6 DEF Dots
    <3>2. SUFFICES ASSUME j < d PROVE FALSE
      BY <2>5, <3>1
    <3>3. PICK m \in 1..(n - 1) : j = a + m - 1
      <4>1. j - a + 1 \in 1..(n - 1) /\ j = a + (j - a + 1) - 1
        BY <2>3, <2>5, <2>7, <3>1, <3>2
      <4> QED BY <4>1
    <3>4. m \in 1..n
      BY <2>3
    <3>5. input[j] = s[m]
      BY <2>5, <3>3, <3>4
    <3> QED BY <2>4, <3>1, <3>3, <3>5
  <2>12. input[a].t \in {"text", "."}
    <3>1. 1 \in 1..n /\ a + 1 - 1 = a
      BY <2>3, <2>5
    <3>2. input[a] = s[1]
      BY <2>5, <3>1
    <3>3. 1 = n \/ 1 \in 1..(n - 1)
      BY <2>3
    <3> QED BY <2>3, <2>4, <3>2, <3>3
  <2>13. Seen(a, "text") \/ Seen(a, ".")
    BY <2>6, <2>8, <2>12 DEF Seen
  <2>14. ~Seen(a, "[")
    BY <2>12 DEF Seen
  <2> QED BY <1>2, <2>1, <2>3, <2>5, <2>6, <2>7, <2>8, <2>10, <2>11, <2>13, <2>14
<1> QED BY <1>1, <1>2 DEF IsPlain

\* The tokens of its items make up a file.
TokensOf(file) == [i \in DOMAIN file |-> file[i].tokens]

LEMMA FileTokens ==
  ASSUME NEW file \in Files
  PROVE  /\ file \in Seq(Items) /\ DOMAIN file = 1..Len(file) /\ Len(file) \in Nat
         /\ Len(TokensOf(file)) = Len(file) /\ Tokens(file) = FlattenSeq(TokensOf(file))
         /\ \A i \in 1..Len(file) : file[i] \in Items /\ TokensOf(file)[i] = file[i].tokens
         /\ \E pos : Layout(pos, TokensOf(file), Tokens(file), 1)
<1> DEFINE T == UNION {ToSet(it.tokens) : it \in Items}
           p == TokensOf(file)
<1>1. file \in Seq(Items)
  <2>1. file \in Seq(ToSet(file)) /\ ToSet(file) \subseteq Items
    BY FilesAreTokens DEF Items
  <2> QED BY <2>1
<1>2. PICK n \in Nat : n = Len(file) /\ DOMAIN file = 1..n /\ \A i \in 1..n : file[i] \in Items
  BY <1>1
<1>3. \A it \in Items : it.tokens \in Seq(T)
  <2>1. \A it \in Items : it.tokens \in Seq(ToSet(it.tokens))
    BY FilesAreTokens DEF Items
  <2> SUFFICES ASSUME NEW it \in Items PROVE it.tokens \in Seq(T)
    OBVIOUS
  <2>2. PICK s, A : s = it.tokens /\ A = ToSet(s)
    OBVIOUS
  <2>3. s \in Seq(A) /\ A \subseteq T
    BY <2>1, <2>2
  <2> HIDE DEF T
  <2> QED BY <2>2, <2>3
<1> HIDE DEF T
<1>4. \A i \in 1..n : p[i] = file[i].tokens /\ p[i] \in Seq(T)
  BY <1>2, <1>3 DEF TokensOf
<1>5. p = [i \in 1..n |-> p[i]]
  BY <1>2 DEF TokensOf
<1>6. Tokens(file) = FlattenSeq(p)
  BY DEF Tokens, TokensOf
<1> HIDE DEF p
<1>7. p \in [1..n -> Seq(T)]
  BY ONLY <1>4, <1>5
<1>8. p \in Seq(Seq(T)) /\ Len(p) = n
  BY ONLY <1>7, n \in Nat, FromFunction
<1>9. PICK big : big = FlattenSeq(p)
  OBVIOUS
<1>10. big \in Seq(T)
  <2>1. <<>> \in Seq(T)
    OBVIOUS
  <2> QED BY <1>8, <1>9, <2>1, FlattenAppend
<1>11. Stands(big, big, 1)
  <2>1. Len(big) \in Nat /\ \A m \in 1..Len(big) : 1 + m - 1 = m
    BY <1>10
  <2>2. 1 + Len(big) <= Len(big) + 1
    BY <2>1
  <2> QED BY <2>1, <2>2 DEF Stands
<1>12. \E pos : Layout(pos, p, big, 1)
  BY <1>8, <1>9, <1>10, <1>11, StandsJoined
<1> QED BY <1>1, <1>2, <1>4, <1>6, <1>8, <1>9, <1>12 DEF p

-----------------------------------------------------------------------------
(* The invariant of the parser. *)

\* The defaults that the converter has, without their numbers.
Has == [i \in DOMAIN statics.defaults |-> Parts(statics.defaults[i])]

\* Everything that was read is a default or a full rule, and was parsed.
PlainFiles ==
  converter.dftrans # 0 /\ \A i \in DOMAIN ItemsRead : IsPlain(ItemsRead[i])

\* Nothing waits in the lists, and the next default inherits from the last one.
Inheriting ==
  statics = Lists(<<>>, <<>>, Kept(Has).prerequisite, Kept(Has).justifications,
                  statics.conclusion, <<>>, statics)

\* The parser is where the k-th item of a file begins, or at its end.
InFile(earlier, file, pos, k) ==
  /\ earlier \in Seq(Files) /\ file \in Files /\ read = Append(earlier, file)
  /\ input = Tokens(file) /\ Layout(pos, TokensOf(file), input, 1)
  /\ k \in 1..(Len(file) + 1) /\ at = pos[k]
  /\ Has = Expected(FlattenSeq(earlier) \o SubSeq(file, 1, k - 1))

ParserInv ==
  /\ read \in Seq(Files)
  /\ PlainFiles =>
       /\ Inheriting
       /\ phase = "parse" => \E earlier, file, pos, k : InFile(earlier, file, pos, k)
       /\ phase # "parse" => Has = Expected(ItemsRead)

\* The items of all files.
LEMMA ItemsOfFiles ==
  ASSUME NEW earlier \in Seq(Files), NEW file \in Files
  PROVE  /\ FlattenSeq(earlier) \in Seq(Items) /\ file \in Seq(Items)
         /\ FlattenSeq(Append(earlier, file)) = FlattenSeq(earlier) \o file
         /\ FlattenSeq(earlier) \o file \in Seq(Items)
<1>1. \A f \in Files : f \in Seq(Items)
  BY FileTokens
<1>2. PICK S : S = Seq(Items)
  OBVIOUS
<1>3. Files \subseteq S
  BY <1>1, <1>2
<1>4. earlier \in Seq(S)
  BY <1>3
<1>5. file \in Seq(Items) /\ earlier \in Seq(Seq(Items))
  BY <1>1, <1>2, <1>4
<1>6. /\ FlattenSeq(earlier) \in Seq(Items)
      /\ FlattenSeq(Append(earlier, file)) = FlattenSeq(earlier) \o file
  BY <1>5, FlattenAppend
<1> QED BY <1>5, <1>6

\* What is known of the place of the parser in a file.
LEMMA PlaceInFile ==
  ASSUME InputInv, PlainFiles, NEW earlier, NEW file, NEW pos, NEW k,
         InFile(earlier, file, pos, k)
  PROVE  /\ k = Len(file) + 1 => at = Len(input) + 1
         /\ k # Len(file) + 1 =>
              /\ file[k] \in Items /\ IsPlain(file[k])
              /\ Stands(file[k].tokens, input, at)
              /\ pos[k + 1] = at + Len(file[k].tokens) /\ k + 1 \in 1..(Len(file) + 1)
              /\ ~Seen(pos[k + 1], "arg")
<1>1. PICK n \in Nat : n = Len(file) /\ \A i \in 1..n : file[i] \in Items
  BY FileTokens DEF InFile
<1>2. /\ Len(TokensOf(file)) = n /\ input = FlattenSeq(TokensOf(file))
      /\ \A i \in 1..n : TokensOf(file)[i] = file[i].tokens
  BY <1>1, FileTokens DEF InFile
<1>3. /\ pos[n + 1] = 1 + Len(input)
      /\ \A i \in 1..n : pos[i + 1] = pos[i] + Len(file[i].tokens)
                         /\ Stands(file[i].tokens, input, pos[i])
  BY <1>2 DEF InFile, Layout
<1>4. \A i \in 1..n : IsPlain(file[i])
  <2>1. PICK before : before = FlattenSeq(earlier)
    OBVIOUS
  <2>2. before \in Seq(Items) /\ file \in Seq(Items) /\ ItemsRead = before \o file
    BY <2>1, ItemsOfFiles DEF InFile, ItemsRead
  <2>3. PICK m \in Nat : m = Len(before)
    BY <2>2
  <2>4. ASSUME NEW i \in 1..n PROVE m + i \in DOMAIN ItemsRead /\ ItemsRead[m + i] = file[i]
    BY <1>1, <2>2, <2>3
  <2> QED BY <2>4 DEF PlainFiles
<1>5. Len(input) \in Nat /\ DOMAIN input = 1..Len(input)
  BY InputTokens
<1>6. k \in 1..(n + 1) /\ at = pos[k]
  BY <1>1 DEF InFile
<1>7. k = n + 1 => at = Len(input) + 1
  BY <1>3, <1>5, <1>6
<1>8. ASSUME k # n + 1
      PROVE  /\ file[k] \in Items /\ IsPlain(file[k]) /\ Stands(file[k].tokens, input, at)
             /\ pos[k + 1] = at + Len(file[k].tokens) /\ k + 1 \in 1..(n + 1)
             /\ ~Seen(pos[k + 1], "arg")
  <2>1. k \in 1..n /\ k + 1 \in 1..(n + 1)
    BY <1>6, <1>8
  <2>2. ~Seen(pos[k + 1], "arg")
    <3>1. PICK b : b = pos[k + 1]
      OBVIOUS
    <3>2. CASE k + 1 = n + 1
      <4>1. b \notin DOMAIN input
        BY <1>3, <1>5, <3>1, <3>2
      <4> QED BY <3>1, <4>1 DEF Seen
    <3>3. CASE k + 1 # n + 1
      <4>1. k + 1 \in 1..n
        BY <2>1, <3>3
      <4>2. PICK it \in Items : it = file[k + 1] /\ IsPlain(it) /\ Stands(it.tokens, input, b)
        BY <1>1, <1>3, <1>4, <3>1, <4>1
      <4>3. Seen(b, "[") \/ Seen(b, "text") \/ Seen(b, ".")
        BY <4>2, ItemStands
      <4> QED BY <3>1, <4>3 DEF Seen
    <3> QED BY <3>2, <3>3
  <2> QED BY <1>1, <1>3, <1>4, <1>6, <2>1, <2>2
<1> QED BY <1>1, <1>7, <1>8

\* The next item is among the items that are expected.
LEMMA NextInFile ==
  ASSUME NEW earlier \in Seq(Files), NEW file \in Files, NEW k \in 1..Len(file)
  PROVE  /\ Expected(FlattenSeq(earlier) \o SubSeq(file, 1, k - 1)) \in Seq(Written)
         /\ Expected(FlattenSeq(earlier) \o SubSeq(file, 1, (k + 1) - 1)) =
              Adds(Expected(FlattenSeq(earlier) \o SubSeq(file, 1, k - 1)), file[k])
<1>1. PICK before \in Seq(Items) : before = FlattenSeq(earlier)
  BY ItemsOfFiles
<1>2. PICK n \in Nat : n = Len(file) /\ file \in Seq(Items) /\ \A i \in 1..n : file[i] \in Items
  BY FileTokens
<1>3. PICK j \in 0..(n - 1) : j = k - 1 /\ k = j + 1 /\ (k + 1) - 1 = j + 1
  BY <1>2
<1>4. PICK s \in Seq(Items) : s = SubSeq(file, 1, j)
  <2>1. j \in 0..Len(file)
    BY <1>2, <1>3
  <2>2. SubSeq(file, 1, j) \in Seq(Items)
    BY <1>2, <2>1, PrefixSteps
  <2> QED BY <2>2
<1>5. PICK it \in Items : it = file[k]
  BY <1>2
<1>6. SubSeq(file, 1, j + 1) = Append(s, it)
  BY <1>2, <1>3, <1>4, <1>5, PrefixSteps
<1>7. before \o Append(s, it) = Append(before \o s, it) /\ before \o s \in Seq(Items)
  OBVIOUS
<1>8. /\ Expected(before \o s) \in Seq(Written)
      /\ Expected(before \o Append(s, it)) = Adds(Expected(before \o s), it)
  BY <1>7, ExpectedAppend, ExpectedType
<1>9. SubSeq(file, 1, k - 1) = s /\ SubSeq(file, 1, (k + 1) - 1) = Append(s, it)
  BY <1>3, <1>4, <1>6
<1> QED BY <1>1, <1>5, <1>8, <1>9

-----------------------------------------------------------------------------
(* The steps of the parser. *)

\* What push_default and push_others make of the statics.
LEMMA PushSteps ==
  ASSUME NEW pre, NEW js, NEW con, NEW arg, NEW s
  PROVE  /\ \A t : t = push_default(Lists(<<>>, <<>>, pre, js, con, arg, s)) =>
              /\ t = Lists(<<>>, <<>>, pre, js, con, <<>>, t)
              /\ t.defaults =
                   Append(s.defaults, Default(pre, js, con, arg, Len(s.defaults) + 1))
         /\ \A t, tokens : t = push_others(Lists(<<>>, <<>>, pre, js, con, arg, s), tokens) =>
              t = Lists(<<>>, <<>>, pre, js, con, arg, t) /\ t.defaults = s.defaults
<1>1. PICK l : l = Lists(<<>>, <<>>, pre, js, con, arg, s)
  OBVIOUS
<1>2. l.defaults = s.defaults /\ l.prerequisite = pre /\ l.justifications = js
      /\ l.conclusion = con /\ l.argument = arg
  BY <1>1 DEF Lists
<1>3. ASSUME NEW t, t = push_default(l)
      PROVE  /\ t = Lists(<<>>, <<>>, pre, js, con, <<>>, t)
             /\ t.defaults = Append(s.defaults, Default(pre, js, con, arg, Len(s.defaults) + 1))
  <2>1. PICK more : more = Append(s.defaults, Default(pre, js, con, arg, Len(s.defaults) + 1))
    OBVIOUS
  <2>2. PICK u : u = [l EXCEPT !.argument = <<>>]
    OBVIOUS
  <2>3. u = Lists(<<>>, <<>>, pre, js, con, <<>>, s)
    BY <1>1, <2>2 DEF Lists
  <2>4. t = [u EXCEPT !.defaults = more]
    BY <1>2, <1>3, <2>1, <2>2 DEF push_default
  <2> QED BY <2>1, <2>3, <2>4 DEF Lists
<1>4. ASSUME NEW t, NEW tokens, t = push_others(l, tokens)
      PROVE  t = Lists(<<>>, <<>>, pre, js, con, arg, t) /\ t.defaults = s.defaults
  <2>1. PICK more : more = l.others \o tokens
    OBVIOUS
  <2>2. t = [l EXCEPT !.others = more]
    BY <1>4, <2>1 DEF push_others
  <2> QED BY <1>1, <2>2 DEF Lists
<1> QED BY <1>1, <1>3, <1>4

\* The defaults there are when one is pushed.
LEMMA HasPush ==
  ASSUME StaticsInv, NEW pre, NEW js, NEW con, NEW arg, NEW id,
         statics'.defaults = Append(statics.defaults, Default(pre, js, con, arg, id)),
         NEW d, d = [prerequisite |-> pre, justifications |-> js, conclusion |-> con,
                     argument |-> arg]
  PROVE  /\ Has' = Append(Has, d) /\ Has' # <<>>
         /\ Kept(Has') = [prerequisite |-> pre, justifications |-> js]
<1>1. PICK ds : ds = statics.defaults
  OBVIOUS
<1>2. PICK new : new = Default(pre, js, con, arg, id)
  OBVIOUS
<1>3. Parts(new) = d
  BY <1>2 DEF Parts, Default
<1>4. PICK n \in Nat : n = Len(ds) /\ DOMAIN ds = 1..n
  BY <1>1 DEF StaticsInv
<1>5. PICK more : /\ more = statics'.defaults /\ DOMAIN more = 1..(n + 1) /\ more[n + 1] = new
                  /\ \A i \in 1..n : more[i] = ds[i]
  <2>1. PICK A : ds \in Seq(A)
    BY <1>1 DEF StaticsInv
  <2>2. PICK B : B = A \cup {new}
    OBVIOUS
  <2>3. ds \in Seq(B) /\ new \in B
    BY <2>1, <2>2
  <2>4. PICK m : m = Append(ds, new)
    OBVIOUS
  <2>5. /\ DOMAIN m = 1..(Len(ds) + 1) /\ m[Len(ds) + 1] = new
        /\ \A i \in 1..Len(ds) : m[i] = ds[i]
    BY ONLY <2>3, <2>4
  <2> QED BY <1>1, <1>2, <1>4, <2>4, <2>5
<1>6. PICK h : h = Has /\ h = [i \in 1..n |-> Parts(ds[i])]
  BY <1>1, <1>4 DEF Has
<1>7. PICK g : g = Has' /\ g = [i \in 1..(n + 1) |-> Parts(more[i])]
  BY <1>5 DEF Has
<1>8. PICK U : \A i \in 1..(n + 1) : Parts(more[i]) \in U
  <2>1. \A i \in 1..(n + 1) : Parts(more[i]) \in {Parts(more[j]) : j \in 1..(n + 1)}
    OBVIOUS
  <2> QED BY <2>1
<1>9. g \in Seq(U) /\ Len(g) = n + 1 /\ g[n + 1] = d /\ \A i \in 1..n : g[i] = h[i]
  <2>1. \A i \in 1..(n + 1) : g[i] = Parts(more[i]) /\ g[i] \in U
    BY <1>7, <1>8
  <2>2. g \in [1..(n + 1) -> U] /\ n + 1 \in Nat
    BY <1>7, <1>8
  <2>3. g \in Seq(U) /\ Len(g) = n + 1
    BY ONLY <2>2, FromFunction
  <2>4. \A i \in 1..n : i \in 1..(n + 1) /\ h[i] = Parts(more[i])
    BY <1>5, <1>6
  <2> QED BY <1>3, <1>5, <2>1, <2>3, <2>4
<1>10. h \in Seq(U) /\ Len(h) = n /\ d \in U
  <2>1. \A i \in 1..n : h[i] \in U
    BY <1>6, <1>9
  <2>2. h \in [1..n -> U]
    BY <1>6, <2>1
  <2>3. h \in Seq(U) /\ Len(h) = n
    BY ONLY <2>2, n \in Nat, FromFunction
  <2>4. n + 1 \in 1..(n + 1)
    OBVIOUS
  <2> QED BY <1>9, <2>3, <2>4
<1>11. g = Append(h, d)
  <2>1. PICK a : a = Append(h, d)
    OBVIOUS
  <2>2. /\ a \in Seq(U) /\ Len(a) = n + 1 /\ a[n + 1] = d /\ \A i \in 1..n : a[i] = h[i]
    BY <1>10, <2>1
  <2>3. \A i \in 1..(n + 1) : i = n + 1 \/ i \in 1..n
    OBVIOUS
  <2>4. \A i \in 1..(n + 1) : a[i] = g[i]
    BY <1>9, <2>2, <2>3
  <2>5. a = g
    BY ONLY <1>9, <2>2, <2>4
  <2> QED BY <2>1, <2>5
<1>12. g # <<>> /\ Last(g) = d
  <2>1. Len(g) # 0
    BY <1>9
  <2> QED BY <1>9, <2>1 DEF Last
<1>13. Kept(g) = [prerequisite |-> pre, justifications |-> js]
  BY <1>12 DEF Kept
<1> QED BY <1>6, <1>7, <1>11, <1>12, <1>13

\* Where the parser is, as the lemmas about the grammar say it.
LEMMA HereAt ==
  ASSUME StaticsInv, PlaceInv, Inheriting
  PROVE  /\ InputInv /\ Here = At(at, statics) /\ At(at, statics) \in Places(statics)
         /\ statics.defaults = <<>> => Has = <<>>
<1>1. InputInv /\ at \in 0..(Len(input) + 1)
  BY InputTokens DEF PlaceInv
<1>2. At(at, statics) \in Places(statics)
  BY <1>1 DEF At, Places, StaticsInv
<1> QED BY <1>1, <1>2 DEF Here, At, Has

\* A default is read: the defaults are those expected up to the next item.
LEMMA DefaultStep ==
  ASSUME StaticsInv, PlaceInv, PlainFiles, Inheriting,
         NEW earlier, NEW file, NEW pos, NEW k, InFile(earlier, file, pos, k), ReadDefault
  PROVE  Inheriting' /\ InFile(earlier, file, pos, k + 1)'
<1>1. PICK pre, js, con, arg : /\ pre = Kept(Has).prerequisite /\ js = Kept(Has).justifications
                               /\ con = statics.conclusion /\ arg = <<>>
  OBVIOUS
<1>2. PICK l : l = statics /\ l = Lists(<<>>, <<>>, pre, js, con, <<>>, l)
  BY <1>1 DEF Inheriting
<1>3. InputInv /\ Here = At(at, l) /\ At(at, l) \in Places(l)
  BY <1>2, HereAt
<1>4. at \in DOMAIN input /\ DOMAIN input = 1..Len(input) /\ Len(input) \in Nat
  BY <1>3, InputTokens DEF ReadDefault, InSecondStar, Parsing
<1>5. k # Len(file) + 1
  BY <1>3, <1>4, PlaceInFile
<1>6. PICK it \in Items : /\ it = file[k] /\ IsPlain(it) /\ Stands(it.tokens, input, at)
                          /\ pos[k + 1] = at + Len(it.tokens) /\ k + 1 \in 1..(Len(file) + 1)
                          /\ ~Seen(pos[k + 1], "arg")
  BY <1>3, <1>5, PlaceInFile
<1>7. it.kind = "default"
  <2>1. CASE it.kind = "text"
    <3>1. ~Seen(at, "[")
      BY <1>3, <1>6, <2>1, ItemStands
    <3>2. default_(Here) = At(0, l)
      BY <1>2, <1>3, <3>1, DefaultMissing
    <3> QED BY <3>2 DEF ReadDefault, At
  <2> QED BY <1>6, <2>1 DEF IsPlain
<1>8. PICK w : w = it.written /\ IsWritten(w) /\ it.tokens = TextOf(w)
  BY <1>7, FilesAreWritten DEF Items
<1>9. PICK p, j, c, a : /\ p = IF w.prerequisite # <<>> THEN w.prerequisite ELSE pre
                        /\ j = IF w.justifications # <<>> THEN w.justifications ELSE js
                        /\ c = w.conclusion /\ a = w.argument
  OBVIOUS
<1>10. default_(Here) = At(at + Len(TextOf(w)), Lists(<<>>, <<>>, p, j, c, a, l))
  <2>1. Stands(TextOf(w), input, at) /\ ~Seen(at + Len(TextOf(w)), "arg")
    BY <1>6, <1>8
  <2>2. default_(At(at, l)) =
          At(at + Len(TextOf(w)),
             Lists(<<>>, <<>>, IF w.prerequisite # <<>> THEN w.prerequisite ELSE pre,
                   IF w.justifications # <<>> THEN w.justifications ELSE js,
                   w.conclusion, w.argument, l))
    BY <1>2, <1>3, <1>8, <2>1, DefaultReads
  <2> QED BY <1>3, <1>9, <2>2
<1>11. /\ at' = pos[k + 1] /\ statics' = push_default(Lists(<<>>, <<>>, p, j, c, a, l))
       /\ UNCHANGED <<input, read>>
  BY <1>6, <1>8, <1>10 DEF ReadDefault, At
<1>12. /\ statics' = Lists(<<>>, <<>>, p, j, c, <<>>, statics')
       /\ statics'.defaults = Append(l.defaults, Default(p, j, c, a, Len(l.defaults) + 1))
  BY <1>11, PushSteps
<1>13. PICK d : d = [prerequisite |-> p, justifications |-> j, conclusion |-> c, argument |-> a]
  OBVIOUS
<1>14. Has' = Append(Has, d) /\ Kept(Has') = [prerequisite |-> p, justifications |-> j]
  BY <1>2, <1>12, <1>13, HasPush
<1>15. Inheriting'
  <2>1. statics'.conclusion = c
    BY <1>12 DEF Lists
  <2> QED BY <1>12, <1>14, <2>1 DEF Inheriting
<1>16. Has' = Expected(FlattenSeq(earlier) \o SubSeq(file, 1, (k + 1) - 1))
  <2>1. earlier \in Seq(Files) /\ file \in Files /\ k \in 1..Len(file)
    <3>1. Len(file) \in Nat
      BY FileTokens DEF InFile
    <3> QED BY <1>5, <3>1 DEF InFile
  <2>2. PICK acc : /\ acc = Has /\ acc \in Seq(Written)
                   /\ Expected(FlattenSeq(earlier) \o SubSeq(file, 1, (k + 1) - 1)) = Adds(acc, it)
    BY <1>6, <2>1, NextInFile DEF InFile
  <2>3. Inherits(acc, w) = d
    BY <1>1, <1>8, <1>9, <1>13, <2>2, InheritsKept
  <2>4. Adds(acc, it) = Append(acc, d)
    BY <1>7, <1>8, <2>3 DEF Adds
  <2> QED BY <1>14, <2>2, <2>4
<1> QED BY <1>6, <1>11, <1>15, <1>16 DEF InFile

\* Where a default begins, the grammar finds one.
LEMMA DefaultHere ==
  ASSUME StaticsInv, PlaceInv, PlainFiles, Inheriting,
         NEW earlier, NEW file, NEW pos, NEW k, InFile(earlier, file, pos, k),
         k # Len(file) + 1, file[k].kind = "default"
  PROVE  default_(Here).at # 0
<1>1. PICK pre, js, con : /\ pre = Kept(Has).prerequisite /\ js = Kept(Has).justifications
                          /\ con = statics.conclusion
  OBVIOUS
<1>2. PICK l : l = statics /\ l = Lists(<<>>, <<>>, pre, js, con, <<>>, l)
  BY <1>1 DEF Inheriting
<1>3. InputInv /\ Here = At(at, l) /\ At(at, l) \in Places(l)
  BY <1>2, HereAt
<1>4. PICK it \in Items : /\ it = file[k] /\ IsPlain(it) /\ Stands(it.tokens, input, at)
                          /\ pos[k + 1] = at + Len(it.tokens) /\ k + 1 \in 1..(Len(file) + 1)
                          /\ ~Seen(pos[k + 1], "arg")
  BY <1>3, PlaceInFile
<1>5. PICK w : w = it.written /\ IsWritten(w) /\ it.tokens = TextOf(w)
  BY <1>4, FilesAreWritten DEF Items
<1>6. Stands(TextOf(w), input, at) /\ ~Seen(at + Len(TextOf(w)), "arg")
  BY <1>4, <1>5
<1>7. PICK m : default_(At(at, l)) = At(at + Len(TextOf(w)), m)
  BY <1>2, <1>3, <1>5, <1>6, DefaultReads
<1>8. default_(Here).at = pos[k + 1]
  BY <1>3, <1>4, <1>5, <1>7 DEF At
<1>9. pos[k + 1] \in Nat \ {0}
  BY <1>4, FileTokens DEF InFile, Layout
<1> QED BY <1>8, <1>9

\* A full rule is passed on: they stay as they are.
LEMMA OthersStep ==
  ASSUME StaticsInv, PlaceInv, PlainFiles, Inheriting,
         NEW earlier, NEW file, NEW pos, NEW k, InFile(earlier, file, pos, k), ReadOthers
  PROVE  Inheriting' /\ InFile(earlier, file, pos, k + 1)'
<1>1. PICK pre, js, con : /\ pre = Kept(Has).prerequisite /\ js = Kept(Has).justifications
                          /\ con = statics.conclusion
  OBVIOUS
<1>2. PICK l : l = statics /\ l = Lists(<<>>, <<>>, pre, js, con, <<>>, l)
  BY <1>1 DEF Inheriting
<1>3. InputInv /\ Here = At(at, l) /\ At(at, l) \in Places(l)
  BY <1>2, HereAt
<1>4. at \in DOMAIN input /\ DOMAIN input = 1..Len(input) /\ Len(input) \in Nat
  BY <1>3, InputTokens DEF ReadOthers, InSecondStar, Parsing
<1>5. k # Len(file) + 1
  BY <1>3, <1>4, PlaceInFile
<1>6. PICK it \in Items : /\ it = file[k] /\ IsPlain(it) /\ Stands(it.tokens, input, at)
                          /\ pos[k + 1] = at + Len(it.tokens) /\ k + 1 \in 1..(Len(file) + 1)
                          /\ ~Seen(pos[k + 1], "arg")
  BY <1>3, <1>5, PlaceInFile
<1>7. it.kind = "text"
  <2>1. it.kind # "default"
    BY <1>5, <1>6, DefaultHere DEF ReadOthers
  <2> QED BY <1>6, <2>1 DEF IsPlain
<1>8. /\ ~Seen(at, "[")
      /\ \E d \in Dots(at) : d + 1 = at + Len(it.tokens) /\ \A i \in Dots(at) : d <= i
  BY <1>3, <1>6, <1>7, ItemStands
<1>9. default_(Here) = At(0, l)
  BY <1>2, <1>3, <1>8, DefaultMissing
<1>10. PICK dot : /\ dot = CHOOSE i \in Dots(at) : \A j \in Dots(at) : i <= j
                  /\ at' = dot + 1 /\ statics' = push_others(l, SubSeq(input, at, dot))
                  /\ UNCHANGED <<input, read>>
  <2>1. PICK dot : dot = CHOOSE i \in Dots(at) : \A j \in Dots(at) : i <= j
    OBVIOUS
  <2>2. PICK r : r = default_(Here) /\ r.s = l
    BY <1>9 DEF At
  <2>3. /\ at' = dot + 1 /\ statics' = push_others(r.s, SubSeq(input, at, dot))
        /\ UNCHANGED <<input, read>>
    BY <2>1, <2>2 DEF ReadOthers
  <2> QED BY <2>1, <2>2, <2>3
<1>11. at' = pos[k + 1]
  <2>1. PICK d \in Dots(at) : d + 1 = at + Len(it.tokens) /\ \A i \in Dots(at) : d <= i
    BY <1>8
  <2>2. dot \in Dots(at) /\ \A i \in Dots(at) : dot <= i
    BY <1>10, <2>1
  <2>3. d \in Int /\ dot \in Int /\ d <= dot /\ dot <= d
    BY <1>4, <2>1, <2>2 DEF Dots
  <2>4. d = dot
    BY ONLY <2>3
  <2> QED BY <1>6, <1>10, <2>1, <2>4
<1>12. statics' = Lists(<<>>, <<>>, pre, js, con, <<>>, statics') /\ statics'.defaults = l.defaults
  <2>1. PICK tokens : tokens = SubSeq(input, at, dot)
    OBVIOUS
  <2>2. statics' = push_others(Lists(<<>>, <<>>, pre, js, con, <<>>, l), tokens)
    BY <1>2, <1>10, <2>1
  <2> QED BY <2>2, PushSteps
<1>13. Has' = Has
  BY <1>2, <1>12 DEF Has
<1>14. Inheriting'
  <2>1. statics'.conclusion = con
    BY <1>12 DEF Lists
  <2> QED BY <1>1, <1>12, <1>13, <2>1 DEF Inheriting
<1>15. Has' = Expected(FlattenSeq(earlier) \o SubSeq(file, 1, (k + 1) - 1))
  <2>1. earlier \in Seq(Files) /\ file \in Files /\ k \in 1..Len(file)
    <3>1. Len(file) \in Nat
      BY FileTokens DEF InFile
    <3> QED BY <1>5, <3>1 DEF InFile
  <2>2. Expected(FlattenSeq(earlier) \o SubSeq(file, 1, (k + 1) - 1)) = Adds(Has, it)
    BY <1>6, <2>1, NextInFile DEF InFile
  <2>3. Adds(Has, it) = Has
    BY <1>7 DEF Adds
  <2> QED BY <1>13, <2>2, <2>3
<1> QED BY <1>6, <1>10, <1>11, <1>14, <1>15 DEF InFile

\* While a file is read, the parser is at one of its items, or behind the last one.
LEMMA AtItem ==
  ASSUME StaticsInv, PlaceInv, PlainFiles, Inheriting,
         NEW earlier, NEW file, NEW pos, NEW k, InFile(earlier, file, pos, k)
  PROVE  /\ at \in DOMAIN input =>
              /\ input[at].t \in {"[", "text", "."}
              /\ Dots(at) # {} \/ default_(Here).at # 0
         /\ at > Len(input) => k = Len(file) + 1
<1>1. InputInv
  BY DEF PlaceInv
<1>2. Len(input) \in Nat /\ DOMAIN input = 1..Len(input)
  BY <1>1, InputTokens
<1>3. CASE k = Len(file) + 1
  <2>1. at = Len(input) + 1
    BY <1>1, <1>3, PlaceInFile
  <2> QED BY <1>2, <1>3, <2>1
<1>4. CASE k # Len(file) + 1
  <2>1. PICK it \in Items : it = file[k] /\ IsPlain(it) /\ Stands(it.tokens, input, at)
    BY <1>1, <1>4, PlaceInFile
  <2>2. /\ at \in DOMAIN input
        /\ Seen(at, "[") \/ Seen(at, "text") \/ Seen(at, ".")
        /\ it.kind = "text" => Dots(at) # {}
    BY <1>1, <2>1, ItemStands
  <2>3. it.kind = "default" => default_(Here).at # 0
    BY <1>4, <2>1, DefaultHere
  <2>4. input[at].t \in {"[", "text", "."}
    BY <2>2 DEF Seen
  <2>5. ~(at > Len(input))
    BY <1>2, <2>2
  <2> QED BY <2>1, <2>2, <2>3, <2>4, <2>5 DEF IsPlain
<1> QED BY <1>3, <1>4

\* At the end it has all that is expected.
LEMMA AtEnd ==
  ASSUME NEW earlier, NEW file, NEW pos, NEW k, InFile(earlier, file, pos, k)
  PROVE  /\ k = Len(file) + 1 => Has = Expected(ItemsRead)
         /\ IsPrefix(Has, Expected(ItemsRead))
<1>1. earlier \in Seq(Files) /\ file \in Files /\ read = Append(earlier, file)
  BY DEF InFile
<1>2. PICK before \in Seq(Items) : before = FlattenSeq(earlier) /\ ItemsRead = before \o file
  BY <1>1, ItemsOfFiles DEF ItemsRead
<1>3. PICK n \in Nat : n = Len(file) /\ file \in Seq(Items)
  BY <1>1, FileTokens
<1>4. PICK m \in 0..n : m = k - 1
  BY <1>3 DEF InFile
<1>5. Has = Expected(before \o SubSeq(file, 1, m))
  BY <1>2, <1>4 DEF InFile
<1>6. k = n + 1 => SubSeq(file, 1, m) = file
  <2>1. SubSeq(file, 1, Len(file)) = file
    BY <1>3, PrefixSteps
  <2>2. k = n + 1 => m = Len(file)
    BY <1>3, <1>4
  <2> QED BY <2>1, <2>2
<1>7. IsPrefix(Expected(before \o SubSeq(file, 1, m)), Expected(before \o file))
  BY <1>3, <1>4, ExpectedPrefix
<1> QED BY <1>2, <1>3, <1>5, <1>6, <1>7

\* At first there is nothing.
LEMMA InitParser ==
  ASSUME Init
  PROVE  ParserInv
<1>1. /\ statics = [lst_term |-> <<>>, lst_predicate |-> <<>>, lst_justification |-> <<>>,
                    prerequisite |-> <<>>, justifications |-> <<>>, conclusion |-> <<>>,
                    argument |-> <<>>, defaults |-> <<>>, others |-> <<>>, namespaces |-> <<>>]
      /\ read = <<>> /\ phase = "idle"
  BY DEF Init
<1>2. Has = <<>>
  <2>1. statics.defaults = <<>>
    BY <1>1
  <2> QED BY <2>1 DEF Has
<1>3. Kept(Has).prerequisite = <<>> /\ Kept(Has).justifications = <<>>
  BY <1>2 DEF Kept
<1>4. Inheriting
  BY <1>1, <1>3 DEF Inheriting, Lists
<1>5. read \in Seq(Files)
  BY <1>1
<1>6. Expected(ItemsRead) = <<>>
  <2>1. ItemsRead = <<>>
    BY <1>1 DEF ItemsRead, FlattenSeq
  <2>2. <<>> \in Seq(Items)
    OBVIOUS
  <2>3. Expected(<<>>) = <<>>
    BY <2>2, ExpectedType
  <2> QED BY <2>1, <2>3
<1> QED BY <1>1, <1>2, <1>4, <1>5, <1>6 DEF ParserInv

\* What was read is not plain again if it is not now.
LEMMA StaysPlain ==
  ASSUME UNCHANGED read, converter'.dftrans = converter.dftrans, PlainFiles'
  PROVE  PlainFiles
BY DEF PlainFiles, ItemsRead

\* The steps that neither read from the file nor change what was read.
LEMMA SameParser ==
  ASSUME ParserInv, UNCHANGED <<statics, read>>, converter'.dftrans = converter.dftrans,
         phase # "parse", phase' # "parse"
  PROVE  ParserInv'
<1>1. read' \in Seq(Files)
  BY DEF ParserInv
<1>2. ASSUME PlainFiles' PROVE Inheriting' /\ Has' = Expected(ItemsRead)'
  <2>1. PlainFiles
    BY <1>2, StaysPlain
  <2>2. Inheriting /\ Has = Expected(ItemsRead)
    BY <2>1 DEF ParserInv
  <2>3. Has' = Has /\ Inheriting'
    BY <2>2 DEF Has, Inheriting
  <2>4. Expected(ItemsRead)' = Expected(ItemsRead)
    BY DEF ItemsRead
  <2> QED BY <2>2, <2>3, <2>4
<1> QED BY <1>1, <1>2 DEF ParserInv

\* The steps that leave the parse when everything was read.
LEMMA ParserEnds ==
  ASSUME StaticsInv, PlaceInv, ParserInv, Parsed, UNCHANGED <<statics, read>>,
         converter'.dftrans = converter.dftrans, phase' # "parse"
  PROVE  ParserInv'
<1>1. phase = "parse" /\ at > Len(input)
  BY DEF Parsed
<1>2. read' \in Seq(Files)
  BY DEF ParserInv
<1>3. ASSUME PlainFiles' PROVE Inheriting' /\ Has' = Expected(ItemsRead)'
  <2>1. PlainFiles
    BY <1>3, StaysPlain
  <2>2. PICK earlier, file, pos, k : InFile(earlier, file, pos, k)
    BY <1>1, <2>1 DEF ParserInv
  <2>3. Inheriting
    BY <2>1 DEF ParserInv
  <2>4. Has = Expected(ItemsRead)
    BY <1>1, <2>1, <2>2, <2>3, AtItem, AtEnd
  <2>5. Has' = Has /\ Inheriting'
    BY <2>3 DEF Has, Inheriting
  <2>6. Expected(ItemsRead)' = Expected(ItemsRead)
    BY DEF ItemsRead
  <2> QED BY <2>4, <2>5, <2>6
<1> QED BY <1>2, <1>3 DEF ParserInv

\* A new file is begun.
LEMMA StartStep ==
  ASSUME ParserInv, NEW file \in Files, Start(file)
  PROVE  ParserInv'
<1>1. /\ phase = "idle" /\ input' = Tokens(file) /\ at' = 1 /\ phase' = "parse"
      /\ read' = Append(read, file) /\ UNCHANGED <<statics, converter>>
  BY DEF Start
<1>2. read \in Seq(Files) /\ read' \in Seq(Files)
  BY <1>1 DEF ParserInv
<1>3. ASSUME PlainFiles' PROVE Inheriting' /\ \E earlier, pos : InFile(earlier, file, pos, 1)'
  <2>1. PICK before \in Seq(Items) : before = ItemsRead
    BY <1>2, ItemsOfFiles DEF ItemsRead
  <2>2. file \in Seq(Items) /\ ItemsRead' = before \o file
    BY <1>1, <1>2, <2>1, ItemsOfFiles DEF ItemsRead
  <2>3. PlainFiles
    <3>1. \A i \in DOMAIN before : i \in DOMAIN (before \o file) /\ (before \o file)[i] = before[i]
      BY <2>2
    <3> QED BY <1>1, <1>3, <2>1, <2>2, <3>1 DEF PlainFiles
  <2>4. Inheriting /\ Has = Expected(ItemsRead)
    BY <1>1, <2>3 DEF ParserInv
  <2>5. Has' = Has /\ Inheriting'
    BY <1>1, <2>4 DEF Has, Inheriting
  <2>6. PICK pos : Layout(pos, TokensOf(file), Tokens(file), 1)
    BY FileTokens
  <2>7. PICK earlier : earlier = read
    OBVIOUS
  <2>8. Has' = Expected(FlattenSeq(earlier) \o SubSeq(file, 1, 1 - 1))
    <3>1. SubSeq(file, 1, 1 - 1) = <<>>
      BY <2>2, PrefixSteps
    <3>2. before \o <<>> = before
      OBVIOUS
    <3> QED BY <2>1, <2>4, <2>5, <2>7, <3>1, <3>2 DEF ItemsRead
  <2>9. 1 \in 1..(Len(file) + 1)
    <3>1. Len(file) \in Nat
      BY <2>2
    <3> QED BY <3>1
  <2>10. pos[1] = 1
    BY <2>6 DEF Layout
  <2>11. InFile(earlier, file, pos, 1)'
    BY <1>1, <1>2, <2>6, <2>7, <2>8, <2>9, <2>10 DEF InFile
  <2> QED BY <2>5, <2>11
<1> QED BY <1>1, <1>2, <1>3 DEF ParserInv

\* An item is read.
LEMMA ReadStep ==
  ASSUME StaticsInv, PlaceInv, ParserInv, ReadDefault \/ ReadOthers
  PROVE  ParserInv'
<1>1. phase = "parse" /\ phase' = "parse" /\ UNCHANGED <<read, converter>>
  BY DEF ReadDefault, ReadOthers, InSecondStar, Parsing
<1>2. read' \in Seq(Files)
  BY <1>1 DEF ParserInv
<1>3. ASSUME PlainFiles'
      PROVE  Inheriting' /\ \E earlier, file, pos, k : InFile(earlier, file, pos, k)'
  <2>1. PlainFiles
    BY <1>1, <1>3, StaysPlain
  <2>2. PICK earlier, file, pos, k : InFile(earlier, file, pos, k)
    BY <1>1, <2>1 DEF ParserInv
  <2>3. Inheriting
    BY <2>1 DEF ParserInv
  <2>4. Inheriting' /\ InFile(earlier, file, pos, k + 1)'
    BY <2>1, <2>2, <2>3, DefaultStep, OthersStep
  <2> QED BY <2>4
<1> QED BY <1>1, <1>2, <1>3 DEF ParserInv

\* The other steps of the grammar need what no default and no full rule begins with.
LEMMA NoOtherStep ==
  ASSUME StaticsInv, PlaceInv, ParserInv,
         PushNamespace \/ LeadingComment \/ ReadComment \/ SyntaxError
  PROVE  ParserInv'
<1>1. phase = "parse" /\ at \in DOMAIN input /\ UNCHANGED <<read, converter>>
  BY DEF PushNamespace, LeadingComment, ReadComment, SyntaxError, InSecondStar, Parsing
<1>2. read' \in Seq(Files)
  BY <1>1 DEF ParserInv
<1>3. \/ input[at].t \in {"ns", "%"}
      \/ Dots(at) = {} /\ default_(Here).at = 0
  BY DEF PushNamespace, LeadingComment, ReadComment, SyntaxError
<1>4. ~PlainFiles'
  <2> SUFFICES ASSUME PlainFiles' PROVE FALSE
    OBVIOUS
  <2>1. PlainFiles
    BY <1>1, StaysPlain
  <2>2. PICK earlier, file, pos, k : InFile(earlier, file, pos, k)
    BY <1>1, <2>1 DEF ParserInv
  <2>3. Inheriting
    BY <2>1 DEF ParserInv
  <2>4. input[at].t \in {"[", "text", "."} /\ (Dots(at) # {} \/ default_(Here).at # 0)
    BY <1>1, <2>1, <2>2, <2>3, AtItem
  <2> QED BY <1>3, <2>4
<1> QED BY <1>2, <1>4 DEF ParserInv

\* Every step keeps the invariant.
LEMMA StepParser ==
  ASSUME IInv, ParserInv, [Next]_vars
  PROVE  ParserInv'
<1>1. StaticsInv /\ PlaceInv /\ ConverterInv
  BY DEF IInv
<1>2. ASSUME NEW file \in Files, Copy(file) PROVE ParserInv'
  <2>1. converter.dftrans = 0 /\ converter' = converter /\ read' = Append(read, file)
    BY <1>2 DEF Copy
  <2>2. ~PlainFiles'
    BY <2>1 DEF PlainFiles
  <2>3. read' \in Seq(Files)
    BY <2>1 DEF ParserInv
  <2> QED BY <2>2, <2>3 DEF ParserInv
<1>3. ASSUME NEW file \in Files, Start(file) PROVE ParserInv'
  BY <1>3, StartStep
<1>4. ASSUME PushNamespace \/ LeadingComment \/ ReadComment \/ SyntaxError PROVE ParserInv'
  BY <1>1, <1>4, NoOtherStep
<1>5. ASSUME ReadDefault \/ ReadOthers PROVE ParserInv'
  BY <1>1, <1>5, ReadStep
<1>6. ASSUME WriteInput \/ RewriteFails PROVE ParserInv'
  <2>1. Parsed /\ phase' # "parse" /\ UNCHANGED <<statics, read, converter>>
    BY <1>6 DEF WriteInput, RewriteFails
  <2> QED BY <1>1, <2>1, ParserEnds
<1>7. ASSUME Rewrite PROVE ParserInv'
  <2>1. /\ Parsed /\ phase' # "parse" /\ UNCHANGED <<statics, read>>
        /\ converter' = [converter EXCEPT !.individuals = readIndividuals]
    BY <1>7 DEF Rewrite
  <2>2. converter'.dftrans = converter.dftrans
    BY <1>1, <2>1 DEF ConverterInv
  <2> QED BY <1>1, <2>1, <2>2, ParserEnds
<1>8. ASSUME BuildResult \/ NextFile PROVE ParserInv'
  <2>1. phase # "parse" /\ phase' # "parse" /\ UNCHANGED <<statics, read, converter>>
    BY <1>8 DEF BuildResult, NextFile
  <2> QED BY <2>1, SameParser
<1>9. ASSUME Rests \/ UNCHANGED vars PROVE ParserInv'
  <2>1. UNCHANGED <<statics, input, at, phase, converter, read>>
    BY <1>9 DEF Rests, vars
  <2>2. Has' = Has /\ (Inheriting => Inheriting') /\ (PlainFiles' => PlainFiles)
    BY <2>1, StaysPlain DEF Has, Inheriting
  <2>3. Expected(ItemsRead)' = Expected(ItemsRead)
    BY <2>1 DEF ItemsRead
  <2>4. ASSUME NEW earlier, NEW file, NEW pos, NEW k, InFile(earlier, file, pos, k)
        PROVE  InFile(earlier, file, pos, k)'
    BY <2>1, <2>2, <2>4 DEF InFile
  <2> QED BY <2>1, <2>2, <2>3, <2>4 DEF ParserInv
<1> QED BY <1>2, <1>3, <1>4, <1>5, <1>6, <1>7, <1>8, <1>9 DEF Next

-----------------------------------------------------------------------------
(* The theorem. *)

\* For all files that are made of defaults and full rules the parser has exactly the
\* defaults that are written, in order and from all files; what one leaves out is that
\* of the default before, as the statics keep it (DFProcessor.cpp, push_default).
THEOREM DefaultsAsWritten == Spec => []OmittedPartsAreInherited
<1>1. IInv /\ ParserInv => OmittedPartsAreInherited
  <2> SUFFICES ASSUME ParserInv, converter.dftrans # 0,
                      \A i \in DOMAIN ItemsRead : ItemsRead[i].kind \in {"default", "text"}
               PROVE  IsPrefix(Has, Expected(ItemsRead))
                      /\ (phase # "parse" => Has = Expected(ItemsRead))
    BY DEF OmittedPartsAreInherited, Has
  <2>1. PlainFiles
    BY DEF PlainFiles, IsPlain
  <2>2. CASE phase = "parse"
    <3>1. PICK earlier, file, pos, k : InFile(earlier, file, pos, k)
      BY <2>1, <2>2 DEF ParserInv
    <3> QED BY <2>2, <3>1, AtEnd
  <2>3. CASE phase # "parse"
    <3>1. Has = Expected(ItemsRead)
      BY <2>1, <2>3 DEF ParserInv
    <3>2. IsPrefix(Has, Has)
      BY DEF IsPrefix
    <3> QED BY <2>3, <3>1, <3>2
  <2> QED BY <2>2, <2>3
<1>2. IInv /\ ParserInv /\ [Next]_vars => ParserInv'
  BY StepParser
<1>3. Spec => []IInv
  BY InvAlways
<1>4. Init => ParserInv
  BY InitParser
<1> QED BY <1>1, <1>2, <1>3, <1>4, PTL DEF Spec
=============================================================================
