---------------------------- MODULE DefaultLogic ----------------------------
(* What surrounds the rewriting of defaults and is not in the repository: the *)
(* solver that computes answer sets of a dl-program (dlvhex), the description *)
(* logic a dl-atom is evaluated in, and the extensions of a default theory    *)
(* in the sense of Reiter, which the rewriting is measured against.  Literals *)
(* are ground, a knowledge base is a set of facts and of axioms between       *)
(* literals, each with its contrapositive.                                    *)
EXTENDS DefaultRules

CONSTANT Individuals   \* those of the ontology

Complement(l) == [l EXCEPT !.neg = ~@]

(***************************************************************************)
(* The knowledge base with some literals added                             *)
(***************************************************************************)
Concluded(x, l) == [neg |-> x.to.neg, name |-> x.to.name, terms |-> l.terms]

Closure(axioms, literals) ==
    LET conclusions == {Concluded(x, l) : x \in axioms, l \in literals}
        closed[known \in SUBSET (literals \cup conclusions)] ==
            LET more == {Concluded(y[1], y[2]) : y \in {z \in axioms \X known :
                            z[2].neg = z[1].from.neg /\ z[2].name = z[1].from.name}}
            IN IF more \subseteq known THEN known ELSE closed[known \cup more]
    IN closed[literals]

WithContrapositives(axioms) ==
    axioms \cup {[from |-> Complement(x.to), to |-> Complement(x.from)] : x \in axioms}

\* Everything follows from what contradicts itself.
Everything == {[neg |-> FALSE, name |-> <<"everything">>, terms |-> <<>>]}

Theory(kb, literals) ==
    LET all == Closure(WithContrapositives(kb.axioms), kb.facts \cup literals)
    IN IF \E l \in all : Complement(l) \in all THEN Everything ELSE all

Entails(theory, l) == theory = Everything \/ l \in theory

(***************************************************************************)
(* Ground programs                                                         *)
(***************************************************************************)
Assignments(variables) == [variables -> Individuals]

Subst(sigma, terms) ==
    [i \in DOMAIN terms |-> IF terms[i] \in DOMAIN sigma THEN sigma[terms[i]] ELSE terms[i]]

GroundAtom(sigma, a) == [a EXCEPT !.terms = Subst(sigma, @)]

GroundDL(sigma, d) ==
    [naf |-> d.naf, updates |-> d.updates,
     ucq |-> {{[neg |-> q.lit.neg, name |-> q.lit.name, terms |-> Subst(sigma, q.terms)] :
                  q \in cq} : cq \in d.ucq}]

VarsOfTerms(terms) == {t \in ToSet(terms) : isVar(t)}

VarsOfAtoms(atoms) == UNION {VarsOfTerms(a.terms) : a \in atoms}

VarsOfRule(r) == VarsOfAtoms({r.head} \cup r.pos \cup r.neg) \cup VarsOfAtoms(r.dl)

Ground(rules) ==
    UNION {{[head |-> GroundAtom(sigma, r.head),
             pos |-> {GroundAtom(sigma, a) : a \in r.pos},
             neg |-> {GroundAtom(sigma, a) : a \in r.neg},
             dl |-> {GroundDL(sigma, d) : d \in r.dl}] :
                sigma \in Assignments(VarsOfRule(r))} : r \in rules}

\* DL[updates; query] under the atoms of an interpretation.
Evaluates(kb, d, atoms) ==
    LET added == {[neg |-> y[1].op = "UMINUS", name |-> y[1].cr, terms |-> y[2].terms] :
                     y \in {z \in d.updates \X atoms : z[1].pred = z[2].name}}
        theory == Theory(kb, added)
    IN \E cq \in d.ucq : \A l \in cq : Entails(theory, l)

\* The rules that a set of atoms leaves, without what is negated in them.
Reduct(kb, ground, atoms) ==
    {r \in ground : /\ r.neg \cap atoms = {}
                    /\ \A d \in r.dl : d.naf => ~Evaluates(kb, d, atoms)}

LeastModel(kb, rules) ==
    LET model[atoms \in SUBSET {r.head : r \in rules}] ==
            LET more == {r.head : r \in {q \in rules :
                            /\ q.pos \subseteq atoms
                            /\ \A d \in q.dl : d.naf \/ Evaluates(kb, d, atoms)}}
            IN IF more \subseteq atoms THEN atoms ELSE model[atoms \cup more]
    IN model[{}]

\* dl-atoms without negation are monotone in their updates.  Facts are in every
\* answer set.
AnswerSets(kb, rules) ==
    LET ground == Ground(rules)
        facts == {r.head : r \in {q \in ground : q.pos \cup q.neg \cup q.dl = {}}}
        others == {r.head : r \in ground} \ facts
    IN {atoms \in {facts \cup guess : guess \in SUBSET others} :
            LeastModel(kb, Reduct(kb, ground, atoms)) = atoms}

(***************************************************************************)
(* Reiter's extensions                                                     *)
(***************************************************************************)
GroundLiteral(sigma, p) == [neg |-> p.neg, name |-> p.name, terms |-> Subst(sigma, p.terms)]

GroundConjunction(sigma, ps) == {GroundLiteral(sigma, p) : p \in ToSet(ps)}

VarsOfDefault(d) == VarsOfTerms(AllDistinctTerms(d))

\* The instances of a default for the arguments that hold.
Instances(d, facts) ==
    {[pre |-> GroundConjunction(sigma, d.prerequisite),
      just |-> {GroundConjunction(sigma, j) : j \in ToSet(d.justifications)},
      con |-> GroundConjunction(sigma, d.conclusion)] :
        sigma \in {s \in Assignments(VarsOfDefault(d)) :
            \A i \in DOMAIN d.argument :
                Atom(d.argument[i].name, Subst(s, d.argument[i].terms)) \in facts}}

Consistent(kb, extension, literals) ==
    extension # Everything /\ Theory(kb, extension \cup literals) # Everything

Generated(kb, instances, extension) ==
    LET generated[literals \in SUBSET UNION {x.con : x \in instances}] ==
            LET theory == Theory(kb, literals)
                more == UNION {x.con : x \in {y \in instances :
                            /\ \A l \in y.pre : Entails(theory, l)
                            /\ \A j \in y.just : Consistent(kb, extension, j)}}
            IN IF more \subseteq literals THEN theory ELSE generated[literals \cup more]
    IN generated[{}]

Extensions(kb, dfs, facts) ==
    LET instances == UNION {Instances(d, facts) : d \in dfs}
    IN {e \in {Theory(kb, UNION {x.con : x \in s}) : s \in SUBSET instances} :
            Generated(kb, instances, e) = e}

=============================================================================
