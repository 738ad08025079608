---------------------------- MODULE DefaultRules ----------------------------
(* The classes of namespace df that turn parsed defaults into a dl-program:   *)
(* Terms, Predicate, Pred1Dim, Pred2Dim, Update(s), DLAtom(s), DLRule(s),     *)
(* Default and Defaults.  A list is a sequence.  A string that names a        *)
(* predicate is a sequence of pieces: each neg_ it begins with, then the rest *)
(* of what is written; so concatenation of strings is that of their pieces,   *)
(* and -f and neg_f get the same string behind a prefix.  Lists that are only *)
(* joined for output are compared as what they say, so quoting, commas and    *)
(* spaces are left out.                                                       *)
EXTENDS Integers, Sequences, SequencesExt, FiniteSets

CONSTANT VarNames      \* the terms that begin with a capital letter

(***************************************************************************)
(* Terms and predicates                                                    *)
(***************************************************************************)
isVar(term) == term \in VarNames

gotThisTerm(terms, term) == \E i \in DOMAIN terms : terms[i] = term

\* Appends the terms that are not there yet, each of them once.
insertNewTerms(terms, t1) ==
    FoldLeft(LAMBDA acc, t : IF gotThisTerm(acc, t) THEN acc ELSE Append(acc, t),
             terms, t1)

\* A Predicate as the parser makes it.  ns is what stood in front of the colon.
Predicate(neg, name, ns, terms) ==
    [neg |-> neg, name |-> name, ns |-> ns, terms |-> terms]

NoNS == ""

\* in_, out_, p_ and the like in front of a name, applied to terms.
Atom(name, terms) == [name |-> name, terms |-> terms]

getSignedPredicateName(p) == IF p.neg THEN <<"neg_">> \o p.name ELSE p.name

getPredicateNameWithNS(p) ==
    IF p.ns = NoNS THEN p.name ELSE <<p.ns, "#">> \o p.name

\* What a dl-query asks for: the namespace is not a part of it.
getLiteralName(p) == [neg |-> p.neg, name |-> p.name]

getNegatedLiteralName(p) == [neg |-> ~p.neg, name |-> p.name]

(***************************************************************************)
(* Conjunctions (Pred1Dim) and lists of conjunctions (Pred2Dim)            *)
(***************************************************************************)
\* The terms of some lists, each of them once.
DistinctTerms(lists) == FoldLeft(LAMBDA acc, terms : insertNewTerms(acc, terms), <<>>, lists)

getAllDistinctTerms(pred1dim) == DistinctTerms([i \in DOMAIN pred1dim |-> pred1dim[i].terms])

DistinctTermsOfLists(pred2dim) ==
    DistinctTerms([i \in DOMAIN pred2dim |-> getAllDistinctTerms(pred2dim[i])])

\* One conjunction per literal: the list is read as a union.
deMorgan(pred1dim) ==
    [i \in DOMAIN pred1dim |-> <<[pred1dim[i] EXCEPT !.neg = ~@]>>]

\* Mutant: the number is left out.
BehalfNameUnnumbered(pred1dim, prefix, id1, id2) ==
    IF Len(pred1dim) = 1 THEN <<prefix>> \o getSignedPredicateName(pred1dim[1])
    ELSE <<"all_", prefix>>

\* The name that stands for the whole conjunction: that of its only literal, or
\* one made of the default's number and, for a justification, its place.
behalf_name(pred1dim, prefix, id1, id2) ==
    IF Len(pred1dim) = 1 THEN <<prefix>> \o getSignedPredicateName(pred1dim[1])
    ELSE <<"all_", prefix, id1>> \o IF id2 > 0 THEN <<"_", id2>> ELSE <<>>

\* pred may extend or restrict the concept or role cr.
Update(cr, op, pred) == [cr |-> cr, op |-> op, pred |-> pred]

\* Mutant: a negated conclusion extends what it should restrict.
GetUpdatesUnsigned(pred1dim, prefix) ==
    {Update(getPredicateNameWithNS(p), "UPLUS", <<prefix>> \o getSignedPredicateName(p)) :
        p \in ToSet(pred1dim)}

getUpdates(pred1dim, prefix) ==
    {Update(getPredicateNameWithNS(p), IF p.neg THEN "UMINUS" ELSE "UPLUS",
            <<prefix>> \o getSignedPredicateName(p)) : p \in ToSet(pred1dim)}

(***************************************************************************)
(* DL-atoms and rules.  Order does not matter in the body of a rule, nor    *)
(* among the updates and the rules: sets.                                   *)
(***************************************************************************)
Literals(pred1dim) ==
    {[lit |-> getLiteralName(p), terms |-> p.terms] : p \in ToSet(pred1dim)}

\* A query is a union of conjunctions of literals.
Disjuncts(pred2dim) == {Literals(ps) : ps \in ToSet(pred2dim)}

DLAtom(naf, updates, ucq, terms) ==
    [naf |-> naf, updates |-> updates, ucq |-> Disjuncts(ucq), terms |-> terms]

DLRule(head, dlatoms, positive, negative) ==
    [head |-> head, dl |-> dlatoms, pos |-> positive, neg |-> negative]

\* One dl-atom per literal.
getDLBodies(lambda, pred1dim, naf) ==
    {DLAtom(naf, lambda, <<<<pred1dim[i]>>>>, pred1dim[i].terms) : i \in DOMAIN pred1dim}

\* With --cq=on one dl-atom asks for the conjunction.
Bodies(cqmode, lambda, pred1dim, naf) ==
    IF cqmode THEN {DLAtom(naf, lambda, <<pred1dim>>, getAllDistinctTerms(pred1dim))}
    ELSE getDLBodies(lambda, pred1dim, naf)

\* The dl-atom that asks for the negation of a justification.
NegatedJustification(cqmode, naf, lambda, just) ==
    IF cqmode THEN DLAtom(naf, lambda, deMorgan(just), getAllDistinctTerms(just))
    ELSE DLAtom(naf, lambda, deMorgan(SubSeq(just, 1, 1)), just[1].terms)

(***************************************************************************)
(* A Default is prerequisite, justifications, conclusion, argument (the     *)
(* empty sequence or one atom) and its number.                              *)
(***************************************************************************)
Default(prerequisite, justifications, conclusion, argument, id) ==
    [prerequisite |-> prerequisite, justifications |-> justifications,
     conclusion |-> conclusion, argument |-> argument, id |-> id]

isFact(d) == d.prerequisite = <<>> /\ d.justifications = <<>>

\* The throw for a conjunctive justification without conjunctive queries.
NeedsCQ(d) == ~isFact(d) /\ \E i \in DOMAIN d.justifications : Len(d.justifications[i]) > 1

\* Mutant: with an argument no variable is bound by dom.
SafetyBodyEither(d, terms) ==
    IF d.argument = <<>> THEN {Atom(<<"dom">>, <<t>>) : t \in {u \in ToSet(terms) : isVar(u)}}
    ELSE {Atom(d.argument[i].name, d.argument[i].terms) : i \in DOMAIN d.argument}

\* The predicates that make the variables of terms safe: dom for each of them that
\* the argument does not bind, and the argument.
SafetyBody(d, terms) ==
    {Atom(<<"dom">>, <<t>>) : t \in {u \in ToSet(terms) :
        isVar(u) /\ \A i \in DOMAIN d.argument : ~gotThisTerm(d.argument[i].terms, u)}}
    \cup {Atom(d.argument[i].name, d.argument[i].terms) : i \in DOMAIN d.argument}

AllDistinctTerms(d) ==
    insertNewTerms(insertNewTerms(getAllDistinctTerms(d.prerequisite),
                                  DistinctTermsOfLists(d.justifications)),
                   getAllDistinctTerms(d.conclusion))

Fail == Atom(<<"fail">>, <<>>)

\* fail :- dl-atoms, positive, not fail.
Constraint(dlatoms, positive) == DLRule(Fail, dlatoms, positive, {Fail})

\* Facts are named without their sign.
getFacts_Pi(d) ==
    {DLRule(Atom(<<prefix>> \o d.conclusion[i].name, d.conclusion[i].terms), {}, {}, {}) :
        prefix \in {"in_", "p_"}, i \in DOMAIN d.conclusion}

getFacts_Omega_Upsilon(d) ==
    {DLRule(Atom(<<"in_">> \o d.conclusion[i].name, d.conclusion[i].terms), {}, {}, {}) :
        i \in DOMAIN d.conclusion}

\* From the name of the conjunction to its literals.
additionalDLRules4Conclusion(d, p_all, prefix) ==
    IF Len(d.conclusion) <= 1 THEN {}
    ELSE {DLRule(Atom(<<prefix>> \o getSignedPredicateName(d.conclusion[i]),
                      d.conclusion[i].terms), {}, {p_all}, {}) : i \in DOMAIN d.conclusion}

Conclusion(d, prefix) ==
    Atom(behalf_name(d.conclusion, prefix, d.id, 0), getAllDistinctTerms(d.conclusion))

\* Guess the conclusion, derive it from p_, and reject guesses that differ.
getDLRules_Pi(d, lambda, lambda_prime, cqmode) ==
    IF isFact(d) THEN getFacts_Pi(d)
    ELSE LET p_in  == Conclusion(d, "in_")
             p_out == Conclusion(d, "out_")
             p_p   == Conclusion(d, "p_")
             safe  == SafetyBody(d, getAllDistinctTerms(d.conclusion))
             Literal(prefix, i) ==
                Atom(<<prefix>> \o getSignedPredicateName(d.conclusion[i]), d.conclusion[i].terms)
         IN {DLRule(p_in, {}, safe, {p_out}), DLRule(p_out, {}, safe, {p_in}),
             Constraint(Bodies(cqmode, lambda_prime, d.conclusion, FALSE), {p_out}),
             DLRule(p_p, Bodies(cqmode, lambda, d.prerequisite, FALSE)
                            \cup {NegatedJustification(cqmode, TRUE, lambda_prime, j) :
                                      j \in ToSet(d.justifications)},
                    SafetyBody(d, AllDistinctTerms(d)), {})}
            \cup additionalDLRules4Conclusion(d, p_in, "in_")
            \cup additionalDLRules4Conclusion(d, p_p, "p_")
            \cup IF cqmode
                 THEN {Constraint(Bodies(TRUE, lambda, d.conclusion, TRUE), {p_in}),
                       Constraint(Bodies(TRUE, lambda, d.conclusion, FALSE), {p_out})}
                 ELSE {Constraint(getDLBodies(lambda, <<d.conclusion[i]>>, TRUE),
                                  {Literal("in_", i)}) : i \in DOMAIN d.conclusion}
                      \cup {Constraint(getDLBodies(lambda, <<d.conclusion[i]>>, FALSE),
                                       {Literal("out_", i)}) : i \in DOMAIN d.conclusion}

\* One rule that is the default itself.
getDLRules_Omega(d, lambda, cqmode) ==
    IF isFact(d) THEN getFacts_Omega_Upsilon(d)
    ELSE {DLRule(Conclusion(d, "in_"),
                 Bodies(cqmode, lambda, d.prerequisite, FALSE)
                    \cup {NegatedJustification(cqmode, TRUE, lambda, j) : j \in ToSet(d.justifications)},
                 SafetyBody(d, AllDistinctTerms(d)), {})}
         \cup additionalDLRules4Conclusion(d, Conclusion(d, "in_"), "in_")

\* Guess which justifications are consistent, and reject wrong guesses.
getDLRules_Upsilon(d, lambda, cqmode) ==
    IF isFact(d) THEN getFacts_Omega_Upsilon(d)
    ELSE LET Guess(prefix, j) ==
                Atom(behalf_name(d.justifications[j], prefix, d.id, j),
                     getAllDistinctTerms(d.justifications[j]))
             safe(j) == SafetyBody(d, getAllDistinctTerms(d.justifications[j]))
             Negated(naf, j) == {NegatedJustification(cqmode, naf, lambda, d.justifications[j])}
         IN {DLRule(Conclusion(d, "in_"), Bodies(cqmode, lambda, d.prerequisite, FALSE),
                    SafetyBody(d, AllDistinctTerms(d))
                        \cup {Guess("cons_", j) : j \in DOMAIN d.justifications}, {})}
            \cup additionalDLRules4Conclusion(d, Conclusion(d, "in_"), "in_")
            \cup UNION {{DLRule(Guess("cons_", j), {}, safe(j), {Guess("incons_", j)}),
                         DLRule(Guess("incons_", j), {}, safe(j), {Guess("cons_", j)}),
                         Constraint(Negated(FALSE, j), {Guess("cons_", j)}),
                         Constraint(Negated(TRUE, j), {Guess("incons_", j)})} :
                            j \in DOMAIN d.justifications}

(***************************************************************************)
(* Defaults                                                                *)
(***************************************************************************)
getLambda(dfs, prefix) == UNION {getUpdates(dfs[i].conclusion, prefix) : i \in DOMAIN dfs}

\* dftrans: 1 is Pi, 2 Omega, 3 Upsilon; any other number gives no rules.
getDLRules(dfs, cqmode, dftrans) ==
    LET in == getLambda(dfs, "in_")
    IN UNION {CASE dftrans = 1 -> getDLRules_Pi(dfs[i], getLambda(dfs, "p_"), in, cqmode)
                [] dftrans = 2 -> getDLRules_Omega(dfs[i], in, cqmode)
                [] dftrans = 3 -> getDLRules_Upsilon(dfs[i], in, cqmode)
                [] OTHER -> {} : i \in DOMAIN dfs}

=============================================================================
