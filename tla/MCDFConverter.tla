---------------------------- MODULE MCDFConverter ---------------------------
(* Instances of DFConverter: defaults about birds that fly, with every part  *)
(* left out once, and files of one to four items, two files one after the     *)
(* other; among them is a default about a predicate that is called neg_f.     *)
EXTENDS DFConverter

Lit(neg, name, terms) == Predicate(neg, name, NoNS, terms)
b == Lit(FALSE, <<"b">>, <<"X">>)
f == Lit(FALSE, <<"f">>, <<"X">>)
p == Lit(FALSE, <<"p">>, <<"X">>)
neg_f == Lit(FALSE, <<"neg_", "f">>, <<"X">>)
Not(l) == [l EXCEPT !.neg = TRUE]

Dflt(pre, justs, con, arg) ==
    LET w == [prerequisite |-> pre, justifications |-> justs, conclusion |-> con, argument |-> arg]
    IN [kind |-> "default", tokens |-> TextOf(w), written |-> w]

BirdsFly     == Dflt(<<b>>, <<<<f>>>>, <<f>>, <<>>)
PenguinsNot  == Dflt(<<p>>, <<<<Not(f)>>>>, <<Not(f)>>, <<>>)
NoPrereq     == Dflt(<<>>, <<<<Not(p)>>>>, <<Not(p)>>, <<>>)
NoJust       == Dflt(<<b>>, <<>>, <<f>>, <<>>)
Fact         == Dflt(<<>>, <<>>, <<Lit(FALSE, <<"b">>, <<"a">>)>>, <<>>)
NegFact      == Dflt(<<>>, <<>>, <<Lit(TRUE, <<"f">>, <<"a">>)>>, <<>>)
VarFact      == Dflt(<<>>, <<>>, <<b>>, <<>>)
TwoConcl     == Dflt(<<b>>, <<<<f>>>>, <<f, Not(p)>>, <<>>)
TwoConcl2    == Dflt(<<b>>, <<<<Not(p)>>>>, <<Not(p), b>>, <<>>)
TwoJusts     == Dflt(<<b>>, <<<<f>>, <<Not(p)>>>>, <<f>>, <<>>)
ConjJust     == Dflt(<<b>>, <<<<f, p>>>>, <<f>>, <<>>)
WithArgument == Dflt(<<b, Not(p)>>, <<<<f>>>>, <<f>>, <<Atom(<<"arg">>, <<"X">>)>>)
TwoVariables == Dflt(<<b>>, <<<<Lit(TRUE, <<"f">>, <<"Y">>)>>>>, <<Not(p)>>, <<Atom(<<"arg">>, <<"X">>)>>)
NegNamed     == Dflt(<<b>>, <<<<neg_f>>>>, <<neg_f>>, <<>>)
Namespaced   == Dflt(<<b>>, <<<<f>>>>, <<[f EXCEPT !.ns = "n"]>>, <<>>)

\* The argument of a literal begins with a small letter: the default is abandoned
\* when one literal and one term have been pushed.
Abandoned ==
    [kind |-> "bad", tokens |-> <<Sign("["), LiteralToken(b), Sign("&"),
                                  [t |-> "lit", p |-> Lit(FALSE, <<"p">>, <<"X">>), ok |-> FALSE],
                                  Sign(";"), LiteralToken(f), Sign("]/["), LiteralToken(f), Sign("]"), Sign(".")>>]

BadArgument ==
    [kind |-> "bad", tokens |-> BirdsFly.tokens
        \o <<[t |-> "arg", name |-> <<"arg">>, terms |-> <<"X">>, ok |-> FALSE], Sign(".")>>]

Text == [kind |-> "text", tokens |-> <<[t |-> "text", facts |-> {Atom(<<"arg">>, <<"a">>)}], Sign(".")>>]
Comment == [kind |-> "comment", tokens |-> <<Sign("%")>>]
Namespace == [kind |-> "ns", tokens |-> <<Sign("ns")>>]

Defaults == {BirdsFly, PenguinsNot, NoPrereq, NoJust, Fact, NegFact, VarFact, TwoConcl, TwoConcl2,
             TwoJusts, ConjJust, WithArgument, TwoVariables, NegNamed, Namespaced}
Items == Defaults \cup {Abandoned, BadArgument, Text, Comment}

MCFiles ==
    {<<i>> : i \in Items}
    \cup {<<Abandoned, BirdsFly>>, <<BadArgument, PenguinsNot>>, <<Text, WithArgument>>,
          <<TwoVariables, Text>>,
          <<BirdsFly, NoPrereq>>, <<Namespace, BirdsFly>>, <<Comment, BirdsFly, Comment>>,
          <<BirdsFly, Comment, PenguinsNot, Text>>, <<BirdsFly, Namespace>>}

L(neg, name) == [neg |-> neg, name |-> <<name>>]
G(neg, name) == [neg |-> neg, name |-> <<name>>, terms |-> <<"a">>]

MCKBs == {[facts |-> {G(FALSE, "p")},
           axioms |-> {[from |-> L(FALSE, "p"), to |-> L(FALSE, "b")]}],
          [facts |-> {G(FALSE, "b")},
           axioms |-> {[from |-> L(FALSE, "p"), to |-> L(TRUE, "f")]}]}

=============================================================================
