---------------------------- MODULE MCRacerSession ----------------------------
(***************************************************************************)
(* Instances of RacerSession.  Fact f is about individual 1 and g about 2; *)
(* together they contradict the ontology.                                  *)
(***************************************************************************)
EXTENDS RacerSession, TLC

CONSTANTS f, g

TwoFacts == {f, g}
MentionedIn == (f :> {1}) @@ (g :> {2})
Both == {{f, g}}

Query(atom, plain, pattern) == [atom |-> atom, plain |-> plain, pattern |-> pattern]

Consistent == Query("dlConsistent", TRUE, <<>>)
Member == Query("dlC", TRUE, <<2>>)
Fillers == Query("dlR", TRUE, <<1, Var>>)
Data == Query("dlDR", TRUE, <<1, Var>>)
DataOf == Query("dlDR", TRUE, <<Var, 1>>)
Unrelated == Query("dlR", FALSE, <<Var, Var>>)

\* A question of consistency, a cached boolean query, a retrieval under a premise,
\* and one whose command cannot be built.
SessionQueries == {Consistent, Member, Data, DataOf}
BooleanQueries == {Consistent, Member}
Retrievals == {Fillers, Unrelated}

\* A boolean query holds as soon as g does; a retrieval finds the individuals the
\* facts are about in its last component.
Theory(queries) ==
  [q \in queries |-> [i \in SUBSET TwoFacts |->
     IF q.pattern = <<>>
     THEN IF i \in Both THEN {} ELSE {<<>>}
     ELSE IF isBoolean(q)
     THEN IF g \in i THEN {q.pattern} ELSE {}
     ELSE {t \in TuplesOf(q) : \E h \in i : t[Len(t)] \in MentionedIn[h]}]]
SessionTheory == Theory(SessionQueries)
BooleanTheory == Theory(BooleanQueries)
RetrievalTheory == Theory(Retrievals)
=============================================================================
