------------------------------ MODULE MCDLCache ------------------------------
(***************************************************************************)
(* Instances of DLCache: concept queries, whose output lists have one      *)
(* component, and role queries, whose output lists have two.               *)
(***************************************************************************)
EXTENDS DLCache, TLC

CONSTANTS f1, f2, r1, r2

Concept(n, x) == [ontology |-> 1, query |-> n, pattern |-> <<x>>]
Role(n, x, y) == [ontology |-> 1, query |-> n, pattern |-> <<x, y>>]

\* The members of a concept and one individual's membership.
ConceptQueries == {Concept(1, 1), Concept(1, Var)}

\* A pair and its converse, and a filler query.
RoleQueries == {Role(1, 1, 2), Role(1, 2, 1), Role(1, 1, Var)}
ConversePairs == {Role(1, 1, 2), Role(1, 2, 1)}

\* A boolean query is entailed from certain minimal sets of facts on: every
\* monotone theory is such a choice.  A retrieval returns r1 until a fact makes
\* it return r2.
Supports == {s \in SUBSET Inters : \A i, j \in s : i \subseteq j => i = j}
TheoryOf(support) ==
  [q \in Queries |-> [i \in Inters |->
     IF isBoolean(q)
     THEN IF \E s \in support[q] : s \subseteq i THEN "T" ELSE "NIL"
     ELSE IF f1 \in i THEN r2 ELSE r1]]
AllTheories ==
  {TheoryOf(b) : b \in {b \in [Queries -> Supports] :
                          \A q \in Queries : isBoolean(q) \/ b[q] = {}}}
=============================================================================
