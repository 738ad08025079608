------------------------------ MODULE DLOracle ------------------------------
(***************************************************************************)
(* What a caching external atom promises its caller: a query is answered   *)
(* with what the reasoner entails for that very query under that very      *)
(* interpretation, or it fails; there is no third outcome, and no trace of *)
(* the queries asked before.  DLCache implements this specification.       *)
(***************************************************************************)

CONSTANTS
  Queries,     \* the dl-queries the program asks
  Inters,      \* the projected interpretations they are asked under
  Theories     \* what the reasoner may entail: functions over Queries, Inters

VARIABLES
  oracle,      \* the theory behind the reasoner, fixed for the whole run
  returned     \* the last finished query with its answer

Nothing == [kind |-> "none"]
Answered(q, i, v) == [kind |-> "answer", query |-> q, inter |-> i, value |-> v]
Failed(q, i) == [kind |-> "error", query |-> q, inter |-> i]

Init == oracle \in Theories /\ returned = Nothing

Answer(q, i) ==
  /\ returned' = Answered(q, i, oracle[q][i])
  /\ UNCHANGED oracle

Fail(q, i) ==
  /\ returned' = Failed(q, i)
  /\ UNCHANGED oracle

Next == \E q \in Queries, i \in Inters : Answer(q, i) \/ Fail(q, i)

Spec == Init /\ [][Next]_<<oracle, returned>>
=============================================================================
