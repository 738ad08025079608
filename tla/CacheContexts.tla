---------------------------- MODULE CacheContexts ----------------------------
(***************************************************************************)
(* The contexts the DL-cache keeps for one dl-query (Cache.cpp).  A context*)
(* has the interpretation it was answered under and the answer's value: "T"*)
(* or "NIL" for a boolean query.  The rest of a context is up to the module*)
(* that uses it.                                                           *)
(***************************************************************************)

\* Output variables are never compared and never sent: one symbol for all.
Var == 0

Ground(q, k) == q.pattern[k] # Var

isBoolean(q) == \A k \in DOMAIN q.pattern : Ground(q, k)

\* Variant of isValid: negative answers carried over to larger interpretations.
isValidNegativeFlipped(q, i, cset) ==
  {e \in cset :
     \/ isBoolean(q) /\ e.value = "T" /\ e.inter \subseteq i
     \/ isBoolean(q) /\ e.value # "T" /\ e.inter \subseteq i
     \/ ~isBoolean(q) /\ e.inter = i}

\* Cache::isValid: the cached contexts that answer q under i.
isValid(q, i, cset) ==
  {e \in cset :
     \/ isBoolean(q) /\ e.value = "T" /\ e.inter \subseteq i
     \/ isBoolean(q) /\ e.value # "T" /\ i \subseteq e.inter
     \/ ~isBoolean(q) /\ e.inter = i}

\* Variant of Superfluous: no maintenance.
SuperfluousNone(q, i, v, cset) == {}

\* InterSuperset and InterSubset: what the maintenance before an insertion
\* removes.  Positive entries stay minimal, negative ones maximal; the test of
\* InterSubset is not strict.
Superfluous(q, i, v, cset) ==
  {e \in cset :
     /\ isBoolean(q)
     /\ \/ v = "T" /\ e.value = "T" /\ i \subseteq e.inter /\ i # e.inter
        \/ v # "T" /\ e.value # "T" /\ e.inter \subseteq i}

\* Variant of AddContext: only the first answer to a query is kept.
AddContextOnce(cset, c) == IF cset = {} THEN {c} ELSE cset

\* std::set::insert under IntCmp: a context with this interpretation stays.
AddContext(cset, c) ==
  IF \E e \in cset : e.inter = c.inter THEN cset ELSE cset \union {c}
=============================================================================
