------------------------------- MODULE DLCache -------------------------------
(***************************************************************************)
(* The DL-cache (Cache.cpp) below the caching director (QueryDirector.cpp),*)
(* with the order on dl-queries that its std::map relies on (DLQuery.cpp). *)
(*                                                                         *)
(* The ranks that ontology URIs, query strings and individuals have in     *)
(* their string order stand for the strings.  Output variables are never   *)
(* compared and never sent, so one symbol, Var, stands for all of them.    *)
(* Of an interpretation only inclusion and equality matter: it is a set of *)
(* Facts.                                                                  *)
(***************************************************************************)
EXTENDS Integers, Sequences, FiniteSets, SequencesExt, CacheContexts

CONSTANTS
  Ontologies,   \* ranks of the real URIs of the ontologies
  Names,        \* ranks of the (namespace-qualified) query strings
  Individuals,  \* ranks of the ground output terms
  Facts,        \* the atoms a projected interpretation may hold
  Retrievals,   \* the tuple sets a retrieval may return
  Queries,      \* the dl-queries the program asks
  Theories,     \* what the reasoner entails: [Queries -> [Inters -> Values]]
  W             \* the counters of CacheStats are unsigned: they count modulo W

VARIABLES
  cacheMap,     \* the nodes of the std::map in tree order: <<[key, set], ...>>
  pending,      \* the query the director behind the cache is answering
  returned,     \* the last query that left the caching director
  asked,        \* history: the queries answered so far
  stats,        \* CacheStats: the sizes it keeps (hits and misses are printed only)
  oracle        \* what the reasoner entails

vars == <<cacheMap, pending, returned, asked, stats, oracle>>

Terms == Individuals \union {Var}
Patterns == [1..1 -> Terms] \union [1..2 -> Terms]
DLQuery == [ontology : Ontologies, query : Names, pattern : Patterns]
Inters == SUBSET Facts
Values == {"T", "NIL"} \union Retrievals

\* DLQuery::setPatternTuple: one bit for every ground term of the output list.
typeFlags(q) ==
  (IF Ground(q, 1) THEN 1 ELSE 0)
  + (IF Len(q.pattern) = 2 THEN IF Ground(q, 2) THEN 2 ELSE 0 ELSE 0)

ValuesOf(q) == IF isBoolean(q) THEN {"T", "NIL"} ELSE Retrievals

\* What can be said of the reasoner: it answers every query in kind, and a
\* larger interpretation never loses a conclusion.
Entailment(o) ==
  /\ o \in [Queries -> [Inters -> Values]]
  /\ \A q \in Queries, i \in Inters : o[q][i] \in ValuesOf(q)
  /\ \A q \in Queries, i, j \in Inters :
       isBoolean(q) /\ i \subseteq j /\ o[q][i] = "T" => o[q][j] = "T"

ASSUME Constants ==
  /\ Ontologies \subseteq Int /\ Names \subseteq Int
  /\ Individuals \subseteq Int \ {Var}
  /\ Queries \subseteq DLQuery
  /\ W \in Nat \ {0}

ASSUME TheoriesAreMonotone == \A o \in Theories : Entailment(o)

-----------------------------------------------------------------------------
(* The order on dl-queries. *)

\* The comparison of two output lists with the same ground positions: one
\* smaller ground component is enough, wherever the others stand.
PatternLess(q1, q2) ==
  \E k \in DOMAIN q1.pattern : Ground(q1, k) /\ q1.pattern[k] < q2.pattern[k]

QueryLess(q1, q2) ==
  IF typeFlags(q1) = typeFlags(q2) /\ Len(q1.pattern) = Len(q2.pattern)
  THEN PatternLess(q1, q2)
  ELSE \/ Len(q1.pattern) < Len(q2.pattern)
       \/ Len(q1.pattern) = Len(q2.pattern) /\ typeFlags(q1) < typeFlags(q2)

\* Variant of Less: the output lists are not compared.
LessIgnoringPattern(q1, q2) ==
  \/ q1.ontology < q2.ontology
  \/ q1.ontology = q2.ontology /\ q1.query < q2.query

\* operator<: ontology, query string, then the output lists.
Less(q1, q2) ==
  \/ q1.ontology < q2.ontology
  \/ /\ q1.ontology = q2.ontology
     /\ \/ q1.query < q2.query
        \/ q1.query = q2.query /\ QueryLess(q1, q2)

-----------------------------------------------------------------------------
(* The std::map.  A search ends in the gap before a node p when it turned  *)
(* right at p-1 and left at p: both lie on the path, whatever the shape of *)
(* the tree.  Under a strict weak order there is one such gap; without one *)
(* there may be several, and the shape of the tree picks one of them.  The *)
(* argument of Gaps is the set of the nodes where the search turns right.  *)

Gaps(right) == {p \in 1..(Len(cacheMap) + 1) :
                  (p = 1 \/ p - 1 \in right) /\ p \notin right}

\* std::map::find: the positions it may return, 0 for end().
Find(q) ==
  LET smaller == {p \in DOMAIN cacheMap : Less(cacheMap[p].key, q)}
  IN  {IF p <= Len(cacheMap) /\ ~Less(q, cacheMap[p].key) THEN p ELSE 0 :
         p \in Gaps(smaller)}

\* std::map::insert: the gaps it may end in, and whether the key at the left
\* of the gap lets the new node in.
InsertGaps(q) ==
  Gaps({p \in DOMAIN cacheMap : ~Less(q, cacheMap[p].key)})
Admits(q, p) == p = 1 \/ Less(cacheMap[p - 1].key, q)

-----------------------------------------------------------------------------
(* The cache proper. *)

Context(i, v) == [inter |-> i, value |-> v]

\* Variant of Wrap: the counters do not wrap.
NoWrap(n) == n

Wrap(n) == n % W

\* Variant of Removed: what the maintenance removes stays counted.
RemovedUncounted(old, kept) == 0

Removed(old, kept) == Cardinality(old \ kept)

\* The contexts at a position Find returned; none at end().
CSetAt(p) == IF p = 0 THEN {} ELSE cacheMap[p].cset

-----------------------------------------------------------------------------
NoQuery == [kind |-> "none"]
Asking(q, i, p) == [kind |-> "asking", query |-> q, inter |-> i, node |-> p]
Oracle == INSTANCE DLOracle

Init ==
  /\ cacheMap = <<>>
  /\ pending = NoQuery
  /\ returned = Oracle!Nothing
  /\ asked = {}
  /\ stats = [dlqno |-> 0, qctxno |-> 0]
  /\ oracle \in Theories

\* The caching director finds a valid context and returns it.
CacheHit(q, i, p) ==
  /\ pending = NoQuery
  /\ \E e \in isValid(q, i, CSetAt(p)) :
       returned' = Oracle!Answered(q, i, e.value)
  /\ UNCHANGED <<cacheMap, pending, asked, stats, oracle>>

\* It finds none and asks the director behind it.  The map does not change
\* until the answer is inserted, so the second search for q, in Cache::insert,
\* ends where this one did: p is kept for it.
CacheMiss(q, i, p) ==
  /\ pending = NoQuery
  /\ isValid(q, i, CSetAt(p)) = {}
  /\ pending' = Asking(q, i, p)
  /\ UNCHANGED <<cacheMap, returned, asked, stats, oracle>>

\* Cache::insert when the query has a node: maintenance, then insertion.
InsertIntoNode(q, i, v, p) ==
  LET old == cacheMap[p].cset
      kept == old \ Superfluous(q, i, v, old)
      new == AddContext(kept, Context(i, v))
      fresh == IF new = kept THEN 0 ELSE 1
  IN  /\ cacheMap' = [cacheMap EXCEPT ![p] = [key |-> cacheMap[p].key, cset |-> new]]
      /\ stats' = [dlqno |-> stats.dlqno,
                   qctxno |-> Wrap(stats.qctxno - Removed(old, kept) + fresh)]

\* Cache::insert when it has none.  The map may still refuse the node: then
\* the answer is dropped and nothing is counted.
InsertNode(q, i, v) ==
  \E p \in InsertGaps(q) :
    IF Admits(q, p)
    THEN /\ cacheMap' =
              InsertAt(cacheMap, p, [key |-> q, cset |-> {Context(i, v)}])
         /\ stats' = [dlqno |-> Wrap(stats.dlqno + 1),
                        qctxno |-> Wrap(stats.qctxno + 1)]
    ELSE UNCHANGED <<cacheMap, stats>>

\* The director answers and the answer is inserted and returned.
DirectorAnswers ==
  /\ pending # NoQuery
  /\ LET q == pending.query
         i == pending.inter
         v == oracle[q][i]
     IN  /\ IF pending.node # 0
            THEN InsertIntoNode(q, i, v, pending.node)
            ELSE InsertNode(q, i, v)
         /\ returned' = Oracle!Answered(q, i, v)
         /\ asked' = asked \union {<<q, i>>}
  /\ pending' = NoQuery
  /\ UNCHANGED oracle

\* The director throws a DLError: it passes Cache::insert by.
DirectorThrows ==
  /\ pending # NoQuery
  /\ returned' = Oracle!Failed(pending.query, pending.inter)
  /\ pending' = NoQuery
  /\ UNCHANGED <<cacheMap, asked, stats, oracle>>

Next ==
  \/ \E q \in Queries, i \in Inters : \E p \in Find(q) :
       CacheHit(q, i, p) \/ CacheMiss(q, i, p)
  \/ DirectorAnswers
  \/ DirectorThrows

Spec == Init /\ [][Next]_vars

-----------------------------------------------------------------------------
(* Properties. *)

Contexts == [inter : Inters, value : Values]
Node == [key : Queries, cset : SUBSET Contexts]

\* The state stays within its declared sets: a pending query names the node its
\* search ended at, the counters stay unsigned and below the modulus.
TypeOK ==
  /\ cacheMap \in Seq(Node)
  /\ \/ pending = NoQuery
     \/ /\ pending \in [kind : {"asking"}, query : Queries, inter : Inters,
                        node : 0..Len(cacheMap)]
        /\ pending.node # 0 => cacheMap[pending.node].key = pending.query
  /\ returned \in {Oracle!Nothing}
       \union [kind : {"answer"}, query : Queries, inter : Inters, value : Values]
       \union [kind : {"error"}, query : Queries, inter : Inters]
  /\ asked \subseteq Queries \X Inters
  /\ stats \in [dlqno : 0..(W - 1), qctxno : 0..(W - 1)]
  /\ oracle \in Theories

\* Every context in the cache holds what the reasoner entails for the key of its
\* node.  (Cache::insert stores the context under the node its search found.)
CachedIsEntailed ==
  \A p \in 1..Len(cacheMap) : \A e \in cacheMap[p].cset :
    e.value = oracle[cacheMap[p].key][e.inter]

\* Cache.cpp:189 and 203: of positive answers only minimal interpretations are
\* kept, of negative ones only maximal ones, and no interpretation has two.
Frontier ==
  \A p \in 1..Len(cacheMap) : \A e1, e2 \in cacheMap[p].cset :
    /\ e1.inter = e2.inter => e1 = e2
    /\ isBoolean(cacheMap[p].key) /\ e1.value = e2.value /\ e1 # e2
         => ~(e1.inter \subseteq e2.inter)

Covered(q, i) == \A p \in Find(q) : isValid(q, i, CSetAt(p)) # {}

\* What was answered once is answered from the cache from then on: insertion
\* finds the entry again, and the maintenance only removes what stays derivable
\* from the entries it keeps (TestCache.cpp: insert, then cacheHit).
AnswersStayCached == \A a \in asked : Covered(a[1], a[2])

\* The contexts of all nodes, each at the place of its node.
EntriesOf(nodes) == UNION {{p} \X nodes[p].cset : p \in 1..Len(nodes)}

\* The counters that CacheStats prints are the sizes of the map and of its sets,
\* also after removals, refused insertions and duplicates.
StatsAgree ==
  /\ stats.dlqno = Wrap(Len(cacheMap))
  /\ stats.qctxno = Wrap(Cardinality(EntriesOf(cacheMap)))

\* Whatever path it took through the cache, a query returns what the reasoner
\* entails for it, or the error of its director.
ImplementsOracle == Oracle!Spec
=============================================================================
