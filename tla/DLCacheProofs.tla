---------------------------- MODULE DLCacheProofs ----------------------------
(***************************************************************************)
(* Proofs about DLCache for every set of queries, interpretations and      *)
(* theories: the contexts in the cache are entailed and form a frontier,   *)
(* and the caching director implements DLOracle.                           *)
(***************************************************************************)
EXTENDS DLCache, SequenceTheorems, FiniteSetTheorems, TLAPS

-----------------------------------------------------------------------------
(* The order on dl-queries. *)

\* An output list is a sequence of one or two terms.
LEMMA PatternType ==
  ASSUME NEW s \in Patterns
  PROVE  /\ s \in Seq(Terms) /\ Len(s) \in {1, 2}
         /\ DOMAIN s = 1..Len(s)
         /\ s \in [1..Len(s) -> Terms]
<1>1. CASE s \in [1..1 -> Terms]
  <2>1. s \in Seq(Terms)
    <3>1. \E n \in Nat : s \in [1..n -> Terms]
      BY <1>1
    <3> QED BY <3>1, SeqDef, Zenon
  <2>2. Len(s) = 1
    BY <1>1, <2>1, LenProperties
  <2> QED BY <1>1, <2>1, <2>2
<1>2. CASE s \in [1..2 -> Terms]
  <2>1. s \in Seq(Terms)
    <3>1. \E n \in Nat : s \in [1..n -> Terms]
      BY <1>2
    <3> QED BY <3>1, SeqDef, Zenon
  <2>2. Len(s) = 2
    BY <1>2, <2>1, LenProperties
  <2> QED BY <1>2, <2>1, <2>2
<1> QED BY <1>1, <1>2 DEF Patterns

\* Terms are integers, so that < compares them as the string order does.
LEMMA TermsAreIntegers == Terms \subseteq Int
BY Constants DEF Terms, Var

\* operator< of DLQuery.cpp orders any two different dl-queries one way or the
\* other (or, for converse pairs, both ways): a key that is neither smaller nor
\* larger than the one looked for is that very query.
LEMMA LessSeparates ==
  ASSUME NEW q1 \in DLQuery, NEW q2 \in DLQuery,
         ~Less(q1, q2), ~Less(q2, q1)
  PROVE  q1 = q2
<1>1. q1.ontology = q2.ontology /\ q1.query = q2.query
  <2>1. /\ q1.ontology \in Int /\ q2.ontology \in Int
        /\ q1.query \in Int /\ q2.query \in Int
    BY Constants DEF DLQuery
  <2>2. ~(q1.ontology < q2.ontology) /\ ~(q2.ontology < q1.ontology)
    BY DEF Less
  <2>3. q1.ontology = q2.ontology
    BY <2>1, <2>2
  <2>4. ~(q1.query < q2.query) /\ ~(q2.query < q1.query)
    BY <2>3 DEF Less
  <2> QED BY <2>1, <2>3, <2>4
<1>2. ~QueryLess(q1, q2) /\ ~QueryLess(q2, q1)
  BY <1>1 DEF Less
<1>3. q1.pattern \in Patterns /\ q2.pattern \in Patterns
  BY DEF DLQuery
<1> DEFINE n1 == Len(q1.pattern)
           n2 == Len(q2.pattern)
<1>4. typeFlags(q1) \in Int /\ typeFlags(q2) \in Int
  BY DEF typeFlags
<1>5. /\ n1 \in {1, 2} /\ n2 \in {1, 2}
      /\ DOMAIN q1.pattern = 1..n1 /\ DOMAIN q2.pattern = 1..n2
      /\ \A k \in 1..n1 : q1.pattern[k] \in Int
      /\ \A k \in 1..n2 : q2.pattern[k] \in Int
      /\ q1.pattern = [k \in 1..n1 |-> q1.pattern[k]]
      /\ q2.pattern = [k \in 1..n2 |-> q2.pattern[k]]
  BY <1>3, PatternType, TermsAreIntegers
<1>6. typeFlags(q1) = typeFlags(q2) /\ n1 = n2
  BY <1>2, <1>4, <1>5 DEF QueryLess
<1>7. \A k \in 1..n1 : Ground(q1, k) <=> Ground(q2, k)
  BY <1>5, <1>6 DEF typeFlags
<1>8. \A k \in 1..n1 : q1.pattern[k] = q2.pattern[k]
  <2>1. ~PatternLess(q1, q2) /\ ~PatternLess(q2, q1)
    BY <1>2, <1>6 DEF QueryLess
  <2> QED BY <1>5, <1>6, <1>7, <2>1 DEF PatternLess, Ground
<1>9. q1.pattern = q2.pattern
  BY <1>5, <1>6, <1>8
<1> QED BY <1>1, <1>9 DEF DLQuery

-----------------------------------------------------------------------------
(* The search in the map. *)

\* A search that does not return end() returns a position of that query.
LEMMA FindFindsTheQuery ==
  ASSUME cacheMap \in Seq(Node), NEW q \in Queries, NEW p \in Find(q)
  PROVE  /\ p \in 0..Len(cacheMap)
         /\ p # 0 => cacheMap[p].key = q
<1> DEFINE smaller == {k \in DOMAIN cacheMap : Less(cacheMap[k].key, q)}
<1>1. PICK g \in Gaps(smaller) :
        p = IF g <= Len(cacheMap) /\ ~Less(q, cacheMap[g].key) THEN g ELSE 0
  BY DEF Find
<1>2. /\ g \in 1..(Len(cacheMap) + 1)
      /\ g \notin smaller
  BY DEF Gaps
<1>3. Len(cacheMap) \in Nat /\ DOMAIN cacheMap = 1..Len(cacheMap)
  BY LenProperties
<1>4. CASE g <= Len(cacheMap) /\ ~Less(q, cacheMap[g].key)
  <2>1. p = g /\ g \in 1..Len(cacheMap)
    BY <1>1, <1>2, <1>3, <1>4
  <2>2. cacheMap[g].key \in DLQuery /\ q \in DLQuery
    <3>1. cacheMap[g] \in Node
      BY <2>1, ElementOfSeq
    <3> QED BY <3>1, Constants DEF Node
  <2>3. ~Less(cacheMap[g].key, q)
    BY <1>2, <1>3, <2>1
  <2> QED BY <1>3, <1>4, <2>1, <2>2, <2>3, LessSeparates
<1>5. CASE ~(g <= Len(cacheMap) /\ ~Less(q, cacheMap[g].key))
  BY <1>1, <1>3, <1>5
<1> QED BY <1>4, <1>5

\* A new node goes between two nodes of the map or to one of its ends.
LEMMA InsertGapsAreGaps ==
  ASSUME NEW q, NEW p \in InsertGaps(q)
  PROVE  p \in 1..(Len(cacheMap) + 1)
BY DEF InsertGaps, Gaps

\* t is s with e in front of its position p.
Inserted(t, S, s, p, e) ==
  /\ t \in Seq(S)
  /\ Len(t) = Len(s) + 1
  /\ \A k \in 1..(Len(s) + 1) :
       t[k] = IF k < p THEN s[k] ELSE IF k = p THEN e ELSE s[k - 1]

\* A node inserted into the map shifts the nodes behind it, and no other.
LEMMA InsertAtProperties ==
  ASSUME NEW S, NEW s \in Seq(S), NEW e \in S, NEW p \in 1..(Len(s) + 1)
  PROVE  Inserted(InsertAt(s, p, e), S, s, p, e)
<1> DEFINE a == SubSeq(s, 1, p - 1)
           b == SubSeq(s, p, Len(s))
<1>1. Len(s) \in Nat /\ \A k \in 1..Len(s) : s[k] \in S
  BY LenProperties, ElementOfSeq
<1>2. /\ a \in Seq(S) /\ Len(a) = p - 1
      /\ \A k \in 1..(p - 1) : a[k] = s[k]
  <2>1. /\ a \in Seq(S)
        /\ Len(a) = IF 1 <= p - 1 THEN p - 1 - 1 + 1 ELSE 0
        /\ \A k \in 1..(p - 1 - 1 + 1) : a[k] = s[1 + k - 1]
    <3>1. 1 \in Int /\ p - 1 \in Int /\ \A k \in 1..(p - 1) : s[k] \in S
      BY <1>1
    <3> HIDE DEF a
    <3> QED BY <3>1, SubSeqProperties DEF a
  <2> HIDE DEF a
  <2> QED BY <1>1, <2>1
<1>3. /\ b \in Seq(S) /\ Len(b) = Len(s) - p + 1
      /\ \A k \in 1..(Len(s) - p + 1) : b[k] = s[p + k - 1]
  <2>1. /\ b \in Seq(S)
        /\ Len(b) = IF p <= Len(s) THEN Len(s) - p + 1 ELSE 0
        /\ \A k \in 1..(Len(s) - p + 1) : b[k] = s[p + k - 1]
    <3>1. p \in Int /\ Len(s) \in Int /\ \A k \in p..Len(s) : s[k] \in S
      BY <1>1
    <3> HIDE DEF b
    <3> QED BY <3>1, SubSeqProperties DEF b
  <2> HIDE DEF b
  <2> QED BY <1>1, <2>1
<1> HIDE DEF a, b
<1>4. <<e>> \in Seq(S) /\ Len(<<e>>) = 1 /\ <<e>>[1] = e
  OBVIOUS
<1>5. /\ a \o <<e>> \in Seq(S) /\ Len(a \o <<e>>) = p
      /\ \A k \in 1..p : (a \o <<e>>)[k] = IF k < p THEN s[k] ELSE e
  <2>1. /\ a \o <<e>> \in Seq(S) /\ Len(a \o <<e>>) = Len(a) + Len(<<e>>)
        /\ \A k \in 1..(Len(a) + Len(<<e>>)) :
             (a \o <<e>>)[k] = IF k <= Len(a) THEN a[k] ELSE <<e>>[k - Len(a)]
    BY <1>2, <1>4, ConcatProperties
  <2>2. Len(a) = p - 1 /\ Len(<<e>>) = 1 /\ p - 1 \in Nat
    BY <1>1, <1>2, <1>4
  <2>3. ASSUME NEW k \in 1..p
        PROVE  (a \o <<e>>)[k] = IF k < p THEN s[k] ELSE e
    <3>1. k \in 1..(Len(a) + Len(<<e>>)) /\ (k <= Len(a) <=> k < p)
      BY <1>1, <2>2
    <3>2. (a \o <<e>>)[k] = IF k < p THEN a[k] ELSE <<e>>[k - Len(a)]
      BY <2>1, <3>1, Zenon
    <3>3. CASE k < p
      BY <1>1, <1>2, <3>2, <3>3
    <3>4. CASE ~(k < p)
      <4>1. k - Len(a) = 1
        BY <1>1, <2>2, <3>4
      <4> QED BY <1>4, <3>2, <3>4, <4>1
    <3> QED BY <3>3, <3>4
  <2>4. Len(a) + Len(<<e>>) = p
    BY <1>1, <2>2
  <2> QED BY <2>1, <2>3, <2>4
<1>6. PICK c : c = a \o <<e>>
  OBVIOUS
<1>7. /\ c \in Seq(S) /\ Len(c) = p
      /\ \A k \in 1..p : c[k] = IF k < p THEN s[k] ELSE e
  BY <1>5, <1>6
<1>8. /\ c \o b \in Seq(S) /\ Len(c \o b) = Len(c) + Len(b)
      /\ \A k \in 1..(Len(c) + Len(b)) :
           (c \o b)[k] = IF k <= Len(c) THEN c[k] ELSE b[k - Len(c)]
  BY <1>3, <1>7, ConcatProperties
<1>9. InsertAt(s, p, e) = c \o b
  BY <1>6 DEF InsertAt, a, b
<1>10. \A k \in 1..(Len(s) + 1) :
         (c \o b)[k] = IF k < p THEN s[k] ELSE IF k = p THEN e ELSE s[k - 1]
  <2> TAKE k \in 1..(Len(s) + 1)
  <2>1. Len(c) + Len(b) = Len(s) + 1
    BY <1>1, <1>3, <1>7
  <2>2. CASE k <= p
    BY <1>1, <1>7, <1>8, <2>1, <2>2
  <2>3. CASE k > p
    <3>1. (c \o b)[k] = b[k - p] /\ k - p \in 1..(Len(s) - p + 1)
      BY <1>1, <1>7, <1>8, <2>1, <2>3
    <3>2. b[k - p] = s[p + (k - p) - 1]
      BY <1>3, <3>1
    <3> QED BY <1>1, <2>3, <3>1, <3>2
  <2>4. k <= p \/ k > p
    BY <1>1
  <2> QED BY <2>2, <2>3, <2>4
<1>11. Inserted(c \o b, S, s, p, e)
  BY <1>1, <1>3, <1>7, <1>8, <1>10 DEF Inserted
<1> QED BY <1>9, <1>11, Zenon

-----------------------------------------------------------------------------
(* The inductive invariant. *)

\* Cache::cacheHit and Cache::insert search the same map: between a miss and the
\* insertion of the answer, no context of the node answers the pending query.
PendingUncovered ==
  pending # NoQuery =>
    isValid(pending.query, pending.inter, CSetAt(pending.node)) = {}

CSetsAreFinite == \A p \in 1..Len(cacheMap) : IsFiniteSet(cacheMap[p].cset)

IInv == /\ TypeOK
        /\ CSetsAreFinite
        /\ CachedIsEntailed
        /\ PendingUncovered
        /\ Frontier

\* A counter is unsigned and below its modulus, whatever is added or taken.
LEMMA WrapType == \A n \in Int : Wrap(n) \in 0..(W - 1)
BY Constants DEF Wrap

\* The reasoner answers each query with a value of the query's kind.
LEMMA OracleType ==
  ASSUME TypeOK, NEW q \in Queries, NEW i \in Inters
  PROVE  oracle[q][i] \in Values /\ oracle[q][i] \in ValuesOf(q)
<1>1. Entailment(oracle)
  BY TheoriesAreMonotone DEF TypeOK
<1>2. oracle[q][i] \in ValuesOf(q)
  BY <1>1 DEF Entailment
<1> QED BY <1>2 DEF ValuesOf, Values

\* A node of the map has a query of the program and a set of contexts.
LEMMA MapType ==
  ASSUME TypeOK
  PROVE  /\ cacheMap \in Seq(Node) /\ Len(cacheMap) \in Nat
         /\ DOMAIN cacheMap = 1..Len(cacheMap)
         /\ \A p \in 1..Len(cacheMap) : /\ cacheMap[p] \in Node
                                        /\ cacheMap[p].key \in Queries
                                        /\ cacheMap[p].cset \subseteq Contexts
<1>1. cacheMap \in Seq(Node)
  BY DEF TypeOK
<1>2. \A p \in 1..Len(cacheMap) : cacheMap[p] \in Node
  BY <1>1, ElementOfSeq
<1>3. \A p \in 1..Len(cacheMap) : /\ cacheMap[p].key \in Queries
                                  /\ cacheMap[p].cset \subseteq Contexts
  BY <1>2 DEF Node
<1> QED BY <1>1, <1>2, <1>3, LenProperties

Kept(q, i, v, cset) == cset \ Superfluous(q, i, v, cset)

\* A node of the map that DirectorAnswers leaves: an old one, a new one, or the
\* node of the query with its maintained set of contexts.
NodeAfter(n, q, i, v) ==
  \/ \E p \in 1..Len(cacheMap) : n = cacheMap[p]
  \/ n = [key |-> q, cset |-> {Context(i, v)}]
  \/ \E p \in 1..Len(cacheMap) :
       /\ pending.node = p
       /\ cacheMap[p].key = q
       /\ n = [key |-> q,
               cset |-> AddContext(Kept(q, i, v, cacheMap[p].cset), Context(i, v))]

\* What Cache::insert leaves in the map: the old nodes, one of them maintained
\* and extended, or the old nodes and one more.
LEMMA NodesAfterAnswer ==
  ASSUME TypeOK, DirectorAnswers,
         NEW q, q = pending.query, NEW i, i = pending.inter,
         NEW v, v = oracle[q][i]
  PROVE  /\ q \in Queries /\ i \in Inters /\ v \in ValuesOf(q)
         /\ Context(i, v) \in Contexts
         /\ Len(cacheMap') \in Nat
         /\ \A p \in 1..Len(cacheMap') : NodeAfter(cacheMap'[p], q, i, v)
         /\ \E n : cacheMap' \in Seq(n)
<1>1. /\ q \in Queries /\ i \in Inters /\ pending.node \in 0..Len(cacheMap)
      /\ pending.node # 0 => cacheMap[pending.node].key = q
  BY DEF DirectorAnswers, TypeOK
<1>2. v \in ValuesOf(q) /\ Context(i, v) \in Contexts
  BY <1>1, OracleType DEF Context, Contexts
<1>3. /\ cacheMap \in Seq(Node) /\ Len(cacheMap) \in Nat
      /\ DOMAIN cacheMap = 1..Len(cacheMap)
      /\ \A p \in 1..Len(cacheMap) : cacheMap[p] \in Node
  BY MapType
<1>4. CASE pending.node # 0
  <2> DEFINE p == pending.node
             old == cacheMap[p].cset
             new == AddContext(Kept(q, i, v, old), Context(i, v))
  <2>1. p \in 1..Len(cacheMap) /\ cacheMap[p].key = q
    BY <1>1, <1>3, <1>4
  <2>2. InsertIntoNode(q, i, v, p)
    BY <1>4 DEF DirectorAnswers
  <2>5. cacheMap' = [cacheMap EXCEPT ![p] = [key |-> q, cset |-> new]]
    BY <2>1, <2>2 DEF InsertIntoNode, Kept
  <2>6. cacheMap' = [k \in 1..Len(cacheMap) |->
                       IF k = p THEN [key |-> q, cset |-> new] ELSE cacheMap[k]]
    BY <1>3, <2>1, <2>5
  <2>7. DOMAIN cacheMap' = 1..Len(cacheMap)
    BY <2>6
  <2>8. \A k \in 1..Len(cacheMap) : NodeAfter(cacheMap'[k], q, i, v)
    BY <2>1, <2>6 DEF NodeAfter
  <2>9. cacheMap' \in Seq({cacheMap'[k] : k \in 1..Len(cacheMap)})
    <3>1. cacheMap' \in [1..Len(cacheMap) -> {cacheMap'[k] : k \in 1..Len(cacheMap)}]
      BY <2>6, <2>7
    <3> QED BY <1>3, <3>1, SeqDef
  <2>10. Len(cacheMap') = Len(cacheMap)
    BY <1>3, <2>7, <2>9, LenProperties
  <2> QED BY <1>1, <1>2, <1>3, <2>8, <2>9, <2>10
<1>5. CASE pending.node = 0
  <2> DEFINE e == [key |-> q, cset |-> {Context(i, v)}]
  <2>1. InsertNode(q, i, v)
    BY <1>5 DEF DirectorAnswers
  <2>2. \/ \E p \in InsertGaps(q) : cacheMap' = InsertAt(cacheMap, p, e)
        \/ cacheMap' = cacheMap
    BY <2>1 DEF InsertNode
  <2>3. CASE cacheMap' = cacheMap
    BY <1>1, <1>2, <1>3, <2>3 DEF NodeAfter
  <2>4. CASE \E p \in InsertGaps(q) : cacheMap' = InsertAt(cacheMap, p, e)
    <3>1. PICK p \in InsertGaps(q) : cacheMap' = InsertAt(cacheMap, p, e)
      BY <2>4
    <3>2. p \in 1..(Len(cacheMap) + 1)
      BY InsertGapsAreGaps
    <3>3. e \in Node
      BY <1>1, <1>2 DEF Node
    <3>4. /\ cacheMap' \in Seq(Node) /\ Len(cacheMap') = Len(cacheMap) + 1
          /\ \A k \in 1..(Len(cacheMap) + 1) :
               cacheMap'[k] = IF k < p THEN cacheMap[k]
                              ELSE IF k = p THEN e ELSE cacheMap[k - 1]
      <4> HIDE DEF e
      <4>1. Inserted(InsertAt(cacheMap, p, e), Node, cacheMap, p, e)
        BY <1>3, <3>2, <3>3, InsertAtProperties, Zenon
      <4> QED BY <3>1, <4>1, Zenon DEF Inserted
    <3>5. \A k \in 1..(Len(cacheMap) + 1) : NodeAfter(cacheMap'[k], q, i, v)
      <4> TAKE k \in 1..(Len(cacheMap) + 1)
      <4>1. CASE k = p
        BY <3>2, <3>4, <4>1 DEF NodeAfter
      <4>2. CASE k < p
        <5>1. k \in 1..Len(cacheMap) /\ cacheMap'[k] = cacheMap[k]
          BY <1>3, <3>2, <3>4, <4>2
        <5> QED BY <5>1 DEF NodeAfter
      <4>3. CASE k > p
        <5>1. k - 1 \in 1..Len(cacheMap) /\ cacheMap'[k] = cacheMap[k - 1]
          BY <1>3, <3>2, <3>4, <4>3
        <5> QED BY <5>1 DEF NodeAfter
      <4> QED BY <1>3, <3>2, <4>1, <4>2, <4>3
    <3> QED BY <1>1, <1>2, <1>3, <3>4, <3>5
  <2> QED BY <2>2, <2>3, <2>4
<1> QED BY <1>4, <1>5

\* The counters stay unsigned: the number of removed contexts is finite.
LEMMA StatsAfterAnswer ==
  ASSUME TypeOK, CSetsAreFinite, DirectorAnswers
  PROVE  stats' \in [dlqno : 0..(W - 1), qctxno : 0..(W - 1)]
<1>1. stats.dlqno \in Int /\ stats.qctxno \in Int /\ stats.dlqno \in 0..(W - 1)
  BY Constants DEF TypeOK
<1>2. /\ pending.node \in 0..Len(cacheMap) /\ Len(cacheMap) \in Nat
  BY MapType DEF DirectorAnswers, TypeOK
<1> DEFINE q == pending.query
           i == pending.inter
           v == oracle[q][i]
           p == pending.node
           old == cacheMap[p].cset
           gone == old \ (old \ Superfluous(q, i, v, old))
<1>3. CASE p # 0
  <2>1. p \in 1..Len(cacheMap)
    BY <1>2, <1>3
  <2>2. IsFiniteSet(gone)
    BY <2>1, FS_Difference DEF CSetsAreFinite
  <2>3. Cardinality(gone) \in Nat
    BY <2>2, FS_CardinalityType
  <2>4. PICK fresh \in {0, 1} :
          stats' = [dlqno |-> stats.dlqno,
                    qctxno |-> Wrap(stats.qctxno - Cardinality(gone) + fresh)]
    BY <1>3 DEF DirectorAnswers, InsertIntoNode, Removed
  <2>5. stats.qctxno - Cardinality(gone) + fresh \in Int
    BY <1>1, <2>3
  <2> QED BY <1>1, <2>4, <2>5, WrapType
<1>4. CASE p = 0
  <2>1. InsertNode(q, i, v)
    BY <1>4 DEF DirectorAnswers
  <2>2. \/ stats' = [dlqno |-> Wrap(stats.dlqno + 1),
                     qctxno |-> Wrap(stats.qctxno + 1)]
        \/ stats' = stats
    BY <2>1 DEF InsertNode
  <2>3. /\ Wrap(stats.dlqno + 1) \in 0..(W - 1)
        /\ Wrap(stats.qctxno + 1) \in 0..(W - 1)
    BY <1>1, WrapType
  <2>4. stats \in [dlqno : 0..(W - 1), qctxno : 0..(W - 1)]
    BY DEF TypeOK
  <2> QED BY <2>2, <2>3, <2>4
<1> QED BY <1>3, <1>4

\* After Cache::insert the map is again a sequence of nodes with finite sets.
LEMMA MapAfterAnswer ==
  ASSUME TypeOK, CSetsAreFinite, DirectorAnswers
  PROVE  cacheMap' \in Seq(Node) /\ CSetsAreFinite'
<1> DEFINE q == pending.query
           i == pending.inter
           v == oracle[q][i]
<1>1. /\ q \in Queries /\ Context(i, v) \in Contexts
      /\ Len(cacheMap') \in Nat
      /\ \A p \in 1..Len(cacheMap') : NodeAfter(cacheMap'[p], q, i, v)
      /\ \E n : cacheMap' \in Seq(n)
  BY NodesAfterAnswer
<1>2. \A p \in 1..Len(cacheMap) :
        /\ cacheMap[p] \in Node
        /\ cacheMap[p].cset \subseteq Contexts
        /\ IsFiniteSet(cacheMap[p].cset)
  BY MapType DEF CSetsAreFinite
<1>3. \A cset : cset \subseteq Contexts /\ IsFiniteSet(cset) =>
        LET new == AddContext(Kept(q, i, v, cset), Context(i, v))
        IN  new \subseteq Contexts /\ IsFiniteSet(new)
  <2> TAKE cset
  <2> HAVE cset \subseteq Contexts /\ IsFiniteSet(cset)
  <2>1. IsFiniteSet(Kept(q, i, v, cset)) /\ Kept(q, i, v, cset) \subseteq Contexts
    BY FS_Difference DEF Kept
  <2>2. IsFiniteSet(Kept(q, i, v, cset) \union {Context(i, v)})
    BY <2>1, FS_AddElement
  <2> QED BY <1>1, <2>1, <2>2 DEF AddContext
<1>4. IsFiniteSet({Context(i, v)})
  BY FS_Singleton
<1>5. \A p \in 1..Len(cacheMap') :
        cacheMap'[p] \in Node /\ IsFiniteSet(cacheMap'[p].cset)
  <2> TAKE p \in 1..Len(cacheMap')
  <2> DEFINE n == cacheMap'[p]
  <2>1. CASE \E k \in 1..Len(cacheMap) : n = cacheMap[k]
    BY <1>2, <2>1
  <2>2. CASE n = [key |-> q, cset |-> {Context(i, v)}]
    BY <1>1, <1>4, <2>2 DEF Node
  <2>3. CASE \E k \in 1..Len(cacheMap) :
               n = [key |-> q, cset |-> AddContext(Kept(q, i, v, cacheMap[k].cset),
                                                   Context(i, v))]
    BY <1>1, <1>2, <1>3, <2>3 DEF Node
  <2> QED BY <1>1, <2>1, <2>2, <2>3 DEF NodeAfter
<1>6. cacheMap' \in Seq(Node)
  <2>1. cacheMap' \in [1..Len(cacheMap') -> Node]
    BY <1>1, <1>5, LenProperties
  <2> QED BY <1>1, <2>1, SeqDef
<1> QED BY <1>5, <1>6 DEF CSetsAreFinite

\* Every step of the cache keeps the type invariant.
LEMMA TypeStep ==
  ASSUME TypeOK, CSetsAreFinite, [Next]_vars
  PROVE  TypeOK' /\ CSetsAreFinite'
<1>1. ASSUME NEW q \in Queries, NEW i \in Inters, NEW p \in Find(q),
             CacheHit(q, i, p)
      PROVE  TypeOK' /\ CSetsAreFinite'
  <2>1. p \in 0..Len(cacheMap)
    BY FindFindsTheQuery DEF TypeOK
  <2>2. PICK e \in isValid(q, i, CSetAt(p)) :
          returned' = Oracle!Answered(q, i, e.value)
    BY <1>1 DEF CacheHit
  <2>3. e.value \in Values
    BY <2>1, <2>2, MapType DEF isValid, CSetAt, Contexts
  <2>4. returned' \in [kind : {"answer"}, query : Queries, inter : Inters,
                       value : Values]
    BY <2>2, <2>3 DEF Oracle!Answered
  <2> QED BY <1>1, <2>4 DEF CacheHit, TypeOK, CSetsAreFinite
<1>2. ASSUME NEW q \in Queries, NEW i \in Inters, NEW p \in Find(q),
             CacheMiss(q, i, p)
      PROVE  TypeOK' /\ CSetsAreFinite'
  <2>1. p \in 0..Len(cacheMap) /\ (p # 0 => cacheMap[p].key = q)
    BY FindFindsTheQuery DEF TypeOK
  <2> QED BY <1>2, <2>1 DEF CacheMiss, Asking, TypeOK, CSetsAreFinite
<1>3. CASE DirectorAnswers
  <2>1. cacheMap' \in Seq(Node) /\ CSetsAreFinite'
    BY <1>3, MapAfterAnswer
  <2>2. stats' \in [dlqno : 0..(W - 1), qctxno : 0..(W - 1)]
    BY <1>3, StatsAfterAnswer
  <2>3. pending.query \in Queries /\ pending.inter \in Inters
    BY <1>3 DEF DirectorAnswers, TypeOK
  <2>4. returned' \in [kind : {"answer"}, query : Queries, inter : Inters,
                       value : Values]
    BY <1>3, <2>3, OracleType DEF DirectorAnswers, Oracle!Answered
  <2>5. asked' \subseteq Queries \X Inters
    BY <1>3, <2>3 DEF DirectorAnswers, TypeOK
  <2> QED BY <1>3, <2>1, <2>2, <2>4, <2>5 DEF DirectorAnswers, TypeOK
<1>4. CASE DirectorThrows
  BY <1>4 DEF DirectorThrows, TypeOK, CSetsAreFinite, Oracle!Failed
<1>5. CASE UNCHANGED vars
  BY <1>5 DEF vars, TypeOK, CSetsAreFinite
<1> QED BY <1>1, <1>2, <1>3, <1>4, <1>5 DEF Next

\* One cached context answers one query under one interpretation: what isValid
\* accepts is what the reasoner entails.
LEMMA ValidContextIsEntailed ==
  ASSUME TypeOK, CachedIsEntailed, NEW q \in Queries, NEW i \in Inters,
         NEW p \in Find(q), NEW e \in isValid(q, i, CSetAt(p))
  PROVE  e.value = oracle[q][i]
<1>1. p \in 1..Len(cacheMap) /\ cacheMap[p].key = q /\ e \in cacheMap[p].cset
  BY FindFindsTheQuery DEF TypeOK, CSetAt, isValid
<1>2. e \in Contexts /\ e.inter \in Inters /\ e.value = oracle[q][e.inter]
  BY <1>1, MapType DEF Contexts, CachedIsEntailed
<1>3. oracle[q][e.inter] \in ValuesOf(q) /\ oracle[q][i] \in ValuesOf(q)
  BY <1>2, OracleType
<1>4. Entailment(oracle)
  BY TheoriesAreMonotone DEF TypeOK
<1>5. CASE isBoolean(q) /\ e.value = "T" /\ e.inter \subseteq i
  BY <1>2, <1>4, <1>5 DEF Entailment
<1>6. CASE isBoolean(q) /\ e.value # "T" /\ i \subseteq e.inter
  <2>1. oracle[q][i] # "T"
    BY <1>2, <1>4, <1>6 DEF Entailment
  <2> QED BY <1>2, <1>3, <1>6, <2>1 DEF ValuesOf
<1>7. CASE ~isBoolean(q) /\ e.inter = i
  BY <1>2, <1>7
<1> QED BY <1>5, <1>6, <1>7 DEF isValid

\* Every step keeps the cached contexts entailed: an answer is stored under the
\* query it answers.
LEMMA EntailedStep ==
  ASSUME TypeOK, CachedIsEntailed, [Next]_vars
  PROVE  CachedIsEntailed'
<1>1. CASE DirectorAnswers
  <2> DEFINE q == pending.query
             i == pending.inter
             v == oracle[q][i]
  <2>1. \A p \in 1..Len(cacheMap') : NodeAfter(cacheMap'[p], q, i, v)
    BY <1>1, NodesAfterAnswer
  <2>2. oracle' = oracle
    BY <1>1 DEF DirectorAnswers
  <2>3. Context(i, v).value = oracle[q][Context(i, v).inter]
    BY DEF Context
  <2>4. ASSUME NEW p \in 1..Len(cacheMap'), NEW e \in cacheMap'[p].cset
        PROVE  e.value = oracle[cacheMap'[p].key][e.inter]
    <3> DEFINE n == cacheMap'[p]
    <3>1. CASE \E k \in 1..Len(cacheMap) : n = cacheMap[k]
      BY <2>4, <3>1 DEF CachedIsEntailed
    <3>2. CASE n = [key |-> q, cset |-> {Context(i, v)}]
      BY <2>3, <2>4, <3>2
    <3>3. CASE \E k \in 1..Len(cacheMap) :
                 /\ cacheMap[k].key = q
                 /\ n = [key |-> q,
                         cset |-> AddContext(Kept(q, i, v, cacheMap[k].cset),
                                             Context(i, v))]
      <4>1. PICK k \in 1..Len(cacheMap) :
              /\ cacheMap[k].key = q
              /\ n = [key |-> q,
                      cset |-> AddContext(Kept(q, i, v, cacheMap[k].cset),
                                          Context(i, v))]
        BY <3>3
      <4>2. e \in cacheMap[k].cset \/ e = Context(i, v)
        BY <2>4, <4>1 DEF AddContext, Kept
      <4> QED BY <2>3, <4>1, <4>2 DEF CachedIsEntailed
    <3> QED BY <2>1, <3>1, <3>2, <3>3 DEF NodeAfter
  <2> QED BY <2>2, <2>4 DEF CachedIsEntailed
<1>2. ASSUME NEW q \in Queries, NEW i \in Inters, NEW p \in Find(q),
             CacheHit(q, i, p) \/ CacheMiss(q, i, p)
      PROVE  CachedIsEntailed'
  BY <1>2 DEF CacheHit, CacheMiss, CachedIsEntailed
<1>3. CASE DirectorThrows
  BY <1>3 DEF DirectorThrows, CachedIsEntailed
<1>4. CASE UNCHANGED vars
  BY <1>4 DEF vars, CachedIsEntailed
<1> QED BY <1>1, <1>2, <1>3, <1>4 DEF Next

\* While a query is pending no context of its node answers it.
LEMMA UncoveredStep ==
  ASSUME PendingUncovered, [Next]_vars
  PROVE  PendingUncovered'
<1>1. ASSUME NEW q \in Queries, NEW i \in Inters, NEW p \in Find(q),
             CacheHit(q, i, p)
      PROVE  PendingUncovered'
  BY <1>1 DEF CacheHit, PendingUncovered
<1>2. ASSUME NEW q \in Queries, NEW i \in Inters, NEW p \in Find(q),
             CacheMiss(q, i, p)
      PROVE  PendingUncovered'
  <2>1. /\ pending' = Asking(q, i, p) /\ cacheMap' = cacheMap
        /\ isValid(q, i, CSetAt(p)) = {}
    BY <1>2 DEF CacheMiss
  <2>2. pending'.query = q /\ pending'.inter = i /\ pending'.node = p
    BY <2>1 DEF Asking
  <2>3. CSetAt(p)' = CSetAt(p)
    BY <2>1 DEF CSetAt
  <2> QED BY <2>1, <2>2, <2>3 DEF PendingUncovered, CSetAt
<1>3. CASE DirectorAnswers \/ DirectorThrows
  BY <1>3 DEF DirectorAnswers, DirectorThrows, PendingUncovered
<1>4. CASE UNCHANGED vars
  BY <1>4 DEF vars, PendingUncovered, CSetAt
<1> QED BY <1>1, <1>2, <1>3, <1>4 DEF Next

\* A set of contexts is a frontier for q.
FrontierOf(q, cset) ==
  \A e1, e2 \in cset :
    /\ e1.inter = e2.inter => e1 = e2
    /\ isBoolean(q) /\ e1.value = e2.value /\ e1 # e2
         => ~(e1.inter \subseteq e2.inter)

\* The maintenance keeps a frontier when the new context was not answered by it.
LEMMA MaintenanceKeepsFrontier ==
  ASSUME NEW q \in Queries, NEW i, NEW v \in ValuesOf(q), NEW cset,
         FrontierOf(q, cset), isValid(q, i, cset) = {},
         \A e \in cset : e.value \in ValuesOf(q)
  PROVE  FrontierOf(q, AddContext(Kept(q, i, v, cset), Context(i, v)))
<1> DEFINE kept == Kept(q, i, v, cset)
           c == Context(i, v)
<1>1. c.inter = i /\ c.value = v
  BY DEF Context
<1>2. CASE \E e \in kept : e.inter = c.inter
  <2>1. AddContext(kept, c) = kept
    BY <1>2 DEF AddContext
  <2>2. kept \subseteq cset
    BY DEF Kept
  <2> QED BY <2>1, <2>2 DEF FrontierOf
<1>3. CASE ~\E e \in kept : e.inter = c.inter
  <2>1. AddContext(kept, c) = kept \union {c}
    BY <1>3 DEF AddContext
  <2>2. ASSUME NEW e \in kept, isBoolean(q), e.value = v
        PROVE  ~(e.inter \subseteq i) /\ ~(i \subseteq e.inter)
    <3>1. e \in cset /\ e \notin Superfluous(q, i, v, cset) /\ e.inter # i
      BY <1>1, <1>3 DEF Kept
    <3>2. e \notin isValid(q, i, cset)
      BY <3>1
    <3>3. CASE v = "T"
      <4>1. ~(e.inter \subseteq i)
        BY <2>2, <3>1, <3>2, <3>3 DEF isValid
      <4>2. ~(i \subseteq e.inter)
        BY <2>2, <3>1, <3>3 DEF Superfluous
      <4> QED BY <4>1, <4>2
    <3>4. CASE v # "T"
      <4>1. ~(i \subseteq e.inter)
        BY <2>2, <3>1, <3>2, <3>4 DEF isValid
      <4>2. ~(e.inter \subseteq i)
        BY <2>2, <3>1, <3>4 DEF Superfluous
      <4> QED BY <4>1, <4>2
    <3> QED BY <3>3, <3>4
  <2>3. ASSUME NEW e1 \in kept \union {c}, NEW e2 \in kept \union {c}
        PROVE  /\ e1.inter = e2.inter => e1 = e2
               /\ isBoolean(q) /\ e1.value = e2.value /\ e1 # e2
                    => ~(e1.inter \subseteq e2.inter)
    <3>1. CASE e1 \in kept /\ e2 \in kept
      BY <3>1 DEF FrontierOf, Kept
    <3>2. CASE e1 \in kept /\ e2 = c
      BY <1>1, <1>3, <2>2, <3>2
    <3>3. CASE e1 = c /\ e2 \in kept
      BY <1>1, <1>3, <2>2, <3>3
    <3> QED BY <2>3, <3>1, <3>2, <3>3
  <2> QED BY <2>1, <2>3 DEF FrontierOf
<1> QED BY <1>2, <1>3

\* Every step keeps the contexts of each node a frontier.
LEMMA FrontierStep ==
  ASSUME TypeOK, CachedIsEntailed, PendingUncovered, Frontier, [Next]_vars
  PROVE  Frontier'
<1>1. CASE DirectorAnswers
  <2> DEFINE q == pending.query
             i == pending.inter
             v == oracle[q][i]
  <2>1. /\ q \in Queries /\ i \in Inters /\ v \in ValuesOf(q)
        /\ \A p \in 1..Len(cacheMap') : NodeAfter(cacheMap'[p], q, i, v)
    BY <1>1, NodesAfterAnswer
  <2>2. isValid(q, i, CSetAt(pending.node)) = {}
    BY <1>1 DEF DirectorAnswers, PendingUncovered
  <2>3. \A k \in 1..Len(cacheMap) : FrontierOf(cacheMap[k].key, cacheMap[k].cset)
    BY DEF Frontier, FrontierOf
  <2>4. ASSUME NEW p \in 1..Len(cacheMap')
        PROVE  FrontierOf(cacheMap'[p].key, cacheMap'[p].cset)
    <3> DEFINE n == cacheMap'[p]
    <3>1. CASE \E k \in 1..Len(cacheMap) : n = cacheMap[k]
      BY <2>3, <3>1
    <3>2. CASE n = [key |-> q, cset |-> {Context(i, v)}]
      BY <3>2 DEF FrontierOf
    <3>3. ASSUME NEW k \in 1..Len(cacheMap), pending.node = k,
                 cacheMap[k].key = q,
                 n = [key |-> q,
                      cset |-> AddContext(Kept(q, i, v, cacheMap[k].cset),
                                          Context(i, v))]
          PROVE  FrontierOf(n.key, n.cset)
      <4>1. CSetAt(pending.node) = cacheMap[k].cset
        BY <3>3, MapType DEF CSetAt
      <4>2. \A e \in cacheMap[k].cset : e.value \in ValuesOf(q)
        BY <2>1, <3>3, MapType, OracleType DEF CachedIsEntailed, Contexts
      <4> QED BY <2>1, <2>2, <2>3, <3>3, <4>1, <4>2, MaintenanceKeepsFrontier
    <3> QED BY <2>1, <3>1, <3>2, <3>3 DEF NodeAfter
  <2> QED BY <2>4 DEF Frontier, FrontierOf
<1>2. ASSUME NEW q \in Queries, NEW i \in Inters, NEW p \in Find(q),
             CacheHit(q, i, p) \/ CacheMiss(q, i, p)
      PROVE  Frontier'
  BY <1>2 DEF CacheHit, CacheMiss, Frontier
<1>3. CASE DirectorThrows
  BY <1>3 DEF DirectorThrows, Frontier
<1>4. CASE UNCHANGED vars
  BY <1>4 DEF vars, Frontier
<1> QED BY <1>1, <1>2, <1>3, <1>4 DEF Next

-----------------------------------------------------------------------------
(* The counters of CacheStats. *)

\* Every counter has one representation: quotient and remainder are unique.
LEMMA RemainderIsUnique ==
  ASSUME NEW s \in 0..(W - 1), NEW t \in 0..(W - 1), NEW u \in Int, NEW v \in Int,
         W * u + s = W * v + t
  PROVE  s = t
<1>1. W * (u - v) = t - s
  BY Constants
<1>2. CASE u - v >= 1
  <2>1. W * (u - v) >= W
    BY <1>2, Constants
  <2> QED BY <1>1, <2>1, Constants
<1>3. CASE u - v <= -1
  <2>1. W * (u - v) <= -W
    BY <1>3, Constants
  <2> QED BY <1>1, <2>1, Constants
<1>4. CASE u = v
  BY <1>1, <1>4, Constants
<1> QED BY <1>2, <1>3, <1>4

\* An integer is the value its counter shows and a multiple of the modulus.
LEMMA WrapDivides ==
  ASSUME NEW n \in Int
  PROVE  Wrap(n) \in 0..(W - 1) /\ \E k \in Int : n = W * k + Wrap(n)
<1>1. n % W \in 0..(W - 1)
  BY Constants
<1>2. n \div W \in Int
  BY Constants
<1>3. n = W * (n \div W) + (n % W)
  BY Constants
<1> QED BY <1>1, <1>2, <1>3 DEF Wrap

\* A counter that wrapped before shows the same after further additions as one
\* that wraps only then.
LEMMA WrapAbsorbs ==
  ASSUME NEW a \in Int, NEW d \in Int
  PROVE  Wrap(Wrap(a) + d) = Wrap(a + d)
<1> DEFINE r == Wrap(a) + d
<1>1. Wrap(a) \in Int /\ r \in Int /\ a + d \in Int
  BY WrapDivides, Constants
<1>2. PICK k \in Int : a = W * k + Wrap(a)
  BY WrapDivides
<1>3. PICK m \in Int : r = W * m + Wrap(r)
  BY <1>1, WrapDivides
<1>4. PICK l \in Int : a + d = W * l + Wrap(a + d)
  BY <1>1, WrapDivides
<1>5. a + d = W * k + r
  BY <1>1, <1>2, Constants
<1>6. Wrap(r) \in 0..(W - 1) /\ Wrap(a + d) \in 0..(W - 1)
  BY <1>1, WrapDivides
<1> HIDE DEF r
<1>7. a + d = W * (k + m) + Wrap(r)
  <2>1. W * (k + m) = W * k + W * m /\ W * k \in Int /\ W * m \in Int
    BY Constants
  <2> QED BY <1>1, <1>3, <1>5, <1>6, <2>1, Constants
<1>8. k + m \in Int
  OBVIOUS
<1>9. W * (k + m) + Wrap(r) = W * l + Wrap(a + d)
  BY <1>4, <1>7
<1>10. Wrap(r) = Wrap(a + d)
  BY <1>6, <1>8, <1>9, RemainderIsUnique
<1> QED BY <1>10 DEF r

\* An entry is a context at the place of its node.
LEMMA EntryOf ==
  ASSUME NEW m, NEW x
  PROVE  x \in EntriesOf(m) <=> \E p \in 1..Len(m) : \E e \in m[p].cset : x = <<p, e>>
<1>1. x \in EntriesOf(m) <=> \E p \in 1..Len(m) : x \in {p} \X m[p].cset
  BY DEF EntriesOf
<1>2. \A p : x \in {p} \X m[p].cset <=> \E e \in m[p].cset : x = <<p, e>>
  OBVIOUS
<1> QED BY <1>1, <1>2

\* Maintenance and insertion in one node change the number of entries by what they
\* remove from its set and what they add to it.
LEMMA EntriesOfMaintained ==
  ASSUME NEW m, NEW t, NEW p \in 1..Len(m), NEW kept, NEW c,
         IsFiniteSet(EntriesOf(m)), IsFiniteSet(m[p].cset),
         Len(t) = Len(m),
         \A k \in 1..Len(m) : k # p => t[k].cset = m[k].cset,
         kept \subseteq m[p].cset,
         t[p].cset = AddContext(kept, c)
  PROVE  /\ IsFiniteSet(EntriesOf(t))
         /\ Cardinality(EntriesOf(t)) =
              Cardinality(EntriesOf(m)) - Cardinality(m[p].cset \ kept)
                + IF t[p].cset = kept THEN 0 ELSE 1
<1> DEFINE gone == m[p].cset \ kept
           removed == {p} \X gone
           rest == EntriesOf(m) \ removed
<1>1. IsFiniteSet(gone) /\ Cardinality(gone) \in Nat
  BY FS_Difference, FS_CardinalityType
<1>2. IsFiniteSet({p}) /\ Cardinality({p}) = 1
  BY FS_Singleton
<1>3. IsFiniteSet(removed) /\ Cardinality(removed) = Cardinality(gone)
  <2> HIDE DEF gone
  <2>1. Cardinality(removed) = 1 * Cardinality(gone) /\ IsFiniteSet(removed)
    BY <1>1, <1>2, FS_Product
  <2> QED BY <1>1, <2>1
<1>4. removed \subseteq EntriesOf(m)
  <2>1. \A x \in removed : \E e \in m[p].cset : x = <<p, e>>
    OBVIOUS
  <2> QED BY <2>1, EntryOf
<1>5. IsFiniteSet(rest) /\ Cardinality(rest) = Cardinality(EntriesOf(m)) - Cardinality(gone)
  <2> HIDE DEF removed
  <2>1. EntriesOf(m) \cap removed = removed
    BY <1>4
  <2>2. /\ IsFiniteSet(rest)
        /\ Cardinality(rest) =
             Cardinality(EntriesOf(m)) - Cardinality(EntriesOf(m) \cap removed)
    BY FS_Difference
  <2> HIDE DEF rest, gone
  <2> QED BY <1>3, <2>1, <2>2
<1>6. \A x : x \in rest <=>
        \E k \in 1..Len(m) : \E e \in (IF k = p THEN kept ELSE m[k].cset) : x = <<k, e>>
  <2> TAKE x
  <2>1. x \in removed <=> \E e \in gone : x = <<p, e>>
    OBVIOUS
  <2>2. x \in EntriesOf(m) <=> \E k \in 1..Len(m) : \E e \in m[k].cset : x = <<k, e>>
    BY EntryOf
  <2> HIDE DEF removed
  <2>3. ASSUME x \in rest
        PROVE  \E k \in 1..Len(m) : \E e \in (IF k = p THEN kept ELSE m[k].cset) : x = <<k, e>>
    BY <2>1, <2>2, <2>3
  <2>4. ASSUME NEW k \in 1..Len(m), NEW e \in (IF k = p THEN kept ELSE m[k].cset), x = <<k, e>>
        PROVE  x \in rest
    <3>1. e \in m[k].cset
      BY <2>4
    <3>2. x \in EntriesOf(m)
      BY <2>2, <2>4, <3>1
    <3>3. ASSUME NEW g \in gone, x = <<p, g>> PROVE FALSE
      BY <2>4, <3>3
    <3> QED BY <2>1, <3>2, <3>3
  <2> QED BY <2>3, <2>4
<1>7. CASE t[p].cset = kept
  <2>1. \A x : x \in EntriesOf(t) <=> x \in rest
    <3> HIDE DEF rest
    <3> QED BY <1>6, <1>7, EntryOf
  <2>2. EntriesOf(t) = rest
    BY <2>1
  <2> HIDE DEF rest
  <2>3. Cardinality(EntriesOf(m)) \in Nat
    BY FS_CardinalityType
  <2> QED BY <1>1, <1>5, <1>7, <2>2, <2>3
<1>8. CASE t[p].cset # kept
  <2>1. t[p].cset = kept \union {c} /\ c \notin kept
    BY <1>8 DEF AddContext
  <2>2. \A x : x \in EntriesOf(t) <=> x \in rest \/ x = <<p, c>>
    <3> HIDE DEF rest
    <3> TAKE x
    <3>1. x \in EntriesOf(t) <=> \E k \in 1..Len(m) : \E e \in t[k].cset : x = <<k, e>>
      BY EntryOf
    <3> QED BY <1>6, <2>1, <3>1
  <2>3. EntriesOf(t) = rest \union {<<p, c>>}
    BY <2>2
  <2>4. <<p, c>> \notin rest
    <3> HIDE DEF rest
    <3> QED BY <1>6, <2>1
  <2> HIDE DEF rest
  <2>5. Cardinality(rest \union {<<p, c>>}) = Cardinality(rest) + 1
        /\ IsFiniteSet(rest \union {<<p, c>>})
    BY <1>5, <2>4, FS_AddElement
  <2>6. Cardinality(EntriesOf(m)) \in Nat
    BY FS_CardinalityType
  <2> QED BY <1>1, <1>5, <1>8, <2>3, <2>5, <2>6
<1> QED BY <1>7, <1>8

\* A new node adds its one context, and moves the entries behind it.
LEMMA EntriesOfInserted ==
  ASSUME NEW m \in Seq(Node), NEW t, NEW p \in 1..(Len(m) + 1), NEW n, NEW c,
         Inserted(t, Node, m, p, n), n.cset = {c},
         IsFiniteSet(EntriesOf(m))
  PROVE  /\ IsFiniteSet(EntriesOf(t))
         /\ Cardinality(EntriesOf(t)) = Cardinality(EntriesOf(m)) + 1
<1> DEFINE place(k) == IF k < p THEN k ELSE k + 1
           new == <<p, c>>
           moved == EntriesOf(t) \ {new}
           f == [x \in EntriesOf(m) |-> <<place(x[1]), x[2]>>]
<1>1. Len(m) \in Nat
  BY LenProperties
<1>2. /\ Len(t) = Len(m) + 1 /\ t[p].cset = {c}
      /\ \A k \in 1..Len(m) : t[place(k)] = m[k]
      /\ \A k \in 1..Len(m) : place(k) \in 1..Len(t) /\ place(k) # p
  BY <1>1 DEF Inserted
<1>3. \A k \in 1..Len(t) : k # p => \E l \in 1..Len(m) : place(l) = k
  <2> TAKE k \in 1..Len(t)
  <2> HAVE k # p
  <2>1. CASE k < p
    <3>1. k \in 1..Len(m) /\ place(k) = k
      BY <1>1, <1>2, <2>1
    <3> QED BY <3>1
  <2>2. CASE k > p
    <3>1. k - 1 \in 1..Len(m) /\ place(k - 1) = k
      BY <1>1, <1>2, <2>2
    <3> QED BY <3>1
  <2> QED BY <1>1, <1>2, <2>1, <2>2
<1>4. \A k, l \in 1..Len(m) : place(k) = place(l) => k = l
  BY <1>1
<1> HIDE DEF place
<1>5. \A x \in EntriesOf(m) : f[x] \in moved
  <2> TAKE x \in EntriesOf(m)
  <2>1. PICK k \in 1..Len(m) : \E e \in m[k].cset : x = <<k, e>>
    BY EntryOf
  <2>2. PICK e \in m[k].cset : x = <<k, e>>
    BY <2>1
  <2>3. f[x] = <<place(k), e>> /\ place(k) \in 1..Len(t) /\ e \in t[place(k)].cset
    BY <1>2, <2>2
  <2>4. f[x] \in EntriesOf(t)
    BY <2>3, EntryOf
  <2>5. f[x] # new
    BY <1>2, <2>3
  <2> QED BY <2>4, <2>5
<1>6. \A y \in moved : \E x \in EntriesOf(m) : f[x] = y
  <2> TAKE y \in moved
  <2>1. PICK k \in 1..Len(t) : \E e \in t[k].cset : y = <<k, e>>
    BY EntryOf
  <2>2. PICK e \in t[k].cset : y = <<k, e>>
    BY <2>1
  <2>3. k # p
    BY <1>2, <2>2
  <2>4. PICK l \in 1..Len(m) : place(l) = k
    BY <1>3, <2>3
  <2>5. e \in m[l].cset
    BY <1>2, <2>2, <2>4
  <2>6. <<l, e>> \in EntriesOf(m)
    BY <2>5, EntryOf
  <2>7. f[<<l, e>>] = y
    BY <2>2, <2>4, <2>6
  <2> QED BY <2>6, <2>7
<1>7. \A x, y \in EntriesOf(m) : f[x] = f[y] => x = y
  <2> TAKE x, y \in EntriesOf(m)
  <2> HAVE f[x] = f[y]
  <2>1. PICK k \in 1..Len(m) : \E e \in m[k].cset : x = <<k, e>>
    BY EntryOf
  <2>2. PICK l \in 1..Len(m) : \E d \in m[l].cset : y = <<l, d>>
    BY EntryOf
  <2>3. PICK e \in m[k].cset : x = <<k, e>>
    BY <2>1
  <2>4. PICK d \in m[l].cset : y = <<l, d>>
    BY <2>2
  <2>5. f[x] = <<place(k), e>> /\ f[y] = <<place(l), d>>
    BY <2>3, <2>4
  <2>6. place(k) = place(l) /\ e = d
    BY <2>5
  <2> QED BY <1>4, <2>3, <2>4, <2>6
<1>8. ExistsBijection(EntriesOf(m), moved)
  <2>1. f \in [EntriesOf(m) -> moved]
    BY <1>5
  <2> HIDE DEF f, moved
  <2>2. f \in Bijection(EntriesOf(m), moved)
    BY <1>6, <1>7, <2>1 DEF Bijection, Injection, Surjection, IsInjective
  <2> QED BY <2>2 DEF ExistsBijection
<1>9. new \in EntriesOf(t)
  BY <1>1, <1>2, EntryOf
<1>10. EntriesOf(t) = moved \union {new} /\ new \notin moved
  BY <1>9
<1> HIDE DEF moved, new, f
<1>11. IsFiniteSet(moved) /\ Cardinality(moved) = Cardinality(EntriesOf(m))
  BY <1>8, FS_Bijection
<1>12. /\ IsFiniteSet(moved \union {new})
       /\ Cardinality(moved \union {new}) = Cardinality(moved) + 1
  BY <1>10, <1>11, FS_AddElement
<1> QED BY <1>10, <1>11, <1>12

\* The counters agree and what they count is finite.
StatsInv == StatsAgree /\ IsFiniteSet(EntriesOf(cacheMap))

\* Every step keeps the counters equal to the sizes: Cache::insert counts what it
\* removes, what it adds, and neither a duplicate nor a refused node.
LEMMA StatsStep ==
  ASSUME TypeOK, CSetsAreFinite, StatsInv, [Next]_vars
  PROVE  StatsInv'
<1>1. /\ cacheMap \in Seq(Node) /\ Len(cacheMap) \in Nat
      /\ DOMAIN cacheMap = 1..Len(cacheMap)
      /\ \A p \in 1..Len(cacheMap) : cacheMap[p] \in Node
  BY MapType
<1>2. /\ stats.dlqno = Wrap(Len(cacheMap))
      /\ stats.qctxno = Wrap(Cardinality(EntriesOf(cacheMap)))
      /\ IsFiniteSet(EntriesOf(cacheMap))
      /\ Cardinality(EntriesOf(cacheMap)) \in Nat
  BY FS_CardinalityType DEF StatsInv, StatsAgree
<1>3. CASE DirectorAnswers
  <2> DEFINE q == pending.query
             i == pending.inter
             v == oracle[q][i]
             p == pending.node
  <2>1. /\ p \in 0..Len(cacheMap) /\ q \in Queries /\ i \in Inters
        /\ Context(i, v) \in Contexts
    <3>1. pending # NoQuery
      BY <1>3 DEF DirectorAnswers
    <3>2. p \in 0..Len(cacheMap) /\ q \in Queries /\ i \in Inters
      BY <3>1 DEF TypeOK
    <3>3. v \in Values
      BY <3>2, OracleType
    <3> QED BY <3>2, <3>3 DEF Context, Contexts
  <2>2. CASE p # 0
    <3> DEFINE old == cacheMap[p].cset
               kept == old \ Superfluous(q, i, v, old)
               new == AddContext(kept, Context(i, v))
    <3>1. p \in 1..Len(cacheMap)
      BY <2>1, <2>2
    <3>2. InsertIntoNode(q, i, v, p)
      BY <1>3, <2>2 DEF DirectorAnswers
    <3>3. /\ cacheMap' = [cacheMap EXCEPT ![p] = [key |-> cacheMap[p].key, cset |-> new]]
          /\ stats' = [dlqno |-> stats.dlqno,
                       qctxno |-> Wrap(stats.qctxno - Cardinality(old \ kept)
                                         + IF new = kept THEN 0 ELSE 1)]
      BY <3>2 DEF InsertIntoNode, Removed
    <3>4. new = AddContext(kept, Context(i, v))
      OBVIOUS
    <3>5. kept \subseteq old /\ IsFiniteSet(old)
      BY <3>1 DEF CSetsAreFinite
    <3> HIDE DEF new, kept
    <3>6. /\ Len(cacheMap') = Len(cacheMap)
          /\ cacheMap'[p].cset = new
          /\ \A k \in 1..Len(cacheMap) : k # p => cacheMap'[k].cset = cacheMap[k].cset
      BY <1>1, <3>1, <3>3
    <3>7. /\ IsFiniteSet(EntriesOf(cacheMap'))
          /\ Cardinality(EntriesOf(cacheMap')) =
               Cardinality(EntriesOf(cacheMap)) - Cardinality(old \ kept)
                 + IF new = kept THEN 0 ELSE 1
      <4>1. PICK m, t, k, c, d :
              m = cacheMap /\ t = cacheMap' /\ k = kept /\ c = Context(i, v) /\ d = p
        OBVIOUS
      <4>2. /\ d \in 1..Len(m) /\ Len(t) = Len(m)
            /\ IsFiniteSet(EntriesOf(m)) /\ IsFiniteSet(m[d].cset)
            /\ \A l \in 1..Len(m) : l # d => t[l].cset = m[l].cset
            /\ k \subseteq m[d].cset
            /\ t[d].cset = AddContext(k, c)
        BY <1>2, <3>1, <3>4, <3>5, <3>6, <4>1
      <4>3. /\ IsFiniteSet(EntriesOf(t))
            /\ Cardinality(EntriesOf(t)) =
                 Cardinality(EntriesOf(m)) - Cardinality(m[d].cset \ k)
                   + IF t[d].cset = k THEN 0 ELSE 1
        BY ONLY <4>2, EntriesOfMaintained
      <4> QED BY <3>6, <4>1, <4>3
    <3>8. Cardinality(old \ kept) \in Nat
      BY <3>5, FS_Difference, FS_CardinalityType
    <3>9. PICK d \in Int : d = (IF new = kept THEN 0 ELSE 1) - Cardinality(old \ kept)
      BY <3>8
    <3>10. /\ stats'.qctxno = Wrap(Wrap(Cardinality(EntriesOf(cacheMap))) + d)
           /\ Cardinality(EntriesOf(cacheMap')) = Cardinality(EntriesOf(cacheMap)) + d
      <4>1. stats.qctxno \in Int
        BY <1>2, WrapDivides, Constants
      <4>2. /\ stats.qctxno - Cardinality(old \ kept) + (IF new = kept THEN 0 ELSE 1)
                 = stats.qctxno + d
            /\ Cardinality(EntriesOf(cacheMap')) = Cardinality(EntriesOf(cacheMap)) + d
        BY <1>2, <3>7, <3>8, <3>9, <4>1
      <4>3. stats'.qctxno = Wrap(stats.qctxno + d)
        BY <3>3, <4>2
      <4> QED BY <1>2, <4>2, <4>3
    <3>11. stats'.qctxno = Wrap(Cardinality(EntriesOf(cacheMap')))
      BY <1>2, <3>10, WrapAbsorbs
    <3>12. stats'.dlqno = Wrap(Len(cacheMap'))
      BY <1>2, <3>3, <3>6
    <3> QED BY <3>7, <3>11, <3>12 DEF StatsInv, StatsAgree
  <2>3. CASE p = 0
    <3> DEFINE e == [key |-> q, cset |-> {Context(i, v)}]
    <3>1. InsertNode(q, i, v)
      BY <1>3, <2>3 DEF DirectorAnswers
    <3>2. CASE UNCHANGED <<cacheMap, stats>>
      BY <3>2 DEF StatsInv, StatsAgree
    <3>3. ASSUME NEW g \in InsertGaps(q), cacheMap' = InsertAt(cacheMap, g, e),
                 stats' = [dlqno |-> Wrap(stats.dlqno + 1),
                           qctxno |-> Wrap(stats.qctxno + 1)]
          PROVE  StatsInv'
      <4>1. g \in 1..(Len(cacheMap) + 1)
        BY <3>3, InsertGapsAreGaps
      <4>2. e \in Node /\ e.cset = {Context(i, v)}
        BY <2>1 DEF Node
      <4> HIDE DEF e
      <4>3. Inserted(cacheMap', Node, cacheMap, g, e)
        BY <1>1, <3>3, <4>1, <4>2, InsertAtProperties
      <4>4. /\ IsFiniteSet(EntriesOf(cacheMap'))
            /\ Cardinality(EntriesOf(cacheMap')) = Cardinality(EntriesOf(cacheMap)) + 1
        BY <1>1, <1>2, <4>1, <4>2, <4>3, EntriesOfInserted
      <4>5. Len(cacheMap') = Len(cacheMap) + 1
        BY <4>3 DEF Inserted
      <4>6. /\ Wrap(Wrap(Len(cacheMap)) + 1) = Wrap(Len(cacheMap'))
            /\ Wrap(Wrap(Cardinality(EntriesOf(cacheMap))) + 1)
                 = Wrap(Cardinality(EntriesOf(cacheMap')))
        BY <1>1, <1>2, <4>4, <4>5, WrapAbsorbs
      <4> QED BY <1>2, <3>3, <4>4, <4>6 DEF StatsInv, StatsAgree
    <3> QED BY <3>1, <3>2, <3>3 DEF InsertNode
  <2> QED BY <2>2, <2>3
<1>4. ASSUME NEW q \in Queries, NEW i \in Inters, NEW p \in Find(q),
             CacheHit(q, i, p) \/ CacheMiss(q, i, p)
      PROVE  StatsInv'
  BY <1>4 DEF CacheHit, CacheMiss, StatsInv, StatsAgree
<1>5. CASE DirectorThrows
  BY <1>5 DEF DirectorThrows, StatsInv, StatsAgree
<1>6. CASE UNCHANGED vars
  BY <1>6 DEF vars, StatsInv, StatsAgree
<1> QED BY <1>3, <1>4, <1>5, <1>6 DEF Next

-----------------------------------------------------------------------------
(* The theorems. *)

\* The invariant the others follow from is inductive: types, finite sets of
\* contexts, entailed contexts, an uncovered pending query and frontiers.
THEOREM InvariantHolds == Spec => []IInv
<1>1. Init => IInv
  <2> SUFFICES ASSUME Init PROVE IInv
    OBVIOUS
  <2>1. cacheMap = <<>> /\ Len(cacheMap) = 0 /\ cacheMap \in Seq(Node)
    BY EmptySeq DEF Init
  <2>2. TypeOK
    BY <2>1, Constants DEF Init, TypeOK
  <2> QED BY <2>1, <2>2 DEF Init, IInv, CSetsAreFinite, CachedIsEntailed,
                            PendingUncovered, Frontier
<1>2. IInv /\ [Next]_vars => IInv'
  BY TypeStep, EntailedStep, UncoveredStep, FrontierStep DEF IInv
<1> QED BY <1>1, <1>2, PTL DEF Spec

\* The cache's variables stay in their declared sets, whatever is asked.
THEOREM TypeCorrect == Spec => []TypeOK
<1>1. IInv => TypeOK
  BY DEF IInv
<1> QED BY <1>1, InvariantHolds, PTL

\* Every context in the cache is entailed for the key of its node, for every
\* order the map may take and every monotone reasoner.
THEOREM EntailedAlways == Spec => []CachedIsEntailed
<1>1. IInv => CachedIsEntailed
  BY DEF IInv
<1> QED BY <1>1, InvariantHolds, PTL

\* The maintenance of Cache::insert keeps each node minimal in its positive
\* entries and maximal in its negative ones.
THEOREM FrontierAlways == Spec => []Frontier
<1>1. IInv => Frontier
  BY DEF IInv
<1> QED BY <1>1, InvariantHolds, PTL

\* The counters that CacheStats prints are the sizes of the map and of its sets, modulo
\* their width, after any history of insertions, removals and refused insertions.
THEOREM StatsAlwaysAgree == Spec => []StatsAgree
<1>1. Init => StatsInv
  <2> SUFFICES ASSUME Init PROVE StatsInv
    OBVIOUS
  <2>1. Len(cacheMap) = 0
    BY DEF Init
  <2>2. EntriesOf(cacheMap) = {}
    <3>1. \A x : x \notin EntriesOf(cacheMap)
      BY <2>1, EntryOf
    <3> QED BY <3>1
  <2>3. Wrap(0) = 0
    BY Constants DEF Wrap
  <2> QED BY <2>1, <2>2, <2>3, FS_EmptySet DEF Init, StatsInv, StatsAgree
<1>2. IInv /\ StatsInv /\ [Next]_vars => StatsInv'
  BY StatsStep DEF IInv
<1>3. StatsInv => StatsAgree
  BY DEF StatsInv
<1> QED BY <1>1, <1>2, <1>3, InvariantHolds, PTL DEF Spec

\* A step of the cache is a step of the oracle, or changes nothing it sees.
LEMMA StepRefines ==
  ASSUME IInv, [Next]_vars
  PROVE  [Oracle!Next]_<<oracle, returned>>
<1>1. ASSUME NEW q \in Queries, NEW i \in Inters, NEW p \in Find(q),
             CacheHit(q, i, p)
      PROVE  Oracle!Answer(q, i)
  <2>1. PICK e \in isValid(q, i, CSetAt(p)) :
          returned' = Oracle!Answered(q, i, e.value)
    BY <1>1 DEF CacheHit
  <2>2. e.value = oracle[q][i]
    BY ValidContextIsEntailed DEF IInv
  <2> QED BY <1>1, <2>1, <2>2 DEF CacheHit, Oracle!Answer
<1>2. ASSUME NEW q \in Queries, NEW i \in Inters, NEW p \in Find(q),
             CacheMiss(q, i, p)
      PROVE  UNCHANGED <<oracle, returned>>
  BY <1>2 DEF CacheMiss
<1>3. CASE DirectorAnswers
  <2>1. pending.query \in Queries /\ pending.inter \in Inters
    BY <1>3 DEF DirectorAnswers, IInv, TypeOK
  <2>2. Oracle!Answer(pending.query, pending.inter)
    BY <1>3 DEF DirectorAnswers, Oracle!Answer
  <2> QED BY <2>1, <2>2 DEF Oracle!Next
<1>4. CASE DirectorThrows
  <2>1. pending.query \in Queries /\ pending.inter \in Inters
    BY <1>4 DEF DirectorThrows, IInv, TypeOK
  <2>2. Oracle!Fail(pending.query, pending.inter)
    BY <1>4 DEF DirectorThrows, Oracle!Fail
  <2> QED BY <2>1, <2>2 DEF Oracle!Next
<1>5. CASE UNCHANGED vars
  BY <1>5 DEF vars
<1> QED BY <1>1, <1>2, <1>3, <1>4, <1>5 DEF Next, Oracle!Next

\* With a cache in front of it, the director answers every query as it would
\* without one: DLCache implements DLOracle.
THEOREM CacheIsTransparent == Spec => ImplementsOracle
<1>1. Init => Oracle!Init
  BY DEF Init, Oracle!Init
<1>2. IInv /\ [Next]_vars => [Oracle!Next]_<<oracle, returned>>
  BY StepRefines
<1> QED BY <1>1, <1>2, InvariantHolds, PTL DEF Spec, ImplementsOracle, Oracle!Spec
-----------------------------------------------------------------------------
(* Under an order that is one, what was answered stays cached. *)

\* What std::map asks of its order: a strict one, and transitive.
Ordered ==
  /\ \A q \in Queries : ~Less(q, q)
  /\ \A q1, q2, q3 \in Queries : Less(q1, q2) /\ Less(q2, q3) => Less(q1, q3)

\* Of a query's output list at most one component is given: every query of a concept,
\* and every role query but the boolean one.
OneGroundTerm(q) ==
  \A k, l \in DOMAIN q.pattern : Ground(q, k) /\ Ground(q, l) => k = l

\* The order on dl-queries is one for queries whose output lists have at most one ground
\* component: it is the pairs of ground components that it takes in both orders.
LEMMA OrderedWithoutPairs ==
  ASSUME \A q \in Queries : OneGroundTerm(q)
  PROVE  Ordered
<1>1. \A q \in Queries :
        /\ q.ontology \in Int /\ q.query \in Int
        /\ Len(q.pattern) \in {1, 2}
        /\ DOMAIN q.pattern = 1..Len(q.pattern)
        /\ \A k \in 1..Len(q.pattern) : q.pattern[k] \in Int
        /\ typeFlags(q) \in Int
  <2> TAKE q \in Queries
  <2>1. q \in DLQuery
    BY Constants
  <2>2. q.pattern \in Patterns /\ q.ontology \in Int /\ q.query \in Int
    BY <2>1, Constants DEF DLQuery
  <2>3. typeFlags(q) \in Int
    BY DEF typeFlags
  <2> QED BY <2>2, <2>3, PatternType, TermsAreIntegers
<1>2. \A q \in Queries : ~Less(q, q)
  BY <1>1 DEF Less, QueryLess, PatternLess
<1>3. \A q1, q2 \in Queries :
        typeFlags(q1) = typeFlags(q2) /\ Len(q1.pattern) = Len(q2.pattern) =>
          \A k \in DOMAIN q1.pattern : Ground(q1, k) <=> Ground(q2, k)
  BY <1>1 DEF typeFlags
<1>4. ASSUME NEW q1 \in Queries, NEW q2 \in Queries, NEW q3 \in Queries,
             QueryLess(q1, q2), QueryLess(q2, q3)
      PROVE  QueryLess(q1, q3)
  <2> DEFINE same(a, b) == typeFlags(a) = typeFlags(b) /\ Len(a.pattern) = Len(b.pattern)
             larger(a, b) == \/ Len(a.pattern) < Len(b.pattern)
                             \/ /\ Len(a.pattern) = Len(b.pattern)
                                /\ typeFlags(a) < typeFlags(b)
  <2>1. \A a, b \in Queries :
          QueryLess(a, b) <=> IF same(a, b) THEN PatternLess(a, b) ELSE larger(a, b)
    BY DEF QueryLess
  <2>2. CASE same(q1, q2) /\ same(q2, q3)
    <3>1. PatternLess(q1, q2) /\ PatternLess(q2, q3) /\ same(q1, q3)
      BY <1>4, <2>1, <2>2
    <3>2. PICK k \in DOMAIN q1.pattern : Ground(q1, k) /\ q1.pattern[k] < q2.pattern[k]
      BY <3>1 DEF PatternLess
    <3>3. PICK l \in DOMAIN q2.pattern : Ground(q2, l) /\ q2.pattern[l] < q3.pattern[l]
      BY <3>1 DEF PatternLess
    <3>4. k \in DOMAIN q2.pattern /\ Ground(q2, k)
      BY <1>1, <1>3, <2>2, <3>2
    <3>5. k = l
      BY <3>3, <3>4 DEF OneGroundTerm
    <3>6. q1.pattern[k] \in Int /\ q2.pattern[k] \in Int /\ q3.pattern[k] \in Int
      BY <1>1, <2>2, <3>2
    <3>7. q1.pattern[k] < q3.pattern[k]
      BY <3>2, <3>3, <3>5, <3>6
    <3>8. PatternLess(q1, q3)
      BY <3>2, <3>7 DEF PatternLess
    <3> QED BY <2>1, <3>1, <3>8
  <2>3. CASE same(q1, q2) /\ ~same(q2, q3)
    <3>1. larger(q2, q3)
      BY <1>4, <2>1, <2>3
    <3>2. larger(q1, q3) /\ ~same(q1, q3)
      BY <2>3, <3>1
    <3> QED BY <2>1, <3>2
  <2>4. CASE ~same(q1, q2) /\ same(q2, q3)
    <3>1. larger(q1, q2)
      BY <1>4, <2>1, <2>4
    <3>2. larger(q1, q3) /\ ~same(q1, q3)
      BY <2>4, <3>1
    <3> QED BY <2>1, <3>2
  <2>5. CASE ~same(q1, q2) /\ ~same(q2, q3)
    <3>1. larger(q1, q2) /\ larger(q2, q3)
      BY <1>4, <2>1, <2>5
    <3>2. larger(q1, q3) /\ ~same(q1, q3)
      BY <1>1, <3>1
    <3> QED BY <2>1, <3>2
  <2> QED BY <2>2, <2>3, <2>4, <2>5
<1>5. ASSUME NEW q1 \in Queries, NEW q2 \in Queries, NEW q3 \in Queries,
             Less(q1, q2), Less(q2, q3)
      PROVE  Less(q1, q3)
  <2>1. CASE q1.ontology = q2.ontology /\ q2.ontology = q3.ontology
             /\ q1.query = q2.query /\ q2.query = q3.query
    BY <1>1, <1>4, <1>5, <2>1 DEF Less
  <2>2. CASE ~(q1.ontology = q2.ontology /\ q2.ontology = q3.ontology
               /\ q1.query = q2.query /\ q2.query = q3.query)
    BY <1>1, <1>5, <2>2 DEF Less
  <2> QED BY <2>1, <2>2
<1> QED BY <1>2, <1>5 DEF Ordered

\* The nodes stand in the order of their keys.
Sorted ==
  \A p1, p2 \in 1..Len(cacheMap) :
    p1 < p2 => Less(cacheMap[p1].key, cacheMap[p2].key)

\* A query has at most one node, which every search finds.
LEMMA SearchIsExact ==
  ASSUME TypeOK, Ordered, Sorted, NEW q \in Queries, NEW p \in 1..Len(cacheMap),
         cacheMap[p].key = q, NEW f \in Find(q)
  PROVE  f = p
<1> DEFINE smaller == {k \in DOMAIN cacheMap : Less(cacheMap[k].key, q)}
<1>1. /\ Len(cacheMap) \in Nat /\ DOMAIN cacheMap = 1..Len(cacheMap)
      /\ \A k \in 1..Len(cacheMap) : cacheMap[k].key \in Queries
  BY MapType
<1>2. \A k \in 1..Len(cacheMap) : Less(cacheMap[k].key, q) <=> k < p
  <2> TAKE k \in 1..Len(cacheMap)
  <2>1. CASE k < p
    BY <2>1 DEF Sorted
  <2>2. CASE k = p
    BY <2>2 DEF Ordered
  <2>3. CASE k > p
    <3>1. Less(q, cacheMap[k].key)
      BY <2>3 DEF Sorted
    <3>2. ~Less(cacheMap[k].key, q)
      BY <1>1, <3>1 DEF Ordered
    <3> QED BY <1>1, <2>3, <3>2
  <2> QED BY <1>1, <2>1, <2>2, <2>3
<1>3. PICK g \in Gaps(smaller) :
        f = IF g <= Len(cacheMap) /\ ~Less(q, cacheMap[g].key) THEN g ELSE 0
  BY DEF Find
<1>4. /\ g \in 1..(Len(cacheMap) + 1) /\ g \notin smaller
      /\ g = 1 \/ g - 1 \in smaller
  BY DEF Gaps
<1>5. g = p
  BY <1>1, <1>2, <1>4
<1>6. ~Less(q, cacheMap[p].key)
  BY DEF Ordered
<1> QED BY <1>1, <1>3, <1>5, <1>6

\* A query that the map does not hold gets a node that keeps the order.
LEMMA GapSeparates ==
  ASSUME TypeOK, Ordered, Sorted, NEW q \in Queries, NEW g \in InsertGaps(q),
         \A k \in 1..Len(cacheMap) : cacheMap[k].key # q
  PROVE  /\ g \in 1..(Len(cacheMap) + 1)
         /\ \A k \in 1..Len(cacheMap) :
              IF k < g THEN Less(cacheMap[k].key, q) ELSE Less(q, cacheMap[k].key)
<1> DEFINE right == {k \in DOMAIN cacheMap : ~Less(q, cacheMap[k].key)}
<1>1. /\ Len(cacheMap) \in Nat /\ DOMAIN cacheMap = 1..Len(cacheMap)
      /\ \A k \in 1..Len(cacheMap) : cacheMap[k].key \in Queries
  BY MapType
<1>2. /\ g \in 1..(Len(cacheMap) + 1) /\ g \notin right
      /\ g = 1 \/ g - 1 \in right
  BY DEF InsertGaps, Gaps
<1>3. \A k \in 1..Len(cacheMap) : Less(q, cacheMap[k].key) \/ Less(cacheMap[k].key, q)
  <2> TAKE k \in 1..Len(cacheMap)
  <2>1. q \in DLQuery /\ cacheMap[k].key \in DLQuery
    BY <1>1, Constants
  <2> QED BY <2>1, LessSeparates
<1>4. ASSUME NEW k \in 1..Len(cacheMap), k < g
      PROVE  Less(cacheMap[k].key, q)
  <2>1. g - 1 \in 1..Len(cacheMap) /\ ~Less(q, cacheMap[g - 1].key)
    BY <1>1, <1>2, <1>4
  <2>2. Less(cacheMap[g - 1].key, q)
    BY <1>3, <2>1
  <2>3. CASE k = g - 1
    BY <2>2, <2>3
  <2>4. CASE k < g - 1
    <3>1. Less(cacheMap[k].key, cacheMap[g - 1].key)
      BY <2>1, <2>4 DEF Sorted
    <3> QED BY <1>1, <2>1, <2>2, <3>1 DEF Ordered
  <2> QED BY <1>1, <1>2, <1>4, <2>3, <2>4
<1>5. ASSUME NEW k \in 1..Len(cacheMap), ~(k < g)
      PROVE  Less(q, cacheMap[k].key)
  <2>1. g \in 1..Len(cacheMap) /\ Less(q, cacheMap[g].key)
    BY <1>1, <1>2, <1>5
  <2>2. CASE k = g
    BY <2>1, <2>2
  <2>3. CASE k > g
    <3>1. Less(cacheMap[g].key, cacheMap[k].key)
      BY <2>1, <2>3 DEF Sorted
    <3> QED BY <1>1, <2>1, <3>1 DEF Ordered
  <2> QED BY <1>1, <1>2, <1>5, <2>2, <2>3
<1> QED BY <1>2, <1>4, <1>5

\* A query without a node in the map is pending without one.
NewIsNew ==
  pending # NoQuery /\ pending.node = 0 =>
    \A k \in 1..Len(cacheMap) : cacheMap[k].key # pending.query

\* What was asked has a valid context at its node.
Covers(nodes, q, i) ==
  \E p \in 1..Len(nodes) : nodes[p].key = q /\ isValid(q, i, nodes[p].cset) # {}

AskedInv ==
  /\ Sorted
  /\ NewIsNew
  /\ \A a \in asked : Covers(cacheMap, a[1], a[2])

\* What the maintenance removes, the new context answers: every interpretation that had
\* a valid context has one afterwards, and so has the new one.
LEMMA MaintenanceKeepsCover ==
  ASSUME NEW q, NEW i, NEW v, NEW cset, isValid(q, i, cset) = {}, NEW j,
         isValid(q, j, cset) # {} \/ j = i
  PROVE  isValid(q, j, AddContext(Kept(q, i, v, cset), Context(i, v))) # {}
<1> DEFINE kept == Kept(q, i, v, cset)
           c == Context(i, v)
<1>1. c.inter = i /\ c.value = v
  BY DEF Context
<1>2. ~\E e \in kept : e.inter = c.inter
  <2> SUFFICES ASSUME NEW e \in kept, e.inter = i PROVE FALSE
    BY <1>1
  <2>1. e \in isValid(q, i, cset)
    BY DEF isValid, Kept
  <2> QED BY <2>1
<1>3. AddContext(kept, c) = kept \union {c}
  BY <1>2 DEF AddContext
<1>4. CASE j = i
  <2>1. c \in isValid(q, j, kept \union {c})
    BY <1>1, <1>4 DEF isValid
  <2> QED BY <1>3, <2>1
<1>5. CASE isValid(q, j, cset) # {}
  <2>1. PICK e \in isValid(q, j, cset) : TRUE
    BY <1>5
  <2>2. e \in cset
    BY <2>1 DEF isValid
  <2>3. CASE e \in kept
    <3>1. e \in isValid(q, j, kept \union {c})
      BY <2>1, <2>3 DEF isValid
    <3> QED BY <1>3, <3>1
  <2>4. CASE e \notin kept
    <3>1. e \in Superfluous(q, i, v, cset)
      BY <2>2, <2>4 DEF Kept
    <3>2. c \in isValid(q, j, kept \union {c})
      BY <1>1, <2>1, <3>1 DEF isValid, Superfluous
    <3> QED BY <1>3, <3>2
  <2> QED BY <2>3, <2>4
<1> QED BY <1>4, <1>5

\* Every step keeps the nodes sorted and what was asked covered.
LEMMA AskedStep ==
  ASSUME TypeOK, PendingUncovered, Ordered, AskedInv, [Next]_vars
  PROVE  AskedInv'
<1>1. /\ cacheMap \in Seq(Node) /\ Len(cacheMap) \in Nat
      /\ DOMAIN cacheMap = 1..Len(cacheMap)
      /\ \A p \in 1..Len(cacheMap) : cacheMap[p] \in Node /\ cacheMap[p].key \in Queries
  BY MapType
<1>2. Sorted /\ NewIsNew /\ \A a \in asked : Covers(cacheMap, a[1], a[2])
  BY DEF AskedInv
<1>3. ASSUME NEW q \in Queries, NEW i \in Inters, NEW p \in Find(q), CacheHit(q, i, p)
      PROVE  AskedInv'
  BY <1>3 DEF CacheHit, AskedInv, Sorted, NewIsNew
<1>4. ASSUME NEW q \in Queries, NEW i \in Inters, NEW p \in Find(q), CacheMiss(q, i, p)
      PROVE  AskedInv'
  <2>1. /\ cacheMap' = cacheMap /\ asked' = asked
        /\ pending'.query = q /\ pending'.node = p
    BY <1>4 DEF CacheMiss, Asking
  <2>2. p = 0 => \A k \in 1..Len(cacheMap) : cacheMap[k].key # q
    <3> SUFFICES ASSUME p = 0, NEW k \in 1..Len(cacheMap), cacheMap[k].key = q PROVE FALSE
      OBVIOUS
    <3>1. p = k
      BY <1>2, SearchIsExact
    <3> QED BY <1>1, <3>1
  <2>3. Sorted'
    BY <1>2, <2>1 DEF Sorted
  <2>4. NewIsNew'
    BY <2>1, <2>2 DEF NewIsNew
  <2> QED BY <1>2, <2>1, <2>3, <2>4 DEF AskedInv
<1>5. CASE DirectorAnswers
  <2> DEFINE q == pending.query
             i == pending.inter
             v == oracle[q][i]
             p == pending.node
  <2>1. /\ pending # NoQuery /\ pending' = NoQuery
        /\ asked' = asked \union {<<q, i>>}
    BY <1>5 DEF DirectorAnswers
  <2>2. /\ q \in Queries /\ i \in Inters /\ p \in 0..Len(cacheMap)
        /\ p # 0 => cacheMap[p].key = q
    BY <2>1 DEF TypeOK
  <2>3. NewIsNew'
    BY <2>1 DEF NewIsNew
  <2>4. Context(i, v) \in Contexts
    BY <2>2, OracleType DEF Context, Contexts
  <2>5. SUFFICES /\ Sorted'
                 /\ \A a \in asked : Covers(cacheMap', a[1], a[2])
                 /\ Covers(cacheMap', q, i)
    BY <2>1, <2>3 DEF AskedInv
  <2>6. CASE p # 0
    <3> DEFINE old == cacheMap[p].cset
               new == AddContext(Kept(q, i, v, old), Context(i, v))
    <3>1. p \in 1..Len(cacheMap) /\ cacheMap[p].key = q
      BY <2>2, <2>6
    <3>2. cacheMap' = [cacheMap EXCEPT ![p] = [key |-> cacheMap[p].key, cset |-> new]]
      BY <1>5, <2>6 DEF DirectorAnswers, InsertIntoNode, Kept
    <3>3. isValid(q, i, old) = {}
      BY <2>1, <3>1 DEF PendingUncovered, CSetAt
    <3>4. \A j : isValid(q, j, old) # {} \/ j = i => isValid(q, j, new) # {}
      BY <3>3, MaintenanceKeepsCover
    <3> HIDE DEF new
    <3>5. /\ Len(cacheMap') = Len(cacheMap)
          /\ cacheMap'[p].cset = new
          /\ \A k \in 1..Len(cacheMap) :
               /\ cacheMap'[k].key = cacheMap[k].key
               /\ k # p => cacheMap'[k].cset = cacheMap[k].cset
      BY <1>1, <3>1, <3>2
    <3>6. Sorted'
      BY <1>2, <3>5 DEF Sorted
    <3>7. ASSUME NEW a \in asked PROVE Covers(cacheMap', a[1], a[2])
      <4>1. PICK k \in 1..Len(cacheMap) :
              cacheMap[k].key = a[1] /\ isValid(a[1], a[2], cacheMap[k].cset) # {}
        BY <1>2, <3>7 DEF Covers
      <4>2. isValid(a[1], a[2], cacheMap'[k].cset) # {}
        BY <3>1, <3>4, <3>5, <4>1
      <4> QED BY <3>5, <4>1, <4>2 DEF Covers
    <3>8. Covers(cacheMap', q, i)
      BY <3>1, <3>4, <3>5 DEF Covers
    <3> QED BY <3>6, <3>7, <3>8
  <2>7. CASE p = 0
    <3> DEFINE e == [key |-> q, cset |-> {Context(i, v)}]
    <3>1. \A k \in 1..Len(cacheMap) : cacheMap[k].key # q
      BY <1>2, <2>1, <2>7 DEF NewIsNew
    <3>2. PICK g \in InsertGaps(q) :
            Admits(q, g) => cacheMap' = InsertAt(cacheMap, g, e)
      <4>1. InsertNode(q, i, v)
        BY <1>5, <2>7 DEF DirectorAnswers
      <4> QED BY <4>1 DEF InsertNode
    <3>3. /\ g \in 1..(Len(cacheMap) + 1)
          /\ \A k \in 1..Len(cacheMap) :
               IF k < g THEN Less(cacheMap[k].key, q) ELSE Less(q, cacheMap[k].key)
      BY <1>2, <2>2, <3>1, GapSeparates
    <3>4. cacheMap' = InsertAt(cacheMap, g, e)
      <4>1. Admits(q, g)
        <5>1. g = 1 \/ (g - 1 \in 1..Len(cacheMap) /\ g - 1 < g)
          BY <1>1, <3>3
        <5> QED BY <3>3, <5>1 DEF Admits
      <4> QED BY <3>2, <4>1
    <3>5. e \in Node /\ e.key = q /\ e.cset = {Context(i, v)}
      BY <2>2, <2>4 DEF Node
    <3> HIDE DEF e
    <3>6. Inserted(cacheMap', Node, cacheMap, g, e)
      BY <1>1, <3>3, <3>4, <3>5, InsertAtProperties
    <3>7. /\ Len(cacheMap') = Len(cacheMap) + 1
          /\ \A k \in 1..(Len(cacheMap) + 1) :
               cacheMap'[k] = IF k < g THEN cacheMap[k]
                              ELSE IF k = g THEN e ELSE cacheMap[k - 1]
      BY <3>6 DEF Inserted
    <3>8. Sorted'
      <4> SUFFICES ASSUME NEW k \in 1..(Len(cacheMap) + 1), NEW l \in 1..(Len(cacheMap) + 1),
                          k < l
                   PROVE  Less(cacheMap'[k].key, cacheMap'[l].key)
        BY <3>7 DEF Sorted
      <4>1. CASE l < g
        <5>1. k \in 1..Len(cacheMap) /\ l \in 1..Len(cacheMap) /\ k < g
          BY <1>1, <3>3, <4>1
        <5> QED BY <1>2, <3>7, <4>1, <5>1 DEF Sorted
      <4>2. CASE l = g
        <5>1. k \in 1..Len(cacheMap) /\ k < g
          BY <1>1, <3>3, <4>2
        <5>2. cacheMap'[k] = cacheMap[k] /\ cacheMap'[l] = e
          BY <3>7, <4>2, <5>1
        <5> QED BY <3>3, <3>5, <5>1, <5>2
      <4>3. CASE l > g /\ k < g
        <5>1. k \in 1..Len(cacheMap) /\ l - 1 \in 1..Len(cacheMap) /\ k < l - 1
          BY <1>1, <3>3, <4>3
        <5>2. cacheMap'[k] = cacheMap[k] /\ cacheMap'[l] = cacheMap[l - 1]
          BY <1>1, <3>3, <3>7, <4>3, <5>1
        <5> QED BY <1>2, <5>1, <5>2 DEF Sorted
      <4>4. CASE l > g /\ k = g
        <5>1. l - 1 \in 1..Len(cacheMap) /\ ~(l - 1 < g)
          BY <1>1, <3>3, <4>4
        <5>2. cacheMap'[k] = e /\ cacheMap'[l] = cacheMap[l - 1]
          BY <1>1, <3>3, <3>7, <4>4, <5>1
        <5> QED BY <3>3, <3>5, <5>1, <5>2
      <4>5. CASE l > g /\ k > g
        <5>1. k - 1 \in 1..Len(cacheMap) /\ l - 1 \in 1..Len(cacheMap) /\ k - 1 < l - 1
          BY <1>1, <3>3, <4>5
        <5>2. cacheMap'[k] = cacheMap[k - 1] /\ cacheMap'[l] = cacheMap[l - 1]
          BY <1>1, <3>3, <3>7, <4>5, <5>1
        <5> QED BY <1>2, <5>1, <5>2 DEF Sorted
      <4> QED BY <1>1, <3>3, <4>1, <4>2, <4>3, <4>4, <4>5
    <3>9. ASSUME NEW a \in asked PROVE Covers(cacheMap', a[1], a[2])
      <4>1. PICK k \in 1..Len(cacheMap) :
              cacheMap[k].key = a[1] /\ isValid(a[1], a[2], cacheMap[k].cset) # {}
        BY <1>2, <3>9 DEF Covers
      <4>2. \E l \in 1..(Len(cacheMap) + 1) : cacheMap'[l] = cacheMap[k]
        <5>1. CASE k < g
          BY <1>1, <3>3, <3>7, <5>1
        <5>2. CASE k >= g
          <6>1. k + 1 \in 1..(Len(cacheMap) + 1) /\ ~(k + 1 < g) /\ k + 1 # g
                /\ k + 1 - 1 = k
            BY <1>1, <3>3, <5>2
          <6> QED BY <3>7, <6>1
        <5> QED BY <1>1, <3>3, <5>1, <5>2
      <4> QED BY <3>7, <4>1, <4>2 DEF Covers
    <3>10. Covers(cacheMap', q, i)
      <4>1. g \in 1..Len(cacheMap') /\ cacheMap'[g] = e
        BY <1>1, <3>3, <3>7
      <4>2. Context(i, v) \in isValid(q, i, {Context(i, v)})
        BY DEF isValid, Context
      <4> QED BY <3>5, <4>1, <4>2 DEF Covers
    <3> QED BY <3>8, <3>9, <3>10
  <2> QED BY <2>6, <2>7
<1>6. CASE DirectorThrows
  BY <1>6 DEF DirectorThrows, AskedInv, Sorted, NewIsNew
<1>7. CASE UNCHANGED vars
  BY <1>7 DEF vars, AskedInv, Sorted, NewIsNew
<1> QED BY <1>3, <1>4, <1>5, <1>6, <1>7 DEF Next

\* Under an order that is one, what was answered once is answered from the cache from
\* then on, whatever was asked and maintained in between.
THEOREM AnswersStay ==
  ASSUME Ordered
  PROVE  Spec => []AnswersStayCached
<1>1. Init => AskedInv
  BY DEF Init, AskedInv, Sorted, NewIsNew
<1>2. IInv /\ AskedInv /\ [Next]_vars => AskedInv'
  BY AskedStep DEF IInv
<1>3. IInv /\ AskedInv => AnswersStayCached
  <2> SUFFICES ASSUME IInv, AskedInv, NEW a \in asked, NEW p \in Find(a[1])
               PROVE  isValid(a[1], a[2], CSetAt(p)) # {}
    BY DEF AnswersStayCached, Covered
  <2>1. PICK k \in 1..Len(cacheMap) :
          cacheMap[k].key = a[1] /\ isValid(a[1], a[2], cacheMap[k].cset) # {}
    BY DEF AskedInv, Covers
  <2>2. a[1] \in Queries /\ TypeOK
    BY DEF IInv, TypeOK
  <2>3. p = k
    BY <2>1, <2>2, SearchIsExact DEF AskedInv
  <2>4. CSetAt(p) = cacheMap[k].cset
    BY <2>2, <2>3, MapType DEF CSetAt
  <2> QED BY <2>1, <2>4
<1> QED BY <1>1, <1>2, <1>3, InvariantHolds, PTL DEF Spec

\* Programs that ask no role for pairs keep every answer: concept queries, and the
\* fillers and the members of a role.
THEOREM AnswersStayWithoutPairs ==
  ASSUME \A q \in Queries : OneGroundTerm(q)
  PROVE  Spec => []AnswersStayCached
BY OrderedWithoutPairs, AnswersStay
=============================================================================
