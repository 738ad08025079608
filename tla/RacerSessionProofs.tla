-------------------------- MODULE RacerSessionProofs --------------------------
(***************************************************************************)
(* Proofs about RacerSession for every set of queries, facts and           *)
(* individuals, every ontology and every set of commands that RACER may    *)
(* refuse: an answer depends on its query, its interpretation and the      *)
(* errors skipped in its own chain only, those errors lose answers but add *)
(* none, and an inconsistent interpretation is handled whichever command   *)
(* finds it.                                                               *)
(***************************************************************************)
EXTENDS RacerSession, DataLemmas, SequenceTheorems, FiniteSetTheorems, TLAPS

-----------------------------------------------------------------------------
(* The inductive invariant. *)

\* A value and tuples that are what they should be: exact under a coherent
\* interpretation, true or covering under one that contradicts the ontology.
Exact(q, i, v, ts) ==
  /\ i \notin Inconsistent =>
       /\ ts = Projected(q, Entailed[q][i])
       /\ isBoolean(q) => (v = "T" <=> Entailed[q][i] # {})
  /\ i \in Inconsistent =>
       /\ isBoolean(q) /\ q.atom # "dlConsistent" => v = "T"
       /\ q.atom = "dlConsistent" => ts = {}
       /\ ~isBoolean(q) /\ ~MayFailParse =>
            Grounding(q, OwnIndividuals \union UNION {Mentions[h] : h \in i})
              \subseteq ts

\* Tuples from which some may be missing.
Sound(q, i, ts) ==
  i \notin Inconsistent => ts \subseteq Projected(q, Entailed[q][i])

\* A value and tuples that may be returned for a query after this damage.
Right(q, i, v, ts, d) ==
  /\ d = "none" => Exact(q, i, v, ts)
  /\ d # "any" => Sound(q, i, ts)
  /\ isBoolean(q) /\ v # "T" => ts = {}

\* What a command did to RACER, unless it failed unnoticed.
ResetDone == racer.clone = {} \/ "full-reset" \in asking.missed
UNAIsSet == racer.una = TRUE \/ "set-una" \in asking.missed
MirrorIsOn == racer.mirror = TRUE \/ "mirror" \in asking.missed
Imported == racer.kb = "imported" \/ "kb-ontologies" \in asking.missed
HasClone(i) == racer.clone = {i} \/ ("clone-abox" \in asking.missed /\ ResetDone)

\* The query under way is somewhere in its chain, and RACER has been set up as far,
\* whatever it was before: what is left to send to a clone of the ABox,
CloneChain(i) ==
  \/ todo = <<"full-reset", "set-una", "owl-read", "kb-ontologies",
              "clone-abox", "state", "ask">>
  \/ ResetDone
     /\ todo = <<"set-una", "owl-read", "kb-ontologies", "clone-abox", "state", "ask">>
  \/ ResetDone /\ UNAIsSet
     /\ \/ todo = <<"owl-read", "kb-ontologies", "clone-abox", "state", "ask">>
        \/ todo = <<"kb-ontologies", "clone-abox", "state", "ask">>
        \/ Imported /\ todo = <<"clone-abox", "state", "ask">>
  \/ UNAIsSet /\ Imported
     /\ \/ todo = <<"state", "ask">> /\ HasClone({})
        \/ todo = <<"ask">> /\ HasClone(i)

\* for a query of data, which enables mirroring,
MirrorChain ==
  \/ todo = <<"full-reset", "set-una", "mirror", "owl-read", "kb-ontologies",
              "retrieve">>
  \/ todo = <<"set-una", "mirror", "owl-read", "kb-ontologies", "retrieve">>
  \/ UNAIsSet
     /\ \/ todo = <<"mirror", "owl-read", "kb-ontologies", "retrieve">>
        \/ MirrorIsOn
           /\ \/ todo = <<"owl-read", "kb-ontologies", "retrieve">>
              \/ todo = <<"kb-ontologies", "retrieve">>
              \/ todo = <<"retrieve">> /\ Imported

\* and for any other that is asked under a premise.
PremiseChain ==
  \/ todo = <<"full-reset", "set-una", "owl-read", "kb-ontologies", "retrieve">>
  \/ todo = <<"set-una", "owl-read", "kb-ontologies", "retrieve">>
  \/ UNAIsSet
     /\ \/ todo = <<"owl-read", "kb-ontologies", "retrieve">>
        \/ todo = <<"kb-ontologies", "retrieve">>
        \/ todo = <<"retrieve">> /\ Imported

Questions == [kind : {"asking"}, query : Queries, inter : Inters,
              missed : SUBSET IgnoredCommands]

ChainInv ==
  asking # NoQuery =>
    /\ asking \in Questions
    /\ asking.query \in Queries /\ asking.inter \in Inters
    /\ asksClone(asking.query) => CloneChain(asking.inter)
    /\ ~asksClone(asking.query) /\ asking.query.atom = "dlDR" => MirrorChain
    /\ ~asksClone(asking.query) /\ asking.query.atom # "dlDR" => PremiseChain

RacerType ==
  racer \in [una : BOOLEAN, mirror : BOOLEAN, kb : {"none", "read", "imported"},
             clone : SUBSET Inters]

CacheInv ==
  /\ DOMAIN cache = Queries
  /\ \A q \in Queries : \A e \in cache[q] :
       e.inter \in Inters /\ Right(q, e.inter, e.value, e.tuples, e.damage)

ReturnedInv ==
  IsAnswer =>
    /\ returned.query \in Queries /\ returned.inter \in Inters
    /\ Right(returned.query, returned.inter, returned.value, returned.tuples,
             returned.damage)

\* Once the ABox is parsed it has the individuals of the document.
ObjectsInv ==
  ~MayFailParse => objects = {} \/ OwnIndividuals \subseteq UNION objects

SInv == RacerType /\ ChainInv /\ CacheInv /\ ReturnedInv /\ ObjectsInv

-----------------------------------------------------------------------------
(* Answers. *)

\* The tuples that can be entailed for a boolean query are its output list.
LEMMA BooleanTuples ==
  ASSUME NEW q \in Queries, isBoolean(q), NEW t \in TuplesOf(q)
  PROVE  t = q.pattern
<1>1. q.pattern = [k \in DOMAIN q.pattern |-> q.pattern[k]]
  <2>1. q.pattern \in Seq(Individuals \union {Var})
    BY SessionConstants
  <2> QED BY <2>1, LenProperties
<1>2. t = [k \in DOMAIN q.pattern |-> t[k]]
  BY DEF TuplesOf
<1>3. \A k \in DOMAIN q.pattern : t[k] = q.pattern[k]
  BY DEF TuplesOf, isBoolean
<1> QED BY <1>1, <1>2, <1>3

\* What Cache::isValid reuses is exact under the interpretation asked for as well,
LEMMA ReuseIsExact ==
  ASSUME NEW q \in Queries, NEW i \in Inters, isCached(q),
         NEW e \in isValid(q, i, cache[q]), e.inter \in Inters,
         Exact(q, e.inter, e.value, e.tuples)
  PROVE  Exact(q, i, e.value, e.tuples)
<1>1. q.atom # "dlConsistent"
  BY DEF isCached
<1>2. \A j, k \in Inters : j \in Inconsistent /\ j \subseteq k => k \in Inconsistent
  BY SessionConstants
<1>3. CASE ~isBoolean(q)
  BY <1>3 DEF isValid
<1>4. CASE isBoolean(q) /\ e.value = "T" /\ e.inter \subseteq i
  <2>1. CASE i \in Inconsistent
    BY <1>1, <1>4, <2>1 DEF Exact
  <2>2. CASE i \notin Inconsistent
    <3>1. e.inter \notin Inconsistent
      BY <1>2, <1>4, <2>2
    <3>2. /\ e.tuples = Projected(q, Entailed[q][e.inter])
          /\ Entailed[q][e.inter] # {}
      BY <1>4, <3>1 DEF Exact
    <3>3. /\ Entailed[q][e.inter] \subseteq Entailed[q][i]
          /\ Entailed[q][i] \subseteq TuplesOf(q)
          /\ Entailed[q][e.inter] \subseteq TuplesOf(q)
      BY <1>1, <1>4, ReasonerIsMonotone
    <3>4. \A t \in TuplesOf(q) : t = q.pattern
      BY <1>4, BooleanTuples
    <3>5. Entailed[q][i] = Entailed[q][e.inter]
      BY <3>2, <3>3, <3>4
    <3> QED BY <1>4, <2>2, <3>2, <3>5 DEF Exact
  <2> QED BY <2>1, <2>2
<1>5. CASE isBoolean(q) /\ e.value # "T" /\ i \subseteq e.inter
  <2>1. e.inter \notin Inconsistent
    BY <1>1, <1>5 DEF Exact
  <2>2. i \notin Inconsistent
    BY <1>2, <1>5, <2>1
  <2>3. e.tuples = Projected(q, Entailed[q][e.inter]) /\ Entailed[q][e.inter] = {}
    BY <1>5, <2>1 DEF Exact
  <2>4. Entailed[q][i] = Entailed[q][e.inter]
    BY <1>1, <1>5, <2>3, ReasonerIsMonotone
  <2> QED BY <1>5, <2>2, <2>3, <2>4 DEF Exact
<1> QED BY <1>3, <1>4, <1>5 DEF isValid

\* and so it is if some answers are missing from it.
LEMMA ReuseIsSound ==
  ASSUME NEW q \in Queries, NEW i \in Inters, isCached(q),
         NEW e \in isValid(q, i, cache[q]), e.inter \in Inters,
         Sound(q, e.inter, e.tuples), isBoolean(q) /\ e.value # "T" => e.tuples = {}
  PROVE  Sound(q, i, e.tuples)
<1>1. CASE ~isBoolean(q)
  BY <1>1 DEF isValid
<1>2. CASE isBoolean(q) /\ e.value = "T" /\ e.inter \subseteq i
  <2> SUFFICES ASSUME i \notin Inconsistent
               PROVE  e.tuples \subseteq Projected(q, Entailed[q][i])
    BY DEF Sound
  <2>1. e.inter \notin Inconsistent
    BY <1>2, SessionConstants
  <2>2. e.tuples \subseteq Projected(q, Entailed[q][e.inter])
    BY <2>1 DEF Sound
  <2>3. q.atom # "dlConsistent"
    BY DEF isCached
  <2>4. Entailed[q][e.inter] \subseteq Entailed[q][i]
    BY <1>2, <2>3, ReasonerIsMonotone
  <2> QED BY <2>2, <2>4 DEF Projected
<1>3. CASE isBoolean(q) /\ e.value # "T"
  BY <1>3 DEF Sound
<1> QED BY <1>1, <1>2, <1>3 DEF isValid

\* So it is right, after any damage.
LEMMA ReuseIsRight ==
  ASSUME CacheInv, NEW q \in Queries, NEW i \in Inters, isCached(q),
         NEW e \in isValid(q, i, cache[q])
  PROVE  Right(q, i, e.value, e.tuples, e.damage)
<1>1. /\ e.inter \in Inters
      /\ Right(q, e.inter, e.value, e.tuples, e.damage)
  BY DEF CacheInv, isValid
<1>2. isBoolean(q) /\ e.value # "T" => e.tuples = {}
  BY <1>1 DEF Right
<1>3. e.damage = "none" => Exact(q, i, e.value, e.tuples)
  <2>1. e.damage = "none" => Exact(q, e.inter, e.value, e.tuples)
    BY <1>1 DEF Right
  <2> QED BY <1>1, <2>1, ReuseIsExact
<1>4. e.damage # "any" => Sound(q, i, e.tuples)
  <2>1. e.damage # "any" => Sound(q, e.inter, e.tuples)
    BY <1>1 DEF Right
  <2> QED BY <1>1, <1>2, <2>1, ReuseIsSound
<1> QED BY <1>2, <1>3, <1>4 DEF Right

\* The end of a query keeps the invariant if what is delivered is right.
LEMMA DeliverInv ==
  ASSUME SInv, asking # NoQuery, NEW v, NEW ts, Deliver(v, ts),
         Right(asking.query, asking.inter, v, ts, Damage(asking.missed))
  PROVE  ChainInv' /\ CacheInv' /\ ReturnedInv'
<1> DEFINE q == asking.query
           i == asking.inter
           d == Damage(asking.missed)
           kept == cache[q] \ Superfluous(q, i, v, cache[q])
           c == [inter |-> i, value |-> v, tuples |-> ts, damage |-> d]
<1>1. q \in Queries /\ i \in Inters /\ Right(q, i, v, ts, d)
  BY DEF SInv, ChainInv
<1>2. \A p, j, w, us, m : Right(p, j, w, us, m)' <=> Right(p, j, w, us, m)
  BY DEF Right, Exact, Sound, Grounding
<1>3. ChainInv'
  BY DEF Deliver, ChainInv
<1>4. returned' = Answered(q, i, v, ts, d)
  BY DEF Deliver
<1>5. \/ cache' = cache
      \/ cache' = [cache EXCEPT ![q] = AddContext(kept, c)]
  BY DEF Deliver
<1> HIDE DEF q, i, d
<1>6. CacheInv'
  <2>1. \A e \in AddContext(kept, c) : e \in cache[q] \/ e = c
    BY DEF AddContext
  <2>2. CASE cache' = cache
    BY <1>2, <2>2 DEF SInv, CacheInv
  <2>3. CASE cache' = [cache EXCEPT ![q] = AddContext(kept, c)]
    <3> HIDE DEF kept, c
    <3>1. DOMAIN cache' = Queries /\ cache'[q] = AddContext(kept, c)
      BY <1>1, <2>3 DEF SInv, CacheInv
    <3>2. \A p \in Queries : p # q => cache'[p] = cache[p]
      BY <1>1, <2>3 DEF SInv, CacheInv
    <3>3. c.inter = i /\ c.value = v /\ c.tuples = ts /\ c.damage = d
      BY DEF c
    <3>4. ASSUME NEW p \in Queries, NEW e \in cache'[p]
          PROVE  e.inter \in Inters /\ Right(p, e.inter, e.value, e.tuples, e.damage)
      <4>1. CASE p # q \/ e # c
        <5>1. e \in cache[p]
          BY <2>1, <3>1, <3>2, <3>4, <4>1
        <5> QED BY <5>1 DEF SInv, CacheInv
      <4>2. CASE p = q /\ e = c
        BY <1>1, <3>3, <4>2
      <4> QED BY <4>1, <4>2
    <3> QED BY <1>2, <3>1, <3>4 DEF CacheInv
  <2> QED BY <1>5, <2>2, <2>3
<1>7. ReturnedInv'
  <2>1. /\ returned'.query = q /\ returned'.inter = i
        /\ returned'.value = v /\ returned'.tuples = ts /\ returned'.damage = d
    BY <1>4 DEF Answered
  <2> QED BY <1>1, <1>2, <2>1 DEF ReturnedInv
<1> QED BY <1>3, <1>6, <1>7

\* An error keeps it.
LEMMA ThrowInv ==
  ASSUME SInv, Throw
  PROVE  ChainInv' /\ CacheInv' /\ ReturnedInv'
<1>1. \A p, j, w, us, m : Right(p, j, w, us, m)' <=> Right(p, j, w, us, m)
  BY DEF Right, Exact, Sound, Grounding
<1>2. ChainInv' /\ ReturnedInv'
  BY DEF Throw, ChainInv, ReturnedInv, IsAnswer, Failed
<1>3. CacheInv'
  BY <1>1 DEF Throw, SInv, CacheInv
<1> QED BY <1>2, <1>3

-----------------------------------------------------------------------------
(* The chain of commands. *)

\* What concatenation does to the short chains that Directors puts together.
LEMMA ShortConcat ==
  /\ \A a, b : <<a, b>> \o <<>> = <<a, b>>
  /\ \A a, b, c : <<a, b>> \o <<c>> = <<a, b, c>>
  /\ \A a, b, c, d : <<a, b>> \o <<c, d>> = <<a, b, c, d>>
  /\ \A a, b, c, d, e : <<a, b, c>> \o <<d, e>> = <<a, b, c, d, e>>
  /\ \A a, b, c, d, e : <<a, b, c, d>> \o <<e>> = <<a, b, c, d, e>>
  /\ \A a, b, c, d, e, g : <<a, b, c, d, e>> \o <<g>> = <<a, b, c, d, e, g>>
  /\ \A a, b, c, d, e, g, h : <<a, b, c, d>> \o <<e, g, h>> = <<a, b, c, d, e, g, h>>
<1>1. ASSUME NEW a, NEW b PROVE <<a, b>> \o <<>> = <<a, b>>
  OBVIOUS
<1>2. ASSUME NEW a, NEW b, NEW c
      PROVE  <<a, b>> \o <<c>> = <<a, b, c>>
  <2> DEFINE S == {a, b, c}
             z == <<a, b>> \o <<c>>
  <2>1. /\ <<a, b>> \in Seq(S) /\ <<c>> \in Seq(S)
        /\ <<a, b, c>> \in Seq(S) /\ Len(<<a, b, c>>) = 3
    OBVIOUS
  <2> HIDE DEF S
  <2>2. z \in Seq(S) /\ Len(z) = 3
    BY <2>1, ConcatProperties
  <2>3. z[1] = a /\ z[2] = b /\ z[3] = c
    BY <2>1, ConcatProperties
  <2> HIDE DEF z
  <2>4. \A k \in 1..3 : z[k] = <<a, b, c>>[k]
    BY <2>3
  <2>5. z = <<a, b, c>>
    BY <2>1, <2>2, <2>4, SeqEqual
  <2> QED BY <2>5 DEF z
<1>3. ASSUME NEW a, NEW b, NEW c, NEW d
      PROVE  <<a, b>> \o <<c, d>> = <<a, b, c, d>>
  <2> DEFINE S == {a, b, c, d}
             z == <<a, b>> \o <<c, d>>
  <2>1. /\ <<a, b>> \in Seq(S) /\ <<c, d>> \in Seq(S)
        /\ <<a, b, c, d>> \in Seq(S) /\ Len(<<a, b, c, d>>) = 4
    OBVIOUS
  <2> HIDE DEF S
  <2>2. z \in Seq(S) /\ Len(z) = 4
    BY <2>1, ConcatProperties
  <2>3. z[1] = a /\ z[2] = b /\ z[3] = c /\ z[4] = d
    BY <2>1, ConcatProperties
  <2> HIDE DEF z
  <2>4. \A k \in 1..4 : z[k] = <<a, b, c, d>>[k]
    BY <2>3
  <2>5. z = <<a, b, c, d>>
    BY <2>1, <2>2, <2>4, SeqEqual
  <2> QED BY <2>5 DEF z
<1>4. ASSUME NEW a, NEW b, NEW c, NEW d, NEW e
      PROVE  <<a, b, c>> \o <<d, e>> = <<a, b, c, d, e>>
  <2> DEFINE S == {a, b, c, d, e}
             z == <<a, b, c>> \o <<d, e>>
  <2>1. /\ <<a, b, c>> \in Seq(S) /\ <<d, e>> \in Seq(S)
        /\ <<a, b, c, d, e>> \in Seq(S) /\ Len(<<a, b, c, d, e>>) = 5
    OBVIOUS
  <2> HIDE DEF S
  <2>2. z \in Seq(S) /\ Len(z) = 5
    BY <2>1, ConcatProperties
  <2>3. /\ z[1] = a /\ z[2] = b /\ z[3] = c /\ z[4] = d
        /\ z[5] = e
    BY <2>1, ConcatProperties
  <2> HIDE DEF z
  <2>4. \A k \in 1..5 : z[k] = <<a, b, c, d, e>>[k]
    BY <2>3
  <2>5. z = <<a, b, c, d, e>>
    BY <2>1, <2>2, <2>4, SeqEqual
  <2> QED BY <2>5 DEF z
<1>5. ASSUME NEW a, NEW b, NEW c, NEW d, NEW e
      PROVE  <<a, b, c, d>> \o <<e>> = <<a, b, c, d, e>>
  <2> DEFINE S == {a, b, c, d, e}
             z == <<a, b, c, d>> \o <<e>>
  <2>1. /\ <<a, b, c, d>> \in Seq(S) /\ <<e>> \in Seq(S)
        /\ <<a, b, c, d, e>> \in Seq(S) /\ Len(<<a, b, c, d, e>>) = 5
    OBVIOUS
  <2> HIDE DEF S
  <2>2. z \in Seq(S) /\ Len(z) = 5
    BY <2>1, ConcatProperties
  <2>3. /\ z[1] = a /\ z[2] = b /\ z[3] = c /\ z[4] = d
        /\ z[5] = e
    BY <2>1, ConcatProperties
  <2> HIDE DEF z
  <2>4. \A k \in 1..5 : z[k] = <<a, b, c, d, e>>[k]
    BY <2>3
  <2>5. z = <<a, b, c, d, e>>
    BY <2>1, <2>2, <2>4, SeqEqual
  <2> QED BY <2>5 DEF z
<1>6. ASSUME NEW a, NEW b, NEW c, NEW d, NEW e, NEW g
      PROVE  <<a, b, c, d, e>> \o <<g>> = <<a, b, c, d, e, g>>
  <2> DEFINE S == {a, b, c, d, e, g}
             z == <<a, b, c, d, e>> \o <<g>>
  <2>1. /\ <<a, b, c, d, e>> \in Seq(S) /\ <<g>> \in Seq(S)
        /\ <<a, b, c, d, e, g>> \in Seq(S) /\ Len(<<a, b, c, d, e, g>>) = 6
    OBVIOUS
  <2> HIDE DEF S
  <2>2. z \in Seq(S) /\ Len(z) = 6
    BY <2>1, ConcatProperties
  <2>3. /\ z[1] = a /\ z[2] = b /\ z[3] = c /\ z[4] = d
        /\ z[5] = e /\ z[6] = g
    BY <2>1, ConcatProperties
  <2> HIDE DEF z
  <2>4. \A k \in 1..6 : z[k] = <<a, b, c, d, e, g>>[k]
    BY <2>3
  <2>5. z = <<a, b, c, d, e, g>>
    BY <2>1, <2>2, <2>4, SeqEqual
  <2> QED BY <2>5 DEF z
<1>7. ASSUME NEW a, NEW b, NEW c, NEW d, NEW e, NEW g, NEW h
      PROVE  <<a, b, c, d>> \o <<e, g, h>> = <<a, b, c, d, e, g, h>>
  <2> DEFINE S == {a, b, c, d, e, g, h}
             z == <<a, b, c, d>> \o <<e, g, h>>
  <2>1. /\ <<a, b, c, d>> \in Seq(S) /\ <<e, g, h>> \in Seq(S)
        /\ <<a, b, c, d, e, g, h>> \in Seq(S) /\ Len(<<a, b, c, d, e, g, h>>) = 7
    OBVIOUS
  <2> HIDE DEF S
  <2>2. z \in Seq(S) /\ Len(z) = 7
    BY <2>1, ConcatProperties
  <2>3. /\ z[1] = a /\ z[2] = b /\ z[3] = c /\ z[4] = d
        /\ z[5] = e /\ z[6] = g /\ z[7] = h
    BY <2>1, ConcatProperties
  <2> HIDE DEF z
  <2>4. \A k \in 1..7 : z[k] = <<a, b, c, d, e, g, h>>[k]
    BY <2>3
  <2>5. z = <<a, b, c, d, e, g, h>>
    BY <2>1, <2>2, <2>4, SeqEqual
  <2> QED BY <2>5 DEF z
<1> QED BY <1>1, <1>2, <1>3, <1>4, <1>5, <1>6, <1>7

\* The chain that the directors send, for each kind of query.
LEMMA DirectorsOf ==
  ASSUME NEW q
  PROVE  /\ asksClone(q) =>
              Directors(q) = <<"full-reset", "set-una", "owl-read", "kb-ontologies",
                               "clone-abox", "state", "ask">>
         /\ ~asksClone(q) /\ q.atom = "dlDR" =>
              Directors(q) = <<"full-reset", "set-una", "mirror", "owl-read",
                               "kb-ontologies", "retrieve">>
         /\ ~asksClone(q) /\ q.atom # "dlDR" =>
              Directors(q) = <<"full-reset", "set-una", "owl-read", "kb-ontologies",
                               "retrieve">>
<1>1. ASSUME asksClone(q)
      PROVE  Directors(q) = <<"full-reset", "set-una", "owl-read", "kb-ontologies",
                              "clone-abox", "state", "ask">>
  <2>1. q.atom # "dlDR"
    BY <1>1 DEF asksClone
  <2>2. Setup(q) = <<"full-reset", "set-una">>
    BY <2>1, ShortConcat DEF Setup
  <2>3. <<"full-reset", "set-una">> \o <<"owl-read", "kb-ontologies">>
          = <<"full-reset", "set-una", "owl-read", "kb-ontologies">>
    BY ShortConcat
  <2>4. <<"full-reset", "set-una", "owl-read", "kb-ontologies">>
          \o <<"clone-abox", "state", "ask">>
          = <<"full-reset", "set-una", "owl-read", "kb-ontologies",
              "clone-abox", "state", "ask">>
    BY ShortConcat
  <2> QED BY <1>1, <2>2, <2>3, <2>4 DEF Directors, Premise
<1>2. ASSUME ~asksClone(q) /\ q.atom = "dlDR"
      PROVE  Directors(q) = <<"full-reset", "set-una", "mirror", "owl-read",
                              "kb-ontologies", "retrieve">>
  <2>1. Setup(q) = <<"full-reset", "set-una", "mirror">>
    BY <1>2, ShortConcat DEF Setup
  <2>2. <<"full-reset", "set-una", "mirror">> \o <<"owl-read", "kb-ontologies">>
          = <<"full-reset", "set-una", "mirror", "owl-read", "kb-ontologies">>
    BY ShortConcat
  <2>3. <<"full-reset", "set-una", "mirror", "owl-read", "kb-ontologies">>
          \o <<"retrieve">>
          = <<"full-reset", "set-una", "mirror", "owl-read", "kb-ontologies",
              "retrieve">>
    BY ShortConcat
  <2> QED BY <1>2, <2>1, <2>2, <2>3 DEF Directors, Premise
<1>3. ASSUME ~asksClone(q) /\ q.atom # "dlDR"
      PROVE  Directors(q) = <<"full-reset", "set-una", "owl-read", "kb-ontologies",
                              "retrieve">>
  <2>1. Setup(q) = <<"full-reset", "set-una">>
    BY <1>3, ShortConcat DEF Setup
  <2>2. <<"full-reset", "set-una">> \o <<"owl-read", "kb-ontologies">>
          = <<"full-reset", "set-una", "owl-read", "kb-ontologies">>
    BY ShortConcat
  <2>3. <<"full-reset", "set-una", "owl-read", "kb-ontologies">> \o <<"retrieve">>
          = <<"full-reset", "set-una", "owl-read", "kb-ontologies", "retrieve">>
    BY ShortConcat
  <2> QED BY <1>3, <2>1, <2>2, <2>3 DEF Directors, Premise
<1> QED BY <1>1, <1>2, <1>3

\* Every query begins at the head of its chain.
LEMMA ChainBegins ==
  ASSUME NEW q \in Queries, NEW i \in Inters, asking' = Asking(q, i),
         todo' = Directors(q)
  PROVE  ChainInv'
<1>1. asking'.query = q /\ asking'.inter = i /\ asking' \in Questions
  BY DEF Asking, Questions
<1>2. CASE asksClone(q)
  <2>1. todo' = <<"full-reset", "set-una", "owl-read", "kb-ontologies",
                  "clone-abox", "state", "ask">>
    BY <1>2, DirectorsOf
  <2> QED BY <1>1, <1>2, <2>1 DEF ChainInv, CloneChain, asksClone
<1>3. CASE ~asksClone(q) /\ q.atom = "dlDR"
  <2>1. todo' = <<"full-reset", "set-una", "mirror", "owl-read", "kb-ontologies",
                  "retrieve">>
    BY <1>3, DirectorsOf
  <2> QED BY <1>1, <1>3, <2>1 DEF ChainInv, MirrorChain, asksClone
<1>4. CASE ~asksClone(q) /\ q.atom # "dlDR"
  <2>1. todo' = <<"full-reset", "set-una", "owl-read", "kb-ontologies", "retrieve">>
    BY <1>4, DirectorsOf
  <2> QED BY <1>1, <1>4, <2>1 DEF ChainInv, PremiseChain, asksClone
<1> QED BY <1>2, <1>3, <1>4

-----------------------------------------------------------------------------
(* The commands. *)

\* The next command determines what is left of the chain of a clone,
LEMMA CloneStep ==
  ASSUME NEW i, CloneChain(i)
  PROVE  /\ Head(todo) \in {"full-reset", "set-una", "owl-read", "kb-ontologies",
                            "clone-abox", "state", "ask"}
         /\ Head(todo) = "full-reset" =>
              /\ Tail(todo) = <<"set-una", "owl-read", "kb-ontologies", "clone-abox",
                                "state", "ask">>
         /\ Head(todo) = "set-una" =>
              /\ Tail(todo) = <<"owl-read", "kb-ontologies", "clone-abox", "state",
                                "ask">>
              /\ ResetDone
         /\ Head(todo) = "owl-read" =>
              /\ Tail(todo) = <<"kb-ontologies", "clone-abox", "state", "ask">>
              /\ ResetDone /\ UNAIsSet
         /\ Head(todo) = "kb-ontologies" =>
              /\ Tail(todo) = <<"clone-abox", "state", "ask">>
              /\ ResetDone /\ UNAIsSet
         /\ Head(todo) = "clone-abox" =>
              /\ Tail(todo) = <<"state", "ask">>
              /\ ResetDone /\ UNAIsSet /\ Imported
         /\ Head(todo) = "state" =>
              /\ Tail(todo) = <<"ask">>
              /\ UNAIsSet /\ Imported /\ HasClone({})
         /\ Head(todo) = "ask" =>
              /\ UNAIsSet /\ Imported /\ HasClone(i)
<1>1. ASSUME Head(todo) = "full-reset"
      PROVE  Tail(todo) = <<"set-una", "owl-read", "kb-ontologies", "clone-abox",
                            "state", "ask">>
  <2>1. todo = <<"full-reset", "set-una", "owl-read", "kb-ontologies", "clone-abox",
                 "state", "ask">>
    BY <1>1 DEF CloneChain
  <2> QED BY <2>1
<1>2. ASSUME Head(todo) = "set-una"
      PROVE  /\ Tail(todo) = <<"owl-read", "kb-ontologies", "clone-abox", "state", "ask">>
             /\ ResetDone
  <2>1. /\ todo = <<"set-una", "owl-read", "kb-ontologies", "clone-abox", "state", "ask">>
        /\ ResetDone
    BY <1>2 DEF CloneChain
  <2> QED BY <2>1
<1>3. ASSUME Head(todo) = "owl-read"
      PROVE  /\ Tail(todo) = <<"kb-ontologies", "clone-abox", "state", "ask">>
             /\ ResetDone /\ UNAIsSet
  <2>1. /\ todo = <<"owl-read", "kb-ontologies", "clone-abox", "state", "ask">>
        /\ ResetDone /\ UNAIsSet
    BY <1>3 DEF CloneChain
  <2> QED BY <2>1
<1>4. ASSUME Head(todo) = "kb-ontologies"
      PROVE  /\ Tail(todo) = <<"clone-abox", "state", "ask">>
             /\ ResetDone /\ UNAIsSet
  <2>1. /\ todo = <<"kb-ontologies", "clone-abox", "state", "ask">>
        /\ ResetDone /\ UNAIsSet
    BY <1>4 DEF CloneChain
  <2> QED BY <2>1
<1>5. ASSUME Head(todo) = "clone-abox"
      PROVE  /\ Tail(todo) = <<"state", "ask">>
             /\ ResetDone /\ UNAIsSet /\ Imported
  <2>1. /\ todo = <<"clone-abox", "state", "ask">>
        /\ ResetDone /\ UNAIsSet /\ Imported
    BY <1>5 DEF CloneChain
  <2> QED BY <2>1
<1>6. ASSUME Head(todo) = "state"
      PROVE  /\ Tail(todo) = <<"ask">>
             /\ UNAIsSet /\ Imported /\ HasClone({})
  <2>1. /\ todo = <<"state", "ask">>
        /\ UNAIsSet /\ Imported /\ HasClone({})
    BY <1>6 DEF CloneChain
  <2> QED BY <2>1
<1>7. ASSUME Head(todo) = "ask"
      PROVE  UNAIsSet /\ Imported /\ HasClone(i)
  BY <1>7 DEF CloneChain
<1>8. Head(todo) \in {"full-reset", "set-una", "owl-read", "kb-ontologies",
                     "clone-abox", "state", "ask"}
  BY DEF CloneChain
<1> QED BY <1>1, <1>2, <1>3, <1>4, <1>5, <1>6, <1>7, <1>8

\* The same for the chain of a query of data,
LEMMA MirrorStep ==
  ASSUME MirrorChain
  PROVE  /\ Head(todo) \in {"full-reset", "set-una", "mirror", "owl-read",
                            "kb-ontologies", "retrieve"}
         /\ Head(todo) = "full-reset" =>
              /\ Tail(todo) = <<"set-una", "mirror", "owl-read", "kb-ontologies",
                                "retrieve">>
         /\ Head(todo) = "set-una" =>
              /\ Tail(todo) = <<"mirror", "owl-read", "kb-ontologies", "retrieve">>
         /\ Head(todo) = "mirror" =>
              /\ Tail(todo) = <<"owl-read", "kb-ontologies", "retrieve">>
              /\ UNAIsSet
         /\ Head(todo) = "owl-read" =>
              /\ Tail(todo) = <<"kb-ontologies", "retrieve">>
              /\ UNAIsSet /\ MirrorIsOn
         /\ Head(todo) = "kb-ontologies" =>
              /\ Tail(todo) = <<"retrieve">>
              /\ UNAIsSet /\ MirrorIsOn
         /\ Head(todo) = "retrieve" =>
              /\ UNAIsSet /\ MirrorIsOn /\ Imported
<1>1. ASSUME Head(todo) = "full-reset"
      PROVE  Tail(todo) = <<"set-una", "mirror", "owl-read", "kb-ontologies",
                            "retrieve">>
  <2>1. todo = <<"full-reset", "set-una", "mirror", "owl-read", "kb-ontologies",
                 "retrieve">>
    BY <1>1 DEF MirrorChain
  <2> QED BY <2>1
<1>2. ASSUME Head(todo) = "set-una"
      PROVE  Tail(todo) = <<"mirror", "owl-read", "kb-ontologies", "retrieve">>
  <2>1. todo = <<"set-una", "mirror", "owl-read", "kb-ontologies", "retrieve">>
    BY <1>2 DEF MirrorChain
  <2> QED BY <2>1
<1>3. ASSUME Head(todo) = "mirror"
      PROVE  /\ Tail(todo) = <<"owl-read", "kb-ontologies", "retrieve">>
             /\ UNAIsSet
  <2>1. /\ todo = <<"mirror", "owl-read", "kb-ontologies", "retrieve">>
        /\ UNAIsSet
    BY <1>3 DEF MirrorChain
  <2> QED BY <2>1
<1>4. ASSUME Head(todo) = "owl-read"
      PROVE  /\ Tail(todo) = <<"kb-ontologies", "retrieve">>
             /\ UNAIsSet /\ MirrorIsOn
  <2>1. /\ todo = <<"owl-read", "kb-ontologies", "retrieve">>
        /\ UNAIsSet /\ MirrorIsOn
    BY <1>4 DEF MirrorChain
  <2> QED BY <2>1
<1>5. ASSUME Head(todo) = "kb-ontologies"
      PROVE  /\ Tail(todo) = <<"retrieve">>
             /\ UNAIsSet /\ MirrorIsOn
  <2>1. /\ todo = <<"kb-ontologies", "retrieve">>
        /\ UNAIsSet /\ MirrorIsOn
    BY <1>5 DEF MirrorChain
  <2> QED BY <2>1
<1>6. ASSUME Head(todo) = "retrieve"
      PROVE  UNAIsSet /\ MirrorIsOn /\ Imported
  BY <1>6 DEF MirrorChain
<1>7. Head(todo) \in {"full-reset", "set-una", "mirror", "owl-read", "kb-ontologies",
                     "retrieve"}
  BY DEF MirrorChain
<1> QED BY <1>1, <1>2, <1>3, <1>4, <1>5, <1>6, <1>7

\* and for that of any other query asked under a premise.
LEMMA PremiseStep ==
  ASSUME PremiseChain
  PROVE  /\ Head(todo) \in {"full-reset", "set-una", "owl-read",
                            "kb-ontologies", "retrieve"}
         /\ Head(todo) = "full-reset" =>
              /\ Tail(todo) = <<"set-una", "owl-read", "kb-ontologies", "retrieve">>
         /\ Head(todo) = "set-una" =>
              /\ Tail(todo) = <<"owl-read", "kb-ontologies", "retrieve">>
         /\ Head(todo) = "owl-read" =>
              /\ Tail(todo) = <<"kb-ontologies", "retrieve">>
              /\ UNAIsSet
         /\ Head(todo) = "kb-ontologies" =>
              /\ Tail(todo) = <<"retrieve">>
              /\ UNAIsSet
         /\ Head(todo) = "retrieve" =>
              /\ UNAIsSet /\ Imported
<1>1. ASSUME Head(todo) = "full-reset"
      PROVE  Tail(todo) = <<"set-una", "owl-read", "kb-ontologies", "retrieve">>
  <2>1. todo = <<"full-reset", "set-una", "owl-read", "kb-ontologies", "retrieve">>
    BY <1>1 DEF PremiseChain
  <2> QED BY <2>1
<1>2. ASSUME Head(todo) = "set-una"
      PROVE  Tail(todo) = <<"owl-read", "kb-ontologies", "retrieve">>
  <2>1. todo = <<"set-una", "owl-read", "kb-ontologies", "retrieve">>
    BY <1>2 DEF PremiseChain
  <2> QED BY <2>1
<1>3. ASSUME Head(todo) = "owl-read"
      PROVE  /\ Tail(todo) = <<"kb-ontologies", "retrieve">>
             /\ UNAIsSet
  <2>1. /\ todo = <<"owl-read", "kb-ontologies", "retrieve">>
        /\ UNAIsSet
    BY <1>3 DEF PremiseChain
  <2> QED BY <2>1
<1>4. ASSUME Head(todo) = "kb-ontologies"
      PROVE  /\ Tail(todo) = <<"retrieve">>
             /\ UNAIsSet
  <2>1. /\ todo = <<"kb-ontologies", "retrieve">>
        /\ UNAIsSet
    BY <1>4 DEF PremiseChain
  <2> QED BY <2>1
<1>5. ASSUME Head(todo) = "retrieve"
      PROVE  UNAIsSet /\ Imported
  BY <1>5 DEF PremiseChain
<1>6. Head(todo) \in {"full-reset", "set-una", "owl-read", "kb-ontologies", "retrieve"}
  BY DEF PremiseChain
<1> QED BY <1>1, <1>2, <1>3, <1>4, <1>5, <1>6

-----------------------------------------------------------------------------
(* Steps that send one command and go on with the next. *)

\* What a command that is followed by another did, or failed to do unnoticed.
Progress ==
  /\ Head(todo) = "full-reset" => ResetDone'
  /\ Head(todo) = "set-una" => UNAIsSet'
  /\ Head(todo) = "mirror" => MirrorIsOn'
  /\ Head(todo) = "kb-ontologies" => Imported'
  /\ Head(todo) = "clone-abox" /\ ResetDone => HasClone({})'
  /\ Head(todo) = "state" /\ HasClone({}) => HasClone(asking.inter)'
  /\ Head(todo) \notin {"full-reset", "clone-abox", "state"} /\ ResetDone => ResetDone'
  /\ Head(todo) \notin {"full-reset", "set-una"} /\ UNAIsSet => UNAIsSet'
  /\ Head(todo) \notin {"full-reset", "set-una", "mirror"} /\ MirrorIsOn => MirrorIsOn'
  /\ Head(todo) \in {"clone-abox", "state"} /\ Imported => Imported'

\* The query goes on; what failed unnoticed is remembered.
GoesOn ==
  /\ todo' = Tail(todo) /\ UNCHANGED <<cache, returned>>
  /\ \/ asking' = asking
     \/ \E command \in IgnoredCommands :
          asking' = [asking EXCEPT !.missed = @ \union {command}]

\* It stays the same query.
LEMMA SameQuery ==
  ASSUME asking \in Questions, GoesOn
  PROVE  /\ asking' \in Questions /\ asking' # NoQuery
         /\ asking'.query = asking.query /\ asking'.inter = asking.inter
         /\ asking.missed \subseteq asking'.missed
<1>1. asking # NoQuery
  BY DEF Questions, NoQuery
<1>2. CASE asking' = asking
  BY <1>1, <1>2
<1>3. ASSUME NEW command \in IgnoredCommands,
             asking' = [asking EXCEPT !.missed = @ \union {command}]
      PROVE  /\ asking' \in Questions
             /\ asking'.query = asking.query /\ asking'.inter = asking.inter
             /\ asking.missed \subseteq asking'.missed
  <2>1. asking.missed \union {command} \in SUBSET IgnoredCommands
    BY DEF Questions
  <2> HIDE DEF IgnoredCommands
  <2> QED BY <1>3, <2>1 DEF Questions
<1>4. asking' \in Questions => asking' # NoQuery
  BY DEF Questions, NoQuery
<1> QED BY <1>2, <1>3, <1>4 DEF GoesOn

\* A cache and an answer that a step leaves alone stay right.
LEMMA UntouchedInv ==
  ASSUME SInv, UNCHANGED <<cache, returned>>
  PROVE  CacheInv' /\ ReturnedInv'
<1>1. \A p, j, w, us, m : Right(p, j, w, us, m)' <=> Right(p, j, w, us, m)
  BY DEF Right, Exact, Sound, Grounding
<1>2. CacheInv'
  BY <1>1 DEF SInv, CacheInv
<1>3. ReturnedInv'
  BY <1>1 DEF SInv, ReturnedInv, IsAnswer
<1> QED BY <1>2, <1>3

\* A command that is followed by another leaves the query one further in its chain.
LEMMA ContinueInv ==
  ASSUME SInv, asking # NoQuery, GoesOn, Progress,
         Head(todo) \notin {"ask", "retrieve"}
  PROVE  ChainInv' /\ CacheInv' /\ ReturnedInv'
<1>1. /\ todo' = Tail(todo) /\ asking' \in Questions
      /\ asking'.query = asking.query /\ asking'.inter = asking.inter
  BY SameQuery DEF GoesOn, SInv, ChainInv
<1>2. CacheInv' /\ ReturnedInv'
  BY UntouchedInv DEF GoesOn
<1>3. asking.query \in Queries /\ asking.inter \in Inters
  BY DEF SInv, ChainInv
<1>4. CASE asksClone(asking.query)
  <2>1. CloneChain(asking.inter)
    BY <1>4 DEF SInv, ChainInv
  <2>2. CloneChain(asking.inter)'
    <3>1. CASE Head(todo) = "full-reset"
      BY <1>1, <2>1, <3>1, CloneStep DEF CloneChain, Progress
    <3>2. CASE Head(todo) = "set-una"
      BY <1>1, <2>1, <3>2, CloneStep DEF CloneChain, Progress
    <3>3. CASE Head(todo) = "owl-read"
      BY <1>1, <2>1, <3>3, CloneStep DEF CloneChain, Progress
    <3>4. CASE Head(todo) = "kb-ontologies"
      BY <1>1, <2>1, <3>4, CloneStep DEF CloneChain, Progress
    <3>5. CASE Head(todo) = "clone-abox"
      BY <1>1, <2>1, <3>5, CloneStep DEF CloneChain, Progress
    <3>6. CASE Head(todo) = "state"
      BY <1>1, <2>1, <3>6, CloneStep DEF CloneChain, Progress
    <3> QED BY <2>1, <3>1, <3>2, <3>3, <3>4, <3>5, <3>6, CloneStep
  <2> QED BY <1>1, <1>2, <1>3, <1>4, <2>2 DEF ChainInv, asksClone
<1>5. CASE ~asksClone(asking.query) /\ asking.query.atom = "dlDR"
  <2>1. MirrorChain
    BY <1>5 DEF SInv, ChainInv
  <2>2. MirrorChain'
    <3>1. CASE Head(todo) = "full-reset"
      BY <1>1, <2>1, <3>1, MirrorStep DEF MirrorChain
    <3>2. CASE Head(todo) = "set-una"
      BY <1>1, <2>1, <3>2, MirrorStep DEF MirrorChain, Progress
    <3>3. CASE Head(todo) = "mirror"
      BY <1>1, <2>1, <3>3, MirrorStep DEF MirrorChain, Progress
    <3>4. CASE Head(todo) = "owl-read"
      BY <1>1, <2>1, <3>4, MirrorStep DEF MirrorChain, Progress
    <3>5. CASE Head(todo) = "kb-ontologies"
      BY <1>1, <2>1, <3>5, MirrorStep DEF MirrorChain, Progress
    <3> QED BY <2>1, <3>1, <3>2, <3>3, <3>4, <3>5, MirrorStep
  <2> QED BY <1>1, <1>2, <1>3, <1>5, <2>2 DEF ChainInv, asksClone
<1>6. CASE ~asksClone(asking.query) /\ asking.query.atom # "dlDR"
  <2>1. PremiseChain
    BY <1>6 DEF SInv, ChainInv
  <2>2. PremiseChain'
    <3>1. CASE Head(todo) = "full-reset"
      BY <1>1, <2>1, <3>1, PremiseStep DEF PremiseChain
    <3>2. CASE Head(todo) = "set-una"
      BY <1>1, <2>1, <3>2, PremiseStep DEF PremiseChain, Progress
    <3>3. CASE Head(todo) = "owl-read"
      BY <1>1, <2>1, <3>3, PremiseStep DEF PremiseChain, Progress
    <3>4. CASE Head(todo) = "kb-ontologies"
      BY <1>1, <2>1, <3>4, PremiseStep DEF PremiseChain, Progress
    <3> QED BY <2>1, <3>1, <3>2, <3>3, <3>4, PremiseStep
  <2> QED BY <1>1, <1>2, <1>3, <1>6, <2>2 DEF ChainInv, asksClone
<1> QED BY <1>4, <1>5, <1>6

-----------------------------------------------------------------------------
(* Steps that end a query. *)

\* What unnoticed failures do to an answer.
LEMMA DamageOf ==
  ASSUME NEW missed
  PROVE  /\ Damage(missed) = "none" <=> missed \subseteq {"full-reset"}
         /\ Damage(missed) = "any" <=> {"full-reset", "clone-abox"} \subseteq missed
         /\ Damage(missed) \in Damages
BY DEF Damage, Damages

\* Parsing delivers what is right if RACER answers what it should, or less when it was
\* not set up.
LEMMA ParseInv ==
  ASSUME SInv, asking # NoQuery, NEW ts, Parse(ts),
         Damage(asking.missed) = "none" =>
           /\ asking.inter \notin Inconsistent => ts = Entailed[asking.query][asking.inter]
           /\ asking.inter \in Inconsistent => asking.query.atom = "dlConsistent" /\ ts = {},
         Damage(asking.missed) # "any" /\ asking.inter \notin Inconsistent =>
           ts \subseteq Entailed[asking.query][asking.inter]
  PROVE  ChainInv' /\ CacheInv' /\ ReturnedInv'
<1> DEFINE q == asking.query
           i == asking.inter
           d == Damage(asking.missed)
           v == IF isBoolean(q) /\ ts # {} THEN "T" ELSE "NIL"
<1>1. q \in Queries
  BY DEF SInv, ChainInv
<1>2. Projected(q, {}) = {}
  BY DEF Projected
<1>3. q.atom = "dlConsistent" => isBoolean(q)
  <2>1. q.atom = "dlConsistent" => q.pattern = <<>>
    BY <1>1, SessionConstants
  <2> QED BY <2>1 DEF isBoolean
<1>4. d = "none" => Exact(q, i, v, Projected(q, ts))
  <2> SUFFICES ASSUME d = "none" PROVE Exact(q, i, v, Projected(q, ts))
    OBVIOUS
  <2>1. CASE i \notin Inconsistent
    <3>1. ts = Entailed[q][i]
      BY <2>1
    <3> HIDE DEF q, i, d
    <3> QED BY <2>1, <3>1 DEF Exact
  <2>2. CASE i \in Inconsistent
    <3>1. q.atom = "dlConsistent" /\ ts = {}
      BY <2>2
    <3> HIDE DEF q, i, d
    <3> QED BY <1>2, <1>3, <2>2, <3>1 DEF Exact
  <2> QED BY <2>1, <2>2
<1>5. d # "any" => Sound(q, i, Projected(q, ts))
  <2>1. d # "any" /\ i \notin Inconsistent => ts \subseteq Entailed[q][i]
    OBVIOUS
  <2> HIDE DEF q, i, d
  <2> QED BY <2>1 DEF Sound, Projected
<1>6. isBoolean(q) /\ v # "T" => Projected(q, ts) = {}
  BY <1>2
<1>7. Right(q, i, v, Projected(q, ts), d)
  <2> HIDE DEF q, i, d, v
  <2> QED BY <1>4, <1>5, <1>6 DEF Right
<1>8. Deliver(v, Projected(q, ts))
  BY DEF Parse
<1> QED BY <1>7, <1>8, DeliverInv

\* So does handleInconsistency, unless the document changed before it was parsed.
LEMMA InconsistencyInv ==
  ASSUME SInv, asking # NoQuery, HandleInconsistency,
         Damage(asking.missed) # "any" => asking.inter \in Inconsistent
  PROVE  ChainInv' /\ CacheInv' /\ ReturnedInv' /\ ObjectsInv'
<1> DEFINE q == asking.query
           i == asking.inter
           d == Damage(asking.missed)
           universe == Known \union (IF objects = {} THEN OwnIndividuals ELSE {})
                         \union AddedIndividuals
<1>1. CASE isBoolean(q)
  <2>1. Deliver("T", TrivialTuples) /\ objects' = objects
    BY <1>1 DEF HandleInconsistency
  <2>2. Right(q, i, "T", TrivialTuples, d)
    <3>1. d # "any" => i \in Inconsistent
      OBVIOUS
    <3> HIDE DEF q, i, d
    <3>2. i \in Inconsistent => Exact(q, i, "T", TrivialTuples) /\ Sound(q, i, TrivialTuples)
      BY <1>1 DEF Exact, Sound, TrivialTuples
    <3> QED BY <3>1, <3>2 DEF Right
  <2>3. ObjectsInv'
    BY <2>1 DEF SInv, ObjectsInv
  <2> QED BY <2>1, <2>2, <2>3, DeliverInv
<1>2. CASE ~isBoolean(q) /\ objects' = {universe} /\ Deliver("NIL", Grounding(q, universe))
  <2>1. ASSUME ~MayFailParse PROVE OwnIndividuals \subseteq universe
    BY <2>1 DEF SInv, ObjectsInv, Known
  <2>2. ObjectsInv'
    BY <1>2, <2>1 DEF ObjectsInv
  <2>3. q.atom # "dlConsistent"
    <3>1. q \in Queries
      BY DEF SInv, ChainInv
    <3>2. q.atom = "dlConsistent" => q.pattern = <<>>
      BY <3>1, SessionConstants
    <3> QED BY <1>2, <3>2 DEF isBoolean
  <2>4. ASSUME ~MayFailParse
        PROVE  Grounding(q, OwnIndividuals \union UNION {Mentions[h] : h \in i})
                 \subseteq Grounding(q, universe)
    <3>1. OwnIndividuals \union UNION {Mentions[h] : h \in i} \subseteq universe
      BY <2>1, <2>4 DEF AddedIndividuals
    <3> HIDE DEF universe
    <3> QED BY <3>1 DEF Grounding
  <2>5. Right(q, i, "NIL", Grounding(q, universe), d)
    <3>1. d # "any" => i \in Inconsistent
      OBVIOUS
    <3> HIDE DEF q, i, d, universe
    <3>2. i \in Inconsistent =>
            Exact(q, i, "NIL", Grounding(q, universe)) /\ Sound(q, i, Grounding(q, universe))
      BY <1>2, <2>3, <2>4 DEF Exact, Sound
    <3> QED BY <1>2, <3>1, <3>2 DEF Right
  <2>6. ChainInv' /\ CacheInv' /\ ReturnedInv'
    BY <1>2, <2>5, DeliverInv
  <2> QED BY <2>2, <2>6
<1>3. CASE MayFailParse /\ Throw
  BY <1>3, ThrowInv DEF ObjectsInv
<1> QED BY <1>1, <1>2, <1>3 DEF HandleInconsistency

\* The question itself, as far as RACER is set up for it.
LEMMA AnswersInv ==
  ASSUME SInv, asking # NoQuery, NEW facts \in Inters, AnswersUnder(facts),
         Damage(asking.missed) # "any" => facts = asking.inter,
         Damage(asking.missed) = "none" => IsSetUp(asking.query)
  PROVE  ChainInv' /\ CacheInv' /\ ReturnedInv' /\ ObjectsInv'
<1> DEFINE q == asking.query
           i == asking.inter
           d == Damage(asking.missed)
<1>1. CASE /\ facts \notin Inconsistent \/ ~IsSetUp(q)
           /\ \E ts \in Conclusions(q, facts) : Parse(ts)
           /\ UNCHANGED objects
  <2>1. PICK ts \in Conclusions(q, facts) : Parse(ts)
    BY <1>1
  <2>2. /\ d # "any" => facts = i
        /\ d = "none" => IsSetUp(q) /\ facts \notin Inconsistent
        /\ d = "none" => d # "any"
    BY <1>1
  <2>3. /\ IsSetUp(q) => ts = Entailed[q][facts]
        /\ facts \notin Inconsistent => ts \subseteq Entailed[q][facts]
    BY <2>1 DEF Conclusions
  <2>4. /\ d = "none" => facts = i /\ i \notin Inconsistent /\ ts = Entailed[q][i]
        /\ d # "any" /\ i \notin Inconsistent => ts \subseteq Entailed[q][i]
    <3> HIDE DEF q, i, d
    <3> QED BY <2>2, <2>3
  <2>5. ChainInv' /\ CacheInv' /\ ReturnedInv'
    BY <2>1, <2>4, ParseInv
  <2> QED BY <1>1, <2>5 DEF SInv, ObjectsInv
<1>2. CASE /\ facts \in Inconsistent /\ q.atom = "dlConsistent"
           /\ Parse({}) /\ UNCHANGED objects
  <2>1. d # "any" => i \in Inconsistent
    BY <1>2
  <2>2. d = "none" => d # "any"
    OBVIOUS
  <2>3. ChainInv' /\ CacheInv' /\ ReturnedInv'
    BY <1>2, <2>1, <2>2, ParseInv
  <2> QED BY <1>2, <2>3 DEF SInv, ObjectsInv
<1>3. CASE facts \in Inconsistent /\ HandleInconsistency
  BY <1>3, InconsistencyInv
<1> QED BY <1>1, <1>2, <1>3 DEF AnswersUnder

-----------------------------------------------------------------------------
(* Every step. *)

\* A session begins with nothing asked, cached or answered.
LEMMA InitInv == Init => SInv
<1> SUFFICES ASSUME Init PROVE SInv
  OBVIOUS
<1>1. RacerType
  <2>1. FreshRacer \in [una : BOOLEAN, mirror : BOOLEAN, kb : {"none", "read", "imported"},
                        clone : SUBSET Inters]
    BY DEF FreshRacer
  <2> QED BY <2>1 DEF Init, RacerType
<1>2. ChainInv /\ ObjectsInv
  BY DEF Init, ChainInv, ObjectsInv
<1>3. CacheInv
  BY DEF Init, CacheInv
<1>4. ReturnedInv
  BY DEF Init, ReturnedInv, IsAnswer, NoQuery
<1> QED BY <1>1, <1>2, <1>3, <1>4 DEF SInv

\* RACER's settings keep their types.
LEMMA RacerTypeInv ==
  ASSUME SInv, [Next]_vars
  PROVE  RacerType'
<1> DEFINE R == [una : BOOLEAN, mirror : BOOLEAN, kb : {"none", "read", "imported"},
                 clone : SUBSET Inters]
<1>1. racer \in R /\ FreshRacer \in R
  BY DEF SInv, RacerType, FreshRacer
<1>2. CASE SetUNA
  <2>1. racer' = [racer EXCEPT !.una = TRUE] \/ racer' = racer
    BY <1>2 DEF SetUNA, Skips, Obeys, Unnoticed
  <2> QED BY <1>1, <2>1 DEF RacerType
<1>3. CASE EnableMirroring
  <2>1. racer' = [racer EXCEPT !.mirror = TRUE] \/ racer' = racer
    BY <1>3 DEF EnableMirroring, Skips, Obeys, Unnoticed
  <2> QED BY <1>1, <2>1 DEF RacerType
<1>4. CASE OpenOWL
  <2>1. racer' = [racer EXCEPT !.kb = "read"]
    BY <1>4 DEF OpenOWL
  <2> QED BY <1>1, <2>1 DEF RacerType
<1>5. CASE ImportOntologies
  <2>1. racer' = [racer EXCEPT !.kb = "imported"] \/ racer' = racer
    BY <1>5 DEF ImportOntologies, Skips, Obeys, Unnoticed
  <2> QED BY <1>1, <2>1 DEF RacerType
<1>6. CASE CloneABox
  <2>1. racer' = [racer EXCEPT !.clone = {{}}] \/ racer' = racer
    BY <1>6 DEF CloneABox, Cloned, Skips, Obeys, Unnoticed
  <2>2. {{}} \in SUBSET Inters
    BY DEF Inters
  <2> QED BY <1>1, <2>1, <2>2 DEF RacerType
<1>7. CASE State
  <2>1. racer' = [racer EXCEPT !.clone = {facts \union asking.inter : facts \in racer.clone}]
    BY <1>1, <1>7 DEF State
  <2>2. asking.inter \in Inters
    BY <1>7 DEF State, Sends, SInv, ChainInv
  <2>3. {facts \union asking.inter : facts \in racer.clone} \in SUBSET Inters
    BY <1>1, <2>2 DEF Inters
  <2> QED BY <1>1, <2>1, <2>3 DEF RacerType
<1>8. CASE racer' = racer \/ racer' = FreshRacer
  BY <1>1, <1>8 DEF RacerType
<1>9. ASSUME [Next]_vars
      PROVE  \/ SetUNA \/ EnableMirroring \/ OpenOWL \/ ImportOntologies \/ CloneABox \/ State
             \/ racer' = racer \/ racer' = FreshRacer
  BY <1>9 DEF Next, vars, CacheHit, Begin, FullReset, Obeys, Unnoticed, Ask, Retrieve, Refuses,
       BuilderThrows, StreamFails
<1> QED BY <1>2, <1>3, <1>4, <1>5, <1>6, <1>7, <1>8, <1>9

\* What a clone holds once it was told the interpretation.
LEMMA ToldClone ==
  ASSUME NEW clone, NEW i
  PROVE  /\ clone = {{}} => {facts \union i : facts \in clone} = {i}
         /\ clone = {} => {facts \union i : facts \in clone} = {}
OBVIOUS

\* A command that is followed by another, obeyed or not, keeps the invariant.
LEMMA CommandsInv ==
  ASSUME SInv,
         \/ FullReset \/ SetUNA \/ EnableMirroring \/ OpenOWL \/ ImportOntologies \/ CloneABox
         \/ State /\ Continue /\ UNCHANGED objects
  PROVE  ChainInv' /\ CacheInv' /\ ReturnedInv' /\ ObjectsInv'
<1>1. asking # NoQuery /\ objects' = objects /\ GoesOn
  BY DEF FullReset, SetUNA, EnableMirroring, OpenOWL, ImportOntologies, CloneABox, State, Sends,
         Skips, Obeys, Continue, Unnoticed, GoesOn, IgnoredCommands
<1>2. ObjectsInv'
  BY <1>1 DEF SInv, ObjectsInv
<1>3. /\ asking.missed \subseteq asking'.missed
      /\ racer \in [una : BOOLEAN, mirror : BOOLEAN, kb : {"none", "read", "imported"},
                    clone : SUBSET Inters]
  BY <1>1, SameQuery DEF SInv, ChainInv, RacerType
<1>4. ASSUME NEW command, Unnoticed(command)
      PROVE  command \in asking'.missed /\ racer' = racer
  BY <1>1, <1>4 DEF Unnoticed, SInv, ChainInv, Questions
<1>5. Head(todo) \notin {"ask", "retrieve"} /\ Progress
  <2> USE <1>3 DEF Sends, Progress, ResetDone, UNAIsSet, MirrorIsOn, Imported, HasClone
  <2>1. CASE FullReset
    <3>1. Head(todo) = "full-reset"
      BY <2>1 DEF FullReset
    <3>2. racer' = FreshRacer \/ "full-reset" \in asking'.missed
      BY <1>4, <2>1 DEF FullReset, Obeys
    <3> QED BY <3>1, <3>2 DEF FreshRacer
  <2>2. CASE SetUNA
    <3>1. Head(todo) = "set-una"
      BY <2>2 DEF SetUNA, Skips
    <3>2. \/ racer' = [racer EXCEPT !.una = TRUE]
          \/ "set-una" \in asking'.missed /\ racer' = racer
      BY <1>4, <2>2 DEF SetUNA, Skips, Obeys
    <3> QED BY <3>1, <3>2
  <2>3. CASE EnableMirroring
    <3>1. Head(todo) = "mirror"
      BY <2>3 DEF EnableMirroring, Skips
    <3>2. \/ racer' = [racer EXCEPT !.mirror = TRUE]
          \/ "mirror" \in asking'.missed /\ racer' = racer
      BY <1>4, <2>3 DEF EnableMirroring, Skips, Obeys
    <3> QED BY <3>1, <3>2
  <2>4. CASE OpenOWL
    BY <2>4 DEF OpenOWL
  <2>5. CASE ImportOntologies
    <3>1. Head(todo) = "kb-ontologies"
      BY <2>5 DEF ImportOntologies, Skips
    <3>2. \/ racer' = [racer EXCEPT !.kb = "imported"]
          \/ "kb-ontologies" \in asking'.missed /\ racer' = racer
      BY <1>4, <2>5 DEF ImportOntologies, Skips, Obeys
    <3> QED BY <3>1, <3>2
  <2>6. CASE CloneABox
    <3>1. Head(todo) = "clone-abox"
      BY <2>6 DEF CloneABox, Skips
    <3>2. \/ racer' = [racer EXCEPT !.clone = {{}}]
          \/ "clone-abox" \in asking'.missed /\ racer' = racer
      BY <1>4, <2>6 DEF CloneABox, Skips, Obeys, Cloned
    <3> QED BY <3>1, <3>2
  <2>7. CASE State /\ Continue
    <3>1. Head(todo) = "state" /\ asking' = asking
      BY <2>7 DEF State, Continue
    <3>2. racer' = [racer EXCEPT !.clone = {facts \union asking.inter : facts \in racer.clone}]
      BY <2>7 DEF State
    <3>3. racer'.una = racer.una /\ racer'.mirror = racer.mirror /\ racer'.kb = racer.kb
      BY <3>2
    <3>4. racer'.clone = {facts \union asking.inter : facts \in racer.clone}
      BY <3>2
    <3>5. racer.clone = {{}} => racer'.clone = {asking.inter}
      BY ONLY <3>4, ToldClone
    <3>6. racer.clone = {} => racer'.clone = {}
      BY ONLY <3>4, ToldClone
    <3> HIDE <3>2
    <3> QED BY <3>1, <3>3, <3>5, <3>6
  <2> QED BY <2>1, <2>2, <2>3, <2>4, <2>5, <2>6, <2>7
<1> QED BY <1>1, <1>2, <1>5, ContinueInv

\* A query that has a clone to be asked of.
LEMMA AsksClone ==
  ASSUME ChainInv, asking # NoQuery, Head(todo) \in {"state", "ask"}
  PROVE  asksClone(asking.query) /\ CloneChain(asking.inter)
<1>1. CASE ~asksClone(asking.query) /\ asking.query.atom = "dlDR"
  BY <1>1, MirrorStep DEF ChainInv
<1>2. CASE ~asksClone(asking.query) /\ asking.query.atom # "dlDR"
  BY <1>2, PremiseStep DEF ChainInv
<1> QED BY <1>1, <1>2 DEF ChainInv

\* If there is a clone it is the one this query needs, or any.
LEMMA CloneIsOwn ==
  ASSUME NEW i, HasClone(i), racer.clone # {}, Damage(asking.missed) # "any"
  PROVE  racer.clone = {i}
BY DamageOf DEF HasClone, ResetDone

\* So does a command that asks, or that finds the ABox incoherent.
LEMMA QuestionsInv ==
  ASSUME SInv,
         \/ Ask \/ Retrieve
         \/ State /\ HandleInconsistency /\ racer.clone # {} /\ racer'.clone \subseteq Inconsistent
  PROVE  ChainInv' /\ CacheInv' /\ ReturnedInv' /\ ObjectsInv'
<1>1. Damage(asking.missed) = "none" =>
        /\ UNAIsSet => racer.una
        /\ MirrorIsOn => racer.mirror
        /\ Imported => racer.kb = "imported"
  BY DamageOf DEF UNAIsSet, MirrorIsOn, Imported
<1>2. CASE Ask
  <2>1. asking # NoQuery /\ Head(todo) = "ask"
    BY <1>2 DEF Ask, Sends
  <2>2. asksClone(asking.query) /\ CloneChain(asking.inter)
    BY <2>1, AsksClone DEF SInv
  <2>3. UNAIsSet /\ Imported /\ HasClone(asking.inter)
    BY <2>1, <2>2, CloneStep
  <2>4. CASE racer.clone = {} /\ Throw /\ UNCHANGED objects
    BY <2>4, ThrowInv DEF SInv, ObjectsInv
  <2>5. CASE \E facts \in racer.clone : AnswersUnder(facts)
    <3>1. PICK facts \in racer.clone : AnswersUnder(facts)
      BY <2>5
    <3>2. facts \in Inters
      BY <3>1 DEF SInv, RacerType
    <3>3. Damage(asking.missed) # "any" => facts = asking.inter
      BY <2>3, <3>1, CloneIsOwn
    <3>4. asking.query.atom # "dlDR"
      BY <2>2 DEF asksClone
    <3>5. Damage(asking.missed) = "none" => IsSetUp(asking.query)
      BY <1>1, <2>3, <3>4 DEF IsSetUp
    <3> QED BY <2>1, <3>1, <3>2, <3>3, <3>5, AnswersInv
  <2> QED BY <1>2, <2>4, <2>5 DEF Ask
<1>3. CASE Retrieve
  <2>1. asking # NoQuery /\ Head(todo) = "retrieve" /\ AnswersUnder(asking.inter)
    BY <1>3 DEF Retrieve, Sends
  <2>2. ~asksClone(asking.query) /\ asking.inter \in Inters
    BY <2>1, CloneStep DEF SInv, ChainInv
  <2>3. UNAIsSet /\ Imported /\ (asking.query.atom = "dlDR" => MirrorIsOn)
    <3>1. CASE asking.query.atom = "dlDR"
      BY <2>1, <2>2, <3>1, MirrorStep DEF SInv, ChainInv
    <3>2. CASE asking.query.atom # "dlDR"
      BY <2>1, <2>2, <3>2, PremiseStep DEF SInv, ChainInv
    <3> QED BY <3>1, <3>2
  <2>4. Damage(asking.missed) = "none" => IsSetUp(asking.query)
    BY <1>1, <2>3 DEF IsSetUp
  <2> QED BY <2>1, <2>2, <2>4, AnswersInv
<1>4. CASE State /\ HandleInconsistency /\ racer.clone # {} /\ racer'.clone \subseteq Inconsistent
  <2>1. asking # NoQuery /\ Head(todo) = "state"
    BY <1>4 DEF State, Sends
  <2>2. CloneChain(asking.inter)
    BY <2>1, AsksClone DEF SInv
  <2>3. HasClone({})
    BY <2>1, <2>2, CloneStep
  <2>4. ASSUME Damage(asking.missed) # "any" PROVE asking.inter \in Inconsistent
    <3>1. racer.clone = {{}}
      BY <1>4, <2>3, <2>4, CloneIsOwn
    <3>2. asking.inter \in racer'.clone
      BY <1>4, <3>1 DEF State, SInv, RacerType
    <3> QED BY <1>4, <3>2
  <2> QED BY <1>4, <2>1, <2>4, InconsistencyInv
<1> QED BY <1>2, <1>3, <1>4

\* No step disturbs the invariant.
LEMMA StepInv == SInv /\ [Next]_vars => SInv'
<1> SUFFICES ASSUME SInv, [Next]_vars PROVE SInv'
  OBVIOUS
<1>1. RacerType'
  BY RacerTypeInv
<1>2. ASSUME NEW q \in Queries, NEW i \in Inters, CacheHit(q, i)
      PROVE  ChainInv' /\ CacheInv' /\ ReturnedInv' /\ ObjectsInv'
  <2>1. PICK e \in isValid(q, i, cache[q]) : returned' = Answered(q, i, e.value, e.tuples, e.damage)
    BY <1>2 DEF CacheHit
  <2>2. Right(q, i, e.value, e.tuples, e.damage)
    BY <1>2, ReuseIsRight DEF SInv, CacheHit
  <2>3. \A p, j, w, us, m : Right(p, j, w, us, m)' <=> Right(p, j, w, us, m)
    BY DEF Right, Exact, Sound, Grounding
  <2>4. asking = NoQuery /\ asking' = asking /\ cache' = cache /\ objects' = objects
    BY <1>2 DEF CacheHit
  <2>5. ChainInv' /\ ObjectsInv'
    BY <2>4 DEF ChainInv, SInv, ObjectsInv
  <2>6. CacheInv'
    BY <2>3, <2>4 DEF SInv, CacheInv
  <2>7. /\ returned'.query = q /\ returned'.inter = i
        /\ returned'.value = e.value /\ returned'.tuples = e.tuples
        /\ returned'.damage = e.damage
    BY <2>1 DEF Answered
  <2> QED BY <2>2, <2>3, <2>5, <2>6, <2>7 DEF ReturnedInv
<1>3. ASSUME NEW q \in Queries, NEW i \in Inters, Begin(q, i)
      PROVE  ChainInv' /\ CacheInv' /\ ReturnedInv' /\ ObjectsInv'
  <2>1. ChainInv'
    BY <1>3, ChainBegins DEF Begin
  <2>2. \A p, j, w, us, m : Right(p, j, w, us, m)' <=> Right(p, j, w, us, m)
    BY DEF Right, Exact, Sound, Grounding
  <2>3. CacheInv'
    BY <1>3, <2>2 DEF Begin, SInv, CacheInv
  <2>4. ReturnedInv' /\ ObjectsInv'
    BY <1>3 DEF Begin, SInv, ObjectsInv, ReturnedInv, IsAnswer, NoQuery
  <2> QED BY <2>1, <2>3, <2>4
<1>4. CASE FullReset \/ SetUNA \/ EnableMirroring \/ OpenOWL \/ ImportOntologies \/ CloneABox
  BY <1>1, <1>4, CommandsInv DEF SInv
<1>5. CASE State
  <2>1. \/ Continue /\ UNCHANGED objects
        \/ Throw /\ UNCHANGED objects
        \/ /\ HandleInconsistency
           /\ racer.clone # {} /\ racer'.clone \subseteq Inconsistent
    BY <1>5 DEF State
  <2>2. CASE Continue /\ UNCHANGED objects
    <3>1. State /\ Continue /\ UNCHANGED objects
      BY <1>5, <2>2
    <3>2. ChainInv' /\ CacheInv' /\ ReturnedInv' /\ ObjectsInv'
      BY <3>1, CommandsInv
    <3> QED BY <1>1, <3>2 DEF SInv
  <2>3. CASE HandleInconsistency /\ racer.clone # {} /\ racer'.clone \subseteq Inconsistent
    <3>1. /\ State /\ HandleInconsistency
          /\ racer.clone # {} /\ racer'.clone \subseteq Inconsistent
      BY <1>5, <2>3
    <3>2. ChainInv' /\ CacheInv' /\ ReturnedInv' /\ ObjectsInv'
      BY <3>1, QuestionsInv
    <3> QED BY <1>1, <3>2 DEF SInv
  <2>4. CASE Throw /\ UNCHANGED objects
    <3>1. ObjectsInv'
      BY <2>4 DEF SInv, ObjectsInv
    <3> QED BY <1>1, <2>4, <3>1, ThrowInv DEF SInv
  <2> QED BY <2>1, <2>2, <2>3, <2>4
<1>6. CASE Ask \/ Retrieve
  BY <1>1, <1>6, QuestionsInv DEF SInv
<1>7. CASE Refuses \/ BuilderThrows \/ StreamFails
  <2>1. Throw /\ objects' = objects
    BY <1>7 DEF Refuses, BuilderThrows, StreamFails
  <2>2. ObjectsInv'
    BY <2>1 DEF SInv, ObjectsInv
  <2> QED BY <1>1, <2>1, <2>2, ThrowInv DEF SInv
<1>8. CASE UNCHANGED vars
  <2>1. CacheInv' /\ ReturnedInv'
    BY <1>8, UntouchedInv DEF vars
  <2>2. ChainInv'
    BY <1>8 DEF vars, SInv, ChainInv, CloneChain, MirrorChain, PremiseChain, asksClone,
         ResetDone, UNAIsSet, MirrorIsOn, Imported, HasClone
  <2>3. ObjectsInv'
    BY <1>8 DEF vars, SInv, ObjectsInv
  <2> QED BY <1>1, <2>1, <2>2, <2>3 DEF SInv
<1>9. ASSUME NEW q \in Queries, NEW i \in Inters, CacheHit(q, i) \/ Begin(q, i)
      PROVE  SInv'
  BY <1>1, <1>2, <1>3, <1>9 DEF SInv
<1> QED BY <1>4, <1>5, <1>6, <1>7, <1>8, <1>9 DEF Next

-----------------------------------------------------------------------------
(* Theorems. *)

\* In every session, whatever commands RACER refuses, what is still to be sent finds
\* each command before it obeyed or remembered as an error that was skipped, and what
\* was cached or returned is what that chain can answer: all of what is entailed, a
\* part of it, or anything (SInv).
THEOREM SessionInvariant == Spec => []SInv
BY InitInv, StepInv, PTL DEF Spec

\* Whatever commands RACER refused, garbled or left half done in earlier queries, and
\* whatever is cached, the answer of an external atom under a coherent interpretation
\* is exact if the driver skipped no error in its own chain, or only that of the
\* reset: setup, ontology and clone are sent anew for each query, the clone is
\* overwritten, and the cache reuses only what it may.
THEOREM AnswersAlwaysExact == Spec => []CoherentAnswersExact
<1>1. SInv => CoherentAnswersExact
  BY DEF SInv, ReturnedInv, CoherentAnswersExact, Coherent, Undamaged, Right, Exact
<1> QED BY <1>1, SessionInvariant, PTL

\* RacerIgnoreAnswer skips the error of any of its five commands, in this query or in
\* one that was cached: the answer may lose tuples, but has none that is not entailed,
\* unless the reset and the clone failed in one chain.
THEOREM SkippedErrorsAlwaysOnlyLose == Spec => []SkippedErrorsOnlyLose
<1>1. SInv => SkippedErrorsOnlyLose
  BY DEF SInv, ReturnedInv, SkippedErrorsOnlyLose, Coherent, Right, Sound
<1> QED BY <1>1, SessionInvariant, PTL

\* &dlConsistent is true of the consistent interpretations only, whichever of the
\* state and abox-consistent? commands reports an incoherence.
THEOREM ConsistencyAlwaysDecided == Spec => []ConsistencyDecided
<1>1. SInv => ConsistencyDecided
  <2> SUFFICES ASSUME SInv, Undamaged, returned.query.atom = "dlConsistent"
               PROVE  returned.tuples # {} <=> Coherent
    BY DEF ConsistencyDecided
  <2> DEFINE q == returned.query
             i == returned.inter
  <2>1. q \in Queries /\ i \in Inters /\ Exact(q, i, returned.value, returned.tuples)
    BY DEF SInv, ReturnedInv, Undamaged, Right
  <2>2. CASE i \in Inconsistent
    BY <2>1, <2>2 DEF Exact, Coherent
  <2>3. CASE i \notin Inconsistent
    <3>1. Entailed[q][i] # {}
      BY <2>1, <2>3, ReasonerIsMonotone
    <3>2. returned.tuples = Projected(q, Entailed[q][i])
      BY <2>1, <2>3 DEF Exact
    <3>3. Projected(q, Entailed[q][i]) # {}
      BY <3>1 DEF Projected
    <3> QED BY <2>3, <3>2, <3>3 DEF Coherent
  <2> QED BY <2>2, <2>3
<1> QED BY <1>1, SessionInvariant, PTL

\* handleInconsistency answers a boolean query with true, and so does the cache.
THEOREM InconsistentAlwaysTrue == Spec => []InconsistentIsTrue
<1>1. SInv => InconsistentIsTrue
  BY DEF SInv, ReturnedInv, InconsistentIsTrue, Coherent, Undamaged, Right, Exact
<1> QED BY <1>1, SessionInvariant, PTL

\* handleInconsistency answers a retrieval with all tuples over the individuals of
\* the document and of the interpretation, if the document can always be parsed: what
\* it keeps of an earlier parse is never less than the document.
THEOREM InconsistentAlwaysCovers ==
  ASSUME MayFailParse = FALSE
  PROVE  Spec => []InconsistentRetrievalCovers
<1>1. SInv => InconsistentRetrievalCovers
  BY DEF SInv, ReturnedInv, InconsistentRetrievalCovers, Coherent, Undamaged, Right, Exact
<1> QED BY <1>1, SessionInvariant, PTL

-----------------------------------------------------------------------------
(* The sets the state stays in. *)

\* The components a driver keeps of a tuple are a sequence of individuals.
LEMMA ProjectType ==
  ASSUME NEW q \in Queries, NEW t \in TuplesOf(q)
  PROVE  Project(q, t) \in Tuples
<1> DEFINE free == {k \in DOMAIN t : ~Ground(q, k)}
           place(j) == CHOOSE k \in free : Cardinality({m \in free : m <= k}) = j
<1>1. q.pattern \in Seq(Individuals \union {Var})
  BY SessionConstants
<1>2. /\ Len(q.pattern) \in Nat /\ DOMAIN q.pattern = 1..Len(q.pattern)
      /\ t \in [1..Len(q.pattern) -> Individuals]
  BY <1>1 DEF TuplesOf
<1>3. free \in SUBSET Int /\ free \subseteq DOMAIN t /\ IsFiniteSet(free)
  <2>1. IsFiniteSet(1..Len(q.pattern))
    BY <1>2, FS_Interval
  <2> QED BY <1>2, <2>1, FS_Subset
<1>4. Project(q, t) = [j \in 1..Cardinality(free) |-> t[place(j)]]
  BY DEF Project
<1> HIDE DEF free
<1>5. /\ Cardinality(free) \in Nat
      /\ \A j \in 1..Cardinality(free) : \E k \in free : Rank(free, k) = j
  BY ONLY <1>3, Ranks
<1>6. \A j \in 1..Cardinality(free) : place(j) \in free
  BY <1>5 DEF Rank
<1> HIDE DEF place
<1>7. \A j \in 1..Cardinality(free) : t[place(j)] \in Individuals
  BY <1>2, <1>3, <1>6
<1> QED BY <1>4, <1>5, <1>7 DEF Tuples

\* So is a tuple that fits the output list.
LEMMA TuplesOfType ==
  ASSUME NEW q \in Queries
  PROVE  TuplesOf(q) \subseteq Tuples
<1>1. q.pattern \in Seq(Individuals \union {Var})
  BY SessionConstants
<1>2. Len(q.pattern) \in Nat /\ DOMAIN q.pattern = 1..Len(q.pattern)
  BY <1>1
<1> QED BY <1>2 DEF TuplesOf, Tuples

\* TypeOK, by what each action can disturb.
AnswersType ==
  /\ \A q \in Queries : cache[q] \subseteq Contexts
  /\ returned \in {NoQuery}
       \union [kind : {"error"}, query : Queries, inter : Inters]
       \union [kind : {"answer"}, query : Queries, inter : Inters, value : Values,
               tuples : SUBSET Tuples, damage : Damages]

TodoType ==
  /\ asking \in {NoQuery} \union [kind : {"asking"}, query : Queries, inter : Inters,
                                 missed : SUBSET IgnoredCommands]
  /\ IF asking = NoQuery
     THEN todo = <<>>
     ELSE todo # <<>> /\ IsSuffix(todo, Directors(asking.query))
  /\ half /\ asking # NoQuery => todo = Directors(asking.query)

StreamType ==
  /\ half \in BOOLEAN /\ alive \in BOOLEAN
  /\ objects \in {{}} \union {{s} : s \in SUBSET Individuals}

CloneType ==
  racer \in [una : BOOLEAN, mirror : BOOLEAN, kb : {"none", "read", "imported"},
             clone : {{}} \union {{i} : i \in Inters}]

\* They are all of it.
LEMMA TypeParts == TypeOK <=> CloneType /\ StreamType /\ TodoType /\ AnswersType
BY DEF TypeOK, CloneType, StreamType, TodoType, AnswersType

\* The end of a query leaves an answer and a context of the right types,
LEMMA DeliverType ==
  ASSUME SInv, AnswersType, asking # NoQuery, NEW v \in Values, NEW ts \in SUBSET Tuples,
         Deliver(v, ts)
  PROVE  TodoType' /\ AnswersType'
<1> DEFINE q == asking.query
           i == asking.inter
           kept == cache[q] \ Superfluous(q, i, v, cache[q])
           d == Damage(asking.missed)
           c == [inter |-> i, value |-> v, tuples |-> ts, damage |-> d]
<1>1. q \in Queries /\ i \in Inters /\ DOMAIN cache = Queries /\ d \in Damages
  BY DamageOf DEF SInv, ChainInv, CacheInv
<1>2. TodoType'
  BY DEF Deliver, TodoType
<1>3. returned' = Answered(q, i, v, ts, d)
  BY DEF Deliver
<1>4. \/ cache' = cache
      \/ cache' = [cache EXCEPT ![q] = AddContext(kept, c)]
  BY DEF Deliver
<1> HIDE DEF q, i, d
<1>5. c \in Contexts
  BY <1>1 DEF Contexts
<1>6. returned' \in [kind : {"answer"}, query : Queries, inter : Inters, value : Values,
                     tuples : SUBSET Tuples, damage : Damages]
  BY <1>1, <1>3 DEF Answered
<1>7. ASSUME NEW p \in Queries PROVE cache'[p] \subseteq Contexts
  <2>1. cache[p] \subseteq Contexts /\ cache[q] \subseteq Contexts
    BY <1>1 DEF AnswersType
  <2>2. AddContext(kept, c) \subseteq cache[q] \union {c}
    BY DEF AddContext
  <2> HIDE DEF kept, c
  <2>3. cache'[p] = cache[p] \/ cache'[p] = AddContext(kept, c)
    BY <1>1, <1>4
  <2> QED BY <1>5, <2>1, <2>2, <2>3
<1> QED BY <1>2, <1>6, <1>7 DEF AnswersType

\* and so does an error.
LEMMA ThrowType ==
  ASSUME SInv, AnswersType, asking # NoQuery, Throw
  PROVE  TodoType' /\ AnswersType'
<1>1. asking.query \in Queries /\ asking.inter \in Inters
  BY DEF SInv, ChainInv
<1>2. returned' \in [kind : {"error"}, query : Queries, inter : Inters]
  BY <1>1 DEF Throw, Failed
<1> QED BY <1>2 DEF Throw, TodoType, AnswersType

\* What is parsed, and what an incoherent ABox is answered with.
LEMMA ParseType ==
  ASSUME SInv, AnswersType, asking # NoQuery,
         NEW ts, ts \subseteq TuplesOf(asking.query), Parse(ts)
  PROVE  TodoType' /\ AnswersType'
<1>1. asking.query \in Queries
  BY DEF SInv, ChainInv
<1>2. Projected(asking.query, ts) \in SUBSET Tuples
  BY <1>1, ProjectType DEF Projected
<1>3. (IF isBoolean(asking.query) /\ ts # {} THEN "T" ELSE "NIL") \in Values
  BY DEF Values
<1> QED BY <1>2, <1>3, DeliverType DEF Parse

LEMMA InconsistencyType ==
  ASSUME SInv, StreamType, AnswersType, asking # NoQuery, HandleInconsistency
  PROVE  /\ TodoType' /\ AnswersType'
         /\ objects' \in {{}} \union {{s} : s \in SUBSET Individuals}
<1> DEFINE q == asking.query
           universe == Known \union (IF objects = {} THEN OwnIndividuals ELSE {})
                         \union AddedIndividuals
<1>1. q \in Queries /\ asking.inter \in Inters
  BY DEF SInv, ChainInv
<1>2. CASE Deliver("T", TrivialTuples) /\ objects' = objects
  <2>1. "T" \in Values /\ TrivialTuples \in SUBSET Tuples
    BY DEF Values, TrivialTuples
  <2> QED BY <1>2, <2>1, DeliverType DEF StreamType
<1>3. CASE objects' = {universe} /\ Deliver("NIL", Grounding(q, universe))
  <2>1. Known \subseteq Individuals
    BY DEF StreamType, Known
  <2>2. AddedIndividuals \subseteq Individuals
    <3>1. \A h \in asking.inter : Mentions[h] \subseteq Individuals
      BY <1>1, SessionConstants DEF Inters
    <3> QED BY <3>1 DEF AddedIndividuals
  <2>3. universe \subseteq Individuals
    BY <2>1, <2>2, SessionConstants
  <2>4. "NIL" \in Values /\ Grounding(q, universe) \in SUBSET Tuples
    <3>1. Grounding(q, universe) \subseteq TuplesOf(q)
      BY DEF Grounding
    <3> QED BY <1>1, <3>1, TuplesOfType DEF Values
  <2> HIDE DEF universe, q
  <2> QED BY <1>3, <2>3, <2>4, DeliverType
<1>4. CASE Throw /\ \E read \in SUBSET OwnIndividuals : objects' = {read}
  BY <1>4, ThrowType, SessionConstants
<1> QED BY <1>2, <1>3, <1>4 DEF HandleInconsistency

LEMMA AnswersUnderType ==
  ASSUME SInv, StreamType, AnswersType, asking # NoQuery,
         NEW facts \in Inters, AnswersUnder(facts)
  PROVE  /\ TodoType' /\ AnswersType'
         /\ objects' \in {{}} \union {{s} : s \in SUBSET Individuals}
<1> DEFINE q == asking.query
<1>1. q \in Queries
  BY DEF SInv, ChainInv
<1>2. CASE HandleInconsistency
  BY <1>2, InconsistencyType
<1>3. CASE Parse({}) /\ objects' = objects
  BY <1>3, ParseType DEF StreamType
<1>4. CASE (\E ts \in Conclusions(q, facts) : Parse(ts)) /\ objects' = objects
  <2>1. PICK ts \in Conclusions(q, facts) : Parse(ts)
    BY <1>4
  <2>2. ts \subseteq TuplesOf(q) \/ ts \subseteq Entailed[q][facts]
    BY <2>1 DEF Conclusions
  <2>3. ts \subseteq TuplesOf(q)
    BY <1>1, <2>2, ReasonerIsMonotone
  <2> QED BY <1>4, <2>1, <2>3, ParseType DEF StreamType
<1> QED BY <1>2, <1>3, <1>4 DEF AnswersUnder

\* The commands of a session.
Sendable == {"full-reset", "set-una", "mirror", "owl-read", "kb-ontologies", "clone-abox",
             "state", "ask", "retrieve"}

\* Every chain begins with the command that makes RACER forget everything.
LEMMA DirectorsType ==
  ASSUME NEW q
  PROVE  /\ Directors(q) \in Seq(Sendable) /\ Directors(q) # <<>>
         /\ Head(Directors(q)) = "full-reset"
<1>1. CASE asksClone(q)
  <2>1. Directors(q) = <<"full-reset", "set-una", "owl-read", "kb-ontologies",
                         "clone-abox", "state", "ask">>
    BY <1>1, DirectorsOf
  <2> QED BY <2>1 DEF Sendable
<1>2. CASE ~asksClone(q) /\ q.atom = "dlDR"
  <2>1. Directors(q) = <<"full-reset", "set-una", "mirror", "owl-read",
                         "kb-ontologies", "retrieve">>
    BY <1>2, DirectorsOf
  <2> QED BY <2>1 DEF Sendable
<1>3. CASE ~asksClone(q) /\ q.atom # "dlDR"
  <2>1. Directors(q) = <<"full-reset", "set-una", "owl-read", "kb-ontologies",
                         "retrieve">>
    BY <1>3, DirectorsOf
  <2> QED BY <2>1 DEF Sendable
<1> QED BY <1>1, <1>2, <1>3

\* While a query is under way there is a command to send.
LEMMA TodoSequence ==
  ASSUME ChainInv, asking # NoQuery
  PROVE  todo \in Seq(Sendable) /\ todo # <<>>
<1>1. CASE asksClone(asking.query)
  <2>1. CloneChain(asking.inter)
    BY <1>1 DEF ChainInv
  <2>2. \/ todo = <<"full-reset", "set-una", "owl-read", "kb-ontologies",
                    "clone-abox", "state", "ask">>
        \/ todo = <<"set-una", "owl-read", "kb-ontologies", "clone-abox", "state", "ask">>
        \/ todo = <<"owl-read", "kb-ontologies", "clone-abox", "state", "ask">>
        \/ todo = <<"kb-ontologies", "clone-abox", "state", "ask">>
        \/ todo = <<"clone-abox", "state", "ask">>
        \/ todo = <<"state", "ask">>
        \/ todo = <<"ask">>
    BY <2>1 DEF CloneChain
  <2>3. /\ <<"full-reset", "set-una", "owl-read",
             "kb-ontologies", "clone-abox", "state", "ask">> \in Seq(Sendable)
        /\ <<"set-una", "owl-read",
             "kb-ontologies", "clone-abox", "state", "ask">> \in Seq(Sendable)
        /\ <<"owl-read", "kb-ontologies", "clone-abox", "state", "ask">> \in Seq(Sendable)
        /\ <<"kb-ontologies", "clone-abox", "state", "ask">> \in Seq(Sendable)
        /\ <<"clone-abox", "state", "ask">> \in Seq(Sendable)
        /\ <<"state", "ask">> \in Seq(Sendable)
        /\ <<"ask">> \in Seq(Sendable)
    BY DEF Sendable
  <2>4. todo # <<>>
    BY <2>2
  <2> QED BY ONLY <2>2, <2>3, <2>4
<1>2. CASE ~asksClone(asking.query) /\ asking.query.atom = "dlDR"
  <2>1. MirrorChain
    BY <1>2 DEF ChainInv
  <2>2. \/ todo = <<"full-reset", "set-una", "mirror", "owl-read", "kb-ontologies",
                    "retrieve">>
        \/ todo = <<"set-una", "mirror", "owl-read", "kb-ontologies", "retrieve">>
        \/ todo = <<"mirror", "owl-read", "kb-ontologies", "retrieve">>
        \/ todo = <<"owl-read", "kb-ontologies", "retrieve">>
        \/ todo = <<"kb-ontologies", "retrieve">>
        \/ todo = <<"retrieve">>
    BY <2>1 DEF MirrorChain
  <2>3. /\ <<"full-reset", "set-una", "mirror", "owl-read",
             "kb-ontologies", "retrieve">> \in Seq(Sendable)
        /\ <<"set-una", "mirror", "owl-read", "kb-ontologies", "retrieve">> \in Seq(Sendable)
        /\ <<"mirror", "owl-read", "kb-ontologies", "retrieve">> \in Seq(Sendable)
        /\ <<"owl-read", "kb-ontologies", "retrieve">> \in Seq(Sendable)
        /\ <<"kb-ontologies", "retrieve">> \in Seq(Sendable)
        /\ <<"retrieve">> \in Seq(Sendable)
    BY DEF Sendable
  <2>4. todo # <<>>
    BY <2>2
  <2> QED BY ONLY <2>2, <2>3, <2>4
<1>3. CASE ~asksClone(asking.query) /\ asking.query.atom # "dlDR"
  <2>1. PremiseChain
    BY <1>3 DEF ChainInv
  <2>2. \/ todo = <<"full-reset", "set-una", "owl-read", "kb-ontologies", "retrieve">>
        \/ todo = <<"set-una", "owl-read", "kb-ontologies", "retrieve">>
        \/ todo = <<"owl-read", "kb-ontologies", "retrieve">>
        \/ todo = <<"kb-ontologies", "retrieve">>
        \/ todo = <<"retrieve">>
    BY <2>1 DEF PremiseChain
  <2>3. /\ <<"full-reset", "set-una", "owl-read",
             "kb-ontologies", "retrieve">> \in Seq(Sendable)
        /\ <<"set-una", "owl-read", "kb-ontologies", "retrieve">> \in Seq(Sendable)
        /\ <<"owl-read", "kb-ontologies", "retrieve">> \in Seq(Sendable)
        /\ <<"kb-ontologies", "retrieve">> \in Seq(Sendable)
        /\ <<"retrieve">> \in Seq(Sendable)
    BY DEF Sendable
  <2>4. todo # <<>>
    BY <2>2
  <2> QED BY ONLY <2>2, <2>3, <2>4
<1> QED BY <1>1, <1>2, <1>3

\* Going on leaves the rest of the chain, unless half a command is in the buffer: the
\* first command of the next query ends it.
LEMMA ContinueType ==
  ASSUME SInv, TodoType, AnswersType, asking # NoQuery, GoesOn, SInv',
         half' => half /\ Head(todo) # "full-reset"
  PROVE  TodoType' /\ AnswersType'
<1>1. /\ todo' = Tail(todo) /\ AnswersType'
      /\ asking' \in Questions /\ asking' # NoQuery /\ asking'.query = asking.query
  BY SameQuery DEF GoesOn, AnswersType, SInv, ChainInv
<1>2. todo \in Seq(Sendable) /\ todo # <<>>
  BY TodoSequence DEF SInv
<1>3. todo' # <<>>
  <2>1. ChainInv' /\ asking' # NoQuery
    BY <1>1 DEF SInv
  <2>2. (ChainInv /\ asking # NoQuery => todo # <<>>)'
    BY TodoSequence, PTL
  <2> QED BY <2>1, <2>2
<1>4. IsSuffix(todo', Directors(asking.query))
  <2>1. IsSuffix(todo, Directors(asking.query))
    BY DEF TodoType
  <2> QED BY <1>1, <1>2, <2>1, DirectorsType, SuffixTail
<1>5. Directors(asking'.query) = Directors(asking.query)
  BY <1>1, DirectorsOf DEF Directors, Setup, Premise, asksClone
<1>6. ~half'
  <2> SUFFICES ASSUME half' PROVE FALSE
    OBVIOUS
  <2>1. todo = Directors(asking.query) /\ Head(todo) # "full-reset"
    BY DEF TodoType
  <2> QED BY <2>1, DirectorsType
<1> QED BY <1>1, <1>3, <1>4, <1>5, <1>6 DEF TodoType, Questions

\* A session begins within its sets,
LEMMA InitType == Init => TypeOK
<1> SUFFICES ASSUME Init PROVE TypeOK
  OBVIOUS
<1>1. CloneType
  <2>1. FreshRacer \in [una : BOOLEAN, mirror : BOOLEAN, kb : {"none", "read", "imported"},
                        clone : {{}} \union {{i} : i \in Inters}]
    BY DEF FreshRacer
  <2> QED BY <2>1 DEF Init, CloneType
<1>2. StreamType /\ TodoType /\ AnswersType
  BY DEF Init, StreamType, TodoType, AnswersType
<1> QED BY <1>1, <1>2, TypeParts

\* RACER has one clone at most, with one interpretation's assertions,
LEMMA CloneTypeStep ==
  ASSUME SInv, CloneType, [Next]_vars
  PROVE  CloneType'
<1> DEFINE R == [una : BOOLEAN, mirror : BOOLEAN, kb : {"none", "read", "imported"},
                 clone : {{}} \union {{i} : i \in Inters}]
<1>1. racer \in R /\ FreshRacer \in R
  BY DEF CloneType, FreshRacer
<1>2. CASE SetUNA
  <2>1. racer' = [racer EXCEPT !.una = TRUE] \/ racer' = racer
    BY <1>2 DEF SetUNA, Skips, Obeys, Unnoticed
  <2> QED BY <1>1, <2>1 DEF CloneType
<1>3. CASE EnableMirroring
  <2>1. racer' = [racer EXCEPT !.mirror = TRUE] \/ racer' = racer
    BY <1>3 DEF EnableMirroring, Skips, Obeys, Unnoticed
  <2> QED BY <1>1, <2>1 DEF CloneType
<1>4. CASE OpenOWL
  <2>1. racer' = [racer EXCEPT !.kb = "read"]
    BY <1>4 DEF OpenOWL
  <2> QED BY <1>1, <2>1 DEF CloneType
<1>5. CASE ImportOntologies
  <2>1. racer' = [racer EXCEPT !.kb = "imported"] \/ racer' = racer
    BY <1>5 DEF ImportOntologies, Skips, Obeys, Unnoticed
  <2> QED BY <1>1, <2>1 DEF CloneType
<1>6. CASE CloneABox
  <2>1. racer' = [racer EXCEPT !.clone = {{}}] \/ racer' = racer
    BY <1>6 DEF CloneABox, Cloned, Skips, Obeys, Unnoticed
  <2>2. {} \in Inters
    BY DEF Inters
  <2> QED BY <1>1, <2>1, <2>2 DEF CloneType
<1>7. CASE State
  <2>1. racer' = [racer EXCEPT !.clone = {facts \union asking.inter : facts \in racer.clone}]
    BY <1>1, <1>7 DEF State
  <2>2. asking.inter \in Inters
    BY <1>7 DEF State, Sends, SInv, ChainInv
  <2>3. {facts \union asking.inter : facts \in racer.clone}
          \in {{}} \union {{i} : i \in Inters}
    <3>1. racer.clone = {} \/ \E i \in Inters : racer.clone = {i}
      BY <1>1
    <3>2. CASE racer.clone = {}
      BY <3>2
    <3>3. ASSUME NEW i \in Inters, racer.clone = {i}
          PROVE  /\ {facts \union asking.inter : facts \in racer.clone}
                      = {i \union asking.inter}
                 /\ i \union asking.inter \in Inters
      BY <2>2, <3>3 DEF Inters
    <3> QED BY <3>1, <3>2, <3>3
  <2> QED BY <1>1, <2>1, <2>3 DEF CloneType
<1>8. CASE racer' = racer \/ racer' = FreshRacer
  BY <1>1, <1>8 DEF CloneType
<1>9. ASSUME [Next]_vars
      PROVE  \/ SetUNA \/ EnableMirroring \/ OpenOWL \/ ImportOntologies \/ CloneABox \/ State
             \/ racer' = racer \/ racer' = FreshRacer
  BY <1>9 DEF Next, vars, CacheHit, Begin, FullReset, Obeys, Unnoticed, Ask, Retrieve, Refuses,
       BuilderThrows, StreamFails
<1> QED BY <1>2, <1>3, <1>4, <1>5, <1>6, <1>7, <1>8, <1>9

\* and every step keeps the other parts.
LEMMA TypeStep ==
  ASSUME SInv, TypeOK, [Next]_vars
  PROVE  TypeOK'
<1>1. CloneType /\ StreamType /\ TodoType /\ AnswersType
  BY TypeParts
<1>2. SInv' /\ CloneType'
  BY <1>1, StepInv, CloneTypeStep
<1>3. SUFFICES StreamType' /\ TodoType' /\ AnswersType'
  <2>1. (CloneType /\ StreamType /\ TodoType /\ AnswersType => TypeOK)'
    BY TypeParts, PTL
  <2> QED BY <1>2, <2>1
<1>4. ASSUME NEW q \in Queries, NEW i \in Inters, CacheHit(q, i)
      PROVE  StreamType' /\ TodoType' /\ AnswersType'
  <2>1. PICK e \in isValid(q, i, cache[q]) : returned' = Answered(q, i, e.value, e.tuples, e.damage)
    BY <1>4 DEF CacheHit
  <2>2. e \in Contexts
    BY <1>1, <2>1 DEF isValid, AnswersType
  <2>3. returned' \in [kind : {"answer"}, query : Queries, inter : Inters, value : Values,
                       tuples : SUBSET Tuples, damage : Damages]
    BY <2>1, <2>2 DEF Contexts, Answered
  <2>4. AnswersType'
    BY <1>1, <1>4, <2>3 DEF CacheHit, AnswersType
  <2>5. asking = NoQuery /\ asking' = asking /\ todo' = todo /\ half' = half
    BY <1>4 DEF CacheHit
  <2>6. TodoType' /\ StreamType'
    BY <1>1, <1>4, <2>5 DEF CacheHit, TodoType, StreamType
  <2> QED BY <2>4, <2>6
<1>5. ASSUME NEW q \in Queries, NEW i \in Inters, Begin(q, i)
      PROVE  StreamType' /\ TodoType' /\ AnswersType'
  <2>1. asking' = Asking(q, i) /\ todo' = Directors(q)
    BY <1>5 DEF Begin
  <2>2. /\ asking' \in [kind : {"asking"}, query : Queries, inter : Inters,
                        missed : SUBSET IgnoredCommands]
        /\ asking' # NoQuery /\ asking'.query = q
    BY <2>1 DEF Asking, NoQuery
  <2>3. Directors(q) # <<>> /\ IsSuffix(Directors(q), Directors(q))
    BY DirectorsType, SuffixTail
  <2>4. TodoType'
    BY <2>1, <2>2, <2>3 DEF TodoType
  <2> QED BY <1>1, <1>5, <2>4 DEF Begin, AnswersType, StreamType
<1>6. ASSUME \/ FullReset \/ SetUNA \/ EnableMirroring \/ OpenOWL \/ ImportOntologies \/ CloneABox
             \/ State /\ Continue /\ UNCHANGED objects
      PROVE  StreamType' /\ TodoType' /\ AnswersType'
  <2>1. asking # NoQuery /\ GoesOn /\ alive' = alive /\ objects' = objects
    BY <1>6 DEF FullReset, SetUNA, EnableMirroring, OpenOWL, ImportOntologies, CloneABox, State,
         Sends, Skips, Obeys, Continue, Unnoticed, GoesOn, IgnoredCommands
  <2>2. \/ half' = FALSE
        \/ half' = half /\ Head(todo) # "full-reset"
    BY <1>6 DEF FullReset, SetUNA, EnableMirroring, OpenOWL, ImportOntologies, CloneABox, State,
         Sends, Skips
  <2>3. half' => half /\ Head(todo) # "full-reset"
    BY <2>2
  <2>4. TodoType' /\ AnswersType'
    BY <1>1, <1>2, <2>1, <2>3, ContinueType
  <2>5. half' = FALSE \/ half' = half
    BY <2>2
  <2>6. StreamType'
    BY <1>1, <2>1, <2>5 DEF StreamType
  <2> QED BY <2>4, <2>6
<1>7. CASE State /\ HandleInconsistency
  <2>1. asking # NoQuery /\ half' = half /\ alive' = alive
    BY <1>7 DEF State, Sends
  <2> QED BY <1>1, <1>7, <2>1, InconsistencyType DEF StreamType
<1>8. CASE Ask
  <2>1. asking # NoQuery /\ half' = half /\ alive' = alive
    BY <1>8 DEF Ask, Sends
  <2>2. CASE Throw /\ UNCHANGED objects
    BY <1>1, <2>1, <2>2, ThrowType DEF StreamType
  <2>3. ASSUME NEW facts \in racer.clone, AnswersUnder(facts)
        PROVE  StreamType' /\ TodoType' /\ AnswersType'
    <3>1. facts \in Inters
      BY <2>3 DEF SInv, RacerType
    <3> QED BY <1>1, <2>1, <2>3, <3>1, AnswersUnderType DEF StreamType
  <2> QED BY <1>8, <2>2, <2>3 DEF Ask
<1>9. CASE Retrieve
  <2>1. asking # NoQuery /\ half' = half /\ alive' = alive /\ AnswersUnder(asking.inter)
    BY <1>9 DEF Retrieve, Sends
  <2>2. asking.inter \in Inters
    BY <2>1 DEF SInv, ChainInv
  <2> QED BY <1>1, <2>1, <2>2, AnswersUnderType DEF StreamType
<1>10. CASE Refuses \/ BuilderThrows \/ StreamFails
  <2>1. Throw /\ objects' = objects /\ asking # NoQuery
    BY <1>10 DEF Refuses, BuilderThrows, StreamFails, Sends
  <2>2. half' \in BOOLEAN /\ alive' \in BOOLEAN
    BY <1>1, <1>10 DEF Refuses, BuilderThrows, StreamFails, StreamType
  <2> QED BY <1>1, <2>1, <2>2, ThrowType DEF StreamType
<1>11. CASE UNCHANGED vars
  BY <1>1, <1>11 DEF vars, StreamType, TodoType, AnswersType, Directors, Setup, Premise,
       asksClone
<1>12. ASSUME NEW q \in Queries, NEW i \in Inters, CacheHit(q, i) \/ Begin(q, i)
       PROVE  StreamType' /\ TodoType' /\ AnswersType'
  BY <1>4, <1>5, <1>12
<1>13. State => \/ State /\ HandleInconsistency
                \/ State /\ Continue /\ UNCHANGED objects
                \/ State /\ Throw /\ UNCHANGED objects
  BY DEF State
<1>14. ASSUME Next PROVE StreamType' /\ TodoType' /\ AnswersType'
  <2>1. CASE \E q \in Queries, i \in Inters : CacheHit(q, i) \/ Begin(q, i)
    BY <1>12, <2>1
  <2>2. CASE \/ FullReset \/ SetUNA \/ EnableMirroring \/ OpenOWL \/ ImportOntologies
             \/ CloneABox
    BY <1>6, <2>2
  <2>3. CASE State
    <3>1. CASE State /\ Throw /\ UNCHANGED objects
      <4>1. asking # NoQuery /\ half' = half /\ alive' = alive
        BY <3>1 DEF State, Sends
      <4> QED BY <1>1, <3>1, <4>1, ThrowType DEF StreamType
    <3> QED BY <1>6, <1>7, <1>13, <2>3, <3>1
  <2> QED BY <1>8, <1>9, <1>10, <1>14, <2>1, <2>2, <2>3 DEF Next
<1> QED BY <1>11, <1>14

\* In every session, whatever the queries, the facts and the ontology, what is left to
\* send is the end of the chain of the query under way, only its first command can be
\* garbled by half a command, RACER has one clone at most, and what is cached and
\* returned are values and tuples of individuals.
THEOREM SessionTypeCorrect == Spec => []TypeOK
BY InitType, TypeStep, SessionInvariant, PTL DEF Spec

=============================================================================
