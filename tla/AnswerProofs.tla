---------------------------- MODULE AnswerProofs ----------------------------
(***************************************************************************)
(* Proofs about the answers of Plugin: the dialog with RACER that a query  *)
(* leads, the texts that are taken apart as they were put together, and    *)
(* that a query which is understood is answered.                           *)
(***************************************************************************)
EXTENDS PluginProofs, DataLemmas

-----------------------------------------------------------------------------
(* The ontology of the query that is asked, and RACER between two turns. *)

\* The place of the command that opens the document.
Opening(q) == IF q.query.atom = "dlDR" THEN 4 ELSE 3

ClonesABox(q) == Ignored([cmd |-> "clone-abox", from |-> q.dlq.onto.realuri, to |-> kbName])
StatesPremise(q) ==
  Answered(Built([cmd |-> "state", assertions |-> createState(q.proj, q.dlq.onto.ns, kbName)]))
RetrievesOf(q) ==
  Answered(RetrieveUnderPremise(HeadOf(q.query.atom, q.dlq), BodyOf(q.query.atom, q.dlq), q.dlq, q.proj))

\* Which link stands where.
Places(links, q, n) ==
  /\ links[1] = FullReset
  /\ links[2] = Ignored([cmd |-> "set-unique-name-assumption"])
  /\ n = 4 => links[3] = Ignored([cmd |-> "enable-data-substrate-mirroring"])
  /\ links[n] = Answered(OpenOWL(q.dlq.onto))
  /\ links[n + 1] = Ignored([cmd |-> "kb-ontologies", kb |-> q.dlq.onto.realuri])
  /\ Retrieves(q.query.atom, q.dlq) => Len(links) = n + 2 /\ links[n + 2] = RetrievesOf(q)
  /\ ~Retrieves(q.query.atom, q.dlq) =>
       /\ Len(links) = n + 4 /\ links[n + 2] = ClonesABox(q) /\ links[n + 3] = StatesPremise(q)
       /\ links[n + 4] = Answered(OfClone(q.query.atom, q.dlq))

\* A list of three parts.
Parts(s, a, b, c) ==
  /\ Len(s) = Len(a) + Len(b) + Len(c)
  /\ \A k \in 1..Len(a) : s[k] = a[k]
  /\ \A k \in 1..Len(b) : s[Len(a) + k] = b[k]
  /\ \A k \in 1..Len(c) : s[Len(a) + Len(b) + k] = c[k]

\* Three texts stand one behind the other in what they make.
LEMMA ThreeParts ==
  ASSUME NEW U, NEW a \in Seq(U), NEW b \in Seq(U), NEW c \in Seq(U)
  PROVE  Parts((a \o b) \o c, a, b, c)
<1>0. PICK s : s = (a \o b) \o c
  OBVIOUS
<1>1. PICK ab : ab = a \o b
  OBVIOUS
<1>2. /\ ab \in Seq(U) /\ Len(ab) = Len(a) + Len(b)
      /\ \A k \in 1..(Len(a) + Len(b)) : ab[k] = IF k <= Len(a) THEN a[k] ELSE b[k - Len(a)]
  BY <1>1, ConcatProperties
<1>3. /\ s \in Seq(U) /\ Len(s) = Len(ab) + Len(c)
      /\ \A k \in 1..(Len(ab) + Len(c)) : s[k] = IF k <= Len(ab) THEN ab[k] ELSE c[k - Len(ab)]
  BY <1>0, <1>1, <1>2, ConcatProperties
<1>4. Len(a) \in Nat /\ Len(b) \in Nat /\ Len(c) \in Nat
  BY LenProperties
<1>5. ASSUME NEW k \in 1..Len(a) PROVE s[k] = a[k]
  BY <1>2, <1>3, <1>4
<1>6. ASSUME NEW k \in 1..Len(b) PROVE s[Len(a) + k] = b[k]
  BY <1>2, <1>3, <1>4
<1>7. ASSUME NEW k \in 1..Len(c) PROVE s[Len(a) + Len(b) + k] = c[k]
  <2>1. PICK j : j = Len(ab) + k
    OBVIOUS
  <2>2. j = Len(a) + Len(b) + k /\ j \in 1..(Len(ab) + Len(c)) /\ ~(j <= Len(ab)) /\ j - Len(ab) = k
    BY <1>2, <1>4, <2>1
  <2> QED BY <1>3, <2>2
<1> QED BY <1>0, <1>2, <1>3, <1>5, <1>6, <1>7 DEF Parts

\* The chain of a query has its commands in the order that the directors give them.
LEMMA ChainPlaces ==
  ASSUME NEW q, Fits(q.query.atom, q.dlq)
  PROVE  Places(Chain(q), q, Opening(q))
<1>1. PICK atom, onto, retr : atom = q.query.atom /\ onto = q.dlq.onto /\ retr = Retrieves(atom, q.dlq)
  OBVIOUS
<1>2. PICK a, b, c, d, e :
        /\ a = FullReset /\ b = Ignored([cmd |-> "set-unique-name-assumption"])
        /\ c = Ignored([cmd |-> "enable-data-substrate-mirroring"])
        /\ d = Answered(OpenOWL(onto)) /\ e = Ignored([cmd |-> "kb-ontologies", kb |-> onto.realuri])
  OBVIOUS
<1>3. PICK r, f, g, h :
        r = RetrievesOf(q) /\ f = ClonesABox(q) /\ g = StatesPremise(q) /\ h = Answered(OfClone(atom, q.dlq))
  OBVIOUS
<1>4. PICK as, cs : /\ as = <<a, b>> \o (IF atom = "dlDR" THEN <<c>> ELSE <<>>)
                    /\ cs = IF retr THEN <<r>> ELSE <<f, g>> \o <<h>>
  OBVIOUS
<1>5. Chain(q) = (as \o <<d, e>>) \o cs
  <2>1. setupRacer(atom) = as /\ openOntology(onto) = <<d, e>>
    BY <1>2, <1>4 DEF setupRacer, openOntology, FullReset
  <2> QED BY <1>1, <1>3, <1>4, <2>1
          DEF Chain, getDirectors, Composite, Fits, RetrievesOf, ClonesABox, StatesPremise, increaseABox
<1>6. PICK U : U = {a, b, c, d, e, f, g, h, r}
  OBVIOUS
<1>7. PICK n : n = Opening(q) /\ n = IF atom = "dlDR" THEN 4 ELSE 3
  BY <1>1 DEF Opening
<1>8. as \in Seq(U) /\ Len(as) = n - 1 /\ as[1] = a /\ as[2] = b /\ (n = 4 => as[3] = c)
  <2>1. <<a, b>> \in Seq(U) /\ <<c>> \in Seq(U) /\ Len(<<a, b>>) = 2 /\ Len(<<c>>) = 1
    BY <1>6
  <2>2. CASE atom = "dlDR"
    <3>1. as = <<a, b>> \o <<c>> /\ n = 4
      BY <1>4, <1>7, <2>2
    <3> HIDE <1>4, <1>7
    <3> QED BY <2>1, <3>1, ConcatProperties
  <2>3. CASE atom # "dlDR"
    <3>1. as = <<a, b>> /\ n = 3
      BY <1>4, <1>7, <2>1, <2>3, ConcatEmptySeq
    <3> QED BY <2>1, <3>1
  <2> QED BY <2>2, <2>3
<1>9. /\ cs \in Seq(U) /\ (retr => Len(cs) = 1 /\ cs[1] = r)
      /\ ~retr => Len(cs) = 3 /\ cs[1] = f /\ cs[2] = g /\ cs[3] = h
  <2>1. <<f, g>> \in Seq(U) /\ <<h>> \in Seq(U) /\ Len(<<f, g>>) = 2 /\ Len(<<h>>) = 1 /\ <<r>> \in Seq(U)
    BY <1>6
  <2>2. CASE retr
    BY <1>4, <2>1, <2>2
  <2>3. CASE ~retr
    <3>1. cs = <<f, g>> \o <<h>>
      BY <1>4, <2>3
    <3> QED BY <2>1, <2>3, <3>1, ConcatProperties
  <2> QED BY <2>2, <2>3
<1>10. <<d, e>> \in Seq(U) /\ Len(<<d, e>>) = 2 /\ <<d, e>>[1] = d /\ <<d, e>>[2] = e
  BY <1>6
<1>11. PICK links, ds : links = Chain(q) /\ ds = <<d, e>> /\ links = (as \o ds) \o cs
  BY <1>5
<1>12. /\ Len(links) = (n - 1) + 2 + Len(cs)
       /\ \A k \in 1..(n - 1) : links[k] = as[k]
       /\ \A k \in 1..2 : links[(n - 1) + k] = ds[k]
       /\ \A k \in 1..Len(cs) : links[(n - 1) + 2 + k] = cs[k]
  <2>1. ds \in Seq(U) /\ Len(ds) = 2
    BY <1>10, <1>11
  <2>2. /\ Len(links) = Len(as) + Len(ds) + Len(cs)
        /\ \A k \in 1..Len(as) : links[k] = as[k]
        /\ \A k \in 1..Len(ds) : links[Len(as) + k] = ds[k]
        /\ \A k \in 1..Len(cs) : links[Len(as) + Len(ds) + k] = cs[k]
    <3>1. Parts((as \o ds) \o cs, as, ds, cs)
      BY <1>8, <1>9, <2>1, ThreeParts
    <3> QED BY <1>11, <3>1 DEF Parts
  <2>3. Len(as) = n - 1 /\ Len(ds) = 2
    BY <1>8, <2>1
  <2> QED BY ONLY <2>2, <2>3
<1>13. n \in {3, 4}
  BY <1>7
<1>14. links[1] = a /\ links[2] = b /\ (n = 4 => links[3] = c) /\ links[n] = d /\ links[n + 1] = e
  <2>1. ds[1] = d /\ ds[2] = e
    BY <1>10, <1>11
  <2>2. 1 \in 1..(n - 1) /\ 2 \in 1..(n - 1) /\ (n = 4 => 3 \in 1..(n - 1)) /\ (n - 1) + 1 = n /\ (n - 1) + 2 = n + 1
    BY <1>13
  <2>3. links[1] = a /\ links[2] = b /\ (n = 4 => links[3] = c)
    BY ONLY <1>8, <1>12, <2>2
  <2>4. links[(n - 1) + 1] = d /\ links[(n - 1) + 2] = e
    BY ONLY <1>12, <2>1
  <2> QED BY ONLY <2>2, <2>3, <2>4
<1>15. (retr => Len(links) = n + 2 /\ links[n + 2] = r)
       /\ (~retr => Len(links) = n + 4 /\ links[n + 2] = f /\ links[n + 3] = g /\ links[n + 4] = h)
  <2>1. (n - 1) + 2 + 1 = n + 2 /\ (n - 1) + 2 + 2 = n + 3 /\ (n - 1) + 2 + 3 = n + 4
    BY <1>13
  <2>2. CASE retr
    <3>1. Len(cs) = 1 /\ cs[1] = r /\ 1 \in 1..Len(cs)
      BY <1>9, <2>2
    <3> QED BY <1>12, <2>1, <2>2, <3>1
  <2>3. CASE ~retr
    <3>1. Len(cs) = 3 /\ cs[1] = f /\ cs[2] = g /\ cs[3] = h /\ {1, 2, 3} \subseteq 1..Len(cs)
      <4>1. Len(cs) = 3 /\ cs[1] = f /\ cs[2] = g /\ cs[3] = h
        BY ONLY <1>9, <2>3
      <4>2. {1, 2, 3} \subseteq 1..3
        OBVIOUS
      <4> QED BY ONLY <4>1, <4>2
    <3> QED BY <1>12, <2>1, <2>3, <3>1
  <2> QED BY <2>2, <2>3
<1> QED BY <1>1, <1>2, <1>3, <1>7, <1>11, <1>14, <1>15 DEF Places

-----------------------------------------------------------------------------
(* What RACER knows while the commands of a query are sent. *)

\* A record of RACER's state.
RacerOne(r) == r = [una |-> r.una, mirror |-> r.mirror, aboxes |-> r.aboxes]

\* What was loaded of the document, m being whether there was data substrate mirroring, and
\* what the interpretation adds.
Said(doc, m) == {l \in Literals(doc) : ~isDatatypeFact(l) \/ m}
Loaded(u, m) == Said(Documents[u], m)
Asserted(proj, ns) == {AssertedBy(a) : a \in createPremise(proj, ns)}

ABoxIs(r, n, kb) == n \in DOMAIN r.aboxes /\ r.aboxes[n] = kb

\* What RACER is when so many links of the chain had their turn.
Reached(r, q, sent, n) ==
  LET u == q.dlq.onto.realuri
  IN  /\ sent >= 2 => r.una = TRUE
      /\ sent >= 3 /\ n = 4 => r.mirror = TRUE
      /\ sent >= n => ABoxIs(r, u, Loaded(u, r.mirror))
      /\ ~Retrieves(q.query.atom, q.dlq) /\ sent = n + 2 => ABoxIs(r, kbName, Loaded(u, r.mirror))
      /\ ~Retrieves(q.query.atom, q.dlq) /\ sent >= n + 3 =>
           ABoxIs(r, kbName, Loaded(u, r.mirror) \cup Asserted(q.proj, q.dlq.onto.ns))

\* The ontology can be read, by its copy or by its URI, and has a name of its own.
CanBeRead(onto, docs) ==
  /\ Readable(onto.uri, docs) /\ Read(onto.uri, docs) = Documents[onto.realuri]
  /\ onto.realuri # kbName

\* RACER with a new ABox, or another one in its place.
PutABox(r, n, kb) == [r EXCEPT !.aboxes = Put(@, n, kb)]

Done(r) == [racer |-> r, reply |-> Reply(Word("OKAY"))]

\* The commands before the last, and their replies.
LEMMA ObeyedReset ==
  ASSUME NEW r, NEW c, NEW docs, c.cmd = "full-reset"
  PROVE  Obey(r, c, docs) = Done(FreshRacer)
BY DEF Obey, Done

\* What RACER does with the two flags.
LEMMA ObeyedFlags ==
  ASSUME NEW r, NEW c, NEW docs
  PROVE  /\ c.cmd = "set-unique-name-assumption" => Obey(r, c, docs) = Done([r EXCEPT !.una = TRUE])
         /\ c.cmd = "enable-data-substrate-mirroring" => Obey(r, c, docs) = Done([r EXCEPT !.mirror = TRUE])
BY DEF Obey, Done

\* A document that can be read becomes the ABox of its name.
LEMMA ObeyedOpening ==
  ASSUME NEW r, NEW c, NEW docs
  PROVE  /\ c.cmd \in {"owl-read-file", "owl-read-document"} /\ Readable(c.uri, docs) =>
              Obey(r, c, docs) =
                [racer |-> PutABox(r, c.kb, Said(Read(c.uri, docs), r.mirror)),
                 reply |-> Reply(Ind(c.kb))]
         /\ c.cmd = "kb-ontologies" /\ c.kb \in DOMAIN r.aboxes => Obey(r, c, docs) = Done(r)
BY DEF Obey, Done, PutABox, Said

\* A clone has what the ABox has.
LEMMA ObeyedClone ==
  ASSUME NEW r, NEW c, NEW docs, c.cmd = "clone-abox", c.from \in DOMAIN r.aboxes
  PROVE  Obey(r, c, docs) = Done(PutABox(r, c.to, r.aboxes[c.from]))
BY DEF Obey, Done, PutABox

\* What is stated is added to the temporary ABox.
LEMMA ObeyedState ==
  ASSUME NEW r, NEW c, NEW docs, c.cmd = "state", kbName \in DOMAIN r.aboxes
  PROVE  Obey(r, c, docs) =
           Done(PutABox(r, kbName, r.aboxes[kbName] \cup {AssertedBy(a) : a \in c.assertions}))
BY DEF Obey, Done, PutABox

\* The commands that say nothing of the query.
AsksOnly(c) == c.cmd \in {"abox-consistent?", "concept-instances", "individual-instance?",
  "retrieve-related-individuals", "individuals-related?", "individual-fillers", "retrieve-under-premise"}

\* A question changes nothing.
LEMMA ObeyedQuery ==
  ASSUME NEW r, NEW c, NEW docs, AsksOnly(c)
  PROVE  Obey(r, c, docs) = [racer |-> r, reply |-> Answer(c, r)]
BY DEF Obey, AsksOnly

\* What an empty Answer makes of these replies: nothing.
LEMMA NothingRead ==
  ASSUME NEW d \in {"RacerAnswerDriver", "RacerIgnoreAnswer"}, NEW x
  PROVE  /\ parse(d, NoAnswer, Reply(Word("OKAY"))) = [ok |-> TRUE, answer |-> NoAnswer]
         /\ parse(d, NoAnswer, Reply(Ind(x))) = [ok |-> TRUE, answer |-> NoAnswer]
<1>1. Word("OKAY").t = "word" /\ Word("OKAY").w = "OKAY" /\ Ind(x).t = "individual"
  BY DEF Word, Ind
<1>2. AnswerBody(NoAnswer, Word("OKAY")) = NoAnswer
  BY <1>1 DEF AnswerBody, boolean
<1>3. AnswerBody(NoAnswer, Ind(x)) = NoAnswer
  BY <1>1 DEF AnswerBody, AllOf, isList
<1>4. \A b : Reply(b).kind = "answer" /\ Reply(b).body = b
  BY DEF Reply
<1> QED BY <1>2, <1>3, <1>4 DEF parse, RacerAnswerDriver, RacerIgnoreAnswer

\* An assertion says the same of a named ABox.
LEMMA AssertionsIntoABox ==
  ASSUME NEW proj, NEW ns
  PROVE  {AssertedBy(a) : a \in createState(proj, ns, kbName)} = Asserted(proj, ns)
<1>1. ASSUME NEW x \in createPremise(proj, ns)
      PROVE  AssertedBy(IntoABox(kbName, x)) = AssertedBy(x)
  <2>1. x.op \in {"instance", "related"}
    <3>1. CASE proj = {}
      BY <3>1 DEF createPremise, Instance
    <3>2. CASE proj # {}
      <4>1. PICK a \in proj : x = ToAssertion(a, ns)
        BY <3>2 DEF createPremise
      <4> QED BY <4>1 DEF ToAssertion, ConceptAssertion, RoleAssertion, Instance, Related
    <3> QED BY <3>1, <3>2
  <2>2. CASE x.op = "instance"
    BY <2>2 DEF IntoABox, AddConcept, AssertedBy
  <2>3. CASE x.op = "related"
    BY <2>3 DEF IntoABox, AddRole, AssertedBy
  <2> QED BY <2>1, <2>2, <2>3
<1> QED BY <1>1 DEF createState, Asserted

\* An entry that was put, and the others.
LEMMA PutGives ==
  ASSUME NEW m, NEW key, NEW v
  PROVE  /\ key \in DOMAIN Put(m, key, v) /\ Put(m, key, v)[key] = v
         /\ \A x \in DOMAIN m \ {key} : x \in DOMAIN Put(m, key, v) /\ Put(m, key, v)[x] = m[x]
BY DEF Put

\* A command before the last is obeyed, says nothing to the answer, and brings RACER on.
LEMMA CommandObeyed ==
  ASSUME NEW q, NEW links, NEW n \in {3, 4}, Places(links, q, n),
         NEW k \in 1..(Len(links) - 1), Len(links) \in Nat,
         NEW r, RacerOne(r), Reached(r, q, k - 1, n), NEW docs, CanBeRead(q.dlq.onto, docs),
         NEW obeyed, obeyed = Obey(r, links[k].build.expr, docs)
  PROVE  /\ links[k].build.ok = TRUE
         /\ RacerOne(obeyed.racer) /\ Reached(obeyed.racer, q, k, n)
         /\ parse(links[k].driver, NoAnswer, obeyed.reply) = [ok |-> TRUE, answer |-> NoAnswer]
<1>u. PICK u : u = q.dlq.onto.realuri
  OBVIOUS
<1>c. PICK l, c, d : l = links[k] /\ c = l.build.expr /\ d = l.driver /\ obeyed = Obey(r, c, docs)
  OBVIOUS
<1>d. PICK read : read = parse(d, NoAnswer, obeyed.reply)
  OBVIOUS
<1>e. PICK nothing : nothing = [ok |-> TRUE, answer |-> NoAnswer]
  OBVIOUS
<1>f. ASSUME d \in {"RacerAnswerDriver", "RacerIgnoreAnswer"},
             obeyed.reply = Reply(Word("OKAY")) \/ \E x : obeyed.reply = Reply(Ind(x))
      PROVE  read = nothing
  BY <1>d, <1>e, <1>f, NothingRead
<1>g. ASSUME d \in {"RacerAnswerDriver", "RacerIgnoreAnswer"}, NEW s, obeyed = Done(s)
      PROVE  obeyed.racer = s /\ read = nothing
  BY <1>f, <1>g DEF Done
<1>1. \A e : /\ Ignored(e).build.ok = TRUE /\ Ignored(e).build.expr = e
             /\ Ignored(e).driver = "RacerIgnoreAnswer"
  BY DEF Ignored, QueryDirector, Built
<1>2. \A e : /\ Answered(Built(e)).build.ok = TRUE /\ Answered(Built(e)).build.expr = e
             /\ Answered(Built(e)).driver = "RacerAnswerDriver"
  BY DEF Answered, QueryDirector, Built
<1>3. \A s : Done(s).racer = s /\ Done(s).reply = Reply(Word("OKAY"))
  BY DEF Done
<1>4. DOMAIN r = {"una", "mirror", "aboxes"} /\ u # kbName
  BY <1>u DEF RacerOne, CanBeRead
<1>5. Len(links) = IF Retrieves(q.query.atom, q.dlq) THEN n + 2 ELSE n + 4
  BY DEF Places
<1>8. CASE k = 1
  <2>1. /\ l.build.ok = TRUE /\ c.cmd = "full-reset"
        /\ d = "RacerIgnoreAnswer"
    <3>1. l = FullReset
      BY ONLY <1>c, <1>8, Places(links, q, n) DEF Places
    <3>2. PICK x : x = [cmd |-> "full-reset"]
      OBVIOUS
    <3>3. l = Ignored(x) /\ x.cmd = "full-reset"
      BY ONLY <3>1, <3>2 DEF FullReset
    <3> QED BY ONLY <1>c, <1>1, <3>3
  <2>2. obeyed.racer = FreshRacer /\ read = nothing
    <3>1. obeyed = Done(FreshRacer)
      BY <1>c, <2>1, ObeyedReset
    <3> QED BY <1>g, <2>1, <3>1
  <2>3. RacerOne(FreshRacer)
    BY DEF RacerOne, FreshRacer
  <2>4. Reached(FreshRacer, q, 1, n)
    BY <1>u, <1>u DEF Reached
  <2> QED BY <1>c, <1>d, <1>e, <1>8, <2>1, <2>2, <2>3, <2>4
<1>9. CASE k = 2
  <2>1. /\ l.build.ok = TRUE /\ c.cmd = "set-unique-name-assumption"
        /\ d = "RacerIgnoreAnswer"
    BY <1>c, <1>1, <1>9 DEF Places
  <2>2. obeyed.racer = [r EXCEPT !.una = TRUE] /\ read = nothing
    <3>1. obeyed = Done([r EXCEPT !.una = TRUE])
      BY <1>c, <2>1, ObeyedFlags
    <3> QED BY <1>g, <2>1, <3>1
  <2>3. RacerOne(obeyed.racer) /\ obeyed.racer.una = TRUE
    BY <1>4, <2>2 DEF RacerOne
  <2>4. Reached(obeyed.racer, q, 2, n)
    BY <1>u, <2>3 DEF Reached
  <2> QED BY <1>c, <1>d, <1>e, <1>9, <2>1, <2>2, <2>3, <2>4
<1>10. CASE k = 3 /\ n = 4
  <2>1. /\ l.build.ok = TRUE /\ c.cmd = "enable-data-substrate-mirroring"
        /\ d = "RacerIgnoreAnswer"
    BY <1>c, <1>1, <1>10 DEF Places
  <2>2. obeyed.racer = [r EXCEPT !.mirror = TRUE] /\ read = nothing
    <3>1. obeyed = Done([r EXCEPT !.mirror = TRUE])
      BY <1>c, <2>1, ObeyedFlags
    <3> QED BY <1>g, <2>1, <3>1
  <2>3. RacerOne(obeyed.racer) /\ obeyed.racer.mirror = TRUE /\ obeyed.racer.una = TRUE
    BY <1>4, <1>10, <2>2 DEF RacerOne, Reached
  <2>4. Reached(obeyed.racer, q, 3, n)
    BY <1>u, <1>10, <2>3 DEF Reached
  <2> QED BY <1>c, <1>d, <1>e, <1>10, <2>1, <2>2, <2>3, <2>4
<1>11. CASE k = n
  <2>1. /\ l.build.ok = TRUE /\ c.cmd \in {"owl-read-file", "owl-read-document"}
        /\ c.uri = q.dlq.onto.uri /\ c.kb = u
        /\ d = "RacerAnswerDriver"
    BY <1>c, <1>u, <1>2, <1>11 DEF Places, OpenOWL
  <2>2. /\ obeyed.racer = PutABox(r, u, Loaded(u, r.mirror))
        /\ obeyed.reply = Reply(Ind(u))
    <3>1. Read(c.uri, docs) = Documents[u] /\ Readable(c.uri, docs)
      BY <1>u, <2>1 DEF CanBeRead
    <3>2. Said(Read(c.uri, docs), r.mirror) = Loaded(u, r.mirror)
      BY <3>1 DEF Loaded
    <3> QED BY <1>c, <2>1, <3>1, <3>2, ObeyedOpening
  <2>3. read = nothing
    BY <1>f, <2>1, <2>2
  <2>4. /\ RacerOne(obeyed.racer) /\ obeyed.racer.mirror = r.mirror /\ obeyed.racer.una = r.una
        /\ obeyed.racer.aboxes = Put(r.aboxes, u, Loaded(u, r.mirror))
    BY <1>4, <2>2 DEF RacerOne, PutABox
  <2>5. ABoxIs(obeyed.racer, u, Loaded(u, r.mirror))
    BY <2>4, PutGives DEF ABoxIs
  <2>6. r.una = TRUE /\ (n = 4 => r.mirror = TRUE)
    BY <1>u, <1>11 DEF Reached
  <2>7. Reached(obeyed.racer, q, n, n)
    BY <1>u, <2>4, <2>5, <2>6 DEF Reached
  <2> QED BY <1>c, <1>d, <1>e, <1>11, <2>1, <2>3, <2>4, <2>7
<1>12. CASE k > n
  <2>1. r.una = TRUE /\ (n = 4 => r.mirror = TRUE) /\ ABoxIs(r, u, Loaded(u, r.mirror))
    BY <1>u, <1>12 DEF Reached
  <2>2. CASE k = n + 1
    <3>1. /\ l.build.ok = TRUE /\ c.cmd = "kb-ontologies"
          /\ c.kb = u /\ d = "RacerIgnoreAnswer"
      BY <1>c, <1>u, <1>1, <2>2 DEF Places
    <3>2. obeyed = Done(r)
      BY <2>1, <3>1, ObeyedOpening, <1>c DEF ABoxIs
    <3>3. read = nothing /\ obeyed.racer = r
      BY <1>g, <3>1, <3>2
    <3>4. Reached(r, q, n + 1, n)
      BY <1>u, <2>1 DEF Reached
    <3> QED BY <1>c, <1>d, <1>e, <2>2, <3>1, <3>3, <3>4
  <2>3. CASE k = n + 2
    <3>1. ~Retrieves(q.query.atom, q.dlq)
      BY <1>5, <2>3
    <3>2. /\ l.build.ok = TRUE /\ c.cmd = "clone-abox"
          /\ c.from = u /\ c.to = kbName
          /\ d = "RacerIgnoreAnswer"
      BY <1>c, <1>u, <1>1, <2>3, <3>1 DEF Places, ClonesABox
    <3>3. obeyed = Done(PutABox(r, kbName, r.aboxes[u]))
      BY <2>1, <3>2, ObeyedClone, <1>c DEF ABoxIs
    <3>4. /\ RacerOne(obeyed.racer) /\ obeyed.racer.mirror = r.mirror /\ obeyed.racer.una = r.una
          /\ obeyed.racer.aboxes = Put(r.aboxes, kbName, r.aboxes[u])
          /\ read = nothing
      <4>1. obeyed.racer = PutABox(r, kbName, r.aboxes[u]) /\ read = nothing
        BY <1>g, <3>2, <3>3
      <4> QED BY <1>4, <4>1 DEF RacerOne, PutABox
    <3>5. ABoxIs(obeyed.racer, kbName, Loaded(u, r.mirror)) /\ ABoxIs(obeyed.racer, u, Loaded(u, r.mirror))
      BY <1>4, PutGives, <2>1, <3>4 DEF ABoxIs
    <3>6. Reached(obeyed.racer, q, n + 2, n)
      BY <1>u, <2>1, <3>4, <3>5 DEF Reached
    <3> QED BY <1>c, <1>d, <1>e, <2>3, <3>2, <3>4, <3>6
  <2>4. CASE k = n + 3
    <3>1. ~Retrieves(q.query.atom, q.dlq)
      BY <1>5, <2>4
    <3>2. /\ l.build.ok = TRUE /\ c.cmd = "state"
          /\ c.assertions = createState(q.proj, q.dlq.onto.ns, kbName)
          /\ d = "RacerAnswerDriver"
      BY <1>c, <1>u, <1>2, <2>4, <3>1 DEF Places, StatesPremise
    <3>3. ABoxIs(r, kbName, Loaded(u, r.mirror))
      BY <1>u, <2>4, <3>1 DEF Reached
    <3>4. PICK kb : kb = Loaded(u, r.mirror) \cup Asserted(q.proj, q.dlq.onto.ns)
      OBVIOUS
    <3>5. obeyed = Done(PutABox(r, kbName, kb))
      <4>1. {AssertedBy(a) : a \in c.assertions} = Asserted(q.proj, q.dlq.onto.ns)
        BY <3>2, AssertionsIntoABox
      <4> QED BY <3>2, <3>3, <3>4, <4>1, ObeyedState, <1>c DEF ABoxIs
    <3>6. /\ RacerOne(obeyed.racer) /\ obeyed.racer.mirror = r.mirror /\ obeyed.racer.una = r.una
          /\ obeyed.racer.aboxes = Put(r.aboxes, kbName, kb)
          /\ read = nothing
      <4>1. obeyed.racer = PutABox(r, kbName, kb) /\ read = nothing
        BY <1>g, <3>2, <3>5
      <4> QED BY <1>4, <4>1 DEF RacerOne, PutABox
    <3>7. ABoxIs(obeyed.racer, kbName, kb) /\ ABoxIs(obeyed.racer, u, Loaded(u, r.mirror))
      BY <1>4, PutGives, <2>1, <3>6 DEF ABoxIs
    <3>8. Reached(obeyed.racer, q, n + 3, n)
      <4>1. PICK s : s = obeyed.racer
        OBVIOUS
      <4>2. s.una = TRUE /\ (n = 4 => s.mirror = TRUE) /\ s.mirror = r.mirror
        BY ONLY <2>1, <3>6, <4>1
      <4>3. ABoxIs(s, u, Loaded(u, s.mirror)) /\ ABoxIs(s, kbName, Loaded(u, s.mirror) \cup Asserted(q.proj, q.dlq.onto.ns))
        BY ONLY <3>4, <3>7, <4>1, <4>2
      <4>4. n + 3 # n + 2
        BY ONLY n \in {3, 4}
      <4>5. Reached(s, q, n + 3, n)
        BY ONLY <1>u, <4>2, <4>3, <4>4 DEF Reached
      <4> QED BY ONLY <4>1, <4>5
    <3> QED BY <1>c, <1>d, <1>e, <2>4, <3>2, <3>6, <3>8
  <2>5. k \in {n + 1, n + 2, n + 3}
    BY <1>5, <1>12
  <2> QED BY <2>2, <2>3, <2>4, <2>5
<1>13. k \in {1, 2} \/ (k = 3 /\ n = 4) \/ k = n \/ k > n
  OBVIOUS
<1> QED BY <1>8, <1>9, <1>10, <1>11, <1>12, <1>13

-----------------------------------------------------------------------------
(* The registered ontologies. *)

\* An ontology is what its document says; a local document is read where it is.
OntologiesInv ==
  \A u \in DOMAIN ontomap :
    ontomap[u] = Ontology(u, ontomap[u].uri) /\ (isLocal(u) => ontomap[u].uri = u)

\* No step registers anything else.
LEMMA OntologiesStep ==
  ASSUME OntologiesInv, ArgumentsInv, FilesInv, [Next]_vars
  PROVE  OntologiesInv'
<1>1. ontomap' = ontomap \/ DOMAIN ontomap' = {} \/ \E u, uri : Reads(u, uri)
  <2>1. CASE Exit
    BY <2>1 DEF Exit, NoOntologies
  <2>2. CASE RegistersSome
    BY <2>2, RegistersOne DEF Leaks
  <2> QED BY <2>1, <2>2, RegistrySteps
<1>2. CASE ontomap' = ontomap
  BY <1>2 DEF OntologiesInv
<1>3. CASE DOMAIN ontomap' = {}
  BY <1>3 DEF OntologiesInv
<1>4. CASE \E u, uri : Reads(u, uri)
  <2>1. PICK u, uri : Reads(u, uri)
    BY <1>4
  <2>2. ontomap' = Put(ontomap, u, Ontology(u, uri)) /\ (isLocal(u) => uri = u)
    BY <2>1 DEF Reads
  <2>3. Ontology(u, uri).uri = uri
    BY DEF Ontology
  <2>4. DOMAIN ontomap' = DOMAIN ontomap \cup {u} /\ ontomap'[u] = Ontology(u, uri)
    BY <2>2 DEF Put
  <2>5. \A v \in DOMAIN ontomap : v # u => ontomap'[v] = ontomap[v]
    BY <2>2 DEF Put
  <2> QED BY <2>2, <2>3, <2>4, <2>5 DEF OntologiesInv
<1> QED BY <1>1, <1>2, <1>3, <1>4

\* The registry keeps what it has, but at the end.
LEMMA OntologyStays ==
  ASSUME ArgumentsInv, FilesInv, [Next]_vars, ~Exit, NEW u \in DOMAIN ontomap
  PROVE  u \in DOMAIN ontomap' /\ ontomap'[u] = ontomap[u]
<1>1. CASE RegistersSome
  <2>1. ontomap' = ontomap \/ \E v, uri : Reads(v, uri)
    BY <1>1, RegistersOne DEF Leaks
  <2>2. CASE \E v, uri : Reads(v, uri)
    <3>1. PICK v, uri : ontomap' = Put(ontomap, v, Ontology(v, uri)) /\ v # u
      BY <2>2 DEF Reads
    <3> QED BY <3>1, PutGives
  <2> QED BY <2>1, <2>2
<1> QED BY <1>1, RegistrySteps

\* A registered ontology can be read, by its URI or by its copy.
LEMMA RegisteredCanBeRead ==
  ASSUME OntologiesInv, RegistryInv, FilesInv, CopiesInv, NEW u \in DOMAIN ontomap
  PROVE  CanBeRead(ontomap[u], files) /\ ontomap[u].realuri = u /\ u \in DOMAIN Documents
<1>1. u \in DOMAIN Documents /\ ontomap[u].realuri = u
  BY DEF RegistryInv
<1>2. u # kbName /\ TempNames \cap DOMAIN Documents = {}
  BY <1>1, TemporaryNames
<1>3. CASE isLocal(u)
  <2>1. ontomap[u].uri = u
    BY <1>3 DEF OntologiesInv
  <2>2. u \notin DOMAIN files
    BY <1>1, <1>2 DEF FilesInv
  <2> QED BY <1>1, <1>2, <2>1, <2>2 DEF CanBeRead, Readable, Read
<1>4. CASE ~isLocal(u)
  <2>1. ontomap[u].uri \in DOMAIN files /\ files[ontomap[u].uri] = u
    BY <1>4 DEF CopiesInv
  <2> QED BY <1>1, <1>2, <2>1 DEF CanBeRead, Readable, Read
<1> QED BY <1>3, <1>4

-----------------------------------------------------------------------------
(* The query under way, and the dialog with RACER. *)

\* What the constructor makes of a written query.
MadeOf(w, inter, onto, dlq, proj) ==
  QueryCtx(onto, InputOf(w), w.pattern, inter) = [ok |-> TRUE, query |-> Query(dlq, proj)]

\* The query under way is one of the program, and was made with its ontology.
StemsInv ==
  asking # NoQuery =>
    LET u == setupURI(asking.query.onto)
    IN  /\ asking.query \in Queries /\ asking.inter \in Interpretations[asking.query]
        /\ u \in DOMAIN ontomap /\ asking.dlq.onto = ontomap[u]
        /\ MadeOf(asking.query, asking.inter, ontomap[u], asking.dlq, asking.proj)

Sent(q, left) == Len(Chain(q)) - Len(left)

DialogInv ==
  /\ RacerOne(racer)
  /\ asking # NoQuery =>
       answer = NoAnswer /\ Reached(racer, asking, Sent(asking, todo), Opening(asking))

\* What is prepared for a query.
LEMMA PreparedFrom ==
  ASSUME NEW w \in Queries, NEW inter, NEW reachable, NEW p, p = Prepare(w, inter, reachable), p.ok,
         Registers(p.made), RegistryInv
  PROVE  LET u == setupURI(w.onto)
         IN  /\ u \in DOMAIN ontomap' /\ p.dlq.onto = ontomap'[u]
             /\ MadeOf(w, inter, ontomap'[u], p.dlq, p.proj)
             /\ p.links = getDirectors(w.atom, p.dlq, p.proj).links
<1>1. PICK made, u : made = createOntology(ontomap, files, w.onto, reachable) /\ u = setupURI(w.onto)
  OBVIOUS
<1>2. PICK ctx : ctx = QueryCtx(made.onto, InputOf(w), w.pattern, inter)
  OBVIOUS
<1>3. PICK dirs : dirs = getDirectors(w.atom, ctx.query.dlq, ctx.query.proj)
  OBVIOUS
<1>4. \A m : ~Unprepared(m).ok
  BY DEF Unprepared
<1>5. made.ok /\ p = WithContext(w, made, ctx)
  BY <1>1, <1>2, <1>4 DEF Prepare, WithOntology
<1>6. ctx.ok /\ p = WithDirectors(made, ctx, dirs)
  BY <1>3, <1>4, <1>5 DEF WithContext
<1>7. p = [ok |-> TRUE, made |-> made, dlq |-> ctx.query.dlq, proj |-> ctx.query.proj, links |-> dirs.links]
  BY <1>4, <1>6 DEF WithDirectors
<1>8. p.dlq = ctx.query.dlq /\ p.proj = ctx.query.proj /\ p.made = made
  BY <1>7
<1>9. ontomap' = made.ontomap
  BY <1>8 DEF Registers
<1>10. u \in DOMAIN ontomap' /\ made.onto = ontomap'[u]
  <2>1. CASE KnownAlready(made, u)
    BY <1>9, <2>1 DEF KnownAlready
  <2>2. CASE \E uri : NewlyRead(made, u, uri)
    <3>1. PICK uri : made.onto = Ontology(u, uri) /\ made.ontomap = Put(ontomap, u, Ontology(u, uri))
      BY <2>2 DEF NewlyRead
    <3> QED BY <1>9, <3>1, PutGives
  <2>3. CASE \E uri : Unread(made, u, uri)
    BY <1>5, <2>3 DEF Unread
  <2> QED BY <1>1, <2>1, <2>2, <2>3, Creation
<1>11. FitsText(p.dlq, w, made.onto) /\ p.links = getDirectors(w.atom, p.dlq, p.proj).links
  BY <1>1, Prepared
<1>12. ctx = [ok |-> TRUE, query |-> Query(p.dlq, p.proj)]
  <2>1. ctx # NoQueryCtx
    BY <1>6 DEF NoQueryCtx
  <2>2. PICK m, proj : ctx = Projected(m, proj)
    BY <1>2, <2>1 DEF QueryCtx
  <2>3. ctx = [ok |-> TRUE, query |-> Query(m.dlq, proj)]
    BY <2>1, <2>2 DEF Projected
  <2>4. ctx.query.dlq = m.dlq /\ ctx.query.proj = proj
    BY <2>3 DEF Query
  <2> QED BY <1>8, <2>3, <2>4
<1> QED BY <1>1, <1>2, <1>10, <1>11, <1>12 DEF MadeOf, FitsText

\* A query begins with what was prepared for it, or none does.
LEMMA BeginsFrom ==
  ASSUME Ask, RegistryInv, asking' # NoQuery
  PROVE  \E w \in Queries : \E inter \in Interpretations[w], reachable \in BOOLEAN :
         \E p : /\ p = Prepare(w, inter, reachable) /\ p.ok /\ Registers(p.made)
                /\ Begin(w, inter, p)
                /\ asking' = [kind |-> "asking", query |-> w, inter |-> inter, dlq |-> p.dlq, proj |-> p.proj]
                /\ todo' = p.links /\ racer' = racer /\ answer' = answer /\ asking = NoQuery
<1>1. PICK w \in Queries : \E inter \in Interpretations[w], reachable \in BOOLEAN :
        \E p : /\ p = Prepare(w, inter, reachable) /\ Idle /\ Asks(w, inter, p)
               /\ Reject(w, inter, p) \/ Abort(w, inter, p) \/ CacheHit(w, inter, p) \/ Begin(w, inter, p)
  BY AskEnds
<1> PICK inter \in Interpretations[w], reachable \in BOOLEAN :
      \E p : /\ p = Prepare(w, inter, reachable) /\ Idle /\ Asks(w, inter, p)
             /\ Reject(w, inter, p) \/ Abort(w, inter, p) \/ CacheHit(w, inter, p) \/ Begin(w, inter, p)
  BY <1>1
<1>2. PICK p :
        /\ p = Prepare(w, inter, reachable) /\ Idle /\ Asks(w, inter, p)
        /\ Reject(w, inter, p) \/ Abort(w, inter, p) \/ CacheHit(w, inter, p) \/ Begin(w, inter, p)
  OBVIOUS
<1>3. asking = NoQuery /\ Begin(w, inter, p)
  BY <1>2 DEF Idle, Reject, Abort, CacheHit
<1>4. /\ asking' = [kind |-> "asking", query |-> w, inter |-> inter, dlq |-> p.dlq, proj |-> p.proj]
      /\ todo' = p.links /\ p.ok /\ answer' = answer
  BY <1>3 DEF Begin
<1>5. Registers(p.made) /\ racer' = racer
  BY <1>2 DEF Asks, session
<1> QED BY <1>1, <1>2, <1>3, <1>4, <1>5

\* Nothing else begins a query.
LEMMA GoesOn ==
  ASSUME [Next]_vars, ~Ask
  PROVE  asking' = NoQuery \/ (asking' = asking /\ ~Exit)
<1>1. CASE BuilderThrows \/ Garbled \/ Send
  <2>1. asking' = asking \/ asking' = NoQuery
    BY <1>1, TurnEnds DEF Throw, Deliver, Finished
  <2>2. asking # NoQuery
    BY <1>1, TurnEnds
  <2> QED BY <2>1, <2>2 DEF Exit
<1>2. CASE Exit
  BY <1>2 DEF Exit, query
<1>3. CASE SetKBReload \/ SetDLSetup \/ SetDLOpt \/ SetDLDebug
  <2>1. asking' = asking /\ argv' = Tail(argv) /\ argv # <<>> /\ phase' = phase /\ phase = "options"
    BY <1>3 DEF SetKBReload, SetDLSetup, SetDLOpt, SetDLDebug, Erase, query, Looks
  <2> QED BY <2>1 DEF Exit
<1>4. CASE Help \/ SetOntology \/ SetDefaults \/ KeepArgument \/ OptionsSet
  <2>1. asking' = asking /\ phase = "options"
    BY <1>4 DEF Help, SetOntology, SetDefaults, KeepArgument, OptionsSet, query, Looks
  <2> QED BY <2>1 DEF Exit
<1>5. CASE UNCHANGED vars
  <2>1. asking' = asking /\ phase' = phase
    BY <1>5 DEF vars, query
  <2> QED BY <2>1 DEF Exit
<1> QED BY <1>1, <1>2, <1>3, <1>4, <1>5 DEF Next

\* Every query under way is made from a written one, in the ontology of that one.
LEMMA StemsStep ==
  ASSUME StemsInv, RegistryInv, ArgumentsInv, FilesInv, [Next]_vars
  PROVE  StemsInv'
<1>1. CASE asking' = NoQuery
  BY <1>1 DEF StemsInv
<1>2. CASE Ask /\ asking' # NoQuery
  <2>1. PICK w \in Queries : \E inter \in Interpretations[w], reachable \in BOOLEAN :
         \E p : /\ p = Prepare(w, inter, reachable) /\ p.ok /\ Registers(p.made)
                /\ asking' = [kind |-> "asking", query |-> w, inter |-> inter, dlq |-> p.dlq, proj |-> p.proj]
    BY <1>2, BeginsFrom
  <2>2. PICK inter, reachable, p :
          /\ inter \in Interpretations[w] /\ reachable \in BOOLEAN
          /\ p = Prepare(w, inter, reachable) /\ p.ok /\ Registers(p.made)
          /\ asking' = [kind |-> "asking", query |-> w, inter |-> inter, dlq |-> p.dlq, proj |-> p.proj]
    BY <2>1
  <2>3. asking'.query = w /\ asking'.inter = inter /\ asking'.dlq = p.dlq /\ asking'.proj = p.proj
    BY <2>2
  <2>4. LET u == setupURI(w.onto)
        IN  u \in DOMAIN ontomap' /\ p.dlq.onto = ontomap'[u] /\ MadeOf(w, inter, ontomap'[u], p.dlq, p.proj)
    BY <2>2, PreparedFrom
  <2> QED BY <2>1, <2>2, <2>3, <2>4 DEF StemsInv
<1>3. CASE ~Ask /\ asking' # NoQuery
  <2>1. asking' = asking /\ ~Exit
    BY <1>3, GoesOn
  <2>2. PICK u : u = setupURI(asking.query.onto)
    OBVIOUS
  <2>3. u \in DOMAIN ontomap
    BY <1>3, <2>1, <2>2 DEF StemsInv
  <2>4. u \in DOMAIN ontomap' /\ ontomap'[u] = ontomap[u]
    BY <2>1, <2>3, OntologyStays
  <2> QED BY <1>3, <2>1, <2>2, <2>4 DEF StemsInv
<1> QED BY <1>1, <1>2, <1>3

-----------------------------------------------------------------------------
(* The last command. *)

\* The commands about a clone, by the atom and by what of the output list is given.
CloneCommand(atom, dlq, b) ==
  \/ atom = "dlConsistent" /\ b = Built([cmd |-> "abox-consistent?", abox |-> kbName])
  \/ atom = "dlC" /\ Len(dlq.pattern) = 1 /\ typeFlags(dlq.pattern) = {} /\ b = ConceptInstances(dlq)
  \/ /\ atom = "dlC" /\ Len(dlq.pattern) = 1 /\ typeFlags(dlq.pattern) = {1}
     /\ b = Built([cmd |-> "individual-instance?", i |-> PatternIndividual(dlq, 1),
                   c |-> SignedConcept(dlq.query, dlq.onto.ns), abox |-> kbName])
  \/ atom = "dlR" /\ Len(dlq.pattern) = 2 /\ typeFlags(dlq.pattern) = {} /\ b = RoleIndividuals(dlq)
  \/ /\ atom = "dlR" /\ Len(dlq.pattern) = 2 /\ typeFlags(dlq.pattern) = {1, 2}
     /\ b = Built([cmd |-> "individuals-related?", i1 |-> PatternIndividual(dlq, 1),
                   i2 |-> PatternIndividual(dlq, 2), r |-> PlainRole(dlq), abox |-> kbName])
  \/ \E k \in {1, 2} :
       /\ atom = "dlR" /\ Len(dlq.pattern) = 2 /\ typeFlags(dlq.pattern) = {k}
       /\ b = Fillers(PatternIndividual(dlq, k), From(k, PlainRole(dlq)))

\* What is asked of the temporary ABox is one of five commands.
LEMMA CloneCommands ==
  ASSUME NEW atom, NEW dlq, Fits(atom, dlq), ~Retrieves(atom, dlq)
  PROVE  CloneCommand(atom, dlq, OfClone(atom, dlq))
<1>1. \/ atom = "dlConsistent"
      \/ atom = "dlC" /\ Len(dlq.pattern) = 1
      \/ atom = "dlR" /\ Len(dlq.pattern) = 2
  <2>1. <<atom, Len(dlq.pattern)>> \in createAtoms /\ atom \notin {"dlDR", "dlCQ", "dlUCQ"}
    BY DEF Fits, Retrieves
  <2> QED BY <2>1 DEF createAtoms
<1>2. DOMAIN dlq.pattern = 1..Len(dlq.pattern)
  BY LenProperties DEF Fits
<1>3. CASE atom = "dlConsistent"
  BY <1>3 DEF OfClone, CloneCommand
<1>4. CASE atom = "dlC" /\ Len(dlq.pattern) = 1
  <2>1. OfClone(atom, dlq) = RacerConceptQuery(dlq)
    BY <1>4 DEF OfClone
  <2>2. dlq.pattern # <<>> /\ DOMAIN dlq.pattern = {1}
    BY <1>2, <1>4
  <2>3. CASE typeFlags(dlq.pattern) = {}
    BY <1>4, <2>1, <2>2, <2>3 DEF CloneCommand, RacerConceptQuery, isRetrieval
  <2>4. CASE typeFlags(dlq.pattern) = {1}
    <3>1. ~isRetrieval(dlq) /\ isBoolean(dlq)
      BY <2>2, <2>4 DEF isRetrieval, isBoolean
    <3> QED BY <1>4, <2>1, <2>4, <3>1 DEF CloneCommand, RacerConceptQuery, IsConceptMember
  <2>5. typeFlags(dlq.pattern) \subseteq {1}
    BY <2>2 DEF typeFlags
  <2> QED BY <2>3, <2>4, <2>5
<1>5. CASE atom = "dlR" /\ Len(dlq.pattern) = 2
  <2>1. OfClone(atom, dlq) = RacerRoleQuery(dlq)
    BY <1>5 DEF OfClone
  <2>2. dlq.pattern # <<>> /\ DOMAIN dlq.pattern = {1, 2}
    BY <1>2, <1>5
  <2>3. CASE typeFlags(dlq.pattern) = {}
    <3>1. isRetrieval(dlq)
      BY <2>2, <2>3 DEF isRetrieval
    <3>2. ~isBoolean(dlq)
      BY <2>2, <2>3 DEF isBoolean
    <3>3. RacerRoleQuery(dlq) = RoleIndividuals(dlq)
      BY <3>1, <3>2 DEF RacerRoleQuery
    <3> QED BY <1>5, <2>1, <2>3, <3>3 DEF CloneCommand
  <2>4. CASE typeFlags(dlq.pattern) = {1, 2}
    <3>1. ~isRetrieval(dlq) /\ isBoolean(dlq)
      BY <2>2, <2>4 DEF isRetrieval, isBoolean
    <3> QED BY <1>5, <2>1, <2>4, <3>1 DEF CloneCommand, RacerRoleQuery, IsRoleMember
  <2>5. ASSUME NEW k \in {1, 2}, typeFlags(dlq.pattern) = {k}
        PROVE  CloneCommand(atom, dlq, OfClone(atom, dlq))
    <3>1. ~isRetrieval(dlq) /\ ~isBoolean(dlq)
      BY <2>2, <2>5 DEF isRetrieval, isBoolean
    <3>2. Cardinality({k}) = 1
      BY FS_Singleton
    <3>3. Given(dlq) = k
      BY <2>5 DEF Given, Min
    <3>4. RacerRoleQuery(dlq) = IndividualFillers(dlq)
      BY <3>1 DEF RacerRoleQuery
    <3>5. IndividualFillers(dlq) = Fillers(PatternIndividual(dlq, k), From(k, PlainRole(dlq)))
      BY <1>5, <2>5, <3>2, <3>3 DEF IndividualFillers
    <3>6. PICK b : b = OfClone(atom, dlq) /\ b = Fillers(PatternIndividual(dlq, k), From(k, PlainRole(dlq)))
      BY <2>1, <3>4, <3>5
    <3>7. \E j \in {1, 2} :
            /\ atom = "dlR" /\ Len(dlq.pattern) = 2 /\ typeFlags(dlq.pattern) = {j}
            /\ b = Fillers(PatternIndividual(dlq, j), From(j, PlainRole(dlq)))
      BY <1>5, <2>5, <3>6
    <3> QED BY <3>6, <3>7 DEF CloneCommand
  <2>6. typeFlags(dlq.pattern) \subseteq {1, 2}
    BY <2>2 DEF typeFlags
  <2>7. typeFlags(dlq.pattern) \in {{}, {1}, {2}, {1, 2}}
    BY <2>6
  <2> QED BY <2>3, <2>4, <2>5, <2>7
<1> QED BY <1>1, <1>3, <1>4, <1>5

\* The last link asks a question that changes nothing, of the clone or of the document's ABox.
LEMMA LastLink ==
  ASSUME NEW q, NEW links, NEW n, Places(links, q, n), Fits(q.query.atom, q.dlq), NEW l, l = links[Len(links)]
  PROVE  /\ l.driver = "RacerAnswerDriver"
         /\ l.build.ok => AsksOnly(l.build.expr)
         /\ l.build.ok => l.build.expr.abox =
              IF Retrieves(q.query.atom, q.dlq) THEN q.dlq.onto.realuri ELSE kbName
         /\ ~Retrieves(q.query.atom, q.dlq) => l.build = OfClone(q.query.atom, q.dlq) /\ l.build.ok = TRUE
         /\ Retrieves(q.query.atom, q.dlq) =>
              l.build = RetrieveUnderPremise(HeadOf(q.query.atom, q.dlq), BodyOf(q.query.atom, q.dlq), q.dlq, q.proj)
<1>1. \A b : Answered(b).build = b /\ Answered(b).driver = "RacerAnswerDriver"
  BY DEF Answered, QueryDirector
<1>2. CASE Retrieves(q.query.atom, q.dlq)
  <2>1. l = RetrievesOf(q)
    BY <1>2 DEF Places
  <2>2. PICK b : b = RetrieveUnderPremise(HeadOf(q.query.atom, q.dlq), BodyOf(q.query.atom, q.dlq), q.dlq, q.proj)
    OBVIOUS
  <2>3. l.build = b /\ l.driver = "RacerAnswerDriver"
    BY <1>1, <2>1, <2>2 DEF RetrievesOf
  <2>4. b.ok => b.expr.cmd = "retrieve-under-premise" /\ b.expr.abox = q.dlq.onto.realuri
    BY <2>2 DEF RetrieveUnderPremise, Built, DLBuildingError
  <2> QED BY <1>2, <2>2, <2>3, <2>4 DEF AsksOnly
<1>3. CASE ~Retrieves(q.query.atom, q.dlq)
  <2>1. PICK b : b = OfClone(q.query.atom, q.dlq) /\ CloneCommand(q.query.atom, q.dlq, b)
    BY <1>3, CloneCommands
  <2>2. l.build = b /\ l.driver = "RacerAnswerDriver"
    BY <1>1, <1>3, <2>1 DEF Places
  <2>3. /\ b.ok = TRUE /\ b.expr.abox = kbName
        /\ b.expr.cmd \in {"abox-consistent?", "concept-instances", "individual-instance?",
             "retrieve-related-individuals", "individuals-related?", "individual-fillers"}
    BY <2>1 DEF CloneCommand, Built, ConceptInstances, RoleIndividuals, Fillers
  <2> QED BY <1>3, <2>1, <2>2, <2>3 DEF AsksOnly
<1> QED BY <1>2, <1>3

\* What RACER knows of a query when it answers it.
Kb(q, m) == Loaded(q.dlq.onto.realuri, m) \cup Asserted(q.proj, q.dlq.onto.ns)

\* The last command of a query is asked of that.
AskedOfKb(q, c, r) ==
  /\ AsksOnly(c) /\ c.abox \in DOMAIN r.aboxes /\ Known(c, r) = Kb(q, r.mirror)
  /\ r.una = TRUE /\ (q.query.atom = "dlDR" => r.mirror = TRUE)

\* The link whose turn it is stands in its place of the chain.
LEMMA LinkPlace ==
  ASSUME NEW q, NEW left, NEW whole, Underway(q, left, whole)
  PROVE  /\ Places(Chain(q), q, Opening(q)) /\ Opening(q) \in {3, 4} /\ Len(Chain(q)) \in Nat
         /\ Len(left) \in 1..Len(Chain(q)) /\ Sent(q, left) \in 0..(Len(Chain(q)) - 1)
         /\ Head(left) = Chain(q)[Sent(q, left) + 1]
         /\ Sent(q, Tail(left)) = Sent(q, left) + 1
         /\ whole => Sent(q, left) = 0
<1>1. PICK links : links = Chain(q)
  OBVIOUS
<1>2. /\ links \in Seq(ToSet(links)) /\ Len(links) \in Nat /\ Len(links) >= 5
      /\ left \in Seq(ToSet(links)) /\ left # <<>> /\ SuffixOf(left, links) /\ (whole => left = links)
      /\ Fits(q.query.atom, q.dlq)
  BY <1>1, ChainIsLong DEF Underway
<1>3. /\ Len(left) \in 1..Len(links) /\ Head(left) = links[Len(links) - Len(left) + 1]
      /\ Len(Tail(left)) = Len(left) - 1
  BY <1>2, TailOfSuffix
<1>4. Places(Chain(q), q, Opening(q)) /\ Opening(q) \in {3, 4}
  BY <1>2, ChainPlaces DEF Opening
<1>5. Sent(q, left) = Len(links) - Len(left) /\ Sent(q, Tail(left)) = Len(links) - (Len(left) - 1)
  BY <1>1, <1>3 DEF Sent
<1>6. PICK m, n : m = Len(links) /\ n = Len(left) /\ m \in Nat /\ n \in 1..m
  BY <1>2, <1>3
<1>7. m - n \in 0..(m - 1) /\ m - (n - 1) = (m - n) + 1 /\ (n = m => m - n = 0)
  BY <1>6
<1> QED BY <1>1, <1>2, <1>3, <1>4, <1>5, <1>6, <1>7

\* What is known of the dialog when a link has its turn.
LEMMA BeforeTheLast ==
  ASSUME DialogInv, AskingInv, StemsInv, OntologiesInv, RegistryInv, FilesInv, CopiesInv,
         Send, Len(todo) > 1
  PROVE  /\ RacerOne(racer') /\ Reached(racer', asking, Sent(asking, Tail(todo)), Opening(asking))
         /\ asking' = asking /\ todo' = Tail(todo) /\ answer' = NoAnswer
         /\ contexts' = contexts /\ returned' = returned /\ universe' = universe
<1>1. asking # NoQuery /\ Underway(asking, todo, half)
  BY DEF Send, Turn, AskingInv
<1>2. PICK q, links, n, k : /\ q = asking /\ links = Chain(q) /\ n = Opening(q) /\ k = Sent(q, todo) + 1
  OBVIOUS
<1>3. /\ Places(links, q, n) /\ n \in {3, 4} /\ Len(links) \in Nat /\ k \in 1..(Len(links) - 1)
      /\ Link = links[k] /\ Sent(q, Tail(todo)) = k /\ k - 1 = Sent(q, todo)
  <2>1. /\ Places(links, q, n) /\ n \in {3, 4} /\ Len(links) \in Nat /\ Len(todo) \in 1..Len(links)
        /\ Sent(q, todo) \in 0..(Len(links) - 1) /\ Link = links[k] /\ Sent(q, Tail(todo)) = k
    BY <1>1, <1>2, LinkPlace DEF Link
  <2>2. Sent(q, todo) = Len(links) - Len(todo)
    BY <1>2 DEF Sent
  <2> QED BY <1>2, <2>1, <2>2
<1>4. RacerOne(racer) /\ answer = NoAnswer /\ Reached(racer, q, k - 1, n)
  BY <1>1, <1>2, <1>3 DEF DialogInv
<1>5. CanBeRead(q.dlq.onto, files)
  BY <1>1, <1>2, RegisteredCanBeRead DEF StemsInv
<1>6. PICK obeyed : obeyed = Obey(racer, links[k].build.expr, files) /\ Sends(obeyed)
  BY <1>3 DEF Send
<1>7. /\ RacerOne(obeyed.racer) /\ Reached(obeyed.racer, q, k, n)
      /\ parse(links[k].driver, NoAnswer, obeyed.reply) = [ok |-> TRUE, answer |-> NoAnswer]
  <2>1. PICK docs : docs = files
    OBVIOUS
  <2>2. n \in {3, 4} /\ Places(links, q, n) /\ k \in 1..(Len(links) - 1) /\ Len(links) \in Nat
    BY ONLY <1>3
  <2>3. RacerOne(racer) /\ Reached(racer, q, k - 1, n)
    BY ONLY <1>4
  <2>4. CanBeRead(q.dlq.onto, docs) /\ obeyed = Obey(racer, links[k].build.expr, docs)
    BY ONLY <1>5, <1>6, <2>1
  <2> QED BY ONLY <2>2, <2>3, <2>4, CommandObeyed
<1>8. racer' = obeyed.racer
  BY <1>6 DEF Sends
<1>9. PICK read : /\ read = [ok |-> TRUE, answer |-> NoAnswer]
                  /\ Goes(read) \/ Refused(read) \/ HandleInconsistency(read)
  BY <1>3, <1>4, <1>6, <1>7 DEF Sends
<1>10. read.ok = TRUE /\ read.answer = NoAnswer /\ NoAnswer.incoherent = FALSE
  BY <1>9 DEF NoAnswer
<1>11. Goes(read)
  BY <1>9, <1>10 DEF Refused, HandleInconsistency
<1>12. /\ answer' = NoAnswer /\ todo' = Tail(todo) /\ asking' = asking /\ contexts' = contexts
       /\ returned' = returned /\ universe' = universe
  BY <1>10, <1>11 DEF Goes
<1> QED BY <1>2, <1>3, <1>7, <1>8, <1>12

\* The last command is asked of what RACER was told, and its reply read into an empty answer.
LEMMA TheLast ==
  ASSUME DialogInv, AskingInv, StemsInv, OntologiesInv, RegistryInv, FilesInv, CopiesInv,
         Send, ~(Len(todo) > 1)
  PROVE  \E c, read :
           /\ racer' = racer /\ asking # NoQuery /\ Fits(asking.query.atom, asking.dlq)
           /\ AskedOfKb(asking, c, racer)
           /\ Link.build.ok /\ c = Link.build.expr
           /\ Link.build = IF Retrieves(asking.query.atom, asking.dlq)
                           THEN RetrieveUnderPremise(HeadOf(asking.query.atom, asking.dlq),
                                  BodyOf(asking.query.atom, asking.dlq), asking.dlq, asking.proj)
                           ELSE OfClone(asking.query.atom, asking.dlq)
           /\ read = RacerAnswerDriver(NoAnswer, Answer(c, racer))
           /\ Goes(read) \/ Refused(read) \/ HandleInconsistency(read)
<1>1. asking # NoQuery /\ Underway(asking, todo, half) /\ Link.build.ok
  BY DEF Send, Turn, AskingInv
<1>2. PICK q, links, n, k : /\ q = asking /\ links = Chain(q) /\ n = Opening(q) /\ k = Sent(q, todo)
  OBVIOUS
<1>3. /\ Places(links, q, n) /\ n \in {3, 4} /\ Len(links) \in Nat /\ k = Len(links) - 1
      /\ Link = links[Len(links)] /\ Fits(q.query.atom, q.dlq)
  <2>1. /\ Places(links, q, n) /\ n \in {3, 4} /\ Len(links) \in Nat /\ Len(todo) \in 1..Len(links)
        /\ k \in 0..(Len(links) - 1) /\ Link = links[k + 1]
    BY <1>1, <1>2, LinkPlace DEF Link
  <2>2. k = Len(links) - Len(todo)
    BY <1>2 DEF Sent
  <2>3. Len(todo) = 1
    <3>1. PICK m, l : m = Len(todo) /\ l = Len(links) /\ l \in Nat /\ m \in 1..l /\ ~(m > 1)
      BY <2>1
    <3> QED BY <3>1
  <2>4. k + 1 = Len(links)
    <3>1. PICK l : l = Len(links) /\ l \in Nat /\ k = l - 1
      BY <2>1, <2>2, <2>3
    <3> QED BY <3>1
  <2> QED BY <1>1, <1>2, <2>1, <2>2, <2>3, <2>4 DEF Underway
<1>4. RacerOne(racer) /\ answer = NoAnswer /\ Reached(racer, q, k, n)
  BY <1>1, <1>2 DEF DialogInv
<1>5. PICK c : c = Link.build.expr
  OBVIOUS
<1>6. /\ Link.driver = "RacerAnswerDriver" /\ AsksOnly(c)
      /\ c.abox = IF Retrieves(q.query.atom, q.dlq) THEN q.dlq.onto.realuri ELSE kbName
      /\ ~Retrieves(q.query.atom, q.dlq) => Link.build = OfClone(q.query.atom, q.dlq)
      /\ Retrieves(q.query.atom, q.dlq) =>
           Link.build = RetrieveUnderPremise(HeadOf(q.query.atom, q.dlq), BodyOf(q.query.atom, q.dlq), q.dlq, q.proj)
  BY <1>1, <1>3, <1>5, LastLink
<1>7. PICK u, ns : u = q.dlq.onto.realuri /\ ns = q.dlq.onto.ns
  OBVIOUS
<1>8. k >= 3 /\ k >= n /\ Len(links) = IF Retrieves(q.query.atom, q.dlq) THEN n + 2 ELSE n + 4
  BY <1>3 DEF Places
<1>9. racer.una = TRUE /\ (q.query.atom = "dlDR" => racer.mirror = TRUE)
  BY <1>2, <1>3, <1>4, <1>8 DEF Reached, Opening
<1>10. c.abox \in DOMAIN racer.aboxes /\ Known(c, racer) = Kb(q, racer.mirror)
  <2>1. CASE Retrieves(q.query.atom, q.dlq)
    <3>1. ABoxIs(racer, u, Loaded(u, racer.mirror))
      BY <1>4, <1>7, <1>8 DEF Reached
    <3>2. c.cmd = "retrieve-under-premise" /\ c.premise = createPremise(q.proj, ns)
      <4>1. PICK b : /\ b = Link.build /\ b.ok /\ c = b.expr
                     /\ b = RetrieveUnderPremise(HeadOf(q.query.atom, q.dlq), BodyOf(q.query.atom, q.dlq), q.dlq, q.proj)
        BY <1>1, <1>5, <1>6, <2>1
      <4> QED BY <1>7, <4>1 DEF RetrieveUnderPremise, Built, DLBuildingError
    <3>3. {AssertedBy(a) : a \in c.premise} = Asserted(q.proj, ns)
      BY <3>2 DEF Asserted
    <3> QED BY <1>6, <1>7, <2>1, <3>1, <3>2, <3>3 DEF ABoxIs, Known, Kb
  <2>2. CASE ~Retrieves(q.query.atom, q.dlq)
    <3>1. ABoxIs(racer, kbName, Loaded(u, racer.mirror) \cup Asserted(q.proj, ns))
      BY <1>3, <1>4, <1>7, <1>8, <2>2 DEF Reached
    <3>2. c.cmd # "retrieve-under-premise"
      <4>1. PICK b : b = OfClone(q.query.atom, q.dlq) /\ CloneCommand(q.query.atom, q.dlq, b) /\ c = b.expr
        BY <1>3, <1>5, <1>6, <2>2, CloneCommands
      <4> QED BY <4>1 DEF CloneCommand, Built, ConceptInstances, RoleIndividuals, Fillers
    <3> QED BY <1>6, <1>7, <2>2, <3>1, <3>2 DEF ABoxIs, Known, Kb
  <2> QED BY <2>1, <2>2
<1>11. PICK obeyed : obeyed = Obey(racer, c, files) /\ Sends(obeyed)
  BY <1>5 DEF Send
<1>12. obeyed = [racer |-> racer, reply |-> Answer(c, racer)]
  BY <1>6, <1>11, ObeyedQuery
<1>13. racer' = racer
  BY <1>11, <1>12 DEF Sends
<1>14. PICK read : /\ read = RacerAnswerDriver(NoAnswer, Answer(c, racer))
                   /\ Goes(read) \/ Refused(read) \/ HandleInconsistency(read)
  BY <1>4, <1>6, <1>11, <1>12 DEF Sends, parse
<1> QED BY <1>1, <1>2, <1>3, <1>5, <1>6, <1>9, <1>10, <1>13, <1>14 DEF AskedOfKb

\* Obeying the command of the end, RACER's state stays one of the three parts.
LEMMA ForgottenIsOne ==
  ASSUME RacerOne(racer), NEW managers
  PROVE  RacerOne(Forget(removeKB(managers)))
<1>1. PICK name : name = getKBName(managers)
  OBVIOUS
<1>2. PICK link : link = ForgetABox(name) /\ removeKB(managers) = <<link>>
  BY <1>1 DEF removeKB
<1>3. PICK c : c = link.build.expr /\ c.cmd = "forget-abox"
  BY <1>2 DEF ForgetABox, Ignored, QueryDirector, Built
<1>4. Forget(removeKB(managers)) = IF half THEN racer ELSE Obey(racer, c, files).racer
  BY <1>2, <1>3 DEF Forget
<1>5. DOMAIN racer = {"una", "mirror", "aboxes"}
  BY DEF RacerOne
<1>6. RacerOne(Obey(racer, c, files).racer)
  <2>1. PICK s : s = Obey(racer, c, files).racer
    OBVIOUS
  <2>2. s = racer \/ s = [racer EXCEPT !.aboxes = [n \in DOMAIN racer.aboxes \ {c.abox} |-> racer.aboxes[n]]]
    BY <1>3, <2>1 DEF Obey
  <2>3. RacerOne(s)
    BY <1>5, <2>2 DEF RacerOne
  <2> QED BY <2>1, <2>3
<1> QED BY <1>4, <1>6

\* The steps that do not speak to RACER leave it as it is.
LEMMA RacerRests ==
  ASSUME [Next]_vars, ~Send, ~Exit
  PROVE  racer' = racer
<1>1. CASE Ask
  <2>1. PICK w, inter, p : Asks(w, inter, p)
    BY <1>1, AskEnds
  <2> QED BY <2>1 DEF Asks, session
<1>2. CASE BuilderThrows \/ Garbled
  BY <1>2 DEF BuilderThrows, Garbled
<1>3. CASE SetKBReload \/ SetDLSetup \/ SetDLOpt \/ SetDLDebug
  BY <1>3 DEF SetKBReload, SetDLSetup, SetDLOpt, SetDLDebug, Erase, session
<1>4. CASE Help \/ SetOntology \/ SetDefaults \/ KeepArgument \/ OptionsSet
  BY <1>4 DEF Help, SetOntology, SetDefaults, KeepArgument, OptionsSet, session
<1>5. CASE UNCHANGED vars
  BY <1>5 DEF vars, session
<1> QED BY <1>1, <1>2, <1>3, <1>4, <1>5 DEF Next

\* A query that has just begun has nothing behind it.
LEMMA BeginningReached ==
  ASSUME NEW q, NEW r, NEW n \in {3, 4}, NEW sent \in {0, 1}
  PROVE  Reached(r, q, sent, n)
BY DEF Reached

\* Every step keeps to the dialog.
LEMMA DialogStep ==
  ASSUME DialogInv, AskingInv, StemsInv, OntologiesInv, RegistryInv, FilesInv, CopiesInv, ArgumentsInv,
         [Next]_vars
  PROVE  DialogInv'
<1>1. CASE Ask
  <2>1. racer' = racer
    <3>1. PICK w, inter, p : Asks(w, inter, p)
      BY <1>1, AskEnds
    <3> QED BY <3>1 DEF Asks, session
  <2>2. CASE asking' = NoQuery
    BY <2>1, <2>2 DEF DialogInv
  <2>3. CASE asking' # NoQuery
    <3>1. PICK w, inter, reachable, p :
            /\ w \in Queries
            /\ p = Prepare(w, inter, reachable) /\ Begin(w, inter, p)
            /\ answer' = answer /\ asking = NoQuery
      BY <1>1, <2>3, BeginsFrom
    <3>2. Underway(asking', todo', TRUE) /\ todo' = Chain(asking')
      BY <3>1, Begins
    <3>3. PICK q, left, r : q = asking' /\ left = todo' /\ r = racer'
      OBVIOUS
    <3>4. Len(Chain(q)) \in Nat /\ Opening(q) \in {3, 4}
      BY <3>2, <3>3, ChainIsLong DEF Underway, Opening
    <3>5. Sent(q, left) = 0
      BY <3>2, <3>3, <3>4 DEF Sent, Chain
    <3>6. Reached(r, q, Sent(q, left), Opening(q))
      BY <3>4, <3>5, BeginningReached
    <3>7. answer' = NoAnswer
      BY <3>1 DEF AskingInv
    <3>8. RacerOne(r)
      BY <2>1, <3>3 DEF DialogInv
    <3> QED BY <3>3, <3>6, <3>7, <3>8 DEF DialogInv, Sent, Chain
  <2> QED BY <2>2, <2>3
<1>2. CASE Send
  <2>1. asking # NoQuery
    BY <1>2 DEF Send, Turn
  <2>2. CASE Len(todo) > 1
    <3>1. /\ RacerOne(racer') /\ Reached(racer', asking, Sent(asking, Tail(todo)), Opening(asking))
          /\ asking' = asking /\ todo' = Tail(todo) /\ answer' = NoAnswer
      BY <1>2, <2>2, BeforeTheLast
    <3>2. PICK q, left, r : q = asking' /\ left = todo' /\ r = racer'
      OBVIOUS
    <3>3. Reached(r, q, Sent(q, left), Opening(q)) /\ RacerOne(r)
      BY <3>1, <3>2
    <3> QED BY <3>1, <3>2, <3>3 DEF DialogInv, Sent, Chain
  <2>3. CASE ~(Len(todo) > 1)
    <3>1. PICK c, read : racer' = racer /\ (Goes(read) \/ Refused(read) \/ HandleInconsistency(read))
      BY <1>2, <2>3, TheLast
    <3>2. asking' = NoQuery
      <4>1. CASE Goes(read)
        BY <2>3, <4>1 DEF Goes, Deliver, Finished
      <4>2. CASE Refused(read)
        BY <4>2 DEF Refused, Throw, Finished
      <4>3. CASE HandleInconsistency(read)
        BY <4>3 DEF HandleInconsistency, Deliver, Finished
      <4> QED BY <3>1, <4>1, <4>2, <4>3
    <3> QED BY <3>1, <3>2 DEF DialogInv
  <2> QED BY <2>2, <2>3
<1>3. CASE Exit
  <2>1. asking' = NoQuery
    BY <1>3 DEF Exit, query
  <2>2. racer' = racer \/ racer' = Forget(removeKB(plugin.kbManager))
    BY <1>3 DEF Exit
  <2>3. RacerOne(racer')
    BY <2>2, ForgottenIsOne DEF DialogInv
  <2> QED BY <2>1, <2>3 DEF DialogInv
<1>4. CASE Garbled
  <2>1. asking # NoQuery /\ half /\ asking' = asking /\ todo' = Tail(todo) /\ answer' = answer
    BY <1>4 DEF Garbled, Turn
  <2>2. racer' = racer
    BY <1>4 DEF Garbled
  <2>3. Sent(asking, Tail(todo)) = 1 /\ Opening(asking) \in {3, 4}
    <3>1. Underway(asking, todo, half) /\ half
      BY <2>1 DEF AskingInv
    <3>2. PICK q, left : q = asking /\ left = todo
      OBVIOUS
    <3>3. Sent(q, Tail(left)) = Sent(q, left) + 1 /\ (half => Sent(q, left) = 0) /\ Opening(q) \in {3, 4}
      BY <3>1, <3>2, LinkPlace
    <3> QED BY <3>1, <3>2, <3>3
  <2>4. PICK q, left, r : q = asking' /\ left = todo' /\ r = racer'
    OBVIOUS
  <2>5. Reached(r, q, Sent(q, left), Opening(q)) /\ RacerOne(r)
    BY <2>1, <2>2, <2>3, <2>4, BeginningReached DEF DialogInv
  <2> QED BY <2>1, <2>4, <2>5 DEF DialogInv, Sent, Chain
<1>5. CASE ~Ask /\ ~Send /\ ~Exit /\ ~Garbled
  <2>1. racer' = racer
    BY <1>5, RacerRests
  <2>2. CASE asking' = NoQuery
    BY <2>1, <2>2 DEF DialogInv
  <2>3. CASE asking' # NoQuery
    <3>1. asking' = asking
      BY <1>5, <2>3, GoesOn
    <3>2. todo' = todo /\ answer' = answer
      <4>1. CASE BuilderThrows
        BY <2>3, <4>1 DEF BuilderThrows, Throw, Finished
      <4>2. CASE SetKBReload \/ SetDLSetup \/ SetDLOpt \/ SetDLDebug
        BY <4>2 DEF SetKBReload, SetDLSetup, SetDLOpt, SetDLDebug, Erase, query
      <4>3. CASE Help \/ SetOntology \/ SetDefaults \/ KeepArgument \/ OptionsSet
        BY <4>3 DEF Help, SetOntology, SetDefaults, KeepArgument, OptionsSet, query
      <4>4. CASE UNCHANGED vars
        BY <4>4 DEF vars, query
      <4> QED BY <1>5, <4>1, <4>2, <4>3, <4>4 DEF Next
    <3> QED BY <2>1, <3>1, <3>2 DEF DialogInv, Sent, Chain, Opening
  <2> QED BY <2>2, <2>3
<1> QED BY <1>1, <1>2, <1>3, <1>4, <1>5

\* The dialog begins with a RACER that knows nothing.
LEMMA DialogStarts ==
  ASSUME Init
  PROVE  DialogInv /\ StemsInv /\ OntologiesInv
<1>1. racer = FreshRacer /\ asking = NoQuery /\ ontomap = NoOntologies
  BY DEF Init
<1> QED BY <1>1 DEF DialogInv, StemsInv, OntologiesInv, RacerOne, FreshRacer, NoOntologies

-----------------------------------------------------------------------------
(* Texts are taken apart as they were put together. *)

\* What the tokenizer is while it reads letters of T.
Readers(T) ==
  [state : {"INITIAL", "PARENOPEN", "PARENCLOSE"}, tok : Seq(T), toks : Seq(Seq(T)), bad : BOOLEAN]

\* A tokenizer by its four members.
Members4(state, tok, toks, bad) == [state |-> state, tok |-> tok, toks |-> toks, bad |-> bad]

WithState(a, x) == [a EXCEPT !.state = x]
WithTok(a, x) == [a EXCEPT !.tok = x]
WithToks(a, x) == [a EXCEPT !.toks = x]
WithBad(a, x) == [a EXCEPT !.bad = x]

\* One member of the tokenizer is replaced.
LEMMA With ==
  ASSUME NEW s, NEW tok, NEW toks, NEW bad, NEW x
  PROVE  /\ WithState(Members4(s, tok, toks, bad), x) = Members4(x, tok, toks, bad)
         /\ WithTok(Members4(s, tok, toks, bad), x) = Members4(s, x, toks, bad)
         /\ WithToks(Members4(s, tok, toks, bad), x) = Members4(s, tok, x, bad)
         /\ WithBad(Members4(s, tok, toks, bad), x) = Members4(s, tok, toks, x)
BY DEF Members4, WithState, WithTok, WithToks, WithBad

\* The members of what four members make.
LEMMA MembersAre ==
  ASSUME NEW s, NEW tok, NEW toks, NEW bad, NEW a, a = Members4(s, tok, toks, bad)
  PROVE  a.state = s /\ a.tok = tok /\ a.toks = toks /\ a.bad = bad
BY DEF Members4

\* A letter is kept at the end of the token.
LEMMA KeepWith == \A a, c : Keep(a, c) = WithTok(a, Append(a.tok, c))
BY DEF Keep, WithTok

\* What is not expected spoils the text.
LEMMA UnexpectedWith == \A a : Unexpected(a) = WithBad(a, TRUE)
BY DEF Unexpected, WithBad

\* The tokenizer begins with nothing.
LEMMA StartMembers == Start = Members4("INITIAL", <<>>, <<>>, FALSE)
BY DEF Start, Members4

\* One step of the tokenizer, by the members that it replaces.
LEMMA SeparateWith ==
  ASSUME NEW a, NEW c
  PROVE  Separate(a, c) =
           IF a.bad THEN a ELSE
           CASE c = "(" -> IF a.state = "INITIAL" THEN WithState(Keep(a, c), "PARENOPEN")
                           ELSE Unexpected(a)
             [] c = ")" -> IF a.state = "PARENOPEN" THEN WithState(Keep(a, c), "PARENCLOSE")
                           ELSE Unexpected(a)
             [] c = "," -> CASE a.state = "PARENOPEN" -> Keep(a, c)
                             [] a.state = "PARENCLOSE" -> WithToks(Start, Append(a.toks, a.tok))
                             [] OTHER -> Unexpected(a)
             [] c = " " -> Keep(a, c)
             [] OTHER -> IF a.state = "PARENCLOSE" THEN Unexpected(a) ELSE Keep(a, c)
BY DEF Separate, WithState, WithToks

\* A reader is made of its members.
LEMMA ReadersMembers ==
  ASSUME NEW T
  PROVE  /\ \A a \in Readers(T) :
              /\ a = Members4(a.state, a.tok, a.toks, a.bad)
              /\ a.state \in {"INITIAL", "PARENOPEN", "PARENCLOSE"} /\ a.tok \in Seq(T)
              /\ a.toks \in Seq(Seq(T)) /\ a.bad \in BOOLEAN
         /\ \A s \in {"INITIAL", "PARENOPEN", "PARENCLOSE"}, tok \in Seq(T), toks \in Seq(Seq(T)), bad \in BOOLEAN :
              Members4(s, tok, toks, bad) \in Readers(T)
BY DEF Readers, Members4

\* The letter that is kept, by members.
LEMMA KeepMembers ==
  ASSUME NEW s, NEW tok, NEW toks, NEW bad, NEW c
  PROVE  Keep(Members4(s, tok, toks, bad), c) = Members4(s, Append(tok, c), toks, bad)
<1>1. PICK a : a = Members4(s, tok, toks, bad)
  OBVIOUS
<1>2. PICK more : more = Append(tok, c)
  OBVIOUS
<1>3. a.tok = tok
  BY ONLY <1>1, MembersAre
<1>4. Keep(a, c) = WithTok(a, more)
  BY ONLY <1>2, <1>3, KeepWith
<1>5. WithTok(Members4(s, tok, toks, bad), more) = Members4(s, more, toks, bad)
  BY ONLY With
<1> QED BY ONLY <1>1, <1>2, <1>4, <1>5

\* The letter that is kept and the state that follows, by members.
LEMMA StateMembers ==
  ASSUME NEW s, NEW tok, NEW toks, NEW bad, NEW c, NEW x
  PROVE  WithState(Keep(Members4(s, tok, toks, bad), c), x) = Members4(x, Append(tok, c), toks, bad)
<1>1. PICK more : more = Append(tok, c)
  OBVIOUS
<1>2. Keep(Members4(s, tok, toks, bad), c) = Members4(s, more, toks, bad)
  BY ONLY <1>1, KeepMembers
<1>3. WithState(Members4(s, more, toks, bad), x) = Members4(x, more, toks, bad)
  BY ONLY With
<1> QED BY ONLY <1>1, <1>2, <1>3

\* The next token begins with nothing.
LEMMA StartAgain ==
  ASSUME NEW others
  PROVE  WithToks(Start, others) = Members4("INITIAL", <<>>, others, FALSE)
<1>1. PICK i, e, no : i = "INITIAL" /\ e = <<>> /\ no = FALSE
  OBVIOUS
<1>2. WithToks(Members4(i, e, e, no), others) = Members4(i, e, others, no)
  BY ONLY With
<1> QED BY ONLY <1>1, <1>2, StartMembers

\* The tokenizer goes from readers to readers.
LEMMA SeparateKeeps ==
  ASSUME NEW T, NEW a \in Readers(T), NEW c \in T
  PROVE  Separate(a, c) \in Readers(T)
<1>1. PICK s, tok, toks, bad :
        /\ s \in {"INITIAL", "PARENOPEN", "PARENCLOSE"} /\ tok \in Seq(T) /\ toks \in Seq(Seq(T)) /\ bad \in BOOLEAN
        /\ a = Members4(s, tok, toks, bad)
  BY ReadersMembers
<1>2. PICK more, others : more = Append(tok, c) /\ others = Append(toks, tok)
  OBVIOUS
<1>3. more \in Seq(T) /\ others \in Seq(Seq(T))
  BY <1>1, <1>2
<1>4. PICK x, y, z, u, v : /\ x = Keep(a, c) /\ y = Unexpected(a)
        /\ z = WithState(Keep(a, c), "PARENOPEN")
        /\ u = WithState(Keep(a, c), "PARENCLOSE")
        /\ v = WithToks(Start, Append(a.toks, a.tok))
  OBVIOUS
<1>5. /\ x = Members4(s, more, toks, bad)
      /\ z = Members4("PARENOPEN", more, toks, bad) /\ u = Members4("PARENCLOSE", more, toks, bad)
      /\ v = Members4("INITIAL", <<>>, others, FALSE)
  <2>1. /\ Keep(a, c) = Members4(s, more, toks, bad)
        /\ WithState(Keep(a, c), "PARENOPEN") = Members4("PARENOPEN", more, toks, bad)
        /\ WithState(Keep(a, c), "PARENCLOSE") = Members4("PARENCLOSE", more, toks, bad)
        /\ WithToks(Start, Append(a.toks, a.tok)) = Members4("INITIAL", <<>>, others, FALSE)
    <3>1. Keep(a, c) = Members4(s, more, toks, bad)
      BY ONLY <1>1, <1>2, KeepMembers
    <3>2. \A i : WithState(Keep(a, c), i) = Members4(i, more, toks, bad)
      BY ONLY <1>1, <1>2, StateMembers
    <3>3. WithToks(Start, Append(a.toks, a.tok)) = Members4("INITIAL", <<>>, others, FALSE)
      <4>1. a.tok = tok /\ a.toks = toks
        BY ONLY <1>1, MembersAre
      <4>2. Append(a.toks, a.tok) = others
        BY ONLY <1>2, <4>1
      <4>3. WithToks(Start, others) = Members4("INITIAL", <<>>, others, FALSE)
        BY ONLY StartAgain
      <4> QED BY ONLY <4>2, <4>3
    <3> QED BY ONLY <3>1, <3>2, <3>3
  <2> QED BY ONLY <1>4, <2>1
<1>6. Separate(a, c) \in {a, x, y, z, u, v}
  BY ONLY <1>4, SeparateWith
<1>7. <<>> \in Seq(T) /\ FALSE \in BOOLEAN
  OBVIOUS
<1>8. x \in Readers(T) /\ z \in Readers(T) /\ u \in Readers(T) /\ v \in Readers(T)
  BY ONLY <1>1, <1>3, <1>5, <1>7, ReadersMembers
<1>9. y \in Readers(T)
  BY <1>4 DEF Readers, Unexpected
<1> QED BY <1>6, <1>8, <1>9

\* The tokenizer before and behind each letter.
Tokens(f, big) == \A k \in 1..Len(big) : f[k] = Separate(f[k - 1], big[k])

\* Letter by letter.
LEMMA TokenSteps ==
  ASSUME NEW T, NEW s \in Seq(T)
  PROVE  \E f \in [0..Len(s) -> Readers(T)] :
           f[0] = Start /\ f[Len(s)] = FoldLeft(Separate, Start, s) /\ Tokens(f, s)
<1> DEFINE n == Len(s)
           X == Readers(T)
           G == [z \in X \X (1..n) |-> Separate(z[1], s[z[2]])]
           Eq(h) == h = [q \in SUBSET DOMAIN s |->
                           IF q = {} THEN Start ELSE Separate(h[q \ {Max(q)}], s[Max(q)])]
           it == CHOOSE h : Eq(h)
<1>1. n \in Nat /\ DOMAIN s = 1..n /\ \A k \in 1..n : s[k] \in T
  OBVIOUS
<1>2. \A acc \in X, k \in 1..n : Separate(acc, s[k]) \in X
  BY <1>1, SeparateKeeps
<1>3. /\ G \in [X \X (1..n) -> X]
      /\ \A acc \in X, k \in 1..n : G[<<acc, k>>] = Separate(acc, s[k])
  BY <1>2
<1>4. Start \in X
  BY DEF Start, Readers
<1> HIDE DEF n, X, G
<1>5. PICK h \in [SUBSET (1..n) -> X] : SetSteps(h, n, Start, G)
  BY ONLY <1>1, <1>3, <1>4, SetRecursion
<1>6. \A q \in SUBSET (1..n) : q # {} => Max(q) \in 1..n /\ q \ {Max(q)} \in SUBSET (1..n)
  BY <1>1, MaxOfSet
<1>7. Eq(h)
  BY <1>1, <1>3, <1>5, <1>6 DEF SetSteps
<1>8. Eq(it)
  BY <1>7
<1>9. FoldLeft(Separate, Start, s) = it[1..n]
  BY <1>1 DEF FoldLeft, MapThenFoldSet
<1> HIDE DEF it
<1>10. /\ it[{}] = Start
       /\ \A q \in SUBSET (1..n) : q # {} => it[q] = Separate(it[q \ {Max(q)}], s[Max(q)])
  BY <1>1, <1>8
<1>11. SetStepsWithin(it, n, X, Start, G)
  BY <1>3, <1>6, <1>10 DEF SetStepsWithin
<1>12. PICK f \in [0..n -> X] : f[n] = it[1..n] /\ Steps(f, n, Start, G)
  BY ONLY <1>1, <1>3, <1>4, <1>11, FoldSteps
<1>13. \A k \in 1..n : f[k] = Separate(f[k - 1], s[k])
  <2>1. \A k \in 1..n : f[k - 1] \in X
    BY <1>1, <1>12
  <2> QED BY <1>3, <1>12, <2>1 DEF Steps
<1> QED BY <1>9, <1>12, <1>13 DEF n, X, Steps, Tokens

Reader(state, tok, toks) == Members4(state, tok, toks, FALSE)

\* A text that says nothing of parentheses is read on, inside of them with its commas.
Silent(c, state) ==
  state \in {"INITIAL", "PARENOPEN"} /\ c \notin {"(", ")"} /\ (state = "INITIAL" => c # ",")
Quiet(s, state) == \A k \in 1..Len(s) : Silent(s[k], state)

\* A letter that divides nothing is kept.
LEMMA QuietStep ==
  ASSUME NEW state, NEW tok, NEW toks, NEW c, Silent(c, state)
  PROVE  Separate(Reader(state, tok, toks), c) = Reader(state, Append(tok, c), toks)
<1>0. PICK r : r = Reader(state, tok, toks)
  OBVIOUS
<1>1. PICK bad : bad = FALSE
  OBVIOUS
<1>2. r = Members4(state, tok, toks, bad)
  BY <1>0, <1>1 DEF Reader
<1>3. r.state = state /\ r.bad = bad
  BY ONLY <1>2, MembersAre
<1>4. Keep(r, c) = Members4(state, Append(tok, c), toks, bad)
  BY ONLY <1>2, KeepMembers
<1>5. Separate(r, c) = Keep(r, c)
  BY <1>1, <1>3, SeparateWith DEF Silent
<1> QED BY <1>0, <1>1, <1>4, <1>5 DEF Reader

\* A text that divides nothing is read into the token.
LEMMA QuietRun ==
  ASSUME NEW T, NEW big \in Seq(T), NEW f, Tokens(f, big),
         NEW s \in Seq(T), NEW a, Stands(s, big, a), NEW tok \in Seq(T), NEW toks,
         NEW state \in {"INITIAL", "PARENOPEN"}, f[a - 1] = Reader(state, tok, toks),
         Quiet(s, state)
  PROVE  f[a + Len(s) - 1] = Reader(state, tok \o s, toks)
<1> DEFINE n == Len(s)
           all == tok \o s
           long == Len(tok)
           upto(m) == Reader(state, SubSeq(all, 1, long + m), toks)
           S == {m \in 0..n : f[a + m - 1] = upto(m)}
<1>1. n \in Nat /\ a \in Nat \ {0} /\ a + n <= Len(big) + 1 /\ Len(big) \in Nat
  BY DEF Stands
<1>2. /\ all \in Seq(T) /\ long \in Nat /\ Len(all) = long + n
      /\ \A k \in 1..n : all[long + k] = s[k]
      /\ \A k \in 1..long : all[k] = tok[k]
  OBVIOUS
<1>21. SubSeq(all, 1, long) = tok
  BY <1>2
<1>22. SubSeq(all, 1, Len(all)) = all
      /\ \A i \in 0..(Len(all) - 1) : SubSeq(all, 1, i + 1) = Append(SubSeq(all, 1, i), all[i + 1])
  BY <1>2, PrefixSteps
<1> HIDE DEF n, all, long
<1>3. 0 \in S
  <2>1. a + 0 - 1 = a - 1 /\ 0 \in 0..n /\ long + 0 = long
    BY <1>1, <1>2
  <2> QED BY <1>21, <2>1
<1>4. ASSUME NEW m \in 0..(n - 1), m \in S PROVE m + 1 \in S
  <2>1. /\ m + 1 \in 1..n /\ m + 1 \in 0..n /\ m \in 0..n /\ a + m \in 1..Len(big)
        /\ (a + m) - 1 = a + m - 1 /\ a + (m + 1) - 1 = a + m
        /\ long + m \in 0..(Len(all) - 1) /\ (long + m) + 1 = long + (m + 1)
    BY <1>1, <1>2
  <2>2. PICK c, so, r : /\ c = s[m + 1] /\ so = SubSeq(all, 1, long + m)
                        /\ r = Reader(state, so, toks)
    OBVIOUS
  <2>3. Silent(c, state)
    BY <2>1, <2>2 DEF Quiet, n
  <2>4. big[a + m] = c
    BY <1>1, <2>1, <2>2 DEF Stands, n
  <2>5. f[a + m] = Separate(r, c)
    <3>1. f[a + m - 1] = r
      BY <1>4, <2>2
    <3> QED BY <2>1, <2>4, <3>1 DEF Tokens
  <2>6. SubSeq(all, 1, long + (m + 1)) = Append(so, c)
    BY <1>2, <1>22, <2>1, <2>2
  <2>7. Separate(r, c) = Reader(state, Append(so, c), toks)
    BY ONLY <2>2, <2>3, QuietStep
  <2>8. f[a + (m + 1) - 1] = upto(m + 1)
    BY <2>1, <2>5, <2>6, <2>7
  <2> QED BY <2>1, <2>8
<1> HIDE DEF S
<1>5. 0..n \subseteq S
  BY ONLY <1>1, <1>3, <1>4, IntervalSet
<1>6. n \in S
  BY <1>1, <1>5
<1> QED BY <1>2, <1>22, <1>6 DEF S, n, all

-----------------------------------------------------------------------------
(* How atoms are written. *)

LEMMA LenIsNat ==
  ASSUME NEW T, NEW s \in Seq(T)
  PROVE  Len(s) \in Nat
OBVIOUS

\* Where the letters of two texts stand.
LEMMA LettersOfTwo ==
  ASSUME NEW T, NEW s \in Seq(T), NEW t \in Seq(T)
  PROVE  /\ Len(s \o t) = Len(s) + Len(t) /\ Len(s) \in Nat /\ Len(t) \in Nat
         /\ \A k \in 1..Len(s) : (s \o t)[k] = s[k]
         /\ \A k \in 1..Len(t) : (s \o t)[Len(s) + k] = t[k]
OBVIOUS

\* What stands between names.
Marks == {"(", ")", ",", " ", "-"}
Clean(s) == \A k \in 1..Len(s) : s[k] \notin Marks \cup {" v "}

\* A name is clean, so that it has no sign.
LEMMA NameIsClean ==
  ASSUME NEW t, isName(t)
  PROVE  t \in Seq(ToSet(t)) /\ t # <<>> /\ Clean(t) /\ Unsigned(t) = t /\ ~isStrongNegated(t)
<1>1. PICK u : u = Unbracketed(t)
  OBVIOUS
<1>2. PICK T : T = ToSet(t)
  OBVIOUS
<1>3. t \in Seq(T) /\ u # <<>> /\ ToSet(u) \cap Punctuation = {}
  BY <1>1, <1>2 DEF isName
<1>4. t # <<>> /\ Clean(t)
  <2>1. CASE u = t
    <3>1. \A k \in 1..Len(t) : t[k] \in ToSet(u)
      BY <1>3, <2>1 DEF ToSet
    <3>2. \A k \in 1..Len(t) : t[k] \notin Punctuation
      BY <1>3, <3>1
    <3> QED BY <1>3, <2>1, <3>2 DEF Clean, Punctuation, Marks
  <2>2. CASE u # t
    <3>1. Len(t) >= 2 /\ Head(t) = "<" /\ Last(t) = ">" /\ u = SubSeq(t, 2, Len(t) - 1)
      BY <1>1, <2>2 DEF Unbracketed
    <3>2. /\ Len(t) \in Nat /\ t[1] = "<" /\ t[Len(t)] = ">" /\ Len(u) = Len(t) - 2
          /\ \A k \in 2..(Len(t) - 1) : t[k] = u[k - 1] /\ k - 1 \in DOMAIN u
      BY <1>3, <3>1 DEF Last
    <3>3. ASSUME NEW k \in 1..Len(t) PROVE t[k] \notin Marks \cup {" v "}
      <4>1. CASE k \in {1, Len(t)}
        BY <3>2, <4>1 DEF Marks
      <4>2. CASE k \in 2..(Len(t) - 1)
        <5>1. t[k] \in ToSet(u)
          BY <3>2, <4>2 DEF ToSet
        <5> QED BY <1>3, <5>1 DEF Punctuation, Marks
      <4>3. k \in {1, Len(t)} \/ k \in 2..(Len(t) - 1)
        BY <3>2
      <4> QED BY <4>1, <4>2, <4>3
    <3>4. t # <<>>
      BY <3>1
    <3> QED BY <3>3, <3>4 DEF Clean
  <2> QED BY <2>1, <2>2
<1>5. Head(t) # "-"
  <2>1. Head(t) = t[1] /\ 1 \in 1..Len(t)
    BY <1>3, <1>4
  <2> QED BY <1>4, <2>1 DEF Clean, Marks
<1> QED BY <1>2, <1>3, <1>4, <1>5 DEF Unsigned, isStrongNegated

\* A literal whose names are of letters of T.
Over(l, T) == isLiteral(l) /\ l.name \in Seq(T) /\ l.args \in Seq(Seq(T))

\* The second argument, with what stands before it.
Second(l) == IF Len(l.args) = 2 THEN <<",", " ">> \o l.args[2] ELSE <<>>

\* The parts of an atom stand one behind the other.
Laid(l, big, a) ==
  LET n == Len(PlainText(l))
      k == Len(l.args[1])
      m == Len(Second(l))
  IN  /\ n \in Nat /\ k \in Nat /\ m \in Nat /\ Len(AtomText(l)) = n + k + m + 2
      /\ Stands(PlainText(l), big, a) /\ Stands(<<"(">>, big, a + n)
      /\ Stands(l.args[1], big, a + n + 1) /\ Stands(Second(l), big, a + n + k + 1)
      /\ Stands(<<")">>, big, a + n + k + m + 1)

\* An atom is written in letters, in five parts.
LEMMA AtomLetters ==
  ASSUME NEW T, Marks \subseteq T, NEW l, Over(l, T)
  PROVE  /\ PlainText(l) \in Seq(T) /\ l.args[1] \in Seq(T) /\ Second(l) \in Seq(T)
         /\ Len(l.args) \in {1, 2} /\ (Len(l.args) = 2 => l.args[2] \in Seq(T))
         /\ AtomText(l) \in Seq(T)
         /\ AtomText(l) = (((PlainText(l) \o <<"(">>) \o l.args[1]) \o Second(l)) \o <<")">>
<1>1. Len(l.args) \in {1, 2} /\ l.name \in Seq(T) /\ l.args \in Seq(Seq(T))
  BY DEF Over, isLiteral
<1>2. l.args[1] \in Seq(T) /\ (Len(l.args) = 2 => l.args[2] \in Seq(T))
  BY <1>1
<1>3. "(" \in T /\ ")" \in T /\ "," \in T /\ " " \in T /\ "-" \in T
  BY DEF Marks
<1>4. <<"(">> \in Seq(T) /\ <<")">> \in Seq(T) /\ <<",", " ">> \in Seq(T) /\ <<"-">> \in Seq(T) /\ <<>> \in Seq(T)
  <2>1. \A c \in T, d \in T : <<c>> \in Seq(T) /\ <<c, d>> \in Seq(T)
    OBVIOUS
  <2>2. <<>> \in Seq(T)
    OBVIOUS
  <2>3. <<"(">> \in Seq(T) /\ <<")">> \in Seq(T) /\ <<"-">> \in Seq(T)
    BY ONLY <1>3, <2>1
  <2>4. <<",", " ">> \in Seq(T)
    BY ONLY <1>3, <2>1
  <2> QED BY ONLY <2>2, <2>3, <2>4
<1>5. PlainText(l) \in Seq(T)
  BY <1>1, <1>4, ConcatProperties DEF PlainText
<1>6. Second(l) \in Seq(T)
  BY <1>2, <1>4, ConcatProperties DEF Second
<1>7. AtomText(l) = (((PlainText(l) \o <<"(">>) \o l.args[1]) \o Second(l)) \o <<")">>
  BY DEF AtomText, Second
<1>8. (((PlainText(l) \o <<"(">>) \o l.args[1]) \o Second(l)) \o <<")">> \in Seq(T)
  BY <1>2, <1>4, <1>5, <1>6, ConcatProperties
<1> QED BY <1>1, <1>2, <1>5, <1>6, <1>7, <1>8

\* Where the parts of an atom stand in a text it stands in.
LEMMA AtomLaid ==
  ASSUME NEW T, Marks \subseteq T, NEW l, Over(l, T), NEW big \in Seq(T), NEW a, Stands(AtomText(l), big, a)
  PROVE  Laid(l, big, a)
<1>1. PICK p, u, v, left, close :
        p = PlainText(l) /\ u = l.args[1] /\ v = Second(l) /\ left = <<"(">> /\ close = <<")">>
  OBVIOUS
<1>2. p \in Seq(T) /\ u \in Seq(T) /\ v \in Seq(T)
  BY ONLY <1>1, AtomLetters, Marks \subseteq T, Over(l, T)
<1>20. "(" \in T /\ ")" \in T
  BY DEF Marks
<1>21. left \in Seq(T) /\ Len(left) = 1
  BY <1>1, <1>20
<1>22. close \in Seq(T) /\ Len(close) = 1
  BY <1>1, <1>20
<1>3. PICK x, y, z, s : x = p \o left /\ y = x \o u /\ z = y \o v /\ s = z \o close
  OBVIOUS
<1>4. x \in Seq(T) /\ y \in Seq(T) /\ z \in Seq(T)
  <2>1. x \in Seq(T)
    BY <1>2, <1>21, <1>3, ConcatProperties
  <2>2. y \in Seq(T)
    BY <1>2, <1>3, <2>1, ConcatProperties
  <2>3. z \in Seq(T)
    BY <1>2, <1>3, <2>2, ConcatProperties
  <2> QED BY <2>1, <2>2, <2>3
<1>5. AtomText(l) = s
  <2>1. AtomText(l) = (((PlainText(l) \o <<"(">>) \o l.args[1]) \o Second(l)) \o <<")">>
    BY ONLY AtomLetters, Marks \subseteq T, Over(l, T)
  <2> QED BY ONLY <1>1, <1>3, <2>1
<1>6. /\ Stands(z, big, a) /\ Stands(close, big, a + Len(z)) /\ a + Len(z) + Len(close) = a + Len(s)
  <2>1. Stands(z \o close, big, a)
    BY <1>3, <1>5
  <2>2. z \in Seq(T) /\ close \in Seq(T)
    BY <1>22, <1>4
  <2>3. /\ Stands(z, big, a) /\ Stands(close, big, a + Len(z))
        /\ a + Len(z) + Len(close) = a + Len(z \o close)
    BY ONLY <2>1, <2>2, StandsParts, big \in Seq(T)
  <2> QED BY <1>3, <2>3
<1>7. Stands(y, big, a) /\ Stands(v, big, a + Len(y)) /\ a + Len(y) + Len(v) = a + Len(z)
  <2>1. Stands(y \o v, big, a)
    BY <1>3, <1>6
  <2>2. y \in Seq(T) /\ v \in Seq(T)
    BY <1>2, <1>4
  <2>3. /\ Stands(y, big, a) /\ Stands(v, big, a + Len(y))
        /\ a + Len(y) + Len(v) = a + Len(y \o v)
    BY ONLY <2>1, <2>2, StandsParts, big \in Seq(T)
  <2> QED BY <1>3, <2>3
<1>8. Stands(x, big, a) /\ Stands(u, big, a + Len(x)) /\ a + Len(x) + Len(u) = a + Len(y)
  <2>1. Stands(x \o u, big, a)
    BY <1>3, <1>7
  <2>2. x \in Seq(T) /\ u \in Seq(T)
    BY <1>2, <1>4
  <2>3. /\ Stands(x, big, a) /\ Stands(u, big, a + Len(x))
        /\ a + Len(x) + Len(u) = a + Len(x \o u)
    BY ONLY <2>1, <2>2, StandsParts, big \in Seq(T)
  <2> QED BY <1>3, <2>3
<1>9. Stands(p, big, a) /\ Stands(left, big, a + Len(p)) /\ a + Len(p) + Len(left) = a + Len(x)
  <2>1. Stands(p \o left, big, a)
    BY <1>3, <1>8
  <2>2. p \in Seq(T) /\ left \in Seq(T)
    BY <1>2, <1>21, <1>4
  <2>3. /\ Stands(p, big, a) /\ Stands(left, big, a + Len(p))
        /\ a + Len(p) + Len(left) = a + Len(p \o left)
    BY ONLY <2>1, <2>2, StandsParts, big \in Seq(T)
  <2> QED BY <1>3, <2>3
<1>10. PICK n, k, m : n = Len(p) /\ k = Len(u) /\ m = Len(v)
  OBVIOUS
<1>11. /\ n \in Nat /\ k \in Nat /\ m \in Nat /\ a \in Nat
       /\ Len(x) \in Nat /\ Len(y) \in Nat /\ Len(z) \in Nat /\ Len(s) \in Nat
  <2>1. a \in Nat
    BY <1>6 DEF Stands
  <2>2. \A t \in Seq(T) : Len(t) \in Nat
    OBVIOUS
  <2>3. Len(s) \in Nat
    BY <1>3, <1>4, <1>22, ConcatProperties
  <2> QED BY <1>2, <1>4, <1>10, <2>1, <2>2, <2>3
<1>12. /\ a + Len(x) = a + n + 1 /\ a + Len(y) = a + n + k + 1 /\ a + Len(z) = a + n + k + m + 1
       /\ Len(s) = n + k + m + 2
  <2>1. PICK lx, ly, lz, ls : lx = Len(x) /\ ly = Len(y) /\ lz = Len(z) /\ ls = Len(s)
    OBVIOUS
  <2>2. a + lz + 1 = a + ls /\ a + ly + m = a + lz /\ a + lx + k = a + ly /\ a + n + 1 = a + lx
    BY <1>6, <1>7, <1>8, <1>9, <1>10, <1>21, <1>22, <2>1
  <2>3. n \in Nat /\ k \in Nat /\ m \in Nat /\ a \in Nat /\ lx \in Nat /\ ly \in Nat /\ lz \in Nat /\ ls \in Nat
    BY <1>11, <2>1
  <2>4. /\ a + lx = a + n + 1 /\ a + ly = a + n + k + 1 /\ a + lz = a + n + k + m + 1
        /\ ls = n + k + m + 2
    BY ONLY <2>2, <2>3
  <2> QED BY <2>1, <2>4
<1> QED BY <1>1, <1>5, <1>6, <1>7, <1>8, <1>9, <1>10, <1>11, <1>12 DEF Laid

\* Without anything that divides texts.
Tight(s) == \A k \in 1..Len(s) : s[k] \notin {"(", ")", ",", " ", " v "}

\* No part of an atom has anything that divides it.
LEMMA PartsAreTight ==
  ASSUME NEW T, Marks \subseteq T, NEW l, Over(l, T)
  PROVE  /\ Tight(PlainText(l)) /\ Tight(l.args[1]) /\ (Len(l.args) = 2 => Tight(l.args[2]))
         /\ Quiet(PlainText(l), "INITIAL") /\ Quiet(l.args[1], "PARENOPEN") /\ Quiet(Second(l), "PARENOPEN")
<1>1. isLiteral(l) /\ l.name \in Seq(T) /\ l.args \in Seq(Seq(T)) /\ Len(l.args) \in {1, 2}
  BY DEF Over, isLiteral
<1>2. isName(l.name) /\ isName(l.args[1]) /\ (Len(l.args) = 2 => isName(l.args[2]))
  BY <1>1 DEF isLiteral
<1>3. \A t : Clean(t) => Tight(t)
  BY DEF Clean, Tight, Marks
<1>4. Tight(l.name) /\ Tight(l.args[1]) /\ (Len(l.args) = 2 => Tight(l.args[2]))
  BY <1>2, <1>3, NameIsClean
<1>5. Tight(PlainText(l))
  <2>1. CASE ~l.neg
    <3>1. PlainText(l) = l.name
      BY <1>1, <2>1, ConcatEmptySeq DEF PlainText
    <3> QED BY <1>4, <3>1
  <2>2. CASE l.neg
    <3>1. PICK s, t : s = <<"-">> \o t /\ t = l.name /\ s = PlainText(l)
      BY <2>2 DEF PlainText
    <3>2. "-" \in T
      BY DEF Marks
    <3>3. t \in Seq(T)
      BY <1>1, <3>1
    <3>4. Len(s) = Len(t) + 1 /\ Len(t) \in Nat /\ s[1] = "-" /\ \A k \in 1..Len(t) : s[k + 1] = t[k]
      BY <3>1, <3>2, <3>3
    <3>5. ASSUME NEW k \in 1..Len(s) PROVE s[k] \notin {"(", ")", ",", " ", " v "}
      <4>1. k = 1 \/ (k - 1 \in 1..Len(t) /\ (k - 1) + 1 = k)
        BY <3>4
      <4> QED BY <1>4, <3>1, <3>4, <4>1 DEF Tight
    <3> QED BY <3>1, <3>5 DEF Tight
  <2> QED BY <2>1, <2>2
<1>6. \A t : Tight(t) => Quiet(t, "INITIAL") /\ Quiet(t, "PARENOPEN")
  BY DEF Tight, Quiet, Silent
<1>7. Quiet(Second(l), "PARENOPEN")
  <2>1. CASE Len(l.args) = 1
    BY <1>1, <2>1 DEF Second, Quiet
  <2>2. CASE Len(l.args) = 2
    <3>1. PICK s, t, c : s = c \o t /\ t = l.args[2] /\ s = Second(l) /\ c = <<",", " ">>
      BY <2>2 DEF Second
    <3>2. "," \in T /\ " " \in T
      BY DEF Marks
    <3>3. t \in Seq(T)
      <4>1. 2 \in 1..Len(l.args) /\ l.args \in Seq(Seq(T))
        BY <1>1, <2>2
      <4>2. l.args[2] \in Seq(T)
        BY <4>1
      <4> QED BY <3>1, <4>2
    <3>31. c \in Seq(T) /\ Len(c) = 2 /\ c[1] = "," /\ c[2] = " "
      <4>1. PICK c1, c2 : c1 = "," /\ c2 = " "
        OBVIOUS
      <4>2. c1 \in T /\ c2 \in T /\ c = <<c1, c2>>
        BY <3>1, <3>2, <4>1
      <4>3. c \in Seq(T) /\ Len(c) = 2 /\ c[1] = c1 /\ c[2] = c2
        BY <4>2
      <4> QED BY <4>1, <4>3
    <3>4. /\ Len(s) = Len(t) + 2 /\ Len(t) \in Nat /\ s[1] = "," /\ s[2] = " "
          /\ \A k \in 1..Len(t) : s[k + 2] = t[k]
      <4>1. c \in Seq(T) /\ t \in Seq(T)
        BY <3>3, <3>31
      <4>2. /\ Len(c \o t) = Len(c) + Len(t) /\ Len(t) \in Nat
            /\ \A k \in 1..Len(c) : (c \o t)[k] = c[k]
            /\ \A k \in 1..Len(t) : (c \o t)[Len(c) + k] = t[k]
        BY ONLY <4>1, LettersOfTwo
      <4>3. PICK w : w = c \o t
        OBVIOUS
      <4>4. s = w /\ Len(c) = 2 /\ c[1] = "," /\ c[2] = " "
        BY <3>1, <3>31, <4>3
      <4>5. /\ Len(w) = Len(c) + Len(t) /\ Len(t) \in Nat
            /\ \A k \in 1..Len(c) : w[k] = c[k]
            /\ \A k \in 1..Len(t) : w[Len(c) + k] = t[k]
        BY ONLY <4>2, <4>3
      <4>6. PICK m : m = Len(t)
        OBVIOUS
      <4>7. Len(w) = 2 + m /\ m \in Nat /\ (\A k \in 1..2 : w[k] = c[k]) /\ \A k \in 1..m : w[2 + k] = t[k]
        BY ONLY <4>4, <4>5, <4>6
      <4>8. /\ Len(w) = m + 2 /\ w[1] = c[1] /\ w[2] = c[2]
            /\ \A k \in 1..m : k + 2 = 2 + k
        BY ONLY <4>7
      <4> QED BY ONLY <4>4, <4>6, <4>7, <4>8
    <3>5. ASSUME NEW k \in 1..Len(s) PROVE Silent(s[k], "PARENOPEN")
      <4>1. k = 1 \/ k = 2 \/ (k - 2 \in 1..Len(t) /\ (k - 2) + 2 = k)
        <5>1. PICK m, i : m = Len(t) /\ i = Len(s)
          OBVIOUS
        <5>2. m \in Nat /\ i = m + 2 /\ k \in 1..i
          BY <3>4, <5>1
        <5>3. k = 1 \/ k = 2 \/ (k - 2 \in 1..m /\ (k - 2) + 2 = k)
          BY ONLY <5>2
        <5> QED BY <5>1, <5>3
      <4>2. CASE k = 1 \/ k = 2
        BY <3>4, <4>2 DEF Silent
      <4>3. CASE k - 2 \in 1..Len(t) /\ (k - 2) + 2 = k
        <5>1. t[k - 2] \notin {"(", ")"} /\ s[k] = t[k - 2]
          BY <1>4, <2>2, <3>1, <3>4, <4>3 DEF Tight
        <5> QED BY <5>1 DEF Silent
      <4> QED BY <4>1, <4>2, <4>3
    <3> QED BY <3>1, <3>5 DEF Quiet
  <2> QED BY <1>1, <2>1, <2>2
<1> QED BY <1>4, <1>5, <1>6, <1>7

-----------------------------------------------------------------------------
(* Atoms are separated. *)

\* The steps at parentheses, and at the comma behind an atom.
LEMMA MarkSteps ==
  ASSUME NEW tok, NEW toks
  PROVE  /\ Separate(Reader("INITIAL", tok, toks), "(") = Reader("PARENOPEN", Append(tok, "("), toks)
         /\ Separate(Reader("PARENOPEN", tok, toks), ")") = Reader("PARENCLOSE", Append(tok, ")"), toks)
         /\ Separate(Reader("PARENCLOSE", tok, toks), ",") = Reader("INITIAL", <<>>, Append(toks, tok))
<1>1. PICK i, o, c, bad : i = "INITIAL" /\ o = "PARENOPEN" /\ c = "PARENCLOSE" /\ bad = FALSE
  OBVIOUS
<1>2. PICK r, s, t : r = Members4(i, tok, toks, bad) /\ s = Members4(o, tok, toks, bad) /\ t = Members4(c, tok, toks, bad)
  OBVIOUS
<1>3. /\ r.state = i /\ r.bad = bad /\ s.state = o /\ s.bad = bad
      /\ t.state = c /\ t.bad = bad /\ t.tok = tok /\ t.toks = toks
  BY ONLY <1>2, MembersAre
<1>4. Separate(r, "(") = Members4(o, Append(tok, "("), toks, bad)
  <2>1. Separate(r, "(") = WithState(Keep(r, "("), o)
    BY <1>1, <1>3, SeparateWith
  <2>2. WithState(Keep(r, "("), o) = Members4(o, Append(tok, "("), toks, bad)
    BY ONLY <1>2, StateMembers
  <2> QED BY <2>1, <2>2
<1>5. Separate(s, ")") = Members4(c, Append(tok, ")"), toks, bad)
  <2>1. Separate(s, ")") = WithState(Keep(s, ")"), c)
    BY <1>1, <1>3, SeparateWith
  <2>2. WithState(Keep(s, ")"), c) = Members4(c, Append(tok, ")"), toks, bad)
    BY ONLY <1>2, StateMembers
  <2> QED BY <2>1, <2>2
<1>6. Separate(t, ",") = Members4(i, <<>>, Append(toks, tok), bad)
  <2>1. PICK others : others = Append(toks, tok)
    OBVIOUS
  <2>2. Append(t.toks, t.tok) = others
    BY ONLY <1>3, <2>1
  <2>3. Separate(t, ",") = WithToks(Start, others)
    BY <1>1, <1>3, <2>2, SeparateWith
  <2>4. WithToks(Start, others) = Members4("INITIAL", <<>>, others, FALSE)
    BY ONLY StartAgain
  <2> QED BY ONLY <1>1, <2>1, <2>3, <2>4
<1> QED BY <1>1, <1>2, <1>4, <1>5, <1>6 DEF Reader

\* An atom is read to its end.
LEMMA AtomRun ==
  ASSUME NEW T, Marks \subseteq T, NEW big \in Seq(T), NEW f, Tokens(f, big),
         NEW l, Over(l, T), NEW a, Stands(AtomText(l), big, a), NEW toks, f[a - 1] = Reader("INITIAL", <<>>, toks)
  PROVE  f[a + Len(AtomText(l)) - 1] = Reader("PARENCLOSE", AtomText(l), toks)
<1>1. PICK p, u, v, n, k, m :
        /\ p = PlainText(l) /\ u = l.args[1] /\ v = Second(l) /\ n = Len(p) /\ k = Len(u) /\ m = Len(v)
  OBVIOUS
<1>2. p \in Seq(T) /\ u \in Seq(T) /\ v \in Seq(T)
  BY ONLY <1>1, AtomLetters, Marks \subseteq T, Over(l, T)
<1>3. /\ n \in Nat /\ k \in Nat /\ m \in Nat /\ Len(AtomText(l)) = n + k + m + 2
      /\ Stands(p, big, a) /\ Stands(<<"(">>, big, a + n) /\ Stands(u, big, a + n + 1)
      /\ Stands(v, big, a + n + k + 1) /\ Stands(<<")">>, big, a + n + k + m + 1)
  BY <1>1, AtomLaid DEF Laid
<1>4. Quiet(p, "INITIAL") /\ Quiet(u, "PARENOPEN") /\ Quiet(v, "PARENOPEN")
  BY ONLY <1>1, PartsAreTight, Marks \subseteq T, Over(l, T)
<1>5. a \in Nat \ {0} /\ Len(big) \in Nat
  BY <1>3 DEF Stands
<1>6. /\ a + n \in 1..Len(big) /\ big[a + n] = "("
      /\ a + n + k + m + 1 \in 1..Len(big) /\ big[a + n + k + m + 1] = ")"
  <2>1. Len(<<"(">>) = 1 /\ Len(<<")">>) = 1 /\ <<"(">>[1] = "(" /\ <<")">>[1] = ")"
    OBVIOUS
  <2>2. \A c, j : j \in Nat /\ Stands(c, big, j) /\ Len(c) = 1 => j \in 1..Len(big) /\ big[j] = c[1]
    BY <1>5 DEF Stands
  <2>3. a + n \in Nat /\ a + n + k + m + 1 \in Nat
    BY <1>3, <1>5
  <2> QED BY <1>3, <2>1, <2>2, <2>3
<1>7. PICK x, y, z, e, t1, t2 : x = Append(p, "(") /\ y = x \o u /\ z = y \o v /\ e = <<>> /\ t1 = "INITIAL" /\ t2 = "PARENOPEN"
  OBVIOUS
<1>8. e \in Seq(T) /\ x \in Seq(T) /\ y \in Seq(T) /\ z \in Seq(T) /\ "(" \in T
  <2>1. "(" \in T
    BY DEF Marks
  <2>2. x \in Seq(T)
    BY <1>2, <1>7, <2>1
  <2>3. y \in Seq(T)
    BY <1>2, <1>7, <2>2, ConcatProperties
  <2> QED BY <1>2, <1>7, <2>1, <2>2, <2>3, ConcatProperties
<1>9. f[a + n - 1] = Reader(t1, p, toks)
  <2>1. f[a - 1] = Reader(t1, e, toks) /\ t1 \in {"INITIAL", "PARENOPEN"} /\ Quiet(p, t1)
    BY <1>4, <1>7
  <2>2. f[a + Len(p) - 1] = Reader(t1, e \o p, toks)
    BY ONLY <1>2, <1>3, <1>8, <2>1, QuietRun, Tokens(f, big), big \in Seq(T)
  <2>3. e \o p = p
    BY <1>2, <1>7, ConcatEmptySeq
  <2> QED BY <1>1, <2>2, <2>3
<1>10. f[a + n] = Reader(t2, x, toks)
  <2>0. PICK j : j = a + n
    OBVIOUS
  <2>1. f[a + n] = Separate(f[a + n - 1], "(")
    <3>1. f[j] = Separate(f[j - 1], "(")
      BY <1>6, <2>0 DEF Tokens
    <3> QED BY <1>3, <1>5, <2>0, <3>1
  <2>2. Separate(Reader("INITIAL", p, toks), "(") = Reader("PARENOPEN", Append(p, "("), toks)
    BY ONLY MarkSteps
  <2> QED BY ONLY <1>7, <1>9, <2>1, <2>2
<1>11. f[a + n + k] = Reader(t2, y, toks)
  <2>0. PICK j : j = a + n + 1
    OBVIOUS
  <2>1. j - 1 = a + n /\ j + k - 1 = a + n + k
    BY <1>3, <1>5, <2>0
  <2>2. t2 \in {"INITIAL", "PARENOPEN"} /\ Quiet(u, t2)
    BY <1>4, <1>7
  <2>4. f[j - 1] = Reader(t2, x, toks) /\ Stands(u, big, j)
    BY <1>3, <1>10, <2>0, <2>1
  <2>3. f[j + Len(u) - 1] = Reader(t2, x \o u, toks)
    BY ONLY <1>2, <1>8, <2>2, <2>4, QuietRun, Tokens(f, big), big \in Seq(T)
  <2> QED BY <1>1, <1>7, <2>1, <2>3
<1>12. f[a + n + k + m] = Reader(t2, z, toks)
  <2>0. PICK j : j = a + n + k + 1
    OBVIOUS
  <2>1. j - 1 = a + n + k /\ j + m - 1 = a + n + k + m
    BY <1>3, <1>5, <2>0
  <2>2. t2 \in {"INITIAL", "PARENOPEN"} /\ Quiet(v, t2)
    BY <1>4, <1>7
  <2>4. f[j - 1] = Reader(t2, y, toks) /\ Stands(v, big, j)
    BY <1>3, <1>11, <2>0, <2>1
  <2>3. f[j + Len(v) - 1] = Reader(t2, y \o v, toks)
    BY ONLY <1>2, <1>8, <2>2, <2>4, QuietRun, Tokens(f, big), big \in Seq(T)
  <2> QED BY <1>1, <1>7, <2>1, <2>3
<1>13. f[a + n + k + m + 1] = Reader("PARENCLOSE", Append(z, ")"), toks)
  <2>1. (a + n + k + m + 1) - 1 = a + n + k + m
    BY <1>3, <1>5
  <2>2. f[a + n + k + m + 1] = Separate(f[(a + n + k + m + 1) - 1], ")")
    BY <1>6 DEF Tokens
  <2>3. Separate(Reader("PARENOPEN", z, toks), ")") = Reader("PARENCLOSE", Append(z, ")"), toks)
    BY ONLY MarkSteps
  <2> QED BY ONLY <1>7, <1>12, <2>1, <2>2, <2>3
<1>14. Append(z, ")") = AtomText(l)
  <2>1. AtomText(l) = (((PlainText(l) \o <<"(">>) \o l.args[1]) \o Second(l)) \o <<")">>
    BY ONLY AtomLetters, Marks \subseteq T, Over(l, T)
  <2>2. \A s \in Seq(T), c \in T : Append(s, c) = s \o <<c>>
    BY AppendIsConcat
  <2>3. ")" \in T /\ "(" \in T
    BY DEF Marks
  <2>4. x = p \o <<"(">> /\ Append(z, ")") = z \o <<")">>
    BY <1>2, <1>7, <1>8, <2>2, <2>3
  <2> QED BY ONLY <1>1, <1>7, <2>1, <2>4
<1>15. a + Len(AtomText(l)) - 1 = a + n + k + m + 1
  BY <1>3, <1>5
<1> QED BY <1>13, <1>14, <1>15

\* A conjunction of literals over the letters of T.
ConjOver(conj, T) == conj \in Seq(ToSet(conj)) /\ conj # <<>> /\ \A j \in DOMAIN conj : Over(conj[j], T)

Texts(conj) == [j \in DOMAIN conj |-> AtomText(conj[j])]

\* Texts with a separator between them, one by one.
Part(texts, c, i) == (IF i = 1 THEN <<>> ELSE <<c>>) \o texts[i]
Pieces(texts, c) == [i \in DOMAIN texts |-> Part(texts, c, i)]

\* Texts that are joined are the pieces with their separators, one behind the other.
LEMMA PiecesJoined ==
  ASSUME NEW T, NEW texts \in Seq(Seq(T)), NEW c \in T
  PROVE  /\ Joined(texts, c) = FlattenSeq(Pieces(texts, c)) /\ Joined(texts, c) \in Seq(T)
         /\ Pieces(texts, c) \in Seq(Seq(T)) /\ Len(Pieces(texts, c)) = Len(texts)
         /\ \A i \in 1..Len(texts) : Pieces(texts, c)[i] = IF i = 1 THEN texts[i] ELSE <<c>> \o texts[i]
<1>1. PICK n, p : n = Len(texts) /\ p = Pieces(texts, c)
  OBVIOUS
<1>2. n \in Nat /\ DOMAIN texts = 1..n /\ \A i \in 1..n : texts[i] \in Seq(T)
  BY <1>1
<1>3. \A i \in 1..n : Part(texts, c, i) = IF i = 1 THEN texts[i] ELSE <<c>> \o texts[i]
  BY <1>2, ConcatEmptySeq DEF Part
<1>4. \A i \in 1..n : Part(texts, c, i) \in Seq(T)
  <2>1. <<c>> \in Seq(T)
    OBVIOUS
  <2>2. \A i \in 1..n : <<c>> \o texts[i] \in Seq(T)
    BY <1>2, <2>1, ConcatProperties
  <2> QED BY <1>2, <1>3, <2>2
<1>5. p = [i \in 1..n |-> Part(texts, c, i)]
  BY <1>1, <1>2 DEF Pieces
<1>6. p \in [1..n -> Seq(T)]
  BY <1>4, <1>5
<1>7. p \in Seq(Seq(T)) /\ Len(p) = n
  BY <1>2, <1>6, FromFunction
<1>8. Joined(texts, c) = FlattenSeq(p)
  BY <1>1 DEF Joined, Pieces, Part
<1>9. FlattenSeq(p) \in Seq(T)
  BY <1>7, FlattenAppend
<1> QED BY <1>1, <1>3, <1>5, <1>7, <1>8, <1>9

\* A text stands at the beginning of itself.
LEMMA StandsInItself ==
  ASSUME NEW T, NEW s \in Seq(T)
  PROVE  Stands(s, s, 1)
<1>1. Len(s) \in Nat
  OBVIOUS
<1>2. \A m \in 1..Len(s) : 1 + m - 1 = m
  BY <1>1
<1> QED BY <1>1, <1>2 DEF Stands

\* The texts of the literals of a conjunction.
LEMMA TextsOver ==
  ASSUME NEW T, Marks \subseteq T, NEW conj, ConjOver(conj, T)
  PROVE  /\ Len(conj) \in Nat \ {0} /\ DOMAIN conj = 1..Len(conj)
         /\ Texts(conj) \in Seq(Seq(T)) /\ Len(Texts(conj)) = Len(conj) /\ DOMAIN Texts(conj) = 1..Len(conj)
         /\ \A j \in 1..Len(conj) : Over(conj[j], T) /\ Texts(conj)[j] = AtomText(conj[j])
<1>1. Len(conj) \in Nat \ {0} /\ DOMAIN conj = 1..Len(conj)
  <2>1. PICK S : S = ToSet(conj)
    OBVIOUS
  <2>2. conj \in Seq(S) /\ conj # <<>>
    BY <2>1 DEF ConjOver
  <2> QED BY ONLY <2>2
<1>2. \A j \in 1..Len(conj) : Over(conj[j], T) /\ AtomText(conj[j]) \in Seq(T)
  <2>1. \A j \in 1..Len(conj) : Over(conj[j], T)
    BY <1>1 DEF ConjOver
  <2> QED BY ONLY <2>1, AtomLetters, Marks \subseteq T
<1>3. Texts(conj) \in [1..Len(conj) -> Seq(T)]
  BY <1>1, <1>2 DEF Texts
<1>4. Texts(conj) \in Seq(Seq(T)) /\ Len(Texts(conj)) = Len(conj) /\ DOMAIN Texts(conj) = 1..Len(conj)
  BY <1>1, <1>3, FromFunction
<1> QED BY <1>1, <1>2, <1>4 DEF Texts

\* A conjunction is separated into the texts of its atoms.
LEMMA ConjTokens ==
  ASSUME NEW T, Marks \subseteq T, NEW conj, ConjOver(conj, T)
  PROVE  /\ ConjText(conj) \in Seq(T)
         /\ Tokenize(ConjText(conj)) = [ok |-> TRUE, toks |-> Texts(conj)]
<1>1. PICK n, texts, big, pieces :
        n = Len(conj) /\ texts = Texts(conj) /\ big = ConjText(conj) /\ pieces = Pieces(texts, ",")
  OBVIOUS
<1>2. /\ n \in Nat \ {0} /\ texts \in Seq(Seq(T)) /\ Len(texts) = n
      /\ \A j \in 1..n : Over(conj[j], T) /\ texts[j] = AtomText(conj[j]) /\ texts[j] \in Seq(T)
  <2>1. /\ n \in Nat \ {0} /\ texts \in Seq(Seq(T)) /\ Len(texts) = n
        /\ \A j \in 1..n : Over(conj[j], T) /\ texts[j] = AtomText(conj[j])
    BY ONLY <1>1, TextsOver, Marks \subseteq T, ConjOver(conj, T)
  <2>2. \A j \in 1..n : texts[j] \in Seq(T)
    BY <2>1
  <2> QED BY <2>1, <2>2
<1>3. "," \in T
  BY DEF Marks
<1>4. big = Joined(texts, ",")
  BY <1>1 DEF ConjText, Texts
<1>5. /\ big = FlattenSeq(pieces) /\ big \in Seq(T) /\ pieces \in Seq(Seq(T)) /\ Len(pieces) = n
      /\ \A i \in 1..n : pieces[i] = IF i = 1 THEN texts[i] ELSE <<",">> \o texts[i]
  <2>1. PICK c : c = ","
    OBVIOUS
  <2>2. /\ Joined(texts, c) = FlattenSeq(Pieces(texts, c)) /\ Joined(texts, c) \in Seq(T)
        /\ Pieces(texts, c) \in Seq(Seq(T)) /\ Len(Pieces(texts, c)) = Len(texts)
        /\ \A i \in 1..Len(texts) : Pieces(texts, c)[i] = IF i = 1 THEN texts[i] ELSE <<c>> \o texts[i]
    <3>1. c \in T /\ texts \in Seq(Seq(T))
      BY <1>2, <1>3, <2>1
    <3> QED BY ONLY <3>1, PiecesJoined
  <2> QED BY <1>1, <1>2, <1>4, <2>1, <2>2
<1>50. Len(big) \in Nat
  <2>1. big \in Seq(T)
    BY <1>5
  <2> QED BY ONLY <2>1, LenIsNat
<1>6. PICK f \in [0..Len(big) -> Readers(T)] :
        f[0] = Start /\ f[Len(big)] = FoldLeft(Separate, Start, big) /\ Tokens(f, big)
  BY ONLY <1>5, TokenSteps
<1>7. PICK pos : Layout(pos, pieces, big, 1)
  <2>1. Stands(FlattenSeq(pieces), big, 1)
    BY <1>5, StandsInItself
  <2> QED BY <1>5, <2>1, StandsJoined
<1>8. /\ pos \in [1..(n + 1) -> Nat \ {0}] /\ pos[1] = 1 /\ pos[n + 1] = 1 + Len(big)
      /\ \A k \in 1..n : pos[k + 1] = pos[k] + Len(pieces[k]) /\ Stands(pieces[k], big, pos[k])
  BY <1>5, <1>7 DEF Layout
<1>9. /\ \A i \in 0..n : SubSeq(texts, 1, i) \in Seq(Seq(T))
      /\ \A i \in 0..(n - 1) : SubSeq(texts, 1, i + 1) = Append(SubSeq(texts, 1, i), texts[i + 1])
      /\ SubSeq(texts, 1, n) = texts /\ SubSeq(texts, 1, 0) = <<>>
  BY <1>2, PrefixSteps
<1> DEFINE at(i) == f[pos[i + 1] - 1] = Reader("PARENCLOSE", texts[i], SubSeq(texts, 1, i - 1))
<1>100. ASSUME NEW i, NEW x, NEW t, NEW s, pos[i + 1] = x, texts[i] = t, SubSeq(texts, 1, i - 1) = s,
               f[x - 1] = Reader("PARENCLOSE", t, s)
        PROVE  at(i)
  BY ONLY <1>100
<1> DEFINE S == {k \in 0..(n - 1) : at(k + 1)}
<1>10. 0 \in S
  <2>1. 0 \in 0..(n - 1) /\ 1 \in 1..n /\ 1 - 1 = 0
    BY <1>2
  <2>2. f[1 - 1] = Reader("INITIAL", <<>>, <<>>)
    BY <1>6, <2>1, StartMembers DEF Reader
  <2>6. PICK l, a, none : l = conj[1] /\ a = 1 /\ none = <<>>
    OBVIOUS
  <2>3. Stands(AtomText(l), big, a) /\ pos[1 + 1] = a + Len(AtomText(l)) /\ Over(l, T)
    <3>1. Stands(pieces[1], big, pos[1]) /\ pos[1 + 1] = pos[1] + Len(pieces[1]) /\ pos[1] = 1
      BY ONLY <1>8, <2>1
    <3>2. pieces[1] = AtomText(conj[1]) /\ Over(conj[1], T)
      BY <1>2, <1>5, <2>1
    <3> QED BY ONLY <2>6, <3>1, <3>2
  <2>7. f[a - 1] = Reader("INITIAL", <<>>, none)
    BY <2>2, <2>6
  <2>8. big \in Seq(T) /\ Tokens(f, big)
    BY <1>5, <1>6
  <2>4. f[a + Len(AtomText(l)) - 1] = Reader("PARENCLOSE", AtomText(l), none)
    BY ONLY <2>3, <2>7, <2>8, AtomRun, Marks \subseteq T
  <2>9. texts[1] = AtomText(l) /\ SubSeq(texts, 1, 1 - 1) = none
    BY <1>2, <1>9, <2>1, <2>6
  <2>5. at(1)
    <3>1. PICK x, t : x = pos[1 + 1] /\ t = AtomText(l)
      OBVIOUS
    <3>2. x = a + Len(AtomText(l)) /\ f[x - 1] = Reader("PARENCLOSE", t, none)
      <4>1. t \in Seq(T) /\ a \in Nat
        BY <1>2, <2>6, <2>9, <3>1
      <4>2. Len(t) \in Nat
        BY ONLY <4>1, LenIsNat
      <4>3. PICK m : m = Len(t)
        OBVIOUS
      <4> QED BY ONLY <2>3, <2>4, <3>1, <4>1, <4>2, <4>3
    <3> QED BY ONLY <1>100, <2>9, <3>1, <3>2
  <2> QED BY <2>1, <2>5
<1>11. ASSUME NEW k \in 0..((n - 1) - 1), k \in S PROVE k + 1 \in S
  <2>1. PICK i : i = k + 2
    OBVIOUS
  <2>2. /\ i \in 1..n /\ i # 1 /\ i - 1 \in 1..n /\ (i - 1) + 1 = i /\ k + 1 = i - 1 /\ k + 1 \in 0..(n - 1)
        /\ (k + 1) + 1 = i /\ (i - 1) - 1 \in 0..(n - 1) /\ i - 1 \in 0..n /\ ((i - 1) - 1) + 1 = i - 1
    BY <1>2, <2>1
  <2>3. PICK p, t, s, c : p = pos[i] /\ t = AtomText(conj[i]) /\ s = SubSeq(texts, 1, i - 1) /\ c = <<",">>
    OBVIOUS
  <2>4. f[p - 1] = Reader("PARENCLOSE", texts[i - 1], SubSeq(texts, 1, (i - 1) - 1))
    <3>1. at(i - 1)
      BY <1>11, <2>2
    <3> QED BY <2>2, <2>3, <3>1
  <2>5. p \in Nat \ {0} /\ Stands(c \o t, big, p) /\ pos[i + 1] = p + Len(c \o t) /\ Over(conj[i], T) /\ t \in Seq(T)
    <3>1. pieces[i] = c \o t
      BY <1>2, <1>5, <2>2, <2>3
    <3>2. i \in 1..(n + 1)
      BY <1>2, <2>2
    <3>3. p \in Nat \ {0}
      BY <1>8, <2>3, <3>2
    <3> QED BY <1>2, <1>8, <2>2, <2>3, <3>1, <3>3
  <2>6. c \in Seq(T) /\ Len(c) = 1 /\ c[1] = ","
    <3>1. \A d \in T : <<d>> \in Seq(T) /\ Len(<<d>>) = 1 /\ <<d>>[1] = d
      OBVIOUS
    <3> QED BY ONLY <1>3, <2>3, <3>1
  <2>7. Stands(c, big, p) /\ Stands(t, big, p + Len(c)) /\ p + Len(c) + Len(t) = p + Len(c \o t)
    <3>1. big \in Seq(T) /\ c \in Seq(T) /\ t \in Seq(T) /\ Stands(c \o t, big, p)
      BY <1>5, <2>5, <2>6
    <3> QED BY ONLY <3>1, StandsParts
  <2>8. p \in 1..Len(big) /\ big[p] = ","
    <3>1. PICK m : m = Len(big)
      OBVIOUS
    <3>2. m \in Nat /\ p \in Nat \ {0} /\ p + 1 <= m + 1 /\ big[p + 1 - 1] = ","
      <4>1. m \in Nat
        BY ONLY <1>50, <3>1
      <4>2. 1 \in 1..Len(c) /\ p + Len(c) <= Len(big) + 1 /\ \A j \in 1..Len(c) : big[p + j - 1] = c[j]
        <5>1. Stands(c, big, p) /\ Len(c) = 1
          BY <2>6, <2>7
        <5> QED BY ONLY <5>1 DEF Stands
      <4> QED BY <2>5, <2>6, <3>1, <4>1, <4>2
    <3>3. p \in 1..m /\ p + 1 - 1 = p
      <4>1. p \in Nat /\ m \in Nat /\ p # 0 /\ p + 1 <= m + 1
        BY <3>2
      <4> QED BY ONLY <4>1
    <3> QED BY <3>1, <3>2, <3>3
  <2>9. f[p] = Reader("INITIAL", <<>>, s)
    <3>1. f[p] = Separate(f[p - 1], ",")
      BY <1>6, <2>8 DEF Tokens
    <3>2. Separate(Reader("PARENCLOSE", texts[i - 1], SubSeq(texts, 1, (i - 1) - 1)), ",")
            = Reader("INITIAL", <<>>, Append(SubSeq(texts, 1, (i - 1) - 1), texts[i - 1]))
      BY ONLY MarkSteps
    <3>3. Append(SubSeq(texts, 1, (i - 1) - 1), texts[i - 1]) = s
      BY <1>9, <2>2, <2>3
    <3> QED BY ONLY <2>4, <3>1, <3>2, <3>3
  <2>10. PICK a, l : a = p + Len(c) /\ l = conj[i]
    OBVIOUS
  <2>11. f[a - 1] = Reader("INITIAL", <<>>, s) /\ Stands(AtomText(l), big, a) /\ Over(l, T)
    <3>1. a - 1 = p
      <4>1. p \in Nat /\ a = p + 1
        BY <2>5, <2>6, <2>10
      <4> QED BY ONLY <4>1
    <3> QED BY <2>3, <2>5, <2>7, <2>9, <2>10, <3>1
  <2>12. f[a + Len(AtomText(l)) - 1] = Reader("PARENCLOSE", AtomText(l), s)
    <3>1. big \in Seq(T) /\ Tokens(f, big)
      BY <1>5, <1>6
    <3> QED BY ONLY <2>11, <3>1, AtomRun, Marks \subseteq T
  <2>13. at(i)
    <3>1. pos[i + 1] = a + Len(AtomText(l)) /\ texts[i] = AtomText(l) /\ SubSeq(texts, 1, i - 1) = s
      BY <1>2, <2>2, <2>3, <2>5, <2>7, <2>10
    <3>2. PICK x, y : x = pos[i + 1] /\ y = AtomText(l)
      OBVIOUS
    <3>3. f[x - 1] = Reader("PARENCLOSE", y, s)
      <4>1. a \in Nat /\ y \in Seq(T)
        <5>1. p \in Nat /\ a = p + 1
          BY <2>5, <2>6, <2>10
        <5>2. a \in Nat
          BY ONLY <5>1
        <5>3. AtomText(l) \in Seq(T)
          BY <2>3, <2>5, <2>10
        <5> QED BY ONLY <3>2, <5>2, <5>3
      <4>2. Len(y) \in Nat
        BY ONLY <4>1, LenIsNat
      <4> QED BY ONLY <2>12, <3>1, <3>2, <4>1, <4>2
    <3> QED BY ONLY <1>100, <3>1, <3>2, <3>3
  <2> QED BY <2>2, <2>13
<1> HIDE DEF S
<1>12. 0..(n - 1) \subseteq S
  <2>1. PICK m : m = n - 1
    OBVIOUS
  <2>2. m \in Nat /\ 0 \in S /\ \A k \in 0..(m - 1) : k \in S => k + 1 \in S
    BY <1>2, <1>10, <1>11, <2>1
  <2>3. 0..m \subseteq S
    BY ONLY <2>2, IntervalSet
  <2> QED BY <2>1, <2>3
<1>13. at(n)
  <2>1. n - 1 \in 0..(n - 1) /\ (n - 1) + 1 = n
    BY <1>2
  <2>2. n - 1 \in S
    BY <1>12, <2>1
  <2> QED BY <2>1, <2>2 DEF S
<1>14. PICK e, last, others : e = FoldLeft(Separate, Start, big) /\ last = texts[n] /\ others = SubSeq(texts, 1, n - 1)
  OBVIOUS
<1>15. e = Reader("PARENCLOSE", last, others)
  <2>1. pos[n + 1] - 1 = Len(big)
    <3>1. PICK m, p : m = Len(big) /\ p = pos[n + 1]
      OBVIOUS
    <3>2. m \in Nat
      BY ONLY <1>50, <3>1
    <3>3. p = 1 + m
      BY <1>8, <3>1
    <3>4. p - 1 = m
      BY ONLY <3>2, <3>3
    <3> QED BY <3>1, <3>4
  <2> QED BY <1>6, <1>13, <1>14, <2>1
<1>16. Append(others, last) = texts
  <2>1. n - 1 \in 0..(n - 1) /\ (n - 1) + 1 = n
    BY <1>2
  <2> QED BY <1>9, <1>14, <2>1
<1>17. TextEnds(e) = [ok |-> TRUE, toks |-> texts]
  <2>1. PICK c, bad : c = "PARENCLOSE" /\ bad = FALSE
    OBVIOUS
  <2>2. e = Members4(c, last, others, bad)
    BY <1>15, <2>1 DEF Reader
  <2>3. e.state = c /\ e.tok = last /\ e.toks = others /\ e.bad = bad
    BY ONLY <2>2, MembersAre
  <2> QED BY <1>16, <2>1, <2>3 DEF TextEnds
<1> QED BY <1>1, <1>5, <1>14, <1>17 DEF Tokenize

-----------------------------------------------------------------------------
(* Atoms are made of their texts. *)

\* Where the first of its kind stands, or that there is none.
LEMMA PlaceIs ==
  ASSUME NEW T, NEW tok \in Seq(T), NEW c, NEW k \in 1..Len(tok), tok[k] = c, \A j \in 1..(k - 1) : tok[j] # c
  PROVE  Place(tok, c) = k
<1> DEFINE I == {j \in 1..Len(tok) : tok[j] = c}
<1>1. k \in I /\ \A j \in I : k <= j
  <2>1. Len(tok) \in Nat
    BY LenIsNat
  <2>2. ASSUME NEW j \in 1..Len(tok), tok[j] = c PROVE k <= j
    <3>1. j \notin 1..(k - 1) /\ j \in Int /\ k \in Int /\ j >= 1
      BY <2>1, <2>2
    <3> QED BY ONLY <3>1
  <2> QED BY <2>2
<1>2. \A x \in I : (\A j \in I : x <= j) => x = k
  <2>1. \A j \in I : j \in Int
    OBVIOUS
  <2> QED BY <1>1, <2>1
<1>3. Min(I) = k
  BY <1>1, <1>2 DEF Min
<1>4. I # {}
  BY <1>1
<1> QED BY <1>3, <1>4 DEF Place, SelectInSeq

\* What does not occur has no place.
LEMMA PlaceNone ==
  ASSUME NEW T, NEW tok \in Seq(T), NEW c, \A j \in 1..Len(tok) : tok[j] # c
  PROVE  Place(tok, c) = 0
BY DEF Place, SelectInSeq

\* The part of a text where another one stands.
LEMMA SubSeqThere ==
  ASSUME NEW T, NEW big \in Seq(T), NEW s \in Seq(T), NEW a, Stands(s, big, a), NEW b, b = a + Len(s) - 1
  PROVE  SubSeq(big, a, b) = s
<1>1. PICK n, m : n = Len(s) /\ m = Len(big)
  OBVIOUS
<1>2. n \in Nat /\ m \in Nat
  BY <1>1, LenIsNat
<1>3. a \in Nat \ {0} /\ a + n <= m + 1 /\ \A j \in 1..n : big[a + j - 1] = s[j]
  BY <1>1 DEF Stands
<1>4. b \in Int /\ b - a + 1 = n /\ \A j \in 1..n : j + a - 1 = a + j - 1 /\ a + j - 1 \in 1..m
  BY ONLY <1>1, <1>2, <1>3, b = a + Len(s) - 1
<1>5. PICK t : t = SubSeq(big, a, b)
  OBVIOUS
<1>6. t = [j \in 1..(b - a + 1) |-> big[a + j - 1]]
  BY <1>3, <1>4, <1>5
<1>7. t = [j \in 1..n |-> big[a + j - 1]]
  BY <1>4, <1>6
<1>8. t = [j \in 1..n |-> s[j]]
  BY <1>3, <1>7
<1>9. s = [j \in 1..n |-> s[j]]
  BY <1>1
<1> QED BY <1>5, <1>8, <1>9

\* A text without blanks is what remains, also behind a blank.
Behind(s, t, d) ==
  d \in {0, 1} /\ Len(t) = d + Len(s) /\ (d = 1 => t[1] = " ") /\ \A k \in 1..Len(s) : t[d + k] = s[k]

\* A blank in front is trimmed, and nothing else.
LEMMA TrimOf ==
  ASSUME NEW T, NEW s \in Seq(T), NEW t \in Seq(T), NEW d, Behind(s, t, d), Tight(s)
  PROVE  Trim(t) = s
<1> DEFINE piece(k) == IF t[k] = " " THEN <<>> ELSE <<t[k]>>
           pieces == [k \in DOMAIN t |-> piece(k)]
<1>1. PICK n, m : n = Len(s) /\ m = Len(t)
  OBVIOUS
<1>2. n \in Nat /\ m \in Nat /\ DOMAIN t = 1..m
  BY ONLY <1>1, LenIsNat, s \in Seq(T), t \in Seq(T)
<1>20. m = d + n /\ d \in Nat /\ d \in {0, 1}
  <2>1. d \in {0, 1} /\ m = d + n
    BY ONLY <1>1, Behind(s, t, d) DEF Behind
  <2>2. d \in Nat
    BY ONLY <2>1
  <2> QED BY ONLY <2>1, <2>2
<1>3. \A k \in 1..m : t[k] \in T
  BY ONLY <1>2, <1>1, t \in Seq(T)
<1>4. \A k \in 1..m : piece(k) \in Seq(T)
  <2>1. \A U : \A x \in U : <<x>> \in Seq(U)
    OBVIOUS
  <2>2. \A U : <<>> \in Seq(U)
    OBVIOUS
  <2> QED BY ONLY <1>3, <2>1, <2>2
<1>5. pieces \in [1..m -> Seq(T)]
  BY ONLY <1>2, <1>4
<1>7. pieces \in Seq(Seq(T)) /\ Len(pieces) = m /\ \A k \in 1..m : pieces[k] = piece(k)
  <2>1. \A k \in 1..m : pieces[k] = piece(k)
    BY ONLY <1>2
  <2> QED BY ONLY <1>2, <1>5, <2>1, FromFunction
<1>8. Trim(t) = FlattenSeq(pieces)
  BY ONLY DEF Trim
<1> HIDE DEF pieces
<1>9. PICK f \in [0..m -> Seq(T)] :
        f[0] = <<>> /\ f[m] = FlattenSeq(pieces) /\ \A k \in 1..m : f[k] = f[k - 1] \o pieces[k]
  <2>1. \E f \in [0..Len(pieces) -> Seq(T)] :
          /\ f[0] = <<>> /\ f[Len(pieces)] = FlattenSeq(pieces)
          /\ \A k \in 1..Len(pieces) : f[k] = f[k - 1] \o pieces[k]
    BY ONLY <1>7, FlattenSteps
  <2> QED BY ONLY <1>7, <2>1
<1>10. f[d] = <<>>
  <2>1. CASE d = 0
    BY <1>9, <2>1
  <2>2. CASE d = 1
    <3>1. 1 \in 1..m /\ t[1] = " "
      <4>1. t[1] = " "
        BY ONLY <2>2, Behind(s, t, d) DEF Behind
      <4>2. 1 \in 1..m
        BY ONLY <1>2, <1>20, <2>2
      <4> QED BY <4>1, <4>2
    <3>2. pieces[1] = <<>> /\ f[1] = f[1 - 1] \o pieces[1]
      BY <1>7, <1>9, <3>1
    <3>3. PICK e : e = <<>> /\ e \in Seq(T)
      <4>1. \A U : <<>> \in Seq(U)
        OBVIOUS
      <4> QED BY ONLY <4>1
    <3>4. e \o e = e
      BY ONLY <3>3, ConcatEmptySeq
    <3>5. f[1] = f[0] \o pieces[1]
      BY <3>2
    <3>6. f[1] = e \o e
      BY ONLY <1>9, <3>2, <3>3, <3>5
    <3> QED BY <2>2, <3>3, <3>4, <3>6
  <2>3. d = 0 \/ d = 1
    BY ONLY <1>20
  <2> QED BY ONLY <2>1, <2>2, <2>3
<1>11. /\ SubSeq(s, 1, 0) = <<>> /\ SubSeq(s, 1, n) = s
       /\ \A i \in 0..n : SubSeq(s, 1, i) \in Seq(T)
       /\ \A i \in 0..(n - 1) : SubSeq(s, 1, i + 1) = Append(SubSeq(s, 1, i), s[i + 1])
  BY ONLY <1>1, PrefixSteps, s \in Seq(T)
<1> DEFINE S == {k \in 0..n : f[d + k] = SubSeq(s, 1, k)}
<1>12. 0 \in S
  <2>1. d + 0 = d /\ 0 \in 0..n
    BY ONLY <1>2, <1>20
  <2> QED BY <1>10, <1>11, <2>1
<1>13. ASSUME NEW k \in 0..(n - 1), k \in S PROVE k + 1 \in S
  <2>1. /\ k + 1 \in 1..n /\ k + 1 \in 0..n /\ d + (k + 1) \in 1..m /\ (d + (k + 1)) - 1 = d + k
        /\ k \in 0..n
    BY ONLY <1>2, <1>20, k \in 0..(n - 1)
  <2>2. PICK c, u, j : c = s[k + 1] /\ u = SubSeq(s, 1, k) /\ j = d + (k + 1)
    OBVIOUS
  <2>3. t[j] = c /\ c # " "
    <3>1. \A i \in 1..n : t[d + i] = s[i]
      BY ONLY <1>1, Behind(s, t, d) DEF Behind
    <3>2. t[j] = c
      BY ONLY <2>1, <2>2, <3>1
    <3>3. c # " "
      BY <1>1, <2>1, <2>2 DEF Tight
    <3> QED BY <3>2, <3>3
  <2>4. c \in T
    BY <1>3, <2>1, <2>2, <2>3
  <2>5. f[j] = u \o <<c>>
    <3>1. f[j] = f[j - 1] \o pieces[j] /\ pieces[j] = <<c>>
      BY <1>7, <1>9, <2>1, <2>2, <2>3
    <3>2. f[j - 1] = u
      BY <1>13, <2>1, <2>2
    <3> QED BY <3>1, <3>2
  <2>6. u \in Seq(T)
    BY <1>11, <2>1, <2>2
  <2>7. Append(u, c) = u \o <<c>>
    BY ONLY <2>4, <2>6, AppendIsConcat
  <2>8. SubSeq(s, 1, k + 1) = Append(u, c)
    BY <1>11, <2>2
  <2> QED BY <2>1, <2>2, <2>5, <2>7, <2>8
<1> HIDE DEF S
<1>14. 0..n \subseteq S
  BY ONLY <1>2, <1>12, <1>13, IntervalSet
<1>15. f[m] = s
  <2>1. n \in S
    <3>1. n \in 0..n
      BY ONLY <1>2
    <3> QED BY <1>14, <3>1
  <2> QED BY <1>11, <1>20, <2>1 DEF S
<1> QED BY <1>8, <1>9, <1>15

\* The letters of an atom: its predicate, its first argument, what is behind it, and
\* parentheses.
Divided(tok, p, u, v, n, k, m) ==
  /\ n \in Nat /\ k \in Nat /\ m \in Nat /\ Len(tok) = n + k + m + 2
  /\ \A j \in 1..n : tok[j] = p[j]
  /\ tok[n + 1] = "("
  /\ \A j \in 1..k : tok[(n + 1) + j] = u[j]
  /\ \A j \in 1..m : tok[(n + k + 1) + j] = v[j]
  /\ tok[n + k + m + 2] = ")"

\* Letters of a text that stands in another one.
LEMMA StandsLetters ==
  ASSUME NEW T, NEW s \in Seq(T), NEW big, NEW b \in Nat, Stands(s, big, b + 1)
  PROVE  \A j \in 1..Len(s) : big[b + j] = s[j]
<1>1. Len(s) \in Nat
  BY ONLY s \in Seq(T), LenIsNat
<1>2. \A j \in 1..Len(s) : big[(b + 1) + j - 1] = s[j]
  BY ONLY Stands(s, big, b + 1) DEF Stands
<1>3. \A j \in 1..Len(s) : (b + 1) + j - 1 = b + j
  BY ONLY <1>1, b \in Nat
<1> QED BY ONLY <1>2, <1>3

\* An atom is divided by its parentheses.
LEMMA AtomDivided ==
  ASSUME NEW T, Marks \subseteq T, NEW l, Over(l, T)
  PROVE  Divided(AtomText(l), PlainText(l), l.args[1], Second(l), Len(PlainText(l)), Len(l.args[1]), Len(Second(l)))
<1>1. PICK p, u, v, tok : p = PlainText(l) /\ u = l.args[1] /\ v = Second(l) /\ tok = AtomText(l)
  OBVIOUS
<1>2. p \in Seq(T) /\ u \in Seq(T) /\ v \in Seq(T) /\ tok \in Seq(T)
  BY ONLY <1>1, AtomLetters, Marks \subseteq T, Over(l, T)
<1>3. PICK n, k, m : n = Len(p) /\ k = Len(u) /\ m = Len(v)
  OBVIOUS
<1>4. n \in Nat /\ k \in Nat /\ m \in Nat
  BY ONLY <1>2, <1>3, LenIsNat
<1>5. Laid(l, tok, 1)
  <2>1. Stands(tok, tok, 1)
    BY ONLY <1>2, StandsInItself
  <2> QED BY ONLY <1>1, <1>2, <2>1, AtomLaid, Marks \subseteq T, Over(l, T)
<1>6. /\ Len(tok) = n + k + m + 2
      /\ Stands(p, tok, 1) /\ Stands(<<"(">>, tok, 1 + n) /\ Stands(u, tok, 1 + n + 1)
      /\ Stands(v, tok, 1 + n + k + 1) /\ Stands(<<")">>, tok, 1 + n + k + m + 1)
  BY ONLY <1>1, <1>3, <1>5 DEF Laid
<1>7. PICK left, close, z, b2, b3, b4 :
        /\ left = "(" /\ close = ")" /\ z = 0
        /\ b2 = n + 1 /\ b3 = n + k + 1 /\ b4 = n + k + m + 1
  OBVIOUS
<1>8. /\ z \in Nat /\ b2 \in Nat /\ b3 \in Nat /\ b4 \in Nat
      /\ 1 = z + 1 /\ 1 + n = n + 1 /\ 1 + n + 1 = b2 + 1 /\ 1 + n + k + 1 = b3 + 1
      /\ 1 + n + k + m + 1 = b4 + 1 /\ b4 + 1 = n + k + m + 2
  BY ONLY <1>4, <1>7
<1>9. \A c : Len(<<c>>) = 1 /\ <<c>>[1] = c /\ <<c>> \in Seq({c})
  OBVIOUS
<1>10. \A j \in 1..n : tok[z + j] = p[j]
  <2>1. Stands(p, tok, z + 1) /\ z \in Nat
    BY ONLY <1>6, <1>8
  <2> QED BY ONLY <1>2, <1>3, <2>1, StandsLetters
<1>11. \A j \in 1..n : z + j = j
  BY ONLY <1>4, <1>7
<1>12. \A j \in 1..k : tok[b2 + j] = u[j]
  <2>1. Stands(u, tok, b2 + 1) /\ b2 \in Nat
    BY ONLY <1>6, <1>8
  <2> QED BY ONLY <1>2, <1>3, <2>1, StandsLetters
<1>13. \A j \in 1..m : tok[b3 + j] = v[j]
  <2>1. Stands(v, tok, b3 + 1) /\ b3 \in Nat
    BY ONLY <1>6, <1>8
  <2> QED BY ONLY <1>2, <1>3, <2>1, StandsLetters
<1>17. \A c : \A b \in Nat : Stands(<<c>>, tok, b + 1) => tok[b + 1] = c
  <2>1. ASSUME NEW c, NEW b \in Nat, Stands(<<c>>, tok, b + 1) PROVE tok[b + 1] = c
    <3>0. PICK s, C : s = <<c>> /\ C = {c}
      OBVIOUS
    <3>3. s \in Seq(C) /\ Len(s) = 1 /\ s[1] = c /\ Stands(s, tok, b + 1)
      BY ONLY <1>9, <2>1, <3>0
    <3>1. \A j \in 1..Len(s) : tok[b + j] = s[j]
      BY ONLY <3>3, b \in Nat, StandsLetters
    <3>2. 1 \in 1..Len(s)
      BY ONLY <3>3
    <3> QED BY ONLY <3>1, <3>2, <3>3
  <2> QED BY ONLY <2>1
<1>14. tok[b2] = left
  <2>1. Stands(<<left>>, tok, n + 1)
    BY ONLY <1>6, <1>7, <1>8
  <2> QED BY ONLY <1>4, <1>7, <1>17, <2>1
<1>15. tok[n + k + m + 2] = close
  <2>1. Stands(<<close>>, tok, b4 + 1)
    BY ONLY <1>6, <1>7, <1>8
  <2> QED BY ONLY <1>8, <1>17, <2>1
<1>16. Divided(tok, p, u, v, n, k, m)
  BY ONLY <1>4, <1>6, <1>7, <1>8, <1>10, <1>11, <1>12, <1>13, <1>14, <1>15 DEF Divided
<1> QED BY ONLY <1>1, <1>3, <1>16

Unclosed(v, m) == \A j \in 1..m : v[j] # ")"

\* Where its parentheses and its comma stand.
Placed(tok, v, n, k, m) ==
  /\ Place(tok, "(") = n + 1 /\ Place(tok, ")") = n + k + m + 2
  /\ (m = 0 => Place(tok, ",") = 0)
  /\ (m # 0 /\ v[1] = "," => Place(tok, ",") = n + k + 2)

\* Where the parentheses and the comma of an atom are found.
LEMMA AtomPlaces ==
  ASSUME NEW T, NEW tok \in Seq(T), NEW p, NEW u, NEW v, NEW n, NEW k, NEW m,
         Divided(tok, p, u, v, n, k, m), n = Len(p), k = Len(u), Tight(p), Tight(u),
         Unclosed(v, m)
  PROVE  Placed(tok, v, n, k, m)
<1>1. PICK left, comma, close, o, c, e : /\ left = "(" /\ comma = "," /\ close = ")"
        /\ o = n + 1 /\ c = n + k + 2 /\ e = n + k + m + 2
  OBVIOUS
<1>2. /\ n \in Nat /\ k \in Nat /\ m \in Nat /\ Len(tok) = e
      /\ \A j \in 1..n : tok[j] = p[j]
      /\ tok[o] = left
      /\ \A j \in 1..k : tok[o + j] = u[j]
      /\ \A j \in 1..m : tok[(n + k + 1) + j] = v[j]
      /\ tok[e] = close
  BY ONLY <1>1, Divided(tok, p, u, v, n, k, m) DEF Divided
<1>20. n \in Nat /\ k \in Nat /\ m \in Nat /\ o \in Nat /\ c \in Nat /\ e \in Nat
  <2>1. n \in Nat /\ k \in Nat /\ m \in Nat
    BY ONLY <1>2
  <2>2. o = n + 1 /\ c = n + k + 2 /\ e = n + k + m + 2
    BY ONLY <1>1
  <2> QED BY ONLY <2>1, <2>2
<1>21. o = n + 1 /\ c = n + k + 2 /\ e = n + k + m + 2
  BY ONLY <1>1
<1>3. left # comma /\ left # close /\ comma # close
  BY ONLY <1>1
<1>4. /\ \A j \in 1..n : p[j] # left /\ p[j] # comma /\ p[j] # close
      /\ \A j \in 1..k : u[j] # left /\ u[j] # comma /\ u[j] # close
  BY ONLY <1>1, n = Len(p), k = Len(u), Tight(p), Tight(u) DEF Tight
<1>5. \A j \in 1..e : \/ j \in 1..n \/ j = o
                      \/ \E i \in 1..k : j = o + i
                      \/ \E i \in 1..m : j = (n + k + 1) + i
                      \/ j = e
  <2>1. ASSUME NEW j \in 1..e
        PROVE  \/ j \in 1..n \/ j = o
               \/ j - o \in 1..k /\ j = o + (j - o)
               \/ j - (n + k + 1) \in 1..m /\ j = (n + k + 1) + (j - (n + k + 1))
               \/ j = e
    BY ONLY <1>20, <1>21, j \in 1..e
  <2> QED BY ONLY <2>1
<1>6. Place(tok, left) = o
  <2>0. o \in 1..e /\ \A j \in 1..(o - 1) : j \in 1..n
    BY ONLY <1>20, <1>21
  <2>1. o \in 1..Len(tok) /\ \A j \in 1..(o - 1) : j \in 1..n
    BY ONLY <1>2, <2>0
  <2> QED BY ONLY <1>2, <1>4, <2>1, PlaceIs, tok \in Seq(T)
<1>7. Place(tok, close) = e
  <2>0. e \in 1..e /\ \A j \in 1..(e - 1) : j \in 1..e /\ j # e
    BY ONLY <1>20, <1>21
  <2>1. e \in 1..Len(tok) /\ \A j \in 1..(e - 1) : j \in 1..e /\ j # e
    BY ONLY <1>2, <2>0
  <2>2. \A j \in 1..m : v[j] # close
    BY ONLY <1>1, Unclosed(v, m) DEF Unclosed
  <2>3. \A j \in 1..(e - 1) : tok[j] # close
    <3>1. ASSUME NEW j \in 1..(e - 1) PROVE tok[j] # close
      <4>1. j \in 1..e /\ j # e
        BY ONLY <2>1, j \in 1..(e - 1)
      <4>2. CASE j \in 1..n
        BY ONLY <1>2, <1>4, <4>2
      <4>3. CASE j = o
        BY ONLY <1>2, <1>3, <4>3
      <4>4. ASSUME NEW i \in 1..k, j = o + i PROVE tok[j] # close
        BY ONLY <1>2, <1>4, <4>4
      <4>5. ASSUME NEW i \in 1..m, j = (n + k + 1) + i PROVE tok[j] # close
        BY ONLY <1>2, <2>2, <4>5
      <4> QED BY ONLY <1>5, <4>1, <4>2, <4>3, <4>4, <4>5
    <3> QED BY ONLY <3>1
  <2> QED BY ONLY <1>2, <2>1, <2>3, PlaceIs, tok \in Seq(T)
<1>8. ASSUME m = 0 PROVE Place(tok, comma) = 0
  <2>1. \A i : i \notin 1..m
    BY ONLY <1>8
  <2>2. \A j \in 1..Len(tok) : tok[j] # comma
    <3>1. ASSUME NEW j \in 1..e PROVE tok[j] # comma
      <4>1. CASE j \in 1..n
        BY ONLY <1>2, <1>4, <4>1
      <4>2. CASE j = o
        BY ONLY <1>2, <1>3, <4>2
      <4>3. ASSUME NEW i \in 1..k, j = o + i PROVE tok[j] # comma
        BY ONLY <1>2, <1>4, <4>3
      <4>4. CASE j = e
        BY ONLY <1>2, <1>3, <4>4
      <4> QED BY ONLY <1>5, <2>1, <4>1, <4>2, <4>3, <4>4, j \in 1..e
    <3>2. Len(tok) = e
      BY ONLY <1>2
    <3> QED BY ONLY <3>1, <3>2
  <2> QED BY ONLY <2>2, PlaceNone, tok \in Seq(T)
<1>9. ASSUME m # 0, v[1] = comma PROVE Place(tok, comma) = c
  <2>0. /\ c \in 1..e /\ 1 \in 1..m /\ (n + k + 1) + 1 = c
        /\ \A j \in 1..(c - 1) : j \in 1..e /\ j # e /\ \A i \in 1..m : j # (n + k + 1) + i
    BY ONLY <1>20, <1>21, m # 0
  <2>1. /\ c \in 1..Len(tok) /\ 1 \in 1..m /\ (n + k + 1) + 1 = c
        /\ \A j \in 1..(c - 1) : j \in 1..e /\ j # e /\ \A i \in 1..m : j # (n + k + 1) + i
    BY ONLY <1>2, <2>0
  <2>2. tok[c] = comma
    BY ONLY <1>2, v[1] = comma, <2>1
  <2>3. \A j \in 1..(c - 1) : tok[j] # comma
    <3>1. ASSUME NEW j \in 1..(c - 1) PROVE tok[j] # comma
      <4>1. j \in 1..e /\ j # e /\ \A i \in 1..m : j # (n + k + 1) + i
        BY ONLY <2>1, j \in 1..(c - 1)
      <4>2. CASE j \in 1..n
        BY ONLY <1>2, <1>4, <4>2
      <4>3. CASE j = o
        BY ONLY <1>2, <1>3, <4>3
      <4>4. ASSUME NEW i \in 1..k, j = o + i PROVE tok[j] # comma
        BY ONLY <1>2, <1>4, <4>4
      <4> QED BY ONLY <1>5, <4>1, <4>2, <4>3, <4>4
    <3> QED BY ONLY <3>1
  <2> QED BY ONLY <2>1, <2>2, <2>3, PlaceIs, tok \in Seq(T)
<1> QED BY ONLY <1>1, <1>6, <1>7, <1>8, <1>9 DEF Placed

\* What stands between two letters, as it was written or behind a blank.
LEMMA BetweenIs ==
  ASSUME NEW T, NEW tok \in Seq(T), NEW s \in Seq(T), NEW i \in Nat, NEW j \in Nat, NEW d,
         Tight(s), Behind(s, SubSeq(tok, i + 1, j - 1), d), i < j, j <= Len(tok) + 1
  PROVE  Between(tok, i, j) = s
<1>1. PICK t, a, b, n : t = SubSeq(tok, a, b) /\ a = i + 1 /\ b = j - 1 /\ n = Len(tok)
  OBVIOUS
<1>2. n \in Nat
  BY ONLY <1>1, LenIsNat, tok \in Seq(T)
<1>3. a \in Nat /\ b \in Int /\ \A x \in a..b : x \in 1..n
  BY ONLY <1>1, <1>2, i \in Nat, j \in Nat, i < j, j <= Len(tok) + 1
<1>4. t \in Seq(T)
  BY <1>1, <1>3
<1>5. Trim(t) = s
  <2>1. Behind(s, t, d)
    BY <1>1
  <2> QED BY ONLY <1>4, <2>1, TrimOf, Tight(s), s \in Seq(T)
<1> QED BY <1>1, <1>5 DEF Between

\* The letters between two letters.
LEMMA SubSeqLetters ==
  ASSUME NEW T, NEW tok \in Seq(T), NEW i \in Nat, NEW h \in Nat, i + h <= Len(tok)
  PROVE  /\ Len(SubSeq(tok, i + 1, i + h)) = h
         /\ \A x \in 1..h : SubSeq(tok, i + 1, i + h)[x] = tok[i + x]
<1>1. PICK n : n = Len(tok)
  OBVIOUS
<1>2. n \in Nat
  BY ONLY <1>1, LenIsNat, tok \in Seq(T)
<1>3. (i + h) - (i + 1) + 1 = h /\ \A x \in 1..h : x + (i + 1) - 1 = i + x /\ (i + 1) + x - 1 = i + x
  OBVIOUS
<1>4. PICK a, b : a = i + 1 /\ b = i + h
  OBVIOUS
<1>5. SubSeq(tok, a, b) = [x \in 1..(b - a + 1) |-> tok[a + x - 1]]
  <2>1. a \in Int /\ b \in Int /\ \A x \in a..b : x \in 1..n
    BY ONLY <1>1, <1>2, <1>4, i \in Nat, h \in Nat, i + h <= Len(tok)
  <2> QED BY <1>1, <2>1
<1>6. b - a + 1 = h /\ \A x \in 1..h : a + x - 1 = i + x
  BY <1>3, <1>4
<1>7. SubSeq(tok, a, b) = [x \in 1..h |-> tok[i + x]]
  BY ONLY <1>5, <1>6
<1>8. PICK t : t = SubSeq(tok, a, b)
  OBVIOUS
<1>9. t \in [1..h -> T]
  <2>1. \A x \in 1..h : tok[i + x] \in T
    <3>1. \A x \in 1..h : i + x \in 1..n
      BY ONLY <1>1, <1>2, i \in Nat, h \in Nat, i + h <= Len(tok)
    <3> QED BY ONLY <1>1, <3>1, tok \in Seq(T)
  <2> QED BY ONLY <1>7, <1>8, <2>1
<1>10. Len(t) = h
  BY ONLY <1>9, h \in Nat, FromFunction
<1>11. \A x \in 1..h : t[x] = tok[i + x]
  BY ONLY <1>7, <1>8
<1> QED BY ONLY <1>4, <1>8, <1>10, <1>11

LettersAt(tok, s, i, h) == \A x \in 1..h : tok[i + x] = s[x]

\* What stands between two letters, as it was written.
LEMMA BetweenLetters ==
  ASSUME NEW T, NEW tok \in Seq(T), NEW s \in Seq(T), NEW i \in Nat, NEW h \in Nat, NEW j \in Nat,
         Tight(s), Len(s) = h, i < j, j <= Len(tok) + 1, j - 1 = i + h, i + h <= Len(tok),
         LettersAt(tok, s, i, h)
  PROVE  Between(tok, i, j) = s
<1>1. PICK t, d : t = SubSeq(tok, i + 1, i + h) /\ d = 0
  OBVIOUS
<1>2. Len(t) = h /\ \A x \in 1..h : t[x] = tok[i + x]
  BY ONLY <1>1, SubSeqLetters, tok \in Seq(T), i \in Nat, h \in Nat, i + h <= Len(tok)
<1>3. h = d + h /\ d \in {0, 1} /\ d # 1 /\ \A x \in 1..h : d + x = x
  BY ONLY <1>1, h \in Nat
<1>4. Behind(s, t, d)
  BY ONLY Len(s) = h, <1>2, <1>3, LettersAt(tok, s, i, h) DEF Behind, LettersAt
<1>5. Behind(s, SubSeq(tok, i + 1, j - 1), d)
  BY ONLY j - 1 = i + h, <1>1, <1>4
<1> QED
  BY ONLY <1>5, BetweenIs, tok \in Seq(T), s \in Seq(T), i \in Nat, j \in Nat, Tight(s), i < j, j <= Len(tok) + 1

\* A predicate loses its sign.
LEMMA PlainUnsigned ==
  ASSUME NEW T, NEW l, Over(l, T)
  PROVE  Unsigned(PlainText(l)) = l.name
<1>1. isName(l.name) /\ l.name \in Seq(T)
  BY DEF Over, isLiteral
<1>2. CASE ~l.neg
  <2>1. PlainText(l) = l.name
    BY <1>1, <1>2, ConcatEmptySeq DEF PlainText
  <2>2. Unsigned(l.name) = l.name
    BY ONLY <1>1, NameIsClean
  <2> QED BY <2>1, <2>2
<1>3. CASE l.neg
  <2>1. PICK s, t, c : s = <<c>> \o t /\ t = l.name /\ s = PlainText(l) /\ c = "-"
    BY <1>3 DEF PlainText
  <2>2. t \in Seq(T \cup {c}) /\ c \in T \cup {c}
    BY <1>1, <2>1
  <2>3. s # <<>> /\ Head(s) = c /\ Tail(s) = t
    BY ONLY <2>1, <2>2
  <2> QED BY <2>1, <2>3 DEF Unsigned
<1> QED BY <1>2, <1>3

\* An atom is made of its text.
LEMMA AtomOfText ==
  ASSUME NEW T, Marks \subseteq T, NEW l, Over(l, T)
  PROVE  AtomOf(AtomText(l)) = [pred |-> l.name, args |-> l.args]
<1>1. PICK p, u, v, tok : p = PlainText(l) /\ u = l.args[1] /\ v = Second(l) /\ tok = AtomText(l)
  OBVIOUS
<1>2. p \in Seq(T) /\ u \in Seq(T) /\ v \in Seq(T) /\ tok \in Seq(T)
  BY ONLY <1>1, AtomLetters, Marks \subseteq T, Over(l, T)
<1>3. PICK n, k, m : n = Len(p) /\ k = Len(u) /\ m = Len(v)
  OBVIOUS
<1>4. Divided(tok, p, u, v, n, k, m)
  BY ONLY <1>1, <1>3, AtomDivided, Marks \subseteq T, Over(l, T)
<1>5. Tight(p) /\ Tight(u) /\ Quiet(v, "PARENOPEN") /\ (Len(l.args) = 2 => Tight(l.args[2]))
  BY ONLY <1>1, PartsAreTight, Marks \subseteq T, Over(l, T)
<1>6. Unclosed(v, m)
  BY ONLY <1>3, <1>5 DEF Unclosed, Quiet, Silent
<1>7. /\ Place(tok, "(") = n + 1 /\ Place(tok, ")") = n + k + m + 2
      /\ (m = 0 => Place(tok, ",") = 0)
      /\ (m # 0 /\ v[1] = "," => Place(tok, ",") = n + k + 2)
  <2>1. tok \in Seq(T) /\ n = Len(p) /\ k = Len(u) /\ Tight(p) /\ Tight(u)
    BY ONLY <1>2, <1>3, <1>5
  <2>2. Placed(tok, v, n, k, m)
    BY ONLY <2>1, <1>4, <1>6, AtomPlaces
  <2> QED BY ONLY <2>2 DEF Placed
<1>8. PICK L, o, c, e : L = Len(tok) /\ o = n + 1 /\ c = n + k + 2 /\ e = n + k + m + 2
  OBVIOUS
<1>9. n \in Nat /\ k \in Nat /\ m \in Nat /\ L = e
  BY ONLY <1>4, <1>8 DEF Divided
<1>90. o \in Nat /\ c \in Nat /\ e \in Nat
  BY ONLY <1>8, <1>9
<1>91. 0 < o /\ o <= e + 1 /\ o < e /\ e <= e + 1 /\ o < c /\ c <= e + 1 /\ (m = 0 => c = e)
       /\ n <= e /\ o + k <= e /\ n + 1 = o /\ 0 \in Nat /\ 1 \in Nat
       /\ o - 1 = 0 + n /\ c - 1 = o + k /\ c = n + k + 2
  BY ONLY <1>8, <1>9, <1>90
<1>10. e = Len(tok) /\ o <= Len(tok) + 1 /\ c <= Len(tok) + 1 /\ 0 + n <= Len(tok) /\ o + k <= Len(tok)
  BY ONLY <1>8, <1>9, <1>91
<1>11. Between(tok, 0, o) = p
  <2>1. LettersAt(tok, p, 0, n)
    <3>1. \A x \in 1..n : tok[x] = p[x]
      BY ONLY <1>4 DEF Divided
    <3>2. \A x \in 1..n : 0 + x = x
      BY ONLY <1>9
    <3> QED BY ONLY <3>1, <3>2 DEF LettersAt
  <2>2. PICK z : z = 0
    OBVIOUS
  <2>3. LettersAt(tok, p, z, n) /\ z + n <= Len(tok) /\ z < o /\ o - 1 = z + n /\ z \in Nat
    BY ONLY <1>10, <1>91, <2>1, <2>2
  <2>4. Between(tok, z, o) = p
    <3>1. p \in Seq(T) /\ tok \in Seq(T) /\ Len(p) = n /\ Tight(p) /\ n \in Nat /\ o \in Nat
      BY ONLY <1>2, <1>3, <1>5, <1>9, <1>90
    <3>2. o <= Len(tok) + 1
      BY ONLY <1>10
    <3> QED BY ONLY <3>1, <3>2, <2>3, BetweenLetters
  <2> QED BY ONLY <2>2, <2>4
<1>12. Between(tok, o, c) = u
  <2>1. LettersAt(tok, u, o, k)
    BY ONLY <1>4, <1>8 DEF Divided, LettersAt
  <2>2. o < c /\ c - 1 = o + k
    BY ONLY <1>91
  <2> QED BY ONLY <1>2, <1>3, <1>5, <1>9, <1>90, <1>10, <2>1, <2>2, BetweenLetters
<1>13. Len(l.args) \in {1, 2} /\ l.args \in Seq(Seq(T))
  BY DEF Over, isLiteral
<1>14. CASE Len(l.args) = 1
  <2>1. v = <<>>
    BY ONLY <1>1, <1>14 DEF Second
  <2>2. m = 0
    BY ONLY <1>3, <2>1
  <2>3. Place(tok, ",") = 0 /\ Place(tok, ")") = c /\ Place(tok, "(") = o
    BY ONLY <1>7, <1>8, <1>91, <2>2
  <2>4. l.args = <<u>>
    BY <1>1, <1>13, <1>14
  <2>5. Unsigned(p) = l.name
    BY ONLY <1>1, PlainUnsigned, Over(l, T)
  <2> QED BY <1>1, <1>11, <1>12, <2>3, <2>4, <2>5 DEF AtomOf
<1>15. CASE Len(l.args) = 2
  <2>1. PICK s, co, bl : s = l.args[2] /\ co = "," /\ bl = " "
    OBVIOUS
  <2>2. v = <<co, bl>> \o s
    BY ONLY <1>1, <1>15, <2>1 DEF Second
  <2>3. s \in Seq(T) /\ co \in T /\ bl \in T
    <3>1. s \in Seq(T)
      <4>1. Len(l.args) = 2 => l.args[2] \in Seq(T)
        BY ONLY AtomLetters, Marks \subseteq T, Over(l, T)
      <4> QED BY ONLY <1>15, <2>1, <4>1
    <3> QED BY <2>1, <3>1 DEF Marks
  <2>4. /\ Len(v) = Len(s) + 2 /\ Len(s) \in Nat /\ v[1] = co /\ v[2] = bl
        /\ \A x \in 1..Len(s) : v[x + 2] = s[x]
    <3>1. PICK w : w = <<co, bl>>
      OBVIOUS
    <3>2. w \in Seq(T) /\ Len(w) = 2 /\ w[1] = co /\ w[2] = bl
      BY ONLY <2>3, <3>1
    <3>3. /\ Len(w \o s) = Len(w) + Len(s) /\ Len(s) \in Nat
          /\ \A x \in 1..Len(w) : (w \o s)[x] = w[x]
          /\ \A x \in 1..Len(s) : (w \o s)[Len(w) + x] = s[x]
      <4>1. w \in Seq(T) /\ s \in Seq(T)
        BY ONLY <2>3, <3>2
      <4> QED BY ONLY <4>1, LettersOfTwo
    <3>4. w \o s = v
      BY ONLY <2>2, <3>1
    <3>5. PICK h : h = Len(s)
      OBVIOUS
    <3>6. Len(v) = 2 + h /\ h \in Nat /\ (\A x \in 1..2 : v[x] = w[x]) /\ \A x \in 1..h : v[2 + x] = s[x]
      BY ONLY <3>2, <3>3, <3>4, <3>5
    <3>7. Len(v) = h + 2 /\ v[1] = w[1] /\ v[2] = w[2] /\ \A x \in 1..h : x + 2 = 2 + x
      BY ONLY <3>6
    <3> QED BY ONLY <3>2, <3>5, <3>6, <3>7
  <2>5. PICK h : h = Len(s)
    OBVIOUS
  <2>6. h \in Nat /\ m = h + 2 /\ v[1] = co /\ v[2] = bl /\ \A x \in 1..h : v[x + 2] = s[x]
    BY ONLY <1>3, <2>4, <2>5
  <2>7. Place(tok, ",") = c
    <3>1. m # 0
      BY ONLY <2>6
    <3> QED BY ONLY <1>7, <1>8, <2>1, <2>6, <3>1
  <2>8. c # 0
    BY ONLY <1>8, <1>9
  <2>9. Between(tok, c, e) = s
    <3>1. PICK t, g, d : t = SubSeq(tok, c + 1, c + g) /\ g = h + 1 /\ d = 1
      OBVIOUS
    <3>2. g \in Nat /\ c + g <= e /\ c + g = e - 1 /\ c < e /\ d \in {0, 1} /\ g = d + h /\ d + 0 = 1
          /\ 1 \in 1..g /\ 1 + 1 \in 1..m /\ 1 + 1 = 2
      <4>1. g = h + 1 /\ d = 1 /\ h \in Nat /\ m = h + 2
        BY ONLY <2>6, <3>1
      <4>2. g \in Nat /\ d \in {0, 1} /\ g = d + h /\ d + 0 = 1 /\ 1 \in 1..g /\ 1 + 1 \in 1..m /\ 1 + 1 = 2
        BY ONLY <4>1
      <4>3. c = n + k + 2 /\ e = n + k + m + 2
        BY ONLY <1>8
      <4>4. c + g <= e /\ c + g = e - 1 /\ c < e
        BY ONLY <1>9, <4>1, <4>3
      <4> QED BY ONLY <4>2, <4>4
    <3>31. c \in Nat /\ g \in Nat /\ t = SubSeq(tok, c + 1, c + g)
      BY ONLY <1>90, <3>1, <3>2
    <3>3. Len(t) = g /\ \A x \in 1..g : t[x] = tok[c + x]
      <4>1. c + g <= Len(tok)
        BY ONLY <1>8, <1>9, <3>2
      <4>2. /\ Len(SubSeq(tok, c + 1, c + g)) = g
            /\ \A x \in 1..g : SubSeq(tok, c + 1, c + g)[x] = tok[c + x]
        <5>1. tok \in Seq(T)
          BY ONLY <1>2
        <5> QED BY ONLY <3>31, <4>1, <5>1, SubSeqLetters
      <4> QED BY ONLY <3>31, <4>2
    <3>4. \A x \in 1..g : tok[c + x] = v[x + 1]
      <4>1. \A j \in 1..m : tok[(n + k + 1) + j] = v[j]
        BY ONLY <1>4 DEF Divided
      <4>2. \A x \in 1..g : x + 1 \in 1..m /\ (n + k + 1) + (x + 1) = c + x
        <5>1. n \in Nat /\ k \in Nat /\ m \in Nat /\ h \in Nat
          BY ONLY <1>9, <2>6
        <5>2. c = n + k + 2 /\ m = h + 2 /\ g = h + 1
          BY ONLY <1>8, <2>6, <3>1
        <5> QED BY ONLY <5>1, <5>2
      <4> QED BY ONLY <4>1, <4>2
    <3>5. t[1] = bl
      BY ONLY <2>6, <3>2, <3>3, <3>4
    <3>6. \A x \in 1..h : t[d + x] = s[x]
      <4>1. \A x \in 1..h : d + x \in 1..g /\ (d + x) + 1 = x + 2
        BY ONLY <2>6, <3>1
      <4> QED BY ONLY <2>6, <3>3, <3>4, <4>1
    <3>7. Behind(s, t, d)
      BY ONLY <2>1, <2>5, <3>2, <3>3, <3>5, <3>6 DEF Behind
    <3>8. Behind(s, SubSeq(tok, c + 1, e - 1), d)
      BY ONLY <3>1, <3>2, <3>7
    <3>9. e <= Len(tok) + 1 /\ Tight(s)
      BY ONLY <1>5, <1>8, <1>9, <1>91, <1>15, <2>1
    <3> QED BY ONLY <1>2, <1>90, <2>3, <3>2, <3>8, <3>9, BetweenIs
  <2>10. l.args = <<u, s>>
    <3>1. \A q : \A Q : q \in Seq(Q) /\ Len(q) = 2 => q = <<q[1], q[2]>>
      OBVIOUS
    <3> QED BY ONLY <1>1, <1>13, <1>15, <2>1, <3>1
  <2>11. Unsigned(p) = l.name
    BY ONLY <1>1, PlainUnsigned, Over(l, T)
  <2>12. Place(tok, ")") = e /\ Place(tok, "(") = o
    BY ONLY <1>7, <1>8
  <2> QED BY <1>1, <1>11, <1>12, <2>7, <2>8, <2>9, <2>10, <2>11, <2>12 DEF AtomOf
<1> QED BY ONLY <1>13, <1>14, <1>15

\* The atoms of a conjunction, without their signs.
AtomsFor(conj) == {[pred |-> conj[j].name, args |-> conj[j].args] : j \in DOMAIN conj}

\* The separator takes a conjunction apart into its atoms (AtomSeparator.cpp).
LEMMA ConjParsed ==
  ASSUME NEW T, Marks \subseteq T, NEW conj, ConjOver(conj, T)
  PROVE  AtomSeparatorParse(ConjText(conj)) = [ok |-> TRUE, atoms |-> AtomsFor(conj)]
<1>1. PICK n, texts, t, D, atom : /\ n = Len(conj) /\ texts = Texts(conj) /\ t = Tokenize(ConjText(conj)) /\ D = DOMAIN conj
                                  /\ atom = [j \in D |-> [pred |-> conj[j].name, args |-> conj[j].args]]
  OBVIOUS
<1>2. t = [ok |-> TRUE, toks |-> texts]
  BY ONLY <1>1, ConjTokens, Marks \subseteq T, ConjOver(conj, T)
<1>3. D = 1..n /\ DOMAIN texts = 1..n /\ \A j \in 1..n : Over(conj[j], T) /\ texts[j] = AtomText(conj[j])
  BY ONLY <1>1, TextsOver, Marks \subseteq T, ConjOver(conj, T)
<1>4. \A j \in D : AtomOf(texts[j]) = atom[j]
  <2>1. \A j \in D : AtomOf(AtomText(conj[j])) = [pred |-> conj[j].name, args |-> conj[j].args]
    BY ONLY <1>3, AtomOfText, Marks \subseteq T
  <2> QED BY ONLY <1>1, <1>3, <2>1
<1>5. ToSet(texts) = {texts[j] : j \in D}
  BY ONLY <1>3 DEF ToSet
<1>6. {AtomOf(tok) : tok \in ToSet(texts)} = {atom[j] : j \in D}
  BY ONLY <1>4, <1>5
<1>7. {atom[j] : j \in D} = AtomsFor(conj)
  BY ONLY <1>1 DEF AtomsFor
<1>8. AtomsOf(t) = [ok |-> TRUE, atoms |-> AtomsFor(conj)]
  BY ONLY <1>2, <1>6, <1>7 DEF AtomsOf
<1> QED BY ONLY <1>1, <1>8 DEF AtomSeparatorParse

\* Where a text stands behind its separator.
SetAt(pos, texts, c, big, i) ==
  /\ (i = 1 => Stands(texts[i], big, 1) /\ pos[i + 1] = 1 + Len(texts[i]))
  /\ (i # 1 => /\ pos[i] \in 1..Len(big) /\ big[pos[i]] = c
               /\ Stands(texts[i], big, pos[i] + 1) /\ pos[i + 1] = pos[i] + 1 + Len(texts[i]))

SetOut(pos, texts, c, big) ==
  /\ pos \in [1..(Len(texts) + 1) -> Nat \ {0}] /\ pos[1] = 1 /\ pos[Len(texts) + 1] = 1 + Len(big)
  /\ \A i \in 1..Len(texts) : SetAt(pos, texts, c, big, i)

\* A separator, and a text behind it.
LEMMA SeparatorFirst ==
  ASSUME NEW T, NEW big \in Seq(T), NEW s \in Seq(T), NEW c \in T, NEW p, Stands(<<c>> \o s, big, p)
  PROVE  p \in 1..Len(big) /\ big[p] = c /\ Stands(s, big, p + 1) /\ p + Len(<<c>> \o s) = p + 1 + Len(s)
<1>1. PICK x, n, m : x = <<c>> /\ n = Len(s) /\ m = Len(big)
  OBVIOUS
<1>2. x \in Seq(T) /\ Len(x) = 1 /\ x[1] = c /\ Stands(x \o s, big, p)
  BY ONLY <1>1, c \in T, Stands(<<c>> \o s, big, p)
<1>3. Stands(x, big, p) /\ Stands(s, big, p + Len(x)) /\ p + Len(x) + Len(s) = p + Len(x \o s)
  <2>1. x \in Seq(T)
    BY ONLY <1>2
  <2>2. Stands(x \o s, big, p)
    BY ONLY <1>2
  <2> QED BY ONLY <2>1, <2>2, StandsParts, big \in Seq(T), s \in Seq(T)
<1>4. n \in Nat /\ m \in Nat
  BY ONLY <1>1, LenIsNat, big \in Seq(T), s \in Seq(T)
<1>5. p \in Nat \ {0} /\ p + Len(x) <= Len(big) + 1 /\ \A j \in 1..Len(x) : big[p + j - 1] = x[j]
  BY ONLY <1>3 DEF Stands
<1>6. p \in Nat \ {0} /\ p + 1 <= m + 1 /\ \A j \in 1..1 : big[p + j - 1] = x[j]
  BY ONLY <1>1, <1>2, <1>5
<1>7. p \in 1..m /\ p + 1 - 1 = p /\ 1 \in 1..1
  BY ONLY <1>4, <1>6
<1>8. big[p] = c
  BY ONLY <1>2, <1>6, <1>7
<1> QED BY ONLY <1>1, <1>2, <1>3, <1>7, <1>8

\* Joined texts are set out one behind the other.
LEMMA JoinedOut ==
  ASSUME NEW T, NEW texts \in Seq(Seq(T)), NEW c \in T
  PROVE  Joined(texts, c) \in Seq(T) /\ \E pos : SetOut(pos, texts, c, Joined(texts, c))
<1>1. PICK n, big, pieces : n = Len(texts) /\ big = Joined(texts, c) /\ pieces = Pieces(texts, c)
  OBVIOUS
<1>2. /\ big = FlattenSeq(pieces) /\ big \in Seq(T) /\ pieces \in Seq(Seq(T)) /\ Len(pieces) = n
      /\ \A i \in 1..n : pieces[i] = IF i = 1 THEN texts[i] ELSE <<c>> \o texts[i]
  <2>1. /\ Joined(texts, c) = FlattenSeq(Pieces(texts, c)) /\ Joined(texts, c) \in Seq(T)
        /\ Pieces(texts, c) \in Seq(Seq(T)) /\ Len(Pieces(texts, c)) = Len(texts)
        /\ \A i \in 1..Len(texts) : Pieces(texts, c)[i] = IF i = 1 THEN texts[i] ELSE <<c>> \o texts[i]
    BY ONLY PiecesJoined, texts \in Seq(Seq(T)), c \in T
  <2> QED BY ONLY <1>1, <2>1
<1>3. n \in Nat /\ \A i \in 1..n : texts[i] \in Seq(T)
  BY ONLY <1>1, texts \in Seq(Seq(T))
<1>4. PICK pos : Layout(pos, pieces, big, 1)
  <2>1. Stands(big, big, 1)
    BY ONLY <1>2, StandsInItself
  <2>2. Stands(FlattenSeq(pieces), big, 1)
    BY ONLY <1>2, <2>1
  <2> QED BY ONLY <1>2, <2>2, StandsJoined
<1>5. /\ pos \in [1..(n + 1) -> Nat \ {0}] /\ pos[1] = 1 /\ pos[n + 1] = 1 + Len(big)
      /\ \A k \in 1..n : pos[k + 1] = pos[k] + Len(pieces[k]) /\ Stands(pieces[k], big, pos[k])
  BY ONLY <1>2, <1>4 DEF Layout
<1>6. ASSUME NEW i \in 1..n PROVE SetAt(pos, texts, c, big, i)
  <2>1. CASE i = 1
    <3>1. pieces[i] = texts[i] /\ pos[i] = 1
      BY ONLY <1>2, <1>5, <2>1, i \in 1..n
    <3>2. Stands(texts[i], big, 1) /\ pos[i + 1] = 1 + Len(texts[i])
      BY ONLY <1>5, <3>1, i \in 1..n
    <3> QED BY ONLY <2>1, <3>2 DEF SetAt
  <2>2. CASE i # 1
    <3>1. PICK p, s : p = pos[i] /\ s = texts[i]
      OBVIOUS
    <3>2. pieces[i] = <<c>> \o s
      BY ONLY <1>2, <2>2, <3>1, i \in 1..n
    <3>3. Stands(<<c>> \o s, big, p) /\ pos[i + 1] = p + Len(<<c>> \o s)
      BY ONLY <1>5, <3>1, <3>2, i \in 1..n
    <3>4. p \in 1..Len(big) /\ big[p] = c /\ Stands(s, big, p + 1) /\ p + Len(<<c>> \o s) = p + 1 + Len(s)
      <4>1. s \in Seq(T) /\ big \in Seq(T)
        BY ONLY <1>2, <1>3, <3>1, i \in 1..n
      <4>2. Stands(<<c>> \o s, big, p)
        BY ONLY <3>3
      <4> QED BY ONLY <4>1, <4>2, SeparatorFirst, c \in T
    <3>5. pos[i + 1] = p + 1 + Len(s)
      BY ONLY <3>3, <3>4
    <3> QED BY ONLY <2>2, <3>1, <3>4, <3>5 DEF SetAt
  <2> QED BY ONLY <2>1, <2>2
<1>7. SetOut(pos, texts, c, big)
  BY ONLY <1>1, <1>5, <1>6 DEF SetOut
<1> QED BY ONLY <1>1, <1>2, <1>7

\* What a text stands in has its letters, and ends as its last part does.
LEMMA StandsHas ==
  ASSUME NEW T, NEW big \in Seq(T), NEW s \in Seq(T), NEW a, Stands(s, big, a), NEW k \in 1..Len(s)
  PROVE  s[k] \in ToSet(big)
<1>1. PICK n, m : n = Len(s) /\ m = Len(big)
  OBVIOUS
<1>2. n \in Nat /\ m \in Nat
  BY ONLY <1>1, LenIsNat, big \in Seq(T), s \in Seq(T)
<1>3. a \in Nat \ {0} /\ a + n <= m + 1 /\ \A j \in 1..n : big[a + j - 1] = s[j]
  BY ONLY <1>1, Stands(s, big, a) DEF Stands
<1>4. k \in 1..n
  BY ONLY <1>1, k \in 1..Len(s)
<1>5. a + k - 1 \in 1..m
  BY ONLY <1>2, <1>3, <1>4
<1>6. big[a + k - 1] = s[k]
  BY ONLY <1>3, <1>4
<1>7. a + k - 1 \in DOMAIN big
  BY <1>1, <1>5
<1> QED BY ONLY <1>6, <1>7 DEF ToSet

\* A text ends with what stands at its end.
LEMMA StandsLast ==
  ASSUME NEW T, NEW big \in Seq(T), NEW s \in Seq(T), NEW a, Stands(s, big, a), s # <<>>,
         a + Len(s) = 1 + Len(big)
  PROVE  big # <<>> /\ Last(big) = Last(s)
<1>1. PICK n, m : n = Len(s) /\ m = Len(big)
  OBVIOUS
<1>2. n \in Nat /\ m \in Nat
  BY ONLY <1>1, LenIsNat, big \in Seq(T), s \in Seq(T)
<1>3. n # 0
  BY ONLY <1>1, s \in Seq(T), s # <<>>
<1>4. a \in Nat \ {0} /\ \A j \in 1..n : big[a + j - 1] = s[j]
  BY ONLY <1>1, Stands(s, big, a) DEF Stands
<1>5. a + n = 1 + m
  BY ONLY <1>1, a + Len(s) = 1 + Len(big)
<1>6. n \in 1..n /\ a + n - 1 = m /\ m # 0
  BY ONLY <1>2, <1>3, <1>4, <1>5
<1>7. big[m] = s[n]
  BY ONLY <1>4, <1>6
<1>8. big # <<>>
  BY ONLY <1>1, <1>6, big \in Seq(T)
<1> QED BY ONLY <1>1, <1>7, <1>8 DEF Last

\* Joined texts have the letters of each, and end with the last.
LEMMA JoinedHas ==
  ASSUME NEW T, NEW texts \in Seq(Seq(T)), NEW c \in T, NEW n, n = Len(texts), NEW big, big = Joined(texts, c)
  PROVE  /\ \A i \in 1..n : \A k \in 1..Len(texts[i]) : texts[i][k] \in ToSet(big)
         /\ n > 1 => c \in ToSet(big)
         /\ n > 0 /\ texts[n] # <<>> => big # <<>> /\ Last(big) = Last(texts[n])
<1>1. big \in Seq(T) /\ n \in Nat /\ \A i \in 1..n : texts[i] \in Seq(T)
  <2>1. big \in Seq(T)
    BY ONLY JoinedOut, texts \in Seq(Seq(T)), c \in T, big = Joined(texts, c)
  <2>2. n \in Nat /\ \A i \in 1..n : texts[i] \in Seq(T)
    BY ONLY n = Len(texts), texts \in Seq(Seq(T))
  <2> QED BY ONLY <2>1, <2>2
<1>2. PICK pos : SetOut(pos, texts, c, big)
  BY ONLY JoinedOut, texts \in Seq(Seq(T)), c \in T, big = Joined(texts, c)
<1>3. /\ pos \in [1..(n + 1) -> Nat \ {0}] /\ pos[n + 1] = 1 + Len(big)
      /\ \A i \in 1..n : SetAt(pos, texts, c, big, i)
  BY ONLY <1>2, n = Len(texts) DEF SetOut
<1>4. ASSUME NEW i \in 1..n PROVE \E a : Stands(texts[i], big, a) /\ a + Len(texts[i]) = pos[i + 1]
  BY ONLY <1>3, i \in 1..n DEF SetAt
<1>5. ASSUME NEW i \in 1..n, NEW k \in 1..Len(texts[i]) PROVE texts[i][k] \in ToSet(big)
  <2>1. PICK a : Stands(texts[i], big, a)
    BY ONLY <1>4, i \in 1..n
  <2> QED BY ONLY <1>1, <1>5, <2>1, StandsHas
<1>6. ASSUME n > 1 PROVE c \in ToSet(big)
  <2>1. 2 \in 1..n /\ 2 # 1
    BY ONLY <1>1, <1>6
  <2>2. pos[2] \in 1..Len(big) /\ big[pos[2]] = c
    BY ONLY <1>3, <2>1 DEF SetAt
  <2>3. DOMAIN big = 1..Len(big)
    BY ONLY <1>1
  <2> QED BY ONLY <2>2, <2>3 DEF ToSet
<1>7. ASSUME n > 0, texts[n] # <<>> PROVE big # <<>> /\ Last(big) = Last(texts[n])
  <2>1. n \in 1..n
    BY ONLY <1>1, <1>7
  <2>2. PICK a, s : Stands(s, big, a) /\ a + Len(s) = pos[n + 1] /\ s = texts[n]
    BY ONLY <1>4, <2>1
  <2>3. Stands(s, big, a) /\ s \in Seq(T) /\ s # <<>> /\ a + Len(s) = 1 + Len(big)
    BY ONLY <1>1, <1>3, <1>7, <2>1, <2>2
  <2> QED BY ONLY <1>1, <2>2, <2>3, StandsLast
<1> QED BY ONLY <1>5, <1>6, <1>7

\* One letter more.
LEMMA CutOff == \A parts : Cut(parts, " v ") = Append(parts, <<>>)
BY DEF Cut

Within(c) == c # " v "

\* A letter that divides no union goes to the part that is read.
LEMMA CutOn ==
  ASSUME NEW T, NEW parts \in Seq(Seq(T)), NEW tok \in Seq(T), NEW c \in T, Within(c)
  PROVE  Cut(Append(parts, tok), c) = Append(parts, Append(tok, c))
<1>1. PICK q, n, more, r : q = Append(parts, tok) /\ n = Len(parts) /\ more = Append(tok, c) /\ r = Append(parts, more)
  OBVIOUS
<1>2. more \in Seq(T)
  BY ONLY <1>1, tok \in Seq(T), c \in T
<1>3. n \in Nat
  BY ONLY <1>1, LenIsNat, parts \in Seq(Seq(T))
<1>4. \A x \in Seq(T) : /\ Append(parts, x) \in [1..(n + 1) -> Seq(T)] /\ Len(Append(parts, x)) = n + 1
                        /\ Append(parts, x)[n + 1] = x /\ \A k \in 1..n : Append(parts, x)[k] = parts[k]
  <2>1. ASSUME NEW U, NEW p \in Seq(U), NEW x \in U
        PROVE  /\ Append(p, x) \in [1..(Len(p) + 1) -> U] /\ Len(Append(p, x)) = Len(p) + 1
               /\ Append(p, x)[Len(p) + 1] = x /\ \A k \in 1..Len(p) : Append(p, x)[k] = p[k]
    <3>1. PICK u, m : u = Append(p, x) /\ m = Len(p)
      OBVIOUS
    <3>2. u \in Seq(U) /\ Len(u) = m + 1
      BY ONLY <3>1, p \in Seq(U), x \in U
    <3>3. u[m + 1] = x /\ \A k \in 1..m : u[k] = p[k]
      BY ONLY <3>1, p \in Seq(U), x \in U
    <3>4. u \in [1..(m + 1) -> U]
      BY ONLY <3>2
    <3> QED BY ONLY <3>1, <3>2, <3>3, <3>4
  <2> QED BY ONLY <1>1, <2>1, parts \in Seq(Seq(T))
<1>5. /\ q \in [1..(n + 1) -> Seq(T)] /\ Len(q) = n + 1 /\ q[n + 1] = tok /\ \A k \in 1..n : q[k] = parts[k]
      /\ r \in [1..(n + 1) -> Seq(T)] /\ r[n + 1] = more /\ \A k \in 1..n : r[k] = parts[k]
  BY ONLY <1>1, <1>2, <1>4, tok \in Seq(T)
<1>6. [q EXCEPT ![Len(q)] = Append(@, c)] = r
  <2>1. PICK z : z = [q EXCEPT ![n + 1] = more]
    OBVIOUS
  <2>2. \A k \in 1..(n + 1) : z[k] = r[k]
    <3>1. \A k \in 1..(n + 1) : (k = n + 1) \/ (k \in 1..n /\ k # n + 1)
      BY ONLY <1>3
    <3> QED BY ONLY <1>5, <2>1, <3>1
  <2>3. z \in [1..(n + 1) -> Seq(T)]
    BY ONLY <1>2, <1>5, <2>1
  <2>4. z = r
    BY ONLY <1>5, <2>2, <2>3
  <2>5. [q EXCEPT ![Len(q)] = Append(@, c)] = z
    <3>1. Append(q[n + 1], c) = more
      BY ONLY <1>1, <1>5
    <3> QED BY ONLY <1>5, <2>1, <3>1
  <2> QED BY ONLY <2>4, <2>5
<1> QED BY ONLY <1>1, <1>6, Within(c) DEF Cut, Within

\* The parts before and behind each letter.
Cutting(f, big) == \A k \in 1..Len(big) : f[k] = Cut(f[k - 1], big[k])
Whole(s) == \A k \in 1..Len(s) : s[k] # " v "

\* The empty text is one.
LEMMA EmptyIsText == \A U : <<>> \in Seq(U)
OBVIOUS

\* There is always a part that is read.
LEMMA CutKeeps ==
  ASSUME NEW T, NEW X, X = Seq(Seq(T)) \ {<<>>}, NEW parts \in X, NEW c \in T
  PROVE  Cut(parts, c) \in X
<1>1. PICK n, e : n = Len(parts) /\ e = <<>>
  OBVIOUS
<1>2. n \in Nat \ {0} /\ parts \in [1..n -> Seq(T)] /\ parts \in Seq(Seq(T))
  BY ONLY <1>1, X = Seq(Seq(T)) \ {<<>>}, parts \in X
<1>3. n \in 1..n
  BY ONLY <1>2
<1>4. CASE c = " v "
  <2>1. \A U : <<>> \in Seq(U)
    OBVIOUS
  <2>2. e \in Seq(T)
    BY ONLY <1>1, <2>1
  <2>3. Append(parts, e) \in Seq(Seq(T)) /\ Append(parts, e) # <<>>
    BY ONLY <1>2, <2>2
  <2> QED BY ONLY <1>1, <1>4, <2>3, X = Seq(Seq(T)) \ {<<>>} DEF Cut
<1>5. CASE c # " v "
  <2>1. PICK more, z : more = Append(parts[n], c) /\ z = [parts EXCEPT ![n] = more]
    OBVIOUS
  <2>2. more \in Seq(T)
    <3>1. parts[n] \in Seq(T)
      BY ONLY <1>2, <1>3
    <3> QED BY ONLY <2>1, <3>1, c \in T
  <2>3. z \in [1..n -> Seq(T)]
    BY ONLY <1>2, <2>1, <2>2
  <2>4. z \in Seq(Seq(T)) /\ Len(z) = n
    BY ONLY <1>2, <2>3, FromFunction
  <2>5. z # <<>>
    BY ONLY <1>2, <2>4
  <2>6. Cut(parts, c) = z
    BY ONLY <1>1, <1>5, <2>1 DEF Cut
  <2> QED BY ONLY <2>4, <2>5, <2>6, X = Seq(Seq(T)) \ {<<>>}
<1> QED BY ONLY <1>4, <1>5

\* The parts after each letter.
LEMMA CutSteps ==
  ASSUME NEW T, NEW s \in Seq(T)
  PROVE  \E f : f[0] = <<<<>>>> /\ f[Len(s)] = FoldLeft(Cut, <<<<>>>>, s) /\ Cutting(f, s)
<1> DEFINE n == Len(s)
           X == Seq(Seq(T)) \ {<<>>}
           first == <<<<>>>>
           G == [z \in X \X (1..n) |-> Cut(z[1], s[z[2]])]
           Eq(h) == h = [q \in SUBSET DOMAIN s |->
                           IF q = {} THEN first ELSE Cut(h[q \ {Max(q)}], s[Max(q)])]
           it == CHOOSE h : Eq(h)
<1>1. n \in Nat /\ DOMAIN s = 1..n /\ \A k \in 1..n : s[k] \in T
  OBVIOUS
<1>2. \A acc \in X, k \in 1..n : Cut(acc, s[k]) \in X
  BY <1>1, CutKeeps
<1>3. /\ G \in [X \X (1..n) -> X]
      /\ \A acc \in X, k \in 1..n : G[<<acc, k>>] = Cut(acc, s[k])
  BY <1>2
<1>4. first \in X
  <2>1. \A U : <<>> \in Seq(U)
    OBVIOUS
  <2>2. \A U : \A x \in U : <<x>> \in Seq(U) /\ <<x>> # <<>>
    OBVIOUS
  <2> QED BY ONLY <2>1, <2>2
<1> HIDE DEF n, X, G, first
<1>5. PICK h \in [SUBSET (1..n) -> X] : SetSteps(h, n, first, G)
  BY ONLY <1>1, <1>3, <1>4, SetRecursion
<1>6. \A q \in SUBSET (1..n) : q # {} => Max(q) \in 1..n /\ q \ {Max(q)} \in SUBSET (1..n)
  BY <1>1, MaxOfSet
<1>7. Eq(h)
  BY <1>1, <1>3, <1>5, <1>6 DEF SetSteps
<1>8. Eq(it)
  BY <1>7
<1>9. FoldLeft(Cut, first, s) = it[1..n]
  BY <1>1 DEF FoldLeft, MapThenFoldSet
<1> HIDE DEF it
<1>10. /\ it[{}] = first
       /\ \A q \in SUBSET (1..n) : q # {} => it[q] = Cut(it[q \ {Max(q)}], s[Max(q)])
  BY <1>1, <1>8
<1>11. SetStepsWithin(it, n, X, first, G)
  BY <1>3, <1>6, <1>10 DEF SetStepsWithin
<1>12. PICK f \in [0..n -> X] : f[n] = it[1..n] /\ Steps(f, n, first, G)
  BY ONLY <1>1, <1>3, <1>4, <1>11, FoldSteps
<1>13. \A k \in 1..n : f[k] = Cut(f[k - 1], s[k])
  <2>1. \A k \in 1..n : f[k - 1] \in X
    BY <1>1, <1>12
  <2> QED BY <1>3, <1>12, <2>1 DEF Steps
<1> QED BY <1>9, <1>12, <1>13 DEF n, first, Steps, Cutting

\* A text without the separator of unions is read on.
LEMMA CutRun ==
  ASSUME NEW T, NEW big \in Seq(T), NEW f, Cutting(f, big),
         NEW s \in Seq(T), NEW a, Stands(s, big, a), NEW parts \in Seq(Seq(T)),
         f[a - 1] = Append(parts, <<>>), Whole(s)
  PROVE  f[a + Len(s) - 1] = Append(parts, s)
<1> DEFINE n == Len(s)
           upto(m) == Append(parts, SubSeq(s, 1, m))
           S == {m \in 0..n : f[a + m - 1] = upto(m)}
<1>1. n \in Nat /\ a \in Nat \ {0} /\ a + n <= Len(big) + 1 /\ Len(big) \in Nat
  BY DEF Stands
<1>2. /\ SubSeq(s, 1, 0) = <<>> /\ SubSeq(s, 1, n) = s
      /\ \A i \in 0..n : SubSeq(s, 1, i) \in Seq(T)
      /\ \A i \in 0..(n - 1) : SubSeq(s, 1, i + 1) = Append(SubSeq(s, 1, i), s[i + 1])
  BY ONLY PrefixSteps, s \in Seq(T)
<1>21. \A k \in 1..n : s[k] \in T
  OBVIOUS
<1> HIDE DEF n
<1>3. 0 \in S
  <2>1. a + 0 - 1 = a - 1 /\ 0 \in 0..n
    BY <1>1
  <2> QED BY <1>2, <2>1
<1>4. ASSUME NEW m \in 0..(n - 1), m \in S PROVE m + 1 \in S
  <2>1. /\ m + 1 \in 1..n /\ m + 1 \in 0..n /\ m \in 0..n /\ a + m \in 1..Len(big)
        /\ (a + m) - 1 = a + m - 1 /\ a + (m + 1) - 1 = a + m
    BY <1>1
  <2>2. PICK c, so : c = s[m + 1] /\ so = SubSeq(s, 1, m)
    OBVIOUS
  <2>3. c # " v " /\ c \in T /\ so \in Seq(T)
    BY <1>2, <1>21, <2>1, <2>2 DEF Whole, n
  <2>4. big[a + m] = c
    BY <1>1, <2>1, <2>2 DEF Stands, n
  <2>5. f[a + m] = Cut(Append(parts, so), c)
    <3>1. f[a + m - 1] = Append(parts, so)
      BY <1>4, <2>2
    <3> QED BY <2>1, <2>4, <3>1 DEF Cutting
  <2>6. SubSeq(s, 1, m + 1) = Append(so, c)
    BY <1>2, <2>1, <2>2
  <2>7. Cut(Append(parts, so), c) = Append(parts, Append(so, c))
    <3>1. Within(c)
      BY ONLY <2>3 DEF Within
    <3>2. c \in T /\ so \in Seq(T)
      BY ONLY <2>3
    <3> QED BY ONLY <3>1, <3>2, CutOn, parts \in Seq(Seq(T))
  <2>8. f[a + (m + 1) - 1] = upto(m + 1)
    BY <2>1, <2>5, <2>6, <2>7
  <2> QED BY <2>1, <2>8
<1> HIDE DEF S
<1>5. 0..n \subseteq S
  BY ONLY <1>1, <1>3, <1>4, IntervalSet
<1>6. n \in S
  BY <1>1, <1>5
<1> QED BY <1>2, <1>6 DEF S, n

\* A union is cut into its parts.
LEMMA UnionCut ==
  ASSUME NEW T, " v " \in T, NEW texts \in Seq(Seq(T)), texts # <<>>, \A i \in 1..Len(texts) : Whole(texts[i])
  PROVE  FoldLeft(Cut, <<<<>>>>, Joined(texts, " v ")) = texts
<1>1. PICK n, big, c, e : n = Len(texts) /\ big = Joined(texts, c) /\ c = " v " /\ e = <<>>
  OBVIOUS
<1>2. n \in Nat \ {0} /\ \A i \in 1..n : texts[i] \in Seq(T) /\ Whole(texts[i])
  <2>1. n \in Nat \ {0} /\ \A i \in 1..n : texts[i] \in Seq(T)
    <3>1. n \in Nat
      BY ONLY <1>1, LenIsNat, texts \in Seq(Seq(T))
    <3>2. PICK U : U = Seq(T)
      OBVIOUS
    <3>3. texts \in Seq(U)
      BY ONLY <3>2, texts \in Seq(Seq(T))
    <3>6. n = Len(texts)
      BY ONLY <1>1
    <3>4. n # 0
      BY ONLY <3>6, <3>3, texts # <<>>
    <3>5. \A i \in 1..n : texts[i] \in U
      BY ONLY <3>6, <3>3
    <3> QED BY ONLY <3>1, <3>2, <3>4, <3>5
  <2>2. \A i \in 1..n : Whole(texts[i])
    BY ONLY <1>1, \A i \in 1..Len(texts) : Whole(texts[i])
  <2> QED BY ONLY <2>1, <2>2
<1>3. c \in T
  BY <1>1
<1>4. big \in Seq(T) /\ \E pos : SetOut(pos, texts, c, big)
  BY ONLY <1>1, <1>3, JoinedOut, texts \in Seq(Seq(T))
<1>40. Len(big) \in Nat
  BY ONLY <1>4, LenIsNat
<1>5. PICK pos : /\ pos \in [1..(n + 1) -> Nat \ {0}] /\ pos[1] = 1 /\ pos[n + 1] = 1 + Len(big)
                 /\ \A i \in 1..n : SetAt(pos, texts, c, big, i)
  BY ONLY <1>1, <1>4 DEF SetOut
<1>6. PICK f : f[0] = <<e>> /\ f[Len(big)] = FoldLeft(Cut, <<e>>, big) /\ Cutting(f, big)
  BY ONLY <1>1, <1>4, CutSteps
<1>7. /\ \A i \in 0..n : SubSeq(texts, 1, i) \in Seq(Seq(T))
      /\ \A i \in 0..(n - 1) : SubSeq(texts, 1, i + 1) = Append(SubSeq(texts, 1, i), texts[i + 1])
      /\ SubSeq(texts, 1, n) = texts /\ SubSeq(texts, 1, 0) = e
  BY ONLY <1>1, PrefixSteps, texts \in Seq(Seq(T))
<1> DEFINE S == {k \in 0..(n - 1) : f[pos[k + 1 + 1] - 1] = SubSeq(texts, 1, k + 1)}
\* Behind one text.
<1>8. ASSUME NEW i \in 1..n, NEW a, Stands(texts[i], big, a), pos[i + 1] = a + Len(texts[i]),
             f[a - 1] = Append(SubSeq(texts, 1, i - 1), <<>>)
      PROVE  f[pos[i + 1] - 1] = SubSeq(texts, 1, i)
  <2>1. PICK s, parts : s = texts[i] /\ parts = SubSeq(texts, 1, i - 1)
    OBVIOUS
  <2>2. i - 1 \in 0..n /\ i - 1 \in 0..(n - 1) /\ (i - 1) + 1 = i
    BY ONLY <1>2, i \in 1..n
  <2>3. s \in Seq(T) /\ parts \in Seq(Seq(T)) /\ Whole(s) /\ Stands(s, big, a) /\ f[a - 1] = Append(parts, <<>>)
    BY ONLY <1>2, <1>7, <1>8, <2>1, <2>2
  <2>4. f[a + Len(s) - 1] = Append(parts, s)
    <3>1. big \in Seq(T)
      BY ONLY <1>4
    <3>2. Cutting(f, big)
      BY ONLY <1>6
    <3> QED BY ONLY <2>3, <3>1, <3>2, CutRun
  <2>5. Append(parts, s) = SubSeq(texts, 1, i)
    BY ONLY <1>7, <2>1, <2>2
  <2>6. PICK m, x : m = Len(s) /\ x = pos[i + 1]
    OBVIOUS
  <2>7. m \in Nat
    BY ONLY <2>3, <2>6, LenIsNat
  <2>8. x = a + m
    BY ONLY <2>1, <2>6, pos[i + 1] = a + Len(texts[i])
  <2>10. f[a + m - 1] = Append(parts, s)
    BY ONLY <2>4, <2>6
  <2>9. f[x - 1] = Append(parts, s)
    <3>1. a \in Nat
      BY ONLY <2>3 DEF Stands
    <3> QED BY ONLY <2>7, <2>8, <2>10, <3>1
  <2> QED BY ONLY <2>5, <2>6, <2>9
<1>9. 0 \in S
  <2>1. PICK i, a : i = 1 /\ a = 1
    OBVIOUS
  <2>2. 0 \in 0..(n - 1) /\ i \in 1..n /\ i - 1 = 0 /\ a - 1 = 0 /\ 0 + 1 = i
    BY ONLY <1>2, <2>1
  <2>3. Stands(texts[i], big, a) /\ pos[i + 1] = a + Len(texts[i])
    BY ONLY <1>5, <2>1, <2>2 DEF SetAt
  <2>4. f[a - 1] = Append(SubSeq(texts, 1, i - 1), <<>>)
    <3>1. Append(e, e) = <<e>>
      <4>2. e \in Seq(T) /\ e \in Seq(Seq(T))
        BY ONLY <1>1, EmptyIsText
      <4>3. Append(e, e) = e \o <<e>>
        BY ONLY <4>2, AppendIsConcat
      <4>4. <<e>> \in Seq(Seq(T))
        BY ONLY <4>2
      <4>5. e \o <<e>> = <<e>>
        BY ONLY <1>1, <4>4, ConcatEmptySeq
      <4> QED BY ONLY <4>3, <4>5
    <3> QED BY ONLY <1>1, <1>6, <1>7, <2>2, <3>1
  <2>5. f[pos[i + 1] - 1] = SubSeq(texts, 1, i)
    BY ONLY <1>8, <2>2, <2>3, <2>4
  <2> QED BY ONLY <2>2, <2>5
<1>10. ASSUME NEW k \in 0..((n - 1) - 1), k \in S PROVE k + 1 \in S
  <2>1. PICK i, p, a, parts : i = k + 2 /\ p = pos[i] /\ a = p + 1 /\ parts = SubSeq(texts, 1, k + 1)
    OBVIOUS
  <2>2. /\ i \in 1..n /\ i # 1 /\ i - 1 = k + 1 /\ k + 1 + 1 = i /\ (k + 1) + 1 = i /\ k + 1 \in 0..(n - 1)
        /\ k + 1 \in 1..n /\ (k + 1) - 1 = k /\ k \in 0..(n - 1) /\ k + 1 \in 0..n
    BY ONLY <1>2, <2>1, k \in 0..((n - 1) - 1)
  <2>3. p \in 1..Len(big) /\ big[p] = c /\ Stands(texts[i], big, a) /\ pos[i + 1] = a + Len(texts[i])
    BY ONLY <1>5, <2>1, <2>2 DEF SetAt
  <2>4. f[p - 1] = parts
    BY ONLY <1>10, <2>1, <2>2
  <2>5. parts = Append(SubSeq(texts, 1, k), texts[k + 1]) /\ SubSeq(texts, 1, k) \in Seq(Seq(T)) /\ texts[k + 1] \in Seq(T)
    <3>1. k \in 0..n
      BY ONLY <1>2, <2>2
    <3> QED BY ONLY <1>2, <1>7, <2>1, <2>2, <3>1
  <2>6. f[p] = Append(parts, <<>>)
    <3>1. f[p] = Cut(f[p - 1], c)
      BY ONLY <1>6, <2>3 DEF Cutting
    <3>2. Cut(parts, c) = Append(parts, <<>>)
      BY ONLY <1>1, CutOff
    <3> QED BY ONLY <2>4, <3>1, <3>2
  <2>7. a - 1 = p
    <3>1. p \in Nat /\ a = p + 1
      BY ONLY <1>40, <2>1, <2>3
    <3> QED BY ONLY <3>1
  <2>8. f[a - 1] = Append(SubSeq(texts, 1, i - 1), <<>>)
    BY ONLY <2>1, <2>2, <2>6, <2>7
  <2>9. f[pos[i + 1] - 1] = SubSeq(texts, 1, i)
    BY ONLY <1>8, <2>2, <2>3, <2>8
  <2> QED BY ONLY <2>2, <2>9
<1> HIDE DEF S
<1>11. 0..(n - 1) \subseteq S
  <2>1. PICK m : m = n - 1
    OBVIOUS
  <2>2. m \in Nat
    BY ONLY <1>2, <2>1
  <2>3. 0 \in S /\ \A k \in 0..(m - 1) : k \in S => k + 1 \in S
    BY ONLY <1>9, <1>10, <2>1
  <2>4. 0..m \subseteq S
    BY ONLY <2>2, <2>3, IntervalSet
  <2> QED BY ONLY <2>1, <2>4
<1>12. f[Len(big)] = texts
  <2>1. n - 1 \in 0..(n - 1) /\ (n - 1) + 1 = n
    BY ONLY <1>2
  <2>2. f[pos[n + 1] - 1] = SubSeq(texts, 1, n)
    BY ONLY <1>11, <2>1 DEF S
  <2>3. pos[n + 1] - 1 = Len(big)
    BY ONLY <1>5, <1>40
  <2> QED BY ONLY <1>7, <2>2, <2>3
<1> QED BY ONLY <1>1, <1>6, <1>12

-----------------------------------------------------------------------------
(* Written queries are made into dl-queries. *)

\* A conjunction of literals, and its letters.
IsConj(conj) == conj \in Seq(ToSet(conj)) /\ conj # <<>> /\ \A j \in DOMAIN conj : isLiteral(conj[j])

LettersOf(l) == ToSet(l.name) \cup UNION {ToSet(l.args[k]) : k \in DOMAIN l.args}
Letters(conj) == Marks \cup UNION {LettersOf(conj[j]) : j \in DOMAIN conj}

\* A text is one over each set that has its letters.
LEMMA TextOver ==
  ASSUME NEW U, NEW T, NEW s \in Seq(U), ToSet(s) \subseteq T
  PROVE  s \in Seq(T)
<1>1. PICK n : n = Len(s)
  OBVIOUS
<1>2. n \in Nat
  BY ONLY <1>1, LenIsNat, s \in Seq(U)
<1>3. s \in [1..n -> U] /\ DOMAIN s = 1..n
  BY ONLY <1>1, s \in Seq(U)
<1>4. \A k \in 1..n : s[k] \in T
  BY ONLY <1>3, ToSet(s) \subseteq T DEF ToSet
<1>5. s \in [1..n -> T]
  BY ONLY <1>3, <1>4
<1> QED BY ONLY <1>2, <1>5, FromFunction

\* No name has a mark or the separator of unions in it.
LEMMA LettersAreClean ==
  ASSUME NEW t, isName(t)
  PROVE  " v " \notin ToSet(t) /\ ToSet(t) \cap Marks = {}
<1>1. t \in Seq(ToSet(t)) /\ Clean(t)
  BY ONLY isName(t), NameIsClean
<1>2. \A k \in DOMAIN t : t[k] \notin Marks \cup {" v "}
  <2>1. PICK U : U = ToSet(t)
    OBVIOUS
  <2>2. t \in Seq(U)
    BY ONLY <1>1, <2>1
  <2>3. DOMAIN t = 1..Len(t)
    BY ONLY <2>2
  <2> QED BY ONLY <1>1, <2>3 DEF Clean
<1> QED BY ONLY <1>2 DEF ToSet

\* A literal is written in its letters.
LEMMA LiteralOver ==
  ASSUME NEW l, isLiteral(l)
  PROVE  " v " \notin LettersOf(l) /\ \A T : LettersOf(l) \subseteq T => Over(l, T)
<1>1. isName(l.name) /\ l.args \in Seq(ToSet(l.args)) /\ \A k \in DOMAIN l.args : isName(l.args[k])
  BY ONLY isLiteral(l) DEF isLiteral
<1>2. " v " \notin LettersOf(l)
  <2>1. " v " \notin ToSet(l.name) /\ \A k \in DOMAIN l.args : " v " \notin ToSet(l.args[k])
    BY ONLY <1>1, LettersAreClean
  <2> QED BY ONLY <2>1 DEF LettersOf
<1>3. ASSUME NEW T, LettersOf(l) \subseteq T PROVE Over(l, T)
  <2>1. \A t : isName(t) => t \in Seq(ToSet(t))
    BY ONLY NameIsClean
  <2>2. l.name \in Seq(T)
    <3>1. ToSet(l.name) \subseteq T
      BY ONLY <1>3 DEF LettersOf
    <3> QED BY ONLY <1>1, <2>1, <3>1, TextOver
  <2>3. \A k \in DOMAIN l.args : l.args[k] \in Seq(T)
    <3>1. ASSUME NEW k \in DOMAIN l.args PROVE l.args[k] \in Seq(T)
      <4>1. ToSet(l.args[k]) \subseteq T
        BY ONLY <1>3, k \in DOMAIN l.args DEF LettersOf
      <4>2. l.args[k] \in Seq(ToSet(l.args[k]))
        BY ONLY <1>1, <2>1, k \in DOMAIN l.args
      <4> QED BY ONLY <4>1, <4>2, TextOver
    <3> QED BY ONLY <3>1
  <2>4. ToSet(l.args) \subseteq Seq(T)
    BY ONLY <2>3 DEF ToSet
  <2>5. l.args \in Seq(Seq(T))
    BY ONLY <1>1, <2>4, TextOver
  <2> QED BY ONLY <2>2, <2>5, isLiteral(l) DEF Over
<1> QED BY ONLY <1>2, <1>3

\* A conjunction is written in its letters.
LEMMA ConjIsOver ==
  ASSUME NEW conj, IsConj(conj)
  PROVE  /\ " v " \notin Letters(conj) /\ Marks \subseteq Letters(conj)
         /\ \A T : Letters(conj) \subseteq T => Marks \subseteq T /\ ConjOver(conj, T)
<1>1. \A j \in DOMAIN conj : isLiteral(conj[j])
  BY ONLY IsConj(conj) DEF IsConj
<1>2. " v " \notin Letters(conj)
  <2>1. \A j \in DOMAIN conj : " v " \notin LettersOf(conj[j])
    BY ONLY <1>1, LiteralOver
  <2>2. " v " \notin Marks
    BY DEF Marks
  <2> QED BY ONLY <2>1, <2>2 DEF Letters
<1>3. Marks \subseteq Letters(conj)
  BY DEF Letters
<1>4. ASSUME NEW T, Letters(conj) \subseteq T PROVE Marks \subseteq T /\ ConjOver(conj, T)
  <2>1. \A j \in DOMAIN conj : LettersOf(conj[j]) \subseteq T
    BY ONLY <1>4 DEF Letters
  <2>2. \A j \in DOMAIN conj : Over(conj[j], T)
    BY ONLY <1>1, <2>1, LiteralOver
  <2>3. Marks \subseteq T
    BY ONLY <1>3, <1>4
  <2> QED BY ONLY <2>2, <2>3, IsConj(conj) DEF IsConj, ConjOver
<1> QED BY ONLY <1>2, <1>3, <1>4

\* How the text of an atom begins, and ends.
LEMMA AtomEnds ==
  ASSUME NEW T, Marks \subseteq T, NEW l, Over(l, T)
  PROVE  AtomText(l) \in Seq(T) /\ AtomText(l) # <<>> /\ Last(AtomText(l)) = ")"
         /\ \E k \in 1..Len(AtomText(l)) : AtomText(l)[k] = "("
<1>1. PICK p, u, v, tok, n, k, m : /\ p = PlainText(l) /\ u = l.args[1] /\ v = Second(l) /\ tok = AtomText(l)
                                   /\ n = Len(PlainText(l)) /\ k = Len(l.args[1]) /\ m = Len(Second(l))
  OBVIOUS
<1>2. Divided(tok, p, u, v, n, k, m)
  BY ONLY <1>1, AtomDivided, Marks \subseteq T, Over(l, T)
<1>3. tok \in Seq(T)
  BY ONLY <1>1, AtomLetters, Marks \subseteq T, Over(l, T)
<1>4. PICK e, o : e = n + k + m + 2 /\ o = n + 1
  OBVIOUS
<1>5. n \in Nat /\ k \in Nat /\ m \in Nat /\ Len(tok) = e /\ tok[o] = "(" /\ tok[e] = ")"
  BY ONLY <1>2, <1>4 DEF Divided
<1>6. n \in Nat /\ k \in Nat /\ m \in Nat
  BY ONLY <1>5
<1>7. e # 0 /\ o \in 1..e /\ e \in Nat
  BY ONLY <1>4, <1>6
<1>8. Len(tok) = e
  BY ONLY <1>5
<1>9. tok # <<>>
  BY ONLY <1>3, <1>7, <1>8
<1>10. Last(tok) = ")"
  BY ONLY <1>5 DEF Last
<1> QED BY ONLY <1>1, <1>3, <1>5, <1>7, <1>9, <1>10

\* What ends at a parenthesis is not in brackets.
LEMMA EndsOpen ==
  ASSUME NEW s, Last(s) = ")"
  PROVE  Unbracketed(s) = s
BY DEF Unbracketed

\* A conjunction ends with a parenthesis, and has no separator of unions.
LEMMA ConjEnds ==
  ASSUME NEW conj, IsConj(conj), NEW text, text = ConjText(conj)
  PROVE  /\ text \in Seq(Letters(conj)) /\ text # <<>> /\ Last(text) = ")"
         /\ "(" \in ToSet(text) /\ " v " \notin ToSet(text)
<1>1. PICK T, n, texts, c : T = Letters(conj) /\ n = Len(conj) /\ texts = Texts(conj) /\ c = ","
  OBVIOUS
<1>2. " v " \notin T /\ Marks \subseteq T /\ ConjOver(conj, T)
  BY ONLY <1>1, ConjIsOver, IsConj(conj)
<1>3. /\ n \in Nat \ {0} /\ texts \in Seq(Seq(T)) /\ Len(texts) = n
      /\ \A j \in 1..n : Over(conj[j], T) /\ texts[j] = AtomText(conj[j])
  BY ONLY <1>1, <1>2, TextsOver
<1>4. c \in T
  BY ONLY <1>1, <1>2 DEF Marks
<1>5. text = Joined(texts, c)
  BY ONLY <1>1, text = ConjText(conj) DEF ConjText, Texts
<1>6. text \in Seq(T)
  BY ONLY <1>3, <1>4, <1>5, JoinedOut
<1>7. n \in 1..n /\ n > 0
  BY ONLY <1>3
<1>8. texts[n] # <<>> /\ Last(texts[n]) = ")" /\ \E k \in 1..Len(texts[n]) : texts[n][k] = "("
  <2>1. PICK l : l = conj[n]
    OBVIOUS
  <2>2. Over(l, T) /\ texts[n] = AtomText(l)
    BY ONLY <1>3, <1>7, <2>1
  <2> QED BY ONLY <1>2, <2>2, AtomEnds
<1>9. /\ \A i \in 1..n : \A k \in 1..Len(texts[i]) : texts[i][k] \in ToSet(text)
      /\ n > 0 /\ texts[n] # <<>> => text # <<>> /\ Last(text) = Last(texts[n])
  <2>1. n = Len(texts) /\ texts \in Seq(Seq(T))
    BY ONLY <1>3
  <2> QED BY ONLY <1>4, <1>5, <2>1, JoinedHas
<1>10. text # <<>> /\ Last(text) = ")" /\ "(" \in ToSet(text)
  BY ONLY <1>7, <1>8, <1>9
<1>11. " v " \notin ToSet(text)
  <2>1. ToSet(text) \subseteq T
    <3>1. \A k \in DOMAIN text : text[k] \in T
      BY ONLY <1>6
    <3> QED BY ONLY <3>1 DEF ToSet
  <2> QED BY ONLY <1>2, <2>1
<1> QED BY ONLY <1>1, <1>6, <1>10, <1>11

\* A union of conjunctions.
IsUnionOf(u) == u \in Seq(ToSet(u)) /\ u # <<>> /\ \A i \in DOMAIN u : IsConj(u[i])

\* The members of a union are conjunctions.
LEMMA UnionMembers ==
  ASSUME NEW u, IsUnionOf(u)
  PROVE  Len(u) \in Nat \ {0} /\ DOMAIN u = 1..Len(u) /\ \A i \in 1..Len(u) : IsConj(u[i])
<1>1. PICK S : S = ToSet(u)
  OBVIOUS
<1>2. u \in Seq(S) /\ u # <<>>
  BY ONLY <1>1, IsUnionOf(u) DEF IsUnionOf
<1>3. Len(u) \in Nat \ {0} /\ DOMAIN u = 1..Len(u)
  BY ONLY <1>2
<1> QED BY ONLY <1>3, IsUnionOf(u) DEF IsUnionOf

\* The texts of its parts.
PartTexts(u) == [i \in DOMAIN u |-> ConjText(u[i])]

\* The texts of the conjunctions of a union are whole.
LEMMA PartTextsOver ==
  ASSUME NEW u, IsUnionOf(u)
  PROVE  \E T : /\ " v " \in T /\ PartTexts(u) \in Seq(Seq(T)) /\ Len(PartTexts(u)) = Len(u)
                /\ \A i \in 1..Len(u) : PartTexts(u)[i] = ConjText(u[i]) /\ Whole(PartTexts(u)[i])
<1>1. PICK n, texts, T : /\ n = Len(u) /\ texts = PartTexts(u)
                         /\ T = {" v "} \cup UNION {Letters(u[i]) : i \in DOMAIN u}
  OBVIOUS
<1>2. n \in Nat /\ DOMAIN u = 1..n /\ \A i \in 1..n : IsConj(u[i])
  BY ONLY <1>1, UnionMembers, IsUnionOf(u)
<1>3. ASSUME NEW i \in 1..n PROVE ConjText(u[i]) \in Seq(T) /\ Whole(ConjText(u[i]))
  <2>1. PICK U, t : U = Letters(u[i]) /\ t = ConjText(u[i])
    OBVIOUS
  <2>2. t \in Seq(U) /\ " v " \notin ToSet(t)
    BY ONLY <1>2, <2>1, ConjEnds, i \in 1..n
  <2>3. U \subseteq T
    BY ONLY <1>1, <1>2, <2>1, i \in 1..n
  <2>4. DOMAIN t = 1..Len(t) /\ \A k \in DOMAIN t : t[k] \in U
    <3>1. t \in Seq(U)
      BY ONLY <2>2
    <3> QED BY ONLY <3>1
  <2>5. Whole(t)
    BY ONLY <2>2, <2>4 DEF Whole, ToSet
  <2>6. ToSet(t) \subseteq T
    BY ONLY <2>3, <2>4 DEF ToSet
  <2>7. t \in Seq(T)
    BY ONLY <2>2, <2>6, TextOver
  <2> QED BY ONLY <2>1, <2>5, <2>7
<1>4. texts = [i \in 1..n |-> ConjText(u[i])]
  BY ONLY <1>1, <1>2 DEF PartTexts
<1>5. texts \in [1..n -> Seq(T)]
  BY ONLY <1>3, <1>4
<1>6. texts \in Seq(Seq(T)) /\ Len(texts) = n
  BY ONLY <1>2, <1>5, FromFunction
<1>7. \A i \in 1..n : texts[i] = ConjText(u[i]) /\ Whole(texts[i])
  BY ONLY <1>3, <1>4
<1>8. " v " \in T
  BY ONLY <1>1
<1> QED BY ONLY <1>1, <1>6, <1>7, <1>8

\* A union's text, and what it is made into.
LEMMA UnionParsed ==
  ASSUME NEW u, IsUnionOf(u), NEW text, text = UnionText(u)
  PROVE  /\ Unbracketed(text) = text
         /\ Len(u) = 1 => text = ConjText(u[1])
         /\ Len(u) > 1 => /\ isUnion(text)
                          /\ UnionAtomSeparatorParse(text) = [ok |-> TRUE, atoms |-> [i \in DOMAIN u |-> AtomsFor(u[i])]]
<1>1. PICK n, texts, c : n = Len(u) /\ texts = PartTexts(u) /\ c = " v "
  OBVIOUS
<1>2. n \in Nat \ {0} /\ DOMAIN u = 1..n /\ \A i \in 1..n : IsConj(u[i])
  BY ONLY <1>1, UnionMembers, IsUnionOf(u)
<1>3. PICK T : /\ " v " \in T /\ texts \in Seq(Seq(T)) /\ Len(texts) = n
               /\ \A i \in 1..n : texts[i] = ConjText(u[i]) /\ Whole(texts[i])
  BY ONLY <1>1, PartTextsOver, IsUnionOf(u)
<1>4. text = Joined(texts, c) /\ text = Joined(texts, " v ")
  BY ONLY <1>1, text = UnionText(u) DEF UnionText, PartTexts
<1>5. c \in T
  BY ONLY <1>1, <1>3
<1>6. /\ \A i \in 1..n : \A k \in 1..Len(texts[i]) : texts[i][k] \in ToSet(text)
      /\ n > 1 => c \in ToSet(text)
      /\ n > 0 /\ texts[n] # <<>> => text # <<>> /\ Last(text) = Last(texts[n])
  <2>1. texts \in Seq(Seq(T)) /\ n = Len(texts)
    BY ONLY <1>3
  <2>2. text = Joined(texts, c)
    BY ONLY <1>4
  <2>3. /\ \A i \in 1..n : \A k \in 1..Len(texts[i]) : texts[i][k] \in ToSet(Joined(texts, c))
        /\ n > 1 => c \in ToSet(Joined(texts, c))
        /\ n > 0 /\ texts[n] # <<>> => Joined(texts, c) # <<>> /\ Last(Joined(texts, c)) = Last(texts[n])
    BY ONLY <1>5, <2>1, JoinedHas
  <2> QED BY ONLY <2>2, <2>3
<1>7. Unbracketed(text) = text
  <2>1. n \in 1..n /\ n > 0
    BY ONLY <1>2
  <2>2. texts[n] # <<>> /\ Last(texts[n]) = ")"
    BY ONLY <1>2, <1>3, <2>1, ConjEnds
  <2>3. Last(text) = ")"
    BY ONLY <1>6, <2>1, <2>2
  <2> QED BY ONLY <2>3, EndsOpen
<1>8. ASSUME n = 1 PROVE text = ConjText(u[1])
  <2>1. PICK s, t : s = texts[1] /\ t = ConjText(u[1])
    OBVIOUS
  <2>2. 1 \in 1..n
    BY ONLY <1>8
  <2>3. s = t /\ s \in Seq(T)
    <3>1. texts \in Seq(Seq(T)) /\ 1 \in 1..Len(texts)
      BY ONLY <1>3, <2>2
    <3>2. s \in Seq(T)
      BY ONLY <2>1, <3>1
    <3> QED BY ONLY <1>3, <2>1, <2>2, <3>2
  <2>4. PICK pos : SetOut(pos, texts, c, text)
    BY ONLY <1>3, <1>4, <1>5, JoinedOut
  <2>5. pos[n + 1] = 1 + Len(text) /\ SetAt(pos, texts, c, text, 1)
    BY ONLY <1>3, <2>2, <2>4 DEF SetOut
  <2>6. Stands(s, text, 1) /\ pos[1 + 1] = 1 + Len(s)
    BY ONLY <2>1, <2>5 DEF SetAt
  <2>7. PICK k, m : k = Len(s) /\ m = Len(text)
    OBVIOUS
  <2>8. text \in Seq(T)
    BY ONLY <1>3, <1>4, <1>5, JoinedOut
  <2>9. k \in Nat /\ m \in Nat
    BY ONLY <2>3, <2>7, <2>8, LenIsNat
  <2>10. 1 + k = 1 + m
    BY ONLY <1>8, <2>5, <2>6, <2>7
  <2>11. k = m
    BY ONLY <2>9, <2>10
  <2>12. \A j \in 1..k : text[1 + j - 1] = s[j]
    BY ONLY <2>6, <2>7 DEF Stands
  <2>13. \A j \in 1..k : 1 + j - 1 = j
    BY ONLY <2>9
  <2>14. \A j \in 1..k : text[j] = s[j]
    BY ONLY <2>12, <2>13
  <2>15. text \in [1..m -> T] /\ s \in [1..m -> T]
    <3>1. s \in [1..k -> T]
      BY ONLY <2>3, <2>7
    <3>2. text \in [1..m -> T]
      BY ONLY <2>7, <2>8
    <3> QED BY ONLY <2>11, <3>1, <3>2
  <2>17. \A j \in 1..m : text[j] = s[j]
    BY ONLY <2>11, <2>14
  <2>16. text = s
    <3>1. text = [j \in 1..m |-> text[j]]
      BY ONLY <2>15
    <3>2. s = [j \in 1..m |-> s[j]]
      BY ONLY <2>15
    <3> QED BY ONLY <2>17, <3>1, <3>2
  <2> QED BY ONLY <2>1, <2>3, <2>16
<1>9. ASSUME n > 1 PROVE isUnion(text)
  BY ONLY <1>1, <1>6, <1>9 DEF isUnion
<1>10. FoldLeft(Cut, <<<<>>>>, text) = texts
  <2>1. texts # <<>>
    BY ONLY <1>2, <1>3
  <2>2. texts \in Seq(Seq(T)) /\ \A i \in 1..Len(texts) : Whole(texts[i])
    BY ONLY <1>3
  <2>3. " v " \in T
    BY ONLY <1>3
  <2> QED BY ONLY <1>4, <2>1, <2>2, <2>3, UnionCut
<1>11. \A i \in 1..n : AtomSeparatorParse(texts[i]) = [ok |-> TRUE, atoms |-> AtomsFor(u[i])]
  <2>1. ASSUME NEW i \in 1..n PROVE AtomSeparatorParse(texts[i]) = [ok |-> TRUE, atoms |-> AtomsFor(u[i])]
    <3>1. PICK U, conj : conj = u[i] /\ U = Letters(conj)
      OBVIOUS
    <3>2. Marks \subseteq U /\ ConjOver(conj, U)
      BY ONLY <1>2, <3>1, ConjIsOver, i \in 1..n
    <3>3. texts[i] = ConjText(conj)
      BY ONLY <1>3, <3>1, i \in 1..n
    <3> QED BY ONLY <3>1, <3>2, <3>3, ConjParsed
  <2> QED BY ONLY <2>1
<1>12. UnionAtomSeparatorParse(text) = [ok |-> TRUE, atoms |-> [i \in DOMAIN u |-> AtomsFor(u[i])]]
  <2>1. PICK parts, yes : parts = Separated(texts) /\ yes = TRUE
    OBVIOUS
  <2>2. DOMAIN texts = 1..n
    <3>1. texts \in Seq(Seq(T)) /\ Len(texts) = n
      BY ONLY <1>3
    <3> QED BY ONLY <3>1
  <2>3. parts = [i \in 1..n |-> AtomSeparatorParse(texts[i])]
    BY ONLY <2>1, <2>2 DEF Separated
  <2>4. DOMAIN parts = 1..n /\ \A i \in 1..n : parts[i].ok = yes /\ parts[i].atoms = AtomsFor(u[i])
    <3>1. \A i \in 1..n : parts[i] = [ok |-> yes, atoms |-> AtomsFor(u[i])]
      BY ONLY <1>11, <2>1, <2>3
    <3>2. DOMAIN parts = 1..n
      BY ONLY <2>3
    <3>3. \A x, y : [ok |-> x, atoms |-> y].ok = x /\ [ok |-> x, atoms |-> y].atoms = y
      OBVIOUS
    <3> QED BY ONLY <3>1, <3>2, <3>3
  <2>5. [i \in DOMAIN parts |-> parts[i].atoms] = [i \in DOMAIN u |-> AtomsFor(u[i])]
    BY ONLY <1>2, <2>4
  <2>6. (\A i \in DOMAIN parts : parts[i].ok) = yes
    BY ONLY <2>1, <2>4
  <2>7. AtomsOfParts(parts) = [ok |-> yes, atoms |-> [i \in DOMAIN u |-> AtomsFor(u[i])]]
    BY ONLY <2>5, <2>6 DEF AtomsOfParts
  <2> QED BY ONLY <1>10, <2>1, <2>7 DEF UnionAtomSeparatorParse
<1> QED BY ONLY <1>1, <1>7, <1>8, <1>9, <1>12

\* The four kinds of written queries that are understood.
PlainKind(w) ==
  /\ w.atom \in {"dlC", "dlR", "dlDR"} /\ (w.atom = "dlDR" \/ Plainly(w))
  /\ Len(w.union) = 1 /\ Len(w.union[1]) = 1 /\ isLiteral(w.union[1][1]) /\ ~isEquation(w.union[1][1])
  /\ w.text = PlainText(w.union[1][1]) /\ w.pattern = w.union[1][1].args
  /\ (w.union[1][1].neg => w.atom = "dlC")
ConjKind(w) ==
  /\ w.atom \in {"dlR", "dlCQ"} /\ ~(w.atom = "dlDR" \/ Plainly(w))
  /\ Len(w.union) = 1 /\ IsUnionOf(w.union) /\ w.text = UnionText(w.union)
UnionKind(w) ==
  /\ w.atom = "dlUCQ" /\ ~(w.atom = "dlDR" \/ Plainly(w))
  /\ Len(w.union) > 1 /\ IsUnionOf(w.union) /\ w.text = UnionText(w.union)

\* What is understood is of one of four kinds.
LEMMA Kinds ==
  ASSUME NEW w, <<w.atom, Len(w.pattern)>> \in createAtoms, NEW inter, Understood(w, inter)
  PROVE  w.atom = "dlConsistent" \/ PlainKind(w) \/ ConjKind(w) \/ UnionKind(w)
<1>1. w.atom \in {"dlConsistent", "dlC", "dlR", "dlDR", "dlCQ", "dlUCQ"}
  BY DEF createAtoms
<1>2. Spelled(w) /\ RightKind(w) /\ \A i \in DOMAIN w.union : TakenAsWritten(w, w.union[i])
  BY DEF Understood
<1>3. PICK u, S : u = w.union /\ S = ToSet(u)
  OBVIOUS
<1>4. u \in Seq(S)
  BY ONLY <1>2, <1>3 DEF Spelled
<1>5. /\ \A i \in DOMAIN u : /\ u[i] \in Seq(ToSet(u[i])) /\ u[i] # <<>>
                             /\ \A j \in DOMAIN u[i] : isLiteral(u[i][j])
  BY ONLY <1>2, <1>3 DEF Spelled
<1>6. \A i \in DOMAIN u : IsConj(u[i])
  BY ONLY <1>5 DEF IsConj
<1>7. CASE w.atom = "dlConsistent"
  BY <1>7
<1>8. CASE w.atom # "dlConsistent" /\ (w.atom = "dlDR" \/ Plainly(w))
  <2>1. /\ Len(u) = 1 /\ Len(u[1]) = 1 /\ ~isEquation(u[1][1])
        /\ w.text = PlainText(u[1][1]) /\ w.pattern = u[1][1].args
    BY ONLY <1>2, <1>3, <1>8 DEF Spelled
  <2>2. 1 \in DOMAIN u
    BY ONLY <1>4, <2>1
  <2>3. PICK c, U : c = u[1] /\ U = ToSet(c)
    OBVIOUS
  <2>4. c \in Seq(U) /\ Len(c) = 1 /\ (\A j \in DOMAIN c : isLiteral(c[j])) /\ TakenAsWritten(w, c)
    BY ONLY <1>2, <1>3, <1>5, <2>1, <2>2, <2>3
  <2>5. 1 \in DOMAIN c
    BY ONLY <2>4
  <2>6. isLiteral(c[1]) /\ (c[1].neg => w.atom = "dlC")
    BY ONLY <2>4, <2>5 DEF TakenAsWritten
  <2>7. w.atom \in {"dlC", "dlR", "dlDR"}
    BY ONLY <1>8 DEF Plainly
  <2> QED BY ONLY <1>3, <1>8, <2>1, <2>3, <2>6, <2>7 DEF PlainKind
<1>9. CASE w.atom # "dlConsistent" /\ ~(w.atom = "dlDR" \/ Plainly(w))
  <2>1. u # <<>> /\ w.text = UnionText(u)
    BY ONLY <1>2, <1>3, <1>9 DEF Spelled
  <2>2. IsUnionOf(u)
    BY ONLY <1>3, <1>4, <1>6, <2>1 DEF IsUnionOf
  <2>3. \/ w.atom \in {"dlR", "dlCQ"} /\ Len(u) = 1
        \/ w.atom = "dlUCQ" /\ Len(u) > 1
    <3>1. w.atom \in {"dlR", "dlCQ", "dlUCQ"}
      BY ONLY <1>1, <1>2, <1>9 DEF RightKind
    <3> QED BY ONLY <1>2, <1>3, <3>1 DEF RightKind
  <2> QED BY ONLY <1>3, <1>9, <2>1, <2>2, <2>3 DEF ConjKind, UnionKind
<1> QED BY ONLY <1>7, <1>8, <1>9

\* What a namespace is.
IsNamespace(ns) == ns = NoNamespace \/ \E n \in Namespaces : ns = <<n>>

\* The namespace of a document is one.
LEMMA NamespacesOfDocuments ==
  ASSUME NEW u \in DOMAIN Documents
  PROVE  IsNamespace(parseNamespace(u)) /\ parseNamespace(u) = namespaceHandler(Documents[u])
<1>1. PICK x, N : x = Documents[u].xmlns /\ N = {<<n>> : n \in Namespaces}
  OBVIOUS
<1>2. x \in Seq(N)
  BY <1>1, DocumentsAreFinite
<1>3. x # <<>> => Last(x) \in N
  BY ONLY <1>2 DEF Last
<1> QED BY ONLY <1>1, <1>3 DEF IsNamespace, parseNamespace, namespaceHandler

\* Marks are no namespaces.
LEMMA MarksAreNoNamespaces ==
  ASSUME NEW n \in Namespaces
  PROVE  n \notin Punctuation
BY TokensApart

\* A name without a sign has none behind a namespace.
LEMMA QualifiedUnsigned ==
  ASSUME NEW onto, IsNamespace(onto.ns), NEW t, isName(t)
  PROVE  ~isStrongNegated(Qualified(onto, t))
<1>1. ~isStrongNegated(t) /\ t \in Seq(ToSet(t)) /\ t # <<>>
  BY ONLY isName(t), NameIsClean
<1>2. CASE isValid(t)
  BY ONLY <1>1, <1>2 DEF Qualified
<1>3. CASE ~isValid(t)
  <2>1. Qualified(onto, t) = onto.ns \o t
    BY ONLY <1>1, <1>3 DEF Qualified
  <2>2. PICK U : U = ToSet(t)
    OBVIOUS
  <2>3. t \in Seq(U)
    BY ONLY <1>1, <2>2
  <2>4. CASE onto.ns = NoNamespace
    <3>1. onto.ns \o t = t
      BY ONLY <2>3, <2>4, ConcatEmptySeq DEF NoNamespace
    <3> QED BY ONLY <1>1, <2>1, <3>1
  <2>5. ASSUME NEW n \in Namespaces, onto.ns = <<n>> PROVE ~isStrongNegated(Qualified(onto, t))
    <3>1. PICK s : s = <<n>> \o t
      OBVIOUS
    <3>2. n \in U \cup {n} /\ t \in Seq(U \cup {n})
      BY ONLY <2>3
    <3>3. Head(s) = n
      BY ONLY <3>1, <3>2
    <3>4. n # "-"
      BY MarksAreNoNamespaces DEF Punctuation
    <3> QED BY ONLY <2>1, <2>5, <3>1, <3>3, <3>4 DEF isStrongNegated
  <2> QED BY ONLY <2>4, <2>5, IsNamespace(onto.ns) DEF IsNamespace
<1> QED BY ONLY <1>2, <1>3

\* The text of a plain query says that it is plain.
LEMMA PlainIsTaken ==
  ASSUME NEW w, PlainKind(w)
  PROVE  ~isUnion(Unbracketed(w.text)) /\ "(" \notin ToSet(Unbracketed(w.text))
<1>1. PICK l, T : l = w.union[1][1] /\ T = LettersOf(w.union[1][1]) \cup Marks
  OBVIOUS
<1>2. isLiteral(l) /\ w.text = PlainText(l)
  BY ONLY <1>1, PlainKind(w) DEF PlainKind
<1>3. Over(l, T) /\ Marks \subseteq T
  BY ONLY <1>1, <1>2, LiteralOver
<1>4. w.text \in Seq(T) /\ Tight(w.text)
  BY ONLY <1>2, <1>3, AtomLetters, PartsAreTight
<1>5. w.text \in Seq(ToSet(w.text))
  BY ONLY <1>4, OverItsElements
<1>6. DOMAIN w.text = 1..Len(w.text)
  BY ONLY <1>4
<1>7. "(" \notin ToSet(w.text) /\ " v " \notin ToSet(w.text)
  BY ONLY <1>4, <1>6 DEF Tight, ToSet
<1>8. ToSet(Unbracketed(w.text)) \subseteq ToSet(w.text)
  BY ONLY <1>5, Bracketless
<1> QED BY ONLY <1>7, <1>8 DEF isUnion

ProjOf(w, inter) == setInterpretation(inter, w.preds[1], w.preds[2], w.preds[3], w.preds[4])

PlainMeant(w, onto) == PlainQuery(onto, Qualified(onto, w.text), w.pattern)
ConjMeant(w, onto) == DLQuery(onto, <<>>, AtomsFor(w.union[1]), <<>>, w.pattern)
UnionMeant(w, onto) ==
  DLQuery(onto, <<>>, {}, [i \in DOMAIN w.union |-> AtomsFor(w.union[i])], w.pattern)

\* What a written query is made into.
MeantBy(w, onto, dlq) ==
  \/ w.atom = "dlConsistent" /\ dlq = PlainQuery(onto, <<" ">>, w.pattern)
  \/ PlainKind(w) /\ dlq = PlainMeant(w, onto)
  \/ ConjKind(w) /\ dlq = ConjMeant(w, onto)
  \/ UnionKind(w) /\ dlq = UnionMeant(w, onto)

\* A name and its output list are made into a plain query (QueryCtx.cpp, Query.cpp).
LEMMA PlainMade ==
  ASSUME NEW w, PlainKind(w), NEW onto, IsNamespace(onto.ns), w.atom = "dlC" => Len(w.pattern) # 2
  PROVE  QueryOfText(onto, w.text, w.pattern) = Made(PlainMeant(w, onto))
<1>1. PICK text, q : text = w.text /\ q = Qualified(onto, w.text)
  OBVIOUS
<1>2. ~isUnion(Unbracketed(text)) /\ "(" \notin ToSet(Unbracketed(text))
  BY ONLY <1>1, PlainKind(w), PlainIsTaken
<1>3. QueryOfText(onto, text, w.pattern) = Plain(onto, q, w.pattern)
  BY ONLY <1>1, <1>2 DEF QueryOfText
<1>4. ~(Len(w.pattern) = 2 /\ isStrongNegated(q))
  <2>1. CASE w.atom = "dlC"
    BY ONLY <2>1, w.atom = "dlC" => Len(w.pattern) # 2
  <2>2. CASE w.atom # "dlC"
    <3>1. PICK l : l = w.union[1][1]
      OBVIOUS
    <3>2. isName(l.name) /\ ~l.neg /\ text = PlainText(l)
      BY ONLY <1>1, <2>2, <3>1, PlainKind(w) DEF PlainKind, isLiteral
    <3>3. l.name \in Seq(ToSet(l.name))
      BY ONLY <3>2, NameIsClean
    <3>4. \A U : \A s \in Seq(U) : <<>> \o s = s
      BY ConcatEmptySeq
    <3>5. text = l.name
      BY ONLY <3>2, <3>3, <3>4 DEF PlainText
    <3> QED BY ONLY <1>1, <3>2, <3>5, IsNamespace(onto.ns), QualifiedUnsigned
  <2> QED BY ONLY <2>1, <2>2
<1> QED BY ONLY <1>1, <1>3, <1>4 DEF Plain, PlainMeant

\* A conjunction is made into a conjunctive query.
LEMMA ConjMade ==
  ASSUME NEW w, ConjKind(w), NEW onto
  PROVE  QueryOfText(onto, w.text, w.pattern) = Made(ConjMeant(w, onto))
<1>1. PICK text, u, c : text = w.text /\ u = w.union /\ c = u[1]
  OBVIOUS
<1>2. Len(u) = 1 /\ IsUnionOf(u) /\ text = UnionText(u)
  BY ONLY <1>1, ConjKind(w) DEF ConjKind
<1>3. Unbracketed(text) = text /\ text = ConjText(c)
  BY ONLY <1>1, <1>2, UnionParsed
<1>4. IsConj(c)
  BY ONLY <1>1, <1>2, UnionMembers
<1>5. "(" \in ToSet(text) /\ " v " \notin ToSet(text)
  BY ONLY <1>3, <1>4, ConjEnds
<1>6. QueryOfText(onto, text, w.pattern) = Conjunctive(onto, AtomSeparatorParse(text), w.pattern)
  BY ONLY <1>3, <1>5 DEF QueryOfText, isUnion
<1>7. PICK T : T = Letters(c)
  OBVIOUS
<1>8. Marks \subseteq T /\ ConjOver(c, T)
  BY ONLY <1>4, <1>7, ConjIsOver
<1>9. AtomSeparatorParse(text) = [ok |-> TRUE, atoms |-> AtomsFor(c)]
  BY ONLY <1>3, <1>8, ConjParsed
<1>10. \A x : [ok |-> TRUE, atoms |-> x].ok /\ [ok |-> TRUE, atoms |-> x].atoms = x
  OBVIOUS
<1>11. PICK y : y = AtomSeparatorParse(text)
  OBVIOUS
<1>12. y.ok /\ y.atoms = AtomsFor(c)
  BY ONLY <1>9, <1>10, <1>11
<1> QED BY ONLY <1>1, <1>6, <1>11, <1>12 DEF Conjunctive, ConjMeant

\* A union is made into a query of a union.
LEMMA UnionMade ==
  ASSUME NEW w, UnionKind(w), NEW onto
  PROVE  QueryOfText(onto, w.text, w.pattern) = Made(UnionMeant(w, onto))
<1>1. PICK text, u : text = w.text /\ u = w.union
  OBVIOUS
<1>2. Len(u) > 1 /\ IsUnionOf(u) /\ text = UnionText(u)
  BY ONLY <1>1, UnionKind(w) DEF UnionKind
<1>3. PICK a : a = [i \in DOMAIN u |-> AtomsFor(u[i])]
  OBVIOUS
<1>4. Unbracketed(text) = text /\ isUnion(text) /\ UnionAtomSeparatorParse(text) = [ok |-> TRUE, atoms |-> a]
  BY ONLY <1>2, <1>3, UnionParsed
<1>6. QueryOfText(onto, text, w.pattern) = Union(onto, UnionAtomSeparatorParse(text), w.pattern)
  BY ONLY <1>4 DEF QueryOfText
<1>10. \A x : [ok |-> TRUE, atoms |-> x].ok /\ [ok |-> TRUE, atoms |-> x].atoms = x
  OBVIOUS
<1>11. PICK y : y = UnionAtomSeparatorParse(text)
  OBVIOUS
<1>12. y.ok /\ y.atoms = a
  BY ONLY <1>4, <1>10, <1>11
<1> QED BY ONLY <1>1, <1>3, <1>6, <1>11, <1>12 DEF Union, UnionMeant

\* The four input predicates.
LEMMA InputPredicates ==
  ASSUME NEW w \in Queries, NEW input, input = InputOf(w)
  PROVE  Len(input) \in {5, 6} /\ \A k \in 1..4 : input[k + 1] = w.preds[k]
<1>1. PICK p, U : p = w.preds /\ U = {w.onto} \cup ToSet(w.preds) \cup {w.text}
  OBVIOUS
<1>2. p \in Seq(ToSet(p)) /\ Len(p) = 4
  BY <1>1, WrittenQueries
<1>3. p \in Seq(U)
  <2>1. ToSet(p) \subseteq U
    BY ONLY <1>1
  <2> QED BY ONLY <1>2, <2>1
<1>4. PICK t : t = IF w.atom = "dlConsistent" THEN <<>> ELSE <<w.text>>
  OBVIOUS
<1>5. t \in Seq(U) /\ Len(t) \in {0, 1}
  <2>1. <<>> \in Seq(U) /\ <<w.text>> \in Seq(U)
    BY ONLY <1>1, EmptyIsText
  <2> QED BY ONLY <1>4, <2>1
<1>6. PICK a : a = <<w.onto>>
  OBVIOUS
<1>7. a \in Seq(U) /\ Len(a) = 1
  BY ONLY <1>1, <1>6
<1>8. input = (a \o p) \o t
  BY ONLY <1>1, <1>4, <1>6, input = InputOf(w) DEF InputOf
<1>9. Parts((a \o p) \o t, a, p, t)
  BY ONLY <1>3, <1>5, <1>7, ThreeParts
<1>10. Len(input) = Len(a) + Len(p) + Len(t) /\ \A k \in 1..Len(p) : input[Len(a) + k] = p[k]
  BY ONLY <1>8, <1>9 DEF Parts
<1>11. Len(input) \in {5, 6}
  <2>1. PICK h, i, j, k : h = Len(input) /\ i = Len(a) /\ j = Len(p) /\ k = Len(t)
    OBVIOUS
  <2>2. k = 0 \/ k = 1
    BY ONLY <1>5, <2>1
  <2>3. i = 1 /\ j = 4 /\ h = i + j + k
    BY ONLY <1>2, <1>7, <1>10, <2>1
  <2>4. h \in {5, 6}
    BY ONLY <2>2, <2>3
  <2> QED BY ONLY <2>1, <2>4
<1>12. \A k \in 1..4 : input[k + 1] = p[k]
  <2>1. \A k \in 1..4 : k + 1 = 1 + k
    OBVIOUS
  <2> QED BY ONLY <1>2, <1>7, <1>10, <2>1
<1> QED BY ONLY <1>1, <1>11, <1>12

\* What is understood is made into what is meant by it, whatever the interpretation.
LEMMA UnderstoodIsMade ==
  ASSUME NEW w \in Queries, <<w.atom, Len(w.pattern)>> \in createAtoms, NEW inter, Understood(w, inter),
         NEW onto, IsNamespace(onto.ns), NEW other
  PROVE  \E dlq : /\ MeantBy(w, onto, dlq)
                  /\ QueryCtx(onto, InputOf(w), w.pattern, other) = [ok |-> TRUE, query |-> Query(dlq, ProjOf(w, other))]
<1>1. PICK input, n : input = InputOf(w) /\ n = Len(input)
  OBVIOUS
<1>2. n \in {5, 6} /\ \A k \in 1..4 : input[k + 1] = w.preds[k]
  BY ONLY <1>1, w \in Queries, InputPredicates
<1>3. input[2] = w.preds[1] /\ input[3] = w.preds[2] /\ input[4] = w.preds[3] /\ input[5] = w.preds[4]
  <2>1. 1 + 1 = 2 /\ 2 + 1 = 3 /\ 3 + 1 = 4 /\ 4 + 1 = 5 /\ 1 \in 1..4 /\ 2 \in 1..4 /\ 3 \in 1..4 /\ 4 \in 1..4
    OBVIOUS
  <2> QED BY ONLY <1>2, <2>1
<1>4. setInterpretation(other, input[2], input[3], input[4], input[5]) = ProjOf(w, other)
  BY ONLY <1>3 DEF ProjOf
<1>5. \A d, p : Projected(Made(d), p) = [ok |-> TRUE, query |-> Query(d, p)]
  BY DEF Projected, Made
<1>6. ASSUME NEW d, (IF n > 5 THEN QueryOfText(onto, input[6], w.pattern)
                    ELSE Made(PlainQuery(onto, <<" ">>, w.pattern))) = Made(d)
      PROVE  QueryCtx(onto, InputOf(w), w.pattern, other) = [ok |-> TRUE, query |-> Query(d, ProjOf(w, other))]
  <2>1. ~(n < 4)
    BY ONLY <1>2
  <2> QED BY ONLY <1>1, <1>4, <1>5, <1>6, <2>1 DEF QueryCtx
<1>7. /\ w.atom # "dlConsistent" => n = 6 /\ input[6] = w.text
      /\ w.atom = "dlConsistent" => n = 5
  BY ONLY <1>1, w \in Queries, InputOfAtom
<1>8. CASE w.atom = "dlConsistent"
  <2>1. ~(n > 5)
    BY ONLY <1>7, <1>8
  <2> QED BY ONLY <1>6, <1>8, <2>1 DEF MeantBy
<1>9. CASE w.atom # "dlConsistent"
  <2>1. n > 5 /\ input[6] = w.text
    BY ONLY <1>7, <1>9
  <2>2. w.atom = "dlC" => Len(w.pattern) # 2
    <3>1. w.atom = "dlC" => Len(w.pattern) = 1
      BY <<w.atom, Len(w.pattern)>> \in createAtoms DEF createAtoms
    <3> QED BY ONLY <3>1
  <2>3. PlainKind(w) \/ ConjKind(w) \/ UnionKind(w)
    BY ONLY <1>9, Kinds, <<w.atom, Len(w.pattern)>> \in createAtoms, Understood(w, inter)
  <2>4. CASE PlainKind(w)
    <3>1. QueryOfText(onto, w.text, w.pattern) = Made(PlainMeant(w, onto))
      BY ONLY <2>2, <2>4, PlainMade, IsNamespace(onto.ns)
    <3> QED BY ONLY <1>6, <2>1, <2>4, <3>1 DEF MeantBy
  <2>5. CASE ConjKind(w)
    <3>1. QueryOfText(onto, w.text, w.pattern) = Made(ConjMeant(w, onto))
      BY ONLY <2>5, ConjMade
    <3> QED BY ONLY <1>6, <2>1, <2>5, <3>1 DEF MeantBy
  <2>6. CASE UnionKind(w)
    <3>1. QueryOfText(onto, w.text, w.pattern) = Made(UnionMeant(w, onto))
      BY ONLY <2>6, UnionMade
    <3> QED BY ONLY <1>6, <2>1, <2>6, <3>1 DEF MeantBy
  <2> QED BY ONLY <2>3, <2>4, <2>5, <2>6
<1> QED BY ONLY <1>8, <1>9

-----------------------------------------------------------------------------
(* Bodies and heads of the queries that are understood. *)

\* The atom of a body that a literal is sent as, when it is no inequality.
AtomMeant(l, injective, ns) ==
  IF Len(l.args) = 1 THEN ConceptQuery(Concept(l.name, ns), Object(l.args[1], injective, ns))
  ELSE IF l.name = <<"==">>
  THEN SameAs(Object(l.args[1], injective, ns), Object(l.args[2], injective, ns))
  ELSE RoleQuery(Role(l.name, ns, FALSE), Object(l.args[1], injective, ns), Object(l.args[2], injective, ns))

isInequality(l) == l.name = <<"!=">>
BodyPlaces(conj) == {j \in DOMAIN conj : ~isInequality(conj[j])}
VarMeant(t, injective) == Variable(t, t \in injective, FALSE)

\* The arguments of a literal.
LEMMA LiteralArgs ==
  ASSUME NEW l, isLiteral(l)
  PROVE  /\ Len(l.args) \in {1, 2} /\ DOMAIN l.args = 1..Len(l.args) /\ l.args \in Seq(ToSet(l.args))
         /\ (isEquation(l) => Len(l.args) = 2)
         /\ ~isStrongNegated(l.name) /\ ~isVariable(l.name) /\ isName(l.name)
         /\ \A k \in DOMAIN l.args : isName(l.args[k])
         /\ 1 \in DOMAIN l.args
<1>1. PICK a, S : a = l.args /\ S = ToSet(l.args)
  OBVIOUS
<1>2. a \in Seq(S) /\ Len(a) \in {1, 2}
  BY ONLY <1>1, isLiteral(l) DEF isLiteral
<1>3. DOMAIN a = 1..Len(a) /\ 1 \in DOMAIN a
  BY ONLY <1>2
<1>4. isName(l.name) /\ ~isVariable(l.name) /\ (isEquation(l) => Len(l.args) = 2)
      /\ \A k \in DOMAIN l.args : isName(l.args[k])
  BY ONLY isLiteral(l) DEF isLiteral
<1>5. ~isStrongNegated(l.name)
  BY ONLY <1>4, NameIsClean
<1> QED BY ONLY <1>1, <1>2, <1>3, <1>4, <1>5

\* A literal is sent as the atom that is meant by it (RacerNRQLBuilder.cpp).
LEMMA LiteralIsSent ==
  ASSUME NEW l, isLiteral(l), NEW injective, NEW ns
  PROVE  BodyAtom([pred |-> l.name, args |-> l.args], injective, ns) = AtomMeant(l, injective, ns)
<1>1. PICK a, o : a = [pred |-> l.name, args |-> l.args] /\ o = Objects(l.args, injective, ns)
  OBVIOUS
<1>2. a.pred = l.name /\ a.args = l.args
  BY ONLY <1>1
<1>3. /\ Len(l.args) \in {1, 2} /\ DOMAIN l.args = 1..Len(l.args) /\ ~isStrongNegated(l.name)
  BY ONLY isLiteral(l), LiteralArgs
<1>4. o = [k \in 1..Len(l.args) |-> Object(l.args[k], injective, ns)]
  BY ONLY <1>1, <1>3 DEF Objects
<1>5. PICK n : n = Len(l.args)
  OBVIOUS
<1>6. /\ Len(o) = n /\ o[1] = Object(l.args[1], injective, ns)
      /\ (n = 2 => o[2] = Object(l.args[2], injective, ns))
  <2>1. n \in {1, 2} /\ o = [k \in 1..n |-> Object(l.args[k], injective, ns)]
    BY ONLY <1>3, <1>4, <1>5
  <2>2. \A F : [k \in 1..n |-> F[k]] \in Seq({F[k] : k \in 1..n})
    BY ONLY <2>1
  <2>3. o = [k \in 1..n |-> o[k]]
    BY ONLY <2>1
  <2>4. o \in Seq({o[k] : k \in 1..n})
    BY ONLY <2>2, <2>3
  <2>5. DOMAIN o = 1..n
    BY ONLY <2>3
  <2>6. Len(o) = n
    BY ONLY <2>1, <2>4, <2>5
  <2> QED BY ONLY <2>1, <2>6
<1>7. BodyAtom(a, injective, ns) = AtomAbout(a, o, ns)
  BY ONLY <1>1, <1>2 DEF BodyAtom
<1>8. CASE n = 1
  <2>1. AtomAbout(a, o, ns) = ConceptQuery(Concept(l.name, ns), o[1])
    BY ONLY <1>2, <1>3, <1>6, <1>8 DEF AtomAbout, Signed
  <2> QED BY ONLY <1>1, <1>5, <1>6, <1>7, <1>8, <2>1 DEF AtomMeant
<1>9. CASE n = 2
  <2>1. AtomAbout(a, o, ns) = IF l.name = <<"==">> THEN SameAs(o[1], o[2])
                              ELSE RoleQuery(Role(l.name, ns, FALSE), o[1], o[2])
    BY ONLY <1>2, <1>3, <1>6, <1>9 DEF AtomAbout, RoleAtom
  <2>2. PICK e, r : e = <<"==">> /\ r = Role(l.name, ns, FALSE)
    OBVIOUS
  <2>3. AtomAbout(a, o, ns) = IF l.name = e THEN SameAs(o[1], o[2]) ELSE RoleQuery(r, o[1], o[2])
    BY ONLY <2>1, <2>2
  <2>4. ~(Len(l.args) = 1)
    BY ONLY <1>5, <1>9
  <2>5. AtomMeant(l, injective, ns) =
          IF l.name = e THEN SameAs(Object(l.args[1], injective, ns), Object(l.args[2], injective, ns))
          ELSE RoleQuery(r, Object(l.args[1], injective, ns), Object(l.args[2], injective, ns))
    BY ONLY <2>2, <2>4 DEF AtomMeant
  <2>6. o[1] = Object(l.args[1], injective, ns) /\ o[2] = Object(l.args[2], injective, ns)
    BY ONLY <1>6, <1>9
  <2>7. AtomAbout(a, o, ns) = AtomMeant(l, injective, ns)
    BY ONLY <2>3, <2>5, <2>6
  <2> QED BY ONLY <1>1, <1>7, <2>7
<1> QED BY ONLY <1>3, <1>5, <1>8, <1>9

\* The body of a conjunction.
LEMMA BodyOfConj ==
  ASSUME NEW conj, IsConj(conj), NEW injective, NEW ns
  PROVE  BodyAtoms(AtomsFor(conj), injective, ns) = {AtomMeant(conj[j], injective, ns) : j \in BodyPlaces(conj)}
<1>1. PICK lhs, rhs : /\ lhs = BodyAtoms(AtomsFor(conj), injective, ns)
                      /\ rhs = {AtomMeant(conj[j], injective, ns) : j \in BodyPlaces(conj)}
  OBVIOUS
<1> DEFINE A(j) == [pred |-> conj[j].name, args |-> conj[j].args]
<1>2. \A j : A(j).pred = conj[j].name /\ A(j).args = conj[j].args
  OBVIOUS
<1>3. AtomsFor(conj) = {A(j) : j \in DOMAIN conj}
  BY ONLY DEF AtomsFor
<1>4. \A j \in DOMAIN conj : BodyAtom(A(j), injective, ns) = AtomMeant(conj[j], injective, ns)
  <2> SUFFICES ASSUME NEW j \in DOMAIN conj PROVE BodyAtom(A(j), injective, ns) = AtomMeant(conj[j], injective, ns)
    OBVIOUS
  <2>1. isLiteral(conj[j])
    BY ONLY IsConj(conj), j \in DOMAIN conj DEF IsConj
  <2> QED BY ONLY <2>1, LiteralIsSent
<1>5. \A j \in DOMAIN conj : (A(j).pred = <<"!=">> /\ Len(A(j).args) = 2) <=> isInequality(conj[j])
  <2> SUFFICES ASSUME NEW j \in DOMAIN conj PROVE (A(j).pred = <<"!=">> /\ Len(A(j).args) = 2) <=> isInequality(conj[j])
    OBVIOUS
  <2>1. isLiteral(conj[j])
    BY ONLY IsConj(conj), j \in DOMAIN conj DEF IsConj
  <2>2. isInequality(conj[j]) => Len(conj[j].args) = 2
    BY ONLY <2>1, LiteralArgs DEF isInequality, isEquation
  <2> QED BY ONLY <1>2, <2>2 DEF isInequality
<1> HIDE DEF A
<1>6. lhs = {BodyAtom(a, injective, ns) : a \in {b \in {A(j) : j \in DOMAIN conj} : ~(b.pred = <<"!=">> /\ Len(b.args) = 2)}}
  BY ONLY <1>1, <1>3 DEF BodyAtoms
<1>7. \A x \in lhs : x \in rhs
  <2> SUFFICES ASSUME NEW x \in lhs PROVE x \in rhs
    OBVIOUS
  <2>1. PICK b \in {A(j) : j \in DOMAIN conj} : ~(b.pred = <<"!=">> /\ Len(b.args) = 2) /\ x = BodyAtom(b, injective, ns)
    BY ONLY <1>6, x \in lhs
  <2>2. PICK j \in DOMAIN conj : b = A(j)
    BY ONLY <2>1
  <2>3. j \in BodyPlaces(conj)
    BY ONLY <1>5, <2>1, <2>2 DEF BodyPlaces
  <2>4. x = AtomMeant(conj[j], injective, ns)
    BY ONLY <1>4, <2>1, <2>2
  <2> QED BY ONLY <1>1, <2>3, <2>4
<1>8. \A x \in rhs : x \in lhs
  <2> SUFFICES ASSUME NEW x \in rhs PROVE x \in lhs
    OBVIOUS
  <2>1. PICK j \in BodyPlaces(conj) : x = AtomMeant(conj[j], injective, ns)
    BY ONLY <1>1, x \in rhs
  <2>2. j \in DOMAIN conj /\ ~isInequality(conj[j])
    BY ONLY <2>1 DEF BodyPlaces
  <2>3. x = BodyAtom(A(j), injective, ns) /\ ~(A(j).pred = <<"!=">> /\ Len(A(j).args) = 2)
    BY ONLY <1>4, <1>5, <2>1, <2>2
  <2> QED BY ONLY <1>6, <2>2, <2>3
<1>9. lhs = rhs
  BY ONLY <1>7, <1>8
<1> QED BY ONLY <1>1, <1>9

\* The variables of an atom.
LEMMA VarsOfMeant ==
  ASSUME NEW l, isLiteral(l), NEW injective, NEW ns
  PROVE  VarsOfAtom(AtomMeant(l, injective, ns)) = {VarMeant(t, injective) : t \in VariablesOf(ToSet(l.args))}
<1>1. PICK n, x, y : n = Len(l.args) /\ x = Object(l.args[1], injective, ns) /\ y = Object(l.args[2], injective, ns)
  OBVIOUS
<1>2. n \in {1, 2} /\ DOMAIN l.args = 1..n
  BY ONLY <1>1, isLiteral(l), LiteralArgs
<1>3. \A t : /\ isVariable(t) => Object(t, injective, ns) = VarMeant(t, injective) /\ Object(t, injective, ns).op = "var"
             /\ ~isVariable(t) => Object(t, injective, ns).op # "var"
  BY ONLY DEF Object, VarMeant, Variable, Individual, Expr
<1>4. ToSet(l.args) = {l.args[k] : k \in 1..n}
  BY ONLY <1>2 DEF ToSet
<1>5. CASE n = 1
  <2>1. AtomMeant(l, injective, ns) = ConceptQuery(Concept(l.name, ns), x)
    BY ONLY <1>1, <1>5 DEF AtomMeant
  <2>2. \A c, o : ConceptQuery(c, o).op = "concept-query" /\ ConceptQuery(c, o).o = o
    BY DEF ConceptQuery
  <2>3. VarsOfAtom(AtomMeant(l, injective, ns)) = {o \in {x} : o.op = "var"}
    BY ONLY <2>1, <2>2 DEF VarsOfAtom
  <2>4. ToSet(l.args) = {l.args[1]}
    BY ONLY <1>4, <1>5
  <2> QED BY ONLY <1>1, <1>3, <2>3, <2>4 DEF VariablesOf
<1>6. CASE n = 2
  <2>1. \/ AtomMeant(l, injective, ns) = SameAs(x, y)
        \/ \E r : AtomMeant(l, injective, ns) = RoleQuery(r, x, y)
    <3>1. ~(Len(l.args) = 1)
      BY ONLY <1>1, <1>6
    <3>2. PICK e, r : e = <<"==">> /\ r = Role(l.name, ns, FALSE)
      OBVIOUS
    <3>3. AtomMeant(l, injective, ns) = IF l.name = e THEN SameAs(x, y) ELSE RoleQuery(r, x, y)
      BY ONLY <1>1, <3>1, <3>2 DEF AtomMeant
    <3> QED BY ONLY <3>3
  <2>2. \A c, o, p : /\ RoleQuery(c, o, p).op = "role-query" /\ RoleQuery(c, o, p).o1 = o /\ RoleQuery(c, o, p).o2 = p
                     /\ SameAs(o, p).op = "same-as" /\ SameAs(o, p).o1 = o /\ SameAs(o, p).o2 = p
    BY DEF RoleQuery, SameAs
  <2>3. VarsOfAtom(AtomMeant(l, injective, ns)) = {o \in {x, y} : o.op = "var"}
    BY ONLY <2>1, <2>2 DEF VarsOfAtom
  <2>4. ToSet(l.args) = {l.args[1], l.args[2]}
    BY ONLY <1>4, <1>6
  <2> QED BY ONLY <1>1, <1>3, <2>3, <2>4 DEF VariablesOf
<1> QED BY ONLY <1>2, <1>5, <1>6

\* A conjunction that is taken as it is written has a body that mentions its output list.
LEMMA BodyCovers ==
  ASSUME NEW w, NEW conj, IsConj(conj), Safe(w, conj), TakenAsWritten(w, conj), NEW injective, NEW ns,
         NEW body, body = BodyAtoms(AtomsFor(conj), injective, ns)
  PROVE  /\ body # {}
         /\ \A t \in VariablesOf(ToSet(w.pattern)) \cup VariablesIn(conj) :
              VarMeant(t, injective) \in UNION {VarsOfAtom(a) : a \in body}
<1>1. PICK P : P = {j \in DOMAIN conj : ~isEquation(conj[j])}
  OBVIOUS
<1>2. VariablesIn(conj) \cup VariablesOf(ToSet(w.pattern)) \subseteq VariablesAt(conj, P)
  BY ONLY <1>1, Safe(w, conj) DEF Safe
<1>3. \A j \in DOMAIN conj : isLiteral(conj[j])
  BY ONLY IsConj(conj) DEF IsConj
<1>4. P \subseteq BodyPlaces(conj)
  BY ONLY <1>1 DEF BodyPlaces, isEquation, isInequality
<1>5. body = {AtomMeant(conj[j], injective, ns) : j \in BodyPlaces(conj)}
  BY ONLY IsConj(conj), BodyOfConj, body = BodyAtoms(AtomsFor(conj), injective, ns)
<1>6. \A t \in VariablesAt(conj, P) : VarMeant(t, injective) \in UNION {VarsOfAtom(a) : a \in body}
  <2> SUFFICES ASSUME NEW t \in VariablesAt(conj, P)
               PROVE  VarMeant(t, injective) \in UNION {VarsOfAtom(a) : a \in body}
    OBVIOUS
  <2>1. PICK j \in P : t \in ToSet(conj[j].args) /\ isVariable(t)
    BY ONLY t \in VariablesAt(conj, P) DEF VariablesAt, VariablesOf
  <2>2. j \in BodyPlaces(conj) /\ isLiteral(conj[j])
    BY ONLY <1>1, <1>3, <1>4, <2>1
  <2>3. t \in VariablesOf(ToSet(conj[j].args))
    BY ONLY <2>1 DEF VariablesOf
  <2>4. VarMeant(t, injective) \in VarsOfAtom(AtomMeant(conj[j], injective, ns))
    BY ONLY <2>2, <2>3, VarsOfMeant
  <2>5. AtomMeant(conj[j], injective, ns) \in body
    BY ONLY <1>5, <2>2
  <2> QED BY ONLY <2>4, <2>5
<1>7. BodyPlaces(conj) # {}
  <2>1. PICK C : C = ToSet(conj)
    OBVIOUS
  <2>2. conj \in Seq(C) /\ conj # <<>>
    BY ONLY <2>1, IsConj(conj) DEF IsConj
  <2>3. 1 \in DOMAIN conj
    BY ONLY <2>2
  <2>4. CASE ~isInequality(conj[1])
    BY ONLY <2>3, <2>4 DEF BodyPlaces
  <2>5. CASE isInequality(conj[1])
    <3>1. PICK l : l = conj[1]
      OBVIOUS
    <3>2. isVariable(l.args[1])
      BY ONLY <2>3, <2>5, <3>1, TakenAsWritten(w, conj) DEF TakenAsWritten, isInequality
    <3>3. 1 \in DOMAIN l.args
      BY ONLY <1>3, <2>3, <3>1, LiteralArgs
    <3>4. l.args[1] \in VariablesIn(conj)
      BY ONLY <2>3, <3>1, <3>2, <3>3 DEF VariablesIn, VariablesAt, VariablesOf, ToSet
    <3>5. l.args[1] \in VariablesAt(conj, P)
      BY ONLY <1>2, <3>4
    <3>6. P # {}
      BY ONLY <3>5 DEF VariablesAt, VariablesOf
    <3> QED BY ONLY <1>4, <3>6
  <2> QED BY ONLY <2>4, <2>5
<1> QED BY ONLY <1>2, <1>5, <1>6, <1>7

\* The variables of a head.
LEMMA VarsOfHead ==
  ASSUME NEW pattern, pattern \in Seq(ToSet(pattern)), NEW injective, NEW ns
  PROVE  {o \in ToSet(Objects(pattern, injective, ns)) : o.op = "var"}
           = {VarMeant(t, injective) : t \in VariablesOf(ToSet(pattern))}
<1>3. \A t : /\ isVariable(t) => Object(t, injective, ns) = VarMeant(t, injective) /\ Object(t, injective, ns).op = "var"
             /\ ~isVariable(t) => Object(t, injective, ns).op # "var"
  BY ONLY DEF Object, VarMeant, Variable, Individual, Expr
<1>4. PICK h : h = Objects(pattern, injective, ns)
  OBVIOUS
<1>5. DOMAIN h = DOMAIN pattern /\ \A k \in DOMAIN pattern : h[k] = Object(pattern[k], injective, ns)
  BY ONLY <1>4 DEF Objects
<1>6. ToSet(h) = {Object(t, injective, ns) : t \in ToSet(pattern)}
  BY ONLY <1>5 DEF ToSet
<1> QED BY ONLY <1>3, <1>4, <1>6 DEF VariablesOf

\* RACER takes a conjunction with its output list.
LEMMA LegalConj ==
  ASSUME NEW w, NEW conj, IsConj(conj), Safe(w, conj), TakenAsWritten(w, conj), NEW injective, NEW ns,
         w.pattern \in Seq(ToSet(w.pattern)), NEW atoms, atoms = AtomsFor(conj)
  PROVE  Legal(Objects(w.pattern, injective, ns), Conjunction(BodyAtoms(atoms, injective, ns)))
<1>1. PICK B, head, body : B = BodyAtoms(atoms, injective, ns) /\ head = Objects(w.pattern, injective, ns)
                           /\ body = Conjunction(B)
  OBVIOUS
<1>2. /\ B # {}
      /\ \A t \in VariablesOf(ToSet(w.pattern)) : VarMeant(t, injective) \in UNION {VarsOfAtom(a) : a \in B}
  BY ONLY <1>1, IsConj(conj), Safe(w, conj), TakenAsWritten(w, conj), BodyCovers, atoms = AtomsFor(conj)
<1>3. body.op = "and" /\ body.of = B
  BY ONLY <1>1 DEF Conjunction
<1>4. Bodies(body) = {body} /\ AtomsOfBody(body) = B
  BY ONLY <1>3 DEF Bodies, AtomsOfBody
<1>5. VarsOfBody(body) = UNION {VarsOfAtom(a) : a \in B}
  BY ONLY <1>4 DEF VarsOfBody
<1>6. {o \in ToSet(head) : o.op = "var"} = {VarMeant(t, injective) : t \in VariablesOf(ToSet(w.pattern))}
  BY ONLY <1>1, VarsOfHead, w.pattern \in Seq(ToSet(w.pattern))
<1>7. {o \in ToSet(head) : o.op = "var"} \subseteq UNION {VarsOfBody(b) : b \in Bodies(body)}
  BY ONLY <1>2, <1>4, <1>5, <1>6
<1>8. Legal(head, body)
  BY ONLY <1>2, <1>4, <1>7 DEF Legal
<1> QED BY ONLY <1>1, <1>8

\* RACER takes a union with its output list.
LEMMA LegalUnion ==
  ASSUME NEW w, NEW u, IsUnionOf(u), \A i \in DOMAIN u : Safe(w, u[i]) /\ TakenAsWritten(w, u[i]), NEW ns,
         w.pattern \in Seq(ToSet(w.pattern)), NEW parts, parts = [i \in DOMAIN u |-> AtomsFor(u[i])]
  PROVE  Legal(Objects(w.pattern, {}, ns), UnionOf({Conjunction(BodyAtoms(parts[i], {}, ns)) : i \in DOMAIN parts}))
<1> DEFINE B(i) == BodyAtoms(AtomsFor(u[i]), {}, ns)
<1>1. PICK head, all : head = Objects(w.pattern, {}, ns) /\ all = {Conjunction(B(i)) : i \in DOMAIN u}
  OBVIOUS
<1>2. {Conjunction(BodyAtoms(parts[i], {}, ns)) : i \in DOMAIN parts} = all
  BY ONLY <1>1, parts = [i \in DOMAIN u |-> AtomsFor(u[i])]
<1>3. PICK body : body = UnionOf(all)
  OBVIOUS
<1>4. body.op = "union" /\ body.of = all
  BY ONLY <1>3 DEF UnionOf
<1>5. Bodies(body) = all
  BY ONLY <1>4 DEF Bodies
<1>6. \A i \in DOMAIN u :
        /\ B(i) # {}
        /\ \A t \in VariablesOf(ToSet(w.pattern)) : VarMeant(t, {}) \in UNION {VarsOfAtom(a) : a \in B(i)}
  <2> SUFFICES ASSUME NEW i \in DOMAIN u
               PROVE  /\ B(i) # {}
                      /\ \A t \in VariablesOf(ToSet(w.pattern)) : VarMeant(t, {}) \in UNION {VarsOfAtom(a) : a \in B(i)}
    OBVIOUS
  <2>1. IsConj(u[i]) /\ Safe(w, u[i]) /\ TakenAsWritten(w, u[i])
    BY ONLY IsUnionOf(u), \A j \in DOMAIN u : Safe(w, u[j]) /\ TakenAsWritten(w, u[j]), i \in DOMAIN u DEF IsUnionOf
  <2>2. PICK b : b = B(i)
    OBVIOUS
  <2>3. b # {} /\ \A t \in VariablesOf(ToSet(w.pattern)) : VarMeant(t, {}) \in UNION {VarsOfAtom(a) : a \in b}
    BY ONLY <2>1, <2>2, BodyCovers
  <2> QED BY ONLY <2>2, <2>3
<1> HIDE DEF B
<1>7. \A x : Conjunction(x).op = "and" /\ Conjunction(x).of = x
  BY DEF Conjunction
<1>8. \A x : AtomsOfBody(Conjunction(x)) = x /\ VarsOfBody(Conjunction(x)) = UNION {VarsOfAtom(a) : a \in x}
  BY ONLY <1>7 DEF AtomsOfBody, VarsOfBody
<1>9. PICK i \in DOMAIN u : TRUE
  <2>1. Len(u) \in Nat \ {0} /\ DOMAIN u = 1..Len(u)
    BY ONLY IsUnionOf(u), UnionMembers
  <2>2. 1 \in DOMAIN u
    BY ONLY <2>1
  <2> QED BY ONLY <2>2
<1>10. Bodies(body) # {} /\ \A b \in Bodies(body) : AtomsOfBody(b) # {}
  BY ONLY <1>1, <1>5, <1>6, <1>8, <1>9
<1>11. {o \in ToSet(head) : o.op = "var"} = {VarMeant(t, {}) : t \in VariablesOf(ToSet(w.pattern))}
  BY ONLY <1>1, VarsOfHead, w.pattern \in Seq(ToSet(w.pattern))
<1>12. {o \in ToSet(head) : o.op = "var"} \subseteq UNION {VarsOfBody(b) : b \in Bodies(body)}
  <2>1. VarsOfBody(Conjunction(B(i))) = UNION {VarsOfAtom(a) : a \in B(i)}
    BY ONLY <1>8
  <2>2. Conjunction(B(i)) \in Bodies(body)
    BY ONLY <1>1, <1>5, <1>9
  <2>3. \A t \in VariablesOf(ToSet(w.pattern)) : VarMeant(t, {}) \in VarsOfBody(Conjunction(B(i)))
    BY ONLY <1>6, <1>9, <2>1
  <2> QED BY ONLY <1>11, <2>2, <2>3
<1>13. Legal(head, body)
  BY ONLY <1>10, <1>12 DEF Legal
<1> QED BY ONLY <1>1, <1>2, <1>3, <1>13

\* A datatype query asks for the variables of its body.
LEMMA LegalDatatype ==
  ASSUME NEW dlq, Compatible(dlq)
  PROVE  /\ DatatypeHead(dlq).ok = TRUE /\ DatatypeBody(dlq).ok = TRUE
         /\ Legal(DatatypeHead(dlq).expr, DatatypeBody(dlq).expr)
<1>1. PICK f, r, X, Y : /\ f = typeFlags(dlq.pattern) /\ r = Role(dlq.query, dlq.onto.ns, TRUE)
                        /\ X = SubstrateX /\ Y = SubstrateY
  OBVIOUS
<1>2. PICK s, head, all : /\ s = {SameAs(Variable(<<"X">>, TRUE, FALSE), Individual(dlq.pattern[1], dlq.onto.ns))}
                     /\ head = (IF 1 \in f THEN <<Y>> ELSE <<X, Y>>)
                     /\ all = {RoleQuery(r, X, Y)} \cup (IF 1 \notin f THEN {} ELSE s)
  OBVIOUS
<1>3. \A e : Built(e).ok = TRUE /\ Built(e).expr = e
  BY DEF Built
<1>4. DatatypeHead(dlq) = Built(head)
  BY ONLY <1>1, <1>2, Compatible(dlq) DEF DatatypeHead
<1>5. DatatypeBody(dlq) = Built(Conjunction(all))
  BY ONLY <1>1, <1>2, Compatible(dlq) DEF DatatypeBody
<1>6. PICK body : body = Conjunction(all)
  OBVIOUS
<1>7. body.op = "and" /\ body.of = all
  BY ONLY <1>6 DEF Conjunction
<1>8. Bodies(body) = {body} /\ AtomsOfBody(body) = all
  BY ONLY <1>7 DEF Bodies, AtomsOfBody
<1>9. X.op = "var" /\ Y.op = "var"
  BY ONLY <1>1 DEF SubstrateX, SubstrateY, Variable
<1>10. VarsOfAtom(RoleQuery(r, X, Y)) = {X, Y}
  <2>1. PICK a : a = RoleQuery(r, X, Y)
    OBVIOUS
  <2>2. a.op = "role-query" /\ a.o1 = X /\ a.o2 = Y
    BY ONLY <2>1 DEF RoleQuery
  <2>3. VarsOfAtom(a) = {X, Y}
    BY ONLY <1>9, <2>2 DEF VarsOfAtom
  <2> QED BY ONLY <2>1, <2>3
<1>11. {X, Y} \subseteq VarsOfBody(body) /\ all # {}
  BY ONLY <1>2, <1>8, <1>10 DEF VarsOfBody
<1>12. ToSet(head) \subseteq {X, Y}
  <2>1. ToSet(<<Y>>) = {Y} /\ ToSet(<<X, Y>>) = {X, Y}
    BY DEF ToSet
  <2> QED BY ONLY <1>2, <2>1
<1>13. Legal(head, body)
  BY ONLY <1>8, <1>11, <1>12 DEF Legal
<1> QED BY ONLY <1>3, <1>4, <1>5, <1>6, <1>13

\* The members of what a written query is made into.
LEMMA MeantMembers ==
  ASSUME NEW w, NEW onto, NEW dlq, MeantBy(w, onto, dlq)
  PROVE  /\ dlq.onto = onto /\ dlq.pattern = w.pattern
         /\ \/ w.atom = "dlConsistent" /\ dlq.cq = {} /\ dlq.ucq = <<>>
            \/ PlainKind(w) /\ dlq.query = Qualified(onto, w.text) /\ dlq.cq = {} /\ dlq.ucq = <<>>
            \/ ConjKind(w) /\ dlq.query = <<>> /\ dlq.cq = AtomsFor(w.union[1]) /\ dlq.ucq = <<>>
            \/ UnionKind(w) /\ dlq.query = <<>> /\ dlq.cq = {} /\ dlq.ucq = [i \in DOMAIN w.union |-> AtomsFor(w.union[i])]
<1>1. \A a, b, c, d, e : /\ DLQuery(a, b, c, d, e).onto = a /\ DLQuery(a, b, c, d, e).query = b
                         /\ DLQuery(a, b, c, d, e).cq = c /\ DLQuery(a, b, c, d, e).ucq = d
                         /\ DLQuery(a, b, c, d, e).pattern = e
  BY DEF DLQuery
<1>2. PICK none, blank : none = <<>> /\ blank = <<" ">>
  OBVIOUS
<1>3. \A a, b, e : PlainQuery(a, b, e) = DLQuery(a, b, {}, none, e)
  BY ONLY <1>2 DEF PlainQuery
<1>4. CASE w.atom = "dlConsistent" /\ dlq = PlainQuery(onto, <<" ">>, w.pattern)
  <2>1. PICK p : p = w.pattern
    OBVIOUS
  <2>2. dlq = DLQuery(onto, blank, {}, none, p)
    BY ONLY <1>2, <1>3, <1>4, <2>1
  <2>3. dlq.onto = onto /\ dlq.cq = {} /\ dlq.ucq = none /\ dlq.pattern = p
    BY ONLY <1>1, <2>2
  <2> QED BY ONLY <1>2, <1>4, <2>1, <2>3
<1>5. CASE PlainKind(w) /\ dlq = PlainMeant(w, onto)
  <2>1. PICK q, p : q = Qualified(onto, w.text) /\ p = w.pattern
    OBVIOUS
  <2>2. dlq = DLQuery(onto, q, {}, none, p)
    BY ONLY <1>3, <1>5, <2>1 DEF PlainMeant
  <2>3. dlq.onto = onto /\ dlq.query = q /\ dlq.cq = {} /\ dlq.ucq = none /\ dlq.pattern = p
    BY ONLY <1>1, <2>2
  <2> QED BY ONLY <1>2, <1>5, <2>1, <2>3
<1>6. CASE ConjKind(w) /\ dlq = ConjMeant(w, onto)
  <2>1. PICK a, p : a = AtomsFor(w.union[1]) /\ p = w.pattern
    OBVIOUS
  <2>2. dlq = DLQuery(onto, none, a, none, p)
    BY ONLY <1>2, <1>6, <2>1 DEF ConjMeant
  <2>3. dlq.onto = onto /\ dlq.query = none /\ dlq.cq = a /\ dlq.ucq = none /\ dlq.pattern = p
    BY ONLY <1>1, <2>2
  <2> QED BY ONLY <1>2, <1>6, <2>1, <2>3
<1>7. CASE UnionKind(w) /\ dlq = UnionMeant(w, onto)
  BY ONLY <1>1, <1>7 DEF UnionMeant
<1> QED BY ONLY <1>4, <1>5, <1>6, <1>7, MeantBy(w, onto, dlq) DEF MeantBy

\* The ontology and the output list of what is meant.
LEMMA MeantOutput ==
  ASSUME NEW w, NEW onto, NEW dlq, MeantBy(w, onto, dlq)
  PROVE  dlq.onto = onto /\ dlq.pattern = w.pattern
<1>1. \A a, b, c, d, e : DLQuery(a, b, c, d, e).onto = a /\ DLQuery(a, b, c, d, e).pattern = e
  BY DEF DLQuery
<1>2. PICK none, blank, text, p : /\ none = <<>> /\ blank = <<" ">> /\ text = Qualified(onto, w.text)
                                  /\ p = w.pattern
  OBVIOUS
<1>3. PICK union, atoms : union = [i \in DOMAIN w.union |-> AtomsFor(w.union[i])] /\ atoms = AtomsFor(w.union[1])
  OBVIOUS
<1>4. \/ dlq = DLQuery(onto, blank, {}, none, p) \/ dlq = DLQuery(onto, text, {}, none, p)
      \/ dlq = DLQuery(onto, none, atoms, none, p) \/ dlq = DLQuery(onto, none, {}, union, p)
  BY ONLY <1>2, <1>3, MeantBy(w, onto, dlq) DEF MeantBy, PlainMeant, ConjMeant, UnionMeant, PlainQuery
<1>5. dlq.onto = onto /\ dlq.pattern = p
  BY ONLY <1>1, <1>4
<1> QED BY ONLY <1>2, <1>5

\* Which of the queries are sent as retrieve commands.
LEMMA KindRetrieves ==
  ASSUME NEW w, NEW onto, NEW dlq, MeantBy(w, onto, dlq)
  PROVE  /\ w.atom = "dlConsistent" => ~Retrieves(w.atom, dlq)
         /\ PlainKind(w) => (Retrieves(w.atom, dlq) <=> w.atom = "dlDR")
         /\ ConjKind(w) \/ UnionKind(w) => Retrieves(w.atom, dlq)
         /\ PlainKind(w) => w.atom \in {"dlC", "dlR", "dlDR"} /\ dlq.query = Qualified(onto, w.text)
         /\ ConjKind(w) => w.atom \in {"dlR", "dlCQ"} /\ dlq.cq = AtomsFor(w.union[1]) /\ dlq.ucq = <<>>
         /\ UnionKind(w) => w.atom = "dlUCQ" /\ dlq.cq = {} /\ dlq.ucq = [i \in DOMAIN w.union |-> AtomsFor(w.union[i])]
<1>1. PICK none, union, atoms : none = <<>> /\ union = [i \in DOMAIN w.union |-> AtomsFor(w.union[i])] /\ atoms = AtomsFor(w.union[1])
  OBVIOUS
<1>2. \/ w.atom = "dlConsistent" /\ dlq.cq = {} /\ dlq.ucq = none
      \/ PlainKind(w) /\ dlq.query = Qualified(onto, w.text) /\ dlq.cq = {} /\ dlq.ucq = none
      \/ ConjKind(w) /\ dlq.query = none /\ dlq.cq = atoms /\ dlq.ucq = none
      \/ UnionKind(w) /\ dlq.query = none /\ dlq.cq = {} /\ dlq.ucq = union
  BY ONLY <1>1, MeantBy(w, onto, dlq), MeantMembers
<1>3. /\ PlainKind(w) => w.atom \in {"dlC", "dlR", "dlDR"} /\ (w.atom = "dlDR" \/ Plainly(w))
      /\ ConjKind(w) => w.atom \in {"dlR", "dlCQ"} /\ ~(w.atom = "dlDR" \/ Plainly(w))
      /\ UnionKind(w) => w.atom = "dlUCQ" /\ ~(w.atom = "dlDR" \/ Plainly(w))
  BY ONLY DEF PlainKind, ConjKind, UnionKind
<1>4. isConjQuery(dlq) <=> dlq.cq # {}
  BY DEF isConjQuery
<1>5. isUnionConjQuery(dlq) <=> dlq.ucq # none
  BY ONLY <1>1 DEF isUnionConjQuery
<1>6. ConjKind(w) => atoms # {}
  <2> SUFFICES ASSUME ConjKind(w) PROVE atoms # {}
    OBVIOUS
  <2>1. PICK u, c : u = w.union /\ c = w.union[1]
    OBVIOUS
  <2>2. Len(u) = 1 /\ IsUnionOf(u)
    BY ONLY <2>1, ConjKind(w) DEF ConjKind
  <2>3. IsConj(c)
    BY ONLY <2>1, <2>2, UnionMembers
  <2>4. PICK C : C = ToSet(c)
    OBVIOUS
  <2>5. c \in Seq(C) /\ c # <<>>
    BY ONLY <2>3, <2>4 DEF IsConj
  <2>6. 1 \in DOMAIN c
    BY ONLY <2>5
  <2> QED BY ONLY <1>1, <2>1, <2>6 DEF AtomsFor
<1>7. CASE w.atom = "dlConsistent"
  BY ONLY <1>1, <1>2, <1>3, <1>4, <1>5, <1>7 DEF Retrieves
<1>8. CASE PlainKind(w) /\ dlq.query = Qualified(onto, w.text) /\ dlq.cq = {} /\ dlq.ucq = none
  BY ONLY <1>1, <1>3, <1>4, <1>5, <1>8 DEF Retrieves
<1>9. CASE ConjKind(w) /\ dlq.query = none /\ dlq.cq = atoms /\ dlq.ucq = none
  BY ONLY <1>1, <1>3, <1>4, <1>6, <1>9 DEF Retrieves
<1>10. CASE UnionKind(w) /\ dlq.query = none /\ dlq.cq = {} /\ dlq.ucq = union
  BY ONLY <1>1, <1>3, <1>10 DEF Retrieves
<1> QED BY ONLY <1>2, <1>7, <1>8, <1>9, <1>10

\* Its head and its body.
LEMMA RetrievalParts ==
  ASSUME NEW head, NEW body, NEW dlq, NEW proj, NEW b, b = RetrieveUnderPremise(head, body, dlq, proj), b.ok
  PROVE  /\ head.ok /\ body.ok /\ b.expr.cmd = "retrieve-under-premise"
         /\ b.expr.head = head.expr /\ b.expr.body = body.expr
         /\ b.expr.premise = createPremise(proj, dlq.onto.ns)
<1>1. head.ok /\ body.ok
  <2>1. ~DLBuildingError.ok
    BY DEF DLBuildingError
  <2> QED BY ONLY <2>1, b.ok, b = RetrieveUnderPremise(head, body, dlq, proj) DEF RetrieveUnderPremise
<1>2. PICK e : e = [cmd |-> "retrieve-under-premise", premise |-> createPremise(proj, dlq.onto.ns),
              head |-> head.expr, body |-> body.expr, abox |-> dlq.onto.realuri]
  OBVIOUS
<1>3. b = Built(e)
  BY ONLY <1>1, <1>2, b = RetrieveUnderPremise(head, body, dlq, proj) DEF RetrieveUnderPremise
<1>4. b.expr = e
  BY ONLY <1>3 DEF Built
<1> QED BY ONLY <1>1, <1>2, <1>4

\* RACER does not refuse a retrieve command of an understood query.
LEMMA RetrievalIsLegal ==
  ASSUME NEW w \in Queries, NEW inter, Understood(w, inter), NEW onto, NEW dlq, MeantBy(w, onto, dlq),
         Retrieves(w.atom, dlq), NEW proj, NEW b,
         b = RetrieveUnderPremise(HeadOf(w.atom, dlq), BodyOf(w.atom, dlq), dlq, proj), b.ok
  PROVE  Legal(b.expr.head, b.expr.body)
<1>1. /\ HeadOf(w.atom, dlq).ok /\ BodyOf(w.atom, dlq).ok
      /\ b.expr.head = HeadOf(w.atom, dlq).expr /\ b.expr.body = BodyOf(w.atom, dlq).expr
  BY ONLY RetrievalParts, b.ok, b = RetrieveUnderPremise(HeadOf(w.atom, dlq), BodyOf(w.atom, dlq), dlq, proj)
<1>2. dlq.pattern = w.pattern
  <2>1. dlq.onto = onto /\ dlq.pattern = w.pattern
    BY ONLY MeantOutput, MeantBy(w, onto, dlq)
  <2> QED BY ONLY <2>1
<1>3. w.pattern \in Seq(ToSet(w.pattern))
  BY WrittenQueries
<1>4. PICK u : u = w.union
  OBVIOUS
<1>5. \A i \in DOMAIN u : Safe(w, u[i]) /\ TakenAsWritten(w, u[i])
  BY ONLY <1>4, Understood(w, inter) DEF Understood
<1>6. PICK ns : ns = dlq.onto.ns
  OBVIOUS
<1>7. \A e : Built(e).ok = TRUE /\ Built(e).expr = e
  BY DEF Built
<1>8. CASE PlainKind(w) \/ w.atom = "dlConsistent"
  <2>1. w.atom = "dlDR"
    BY ONLY <1>8, KindRetrieves, MeantBy(w, onto, dlq), Retrieves(w.atom, dlq)
  <2>2. HeadOf(w.atom, dlq) = DatatypeHead(dlq) /\ BodyOf(w.atom, dlq) = DatatypeBody(dlq)
    BY ONLY <2>1 DEF HeadOf, BodyOf
  <2>3. Compatible(dlq)
    <3>1. ~DLBuildingError.ok
      BY DEF DLBuildingError
    <3> QED BY ONLY <1>1, <2>2, <3>1 DEF DatatypeHead
  <2> QED BY ONLY <1>1, <2>2, <2>3, LegalDatatype
<1>9. CASE ConjKind(w)
  <2>1. w.atom \in {"dlR", "dlCQ"} /\ dlq.cq = AtomsFor(u[1])
    BY ONLY <1>4, <1>9, KindRetrieves, MeantBy(w, onto, dlq)
  <2>2. Len(u) = 1 /\ IsUnionOf(u)
    BY ONLY <1>4, <1>9 DEF ConjKind
  <2>3. IsConj(u[1]) /\ 1 \in DOMAIN u
    BY ONLY <2>2, UnionMembers
  <2>4. PICK inj : inj = injectiveVars(dlq.cq)
    OBVIOUS
  <2>5. HeadOf(w.atom, dlq) = Built(Objects(w.pattern, inj, ns))
    BY ONLY <1>2, <1>6, <2>1, <2>4 DEF HeadOf, createHead
  <2>6. BodyOf(w.atom, dlq) = Built(Conjunction(BodyAtoms(dlq.cq, inj, ns)))
    BY ONLY <1>6, <2>1, <2>4 DEF BodyOf, ConjunctionBody
  <2>7. Legal(Objects(w.pattern, inj, ns), Conjunction(BodyAtoms(dlq.cq, inj, ns)))
    BY ONLY <1>3, <1>5, <2>1, <2>3, LegalConj
  <2> QED BY ONLY <1>1, <1>7, <2>5, <2>6, <2>7
<1>10. CASE UnionKind(w)
  <2>1. w.atom = "dlUCQ" /\ dlq.cq = {} /\ dlq.ucq = [i \in DOMAIN u |-> AtomsFor(u[i])]
    BY ONLY <1>4, <1>10, KindRetrieves, MeantBy(w, onto, dlq)
  <2>2. IsUnionOf(u)
    BY ONLY <1>4, <1>10 DEF UnionKind
  <2>3. injectiveVars({}) = {}
    BY DEF injectiveVars
  <2>4. PICK parts, body : parts = dlq.ucq
                           /\ body = UnionOf({Conjunction(BodyAtoms(parts[i], {}, ns)) : i \in DOMAIN parts})
    OBVIOUS
  <2>5. HeadOf(w.atom, dlq) = Built(Objects(w.pattern, {}, ns))
    BY ONLY <1>2, <1>6, <2>1, <2>3 DEF HeadOf, createHead
  <2>6. BodyOf(w.atom, dlq) = Built(body)
    BY ONLY <1>6, <2>1, <2>4 DEF BodyOf, DisjunctionBody
  <2>7. Legal(Objects(w.pattern, {}, ns), body)
    BY ONLY <1>3, <1>5, <2>1, <2>2, <2>4, LegalUnion
  <2> QED BY ONLY <1>1, <1>7, <2>5, <2>6, <2>7
<1>11. \/ w.atom = "dlConsistent" \/ PlainKind(w) \/ ConjKind(w) \/ UnionKind(w)
  BY ONLY MeantBy(w, onto, dlq) DEF MeantBy
<1> QED BY ONLY <1>8, <1>9, <1>10, <1>11

\* Only a datatype query for a given value has no builder.
LEMMA BuilderFailsFor ==
  ASSUME NEW w, NEW dlq, dlq.pattern = w.pattern, Fits(w.atom, dlq), Retrieves(w.atom, dlq), NEW proj,
         ~RetrieveUnderPremise(HeadOf(w.atom, dlq), BodyOf(w.atom, dlq), dlq, proj).ok
  PROVE  w.atom = "dlDR" /\ ~isVariable(w.pattern[2])
<1>1. \A e : Built(e).ok = TRUE
  BY DEF Built
<1>2. ~HeadOf(w.atom, dlq).ok \/ ~BodyOf(w.atom, dlq).ok
  BY ONLY <1>1, ~RetrieveUnderPremise(HeadOf(w.atom, dlq), BodyOf(w.atom, dlq), dlq, proj).ok DEF RetrieveUnderPremise
<1>3. w.atom = "dlDR"
  BY ONLY <1>1, <1>2 DEF HeadOf, BodyOf, createHead, DisjunctionBody, ConjunctionBody
<1>4. ~Compatible(dlq)
  BY ONLY <1>1, <1>2, <1>3 DEF HeadOf, BodyOf, DatatypeHead, DatatypeBody
<1>5. PICK p, S : p = dlq.pattern /\ S = ToSet(p)
  OBVIOUS
<1>6. Len(p) = 2
  BY <1>3, <1>5, Fits(w.atom, dlq) DEF Fits, createAtoms
<1>7. p \in Seq(S)
  BY ONLY <1>5, Fits(w.atom, dlq) DEF Fits
<1>8. DOMAIN p = 1..2
  BY ONLY <1>6, <1>7
<1>9. PICK f : f = typeFlags(p)
  OBVIOUS
<1>10. f = {i \in 1..2 : ~isVariable(p[i])}
  BY ONLY <1>8, <1>9 DEF typeFlags
<1>11. f \notin {{}, {1}}
  BY ONLY <1>4, <1>5, <1>6, <1>9 DEF Compatible
<1>12. 2 \in f
  BY ONLY <1>10, <1>11
<1>13. ~isVariable(p[2])
  BY ONLY <1>10, <1>12
<1> QED BY ONLY <1>3, <1>5, <1>13, dlq.pattern = w.pattern

-----------------------------------------------------------------------------
(* What is understood is answered. *)

\* The ontology of a written query.
OntologyOf(w, onto) ==
  \E u : /\ u = setupURI(w.onto) /\ u \in DOMAIN Documents /\ onto.realuri = u
         /\ onto.ns = NamespaceOf(w) /\ IsNamespace(onto.ns) /\ Documents[u] = DocumentOf(w)

\* The ontology that is registered for a written query is its own.
LEMMA OntologyIsOf ==
  ASSUME NEW w, NEW u, u = setupURI(w.onto), u \in DOMAIN Documents, NEW onto, NEW file, onto = Ontology(u, file)
  PROVE  OntologyOf(w, onto)
<1>1. onto.realuri = u /\ onto.ns = parseNamespace(u)
  BY ONLY onto = Ontology(u, file) DEF Ontology
<1>2. IsNamespace(parseNamespace(u)) /\ parseNamespace(u) = namespaceHandler(Documents[u])
  BY ONLY u \in DOMAIN Documents, NamespacesOfDocuments
<1> QED BY ONLY <1>1, <1>2, u = setupURI(w.onto), u \in DOMAIN Documents DEF OntologyOf, NamespaceOf, DocumentOf

\* The query under way is what its text means.
MeantNow(q) ==
  /\ q.query \in Queries /\ <<q.query.atom, Len(q.query.pattern)>> \in createAtoms
  /\ q.inter \in Interpretations[q.query]
  /\ q.dlq.pattern = q.query.pattern /\ OntologyOf(q.query, q.dlq.onto)
  /\ Understood(q.query, q.inter) =>
       MeantBy(q.query, q.dlq.onto, q.dlq) /\ q.proj = ProjOf(q.query, q.inter)

\* A query under way that is understood is what is meant by it.
LEMMA MeantUnderway ==
  ASSUME StemsInv, OntologiesInv, RegistryInv, AskingInv, asking # NoQuery
  PROVE  MeantNow(asking)
<1>1. PICK q, u, w, onto : q = asking /\ w = asking.query /\ u = setupURI(asking.query.onto) /\ onto = asking.dlq.onto
  OBVIOUS
<1>2. w \in Queries /\ q.inter \in Interpretations[w] /\ u \in DOMAIN ontomap /\ onto = ontomap[u]
      /\ MadeOf(w, q.inter, onto, q.dlq, q.proj)
  BY ONLY <1>1, StemsInv, asking # NoQuery DEF StemsInv
<1>3. Fits(w.atom, q.dlq)
  BY ONLY <1>1, AskingInv, asking # NoQuery DEF AskingInv, Underway
<1>4. u \in DOMAIN Documents /\ onto = Ontology(u, onto.uri)
  BY ONLY <1>2, RegistryInv, OntologiesInv DEF RegistryInv, OntologiesInv
<1>5. OntologyOf(w, onto)
  BY ONLY <1>1, <1>4, OntologyIsOf
<1>6. PICK made : made = QueryCtx(onto, InputOf(w), w.pattern, q.inter)
  OBVIOUS
<1>7. made = [ok |-> TRUE, query |-> Query(q.dlq, q.proj)]
  BY ONLY <1>2, <1>6 DEF MadeOf
<1>8. made.ok = TRUE /\ made.query.dlq = q.dlq /\ made.query.proj = q.proj
  BY ONLY <1>7 DEF Query
<1>9. q.dlq.pattern = w.pattern
  <2>1. FitsText(made.query.dlq, w, onto)
    BY ONLY <1>2, <1>6, <1>8, ContextOf
  <2> QED BY ONLY <1>8, <2>1 DEF FitsText
<1>10. <<w.atom, Len(w.pattern)>> \in createAtoms
  BY ONLY <1>3, <1>9 DEF Fits
<1>11. ASSUME Understood(w, q.inter) PROVE MeantBy(w, onto, q.dlq) /\ q.proj = ProjOf(w, q.inter)
  <2>1. IsNamespace(onto.ns)
    BY ONLY <1>5 DEF OntologyOf
  <2>2. PICK dlq : MeantBy(w, onto, dlq) /\ made = [ok |-> TRUE, query |-> Query(dlq, ProjOf(w, q.inter))]
    BY ONLY <1>2, <1>6, <1>10, <1>11, <2>1, UnderstoodIsMade
  <2>3. made.query.dlq = dlq /\ made.query.proj = ProjOf(w, q.inter)
    BY ONLY <2>2 DEF Query
  <2> QED BY ONLY <1>8, <2>2, <2>3
<1> QED BY ONLY <1>1, <1>2, <1>5, <1>9, <1>10, <1>11 DEF MeantNow

\* Every atom of a program is of the expected type.
LEMMA TypeIsExpected ==
  ASSUME NEW atom, NEW dlq, <<atom, Len(dlq.pattern)>> \in createAtoms, dlq.pattern \in Seq(ToSet(dlq.pattern))
  PROVE  ExpectedType(atom, dlq)
<1>1. PICK p, S, f : p = dlq.pattern /\ S = ToSet(dlq.pattern) /\ f = typeFlags(dlq.pattern)
  OBVIOUS
<1>2. p \in Seq(S)
  BY ONLY <1>1, dlq.pattern \in Seq(ToSet(dlq.pattern))
<1>3. DOMAIN p = 1..Len(p) /\ (Len(p) # 0 => p # <<>>)
  BY ONLY <1>2
<1>4. f \subseteq 1..Len(p)
  BY ONLY <1>1, <1>3 DEF typeFlags
<1>5. (atom = "dlC" => Len(p) = 1) /\ (atom \in {"dlR", "dlDR"} => Len(p) = 2)
  BY <1>1, <<atom, Len(dlq.pattern)>> \in createAtoms DEF createAtoms
<1>6. CASE atom = "dlC"
  <2>1. f = {} \/ f = DOMAIN p
    <3>1. Len(p) = 1
      BY ONLY <1>5, <1>6
    <3>2. DOMAIN p = {1} /\ f \subseteq {1}
      BY ONLY <1>3, <1>4, <3>1
    <3> QED BY ONLY <3>2
  <2>2. p # <<>>
    BY ONLY <1>3, <1>5, <1>6
  <2>3. isRetrieval(dlq) \/ isBoolean(dlq)
    BY ONLY <1>1, <2>1, <2>2 DEF isRetrieval, isBoolean
  <2> QED BY ONLY <1>6, <2>3 DEF ExpectedType
<1>7. CASE atom \in {"dlR", "dlDR"}
  <2>1. p # <<>>
    BY ONLY <1>3, <1>5, <1>7
  <2>2. isRetrieval(dlq) \/ isMixed(dlq)
    BY ONLY <1>1, <2>1 DEF isRetrieval, isMixed
  <2> QED BY ONLY <1>7, <2>2 DEF ExpectedType
<1>8. CASE atom \notin {"dlC", "dlR", "dlDR"}
  BY ONLY <1>8 DEF ExpectedType
<1> QED BY ONLY <1>6, <1>7, <1>8

\* What may be wrong with a query that fails.
Excused(w, inter, map) ==
  \/ setupURI(w.onto) \notin DOMAIN Documents
  \/ ~isLocal(w.onto) /\ w.onto \notin DOMAIN map
  \/ ~Understood(w, inter)
  \/ w.atom = "dlDR" /\ ~isVariable(w.pattern[2])

\* No query that is understood is rejected before RACER is asked.
LEMMA NotRejected ==
  ASSUME RegistryInv, OntologiesInv, NEW w \in Queries, NEW inter, NEW reachable, reachable \/ ~isLocal(w.onto),
         NEW p, p = Prepare(w, inter, reachable), Asks(w, inter, p), ~p.ok
  PROVE  Excused(w, inter, ontomap')
<1> SUFFICES ASSUME setupURI(w.onto) \in DOMAIN Documents, isLocal(w.onto) \/ w.onto \in DOMAIN ontomap',
                    Understood(w, inter)
             PROVE  FALSE
  BY DEF Excused
<1>1. PICK u, made : u = setupURI(w.onto) /\ made = createOntology(ontomap, files, w.onto, reachable)
  OBVIOUS
<1>2. <<w.atom, Len(w.pattern)>> \in createAtoms /\ ontomap' = made.ontomap
  <2>1. p.made = made
    BY ONLY <1>1, p = Prepare(w, inter, reachable), PreparationRegisters
  <2> QED BY ONLY <2>1, Asks(w, inter, p) DEF Asks, Registers
<1>3. w.pattern \in Seq(ToSet(w.pattern))
  BY WrittenQueries
<1>4. made.ok /\ \E file : made.onto = Ontology(u, file)
  <2>1. CASE u \in DOMAIN ontomap
    <3>1. made = [ok |-> TRUE, onto |-> ontomap[u], ontomap |-> ontomap, files |-> files]
      BY ONLY <1>1, <2>1 DEF createOntology
    <3>2. made.ok = TRUE /\ made.onto = ontomap[u]
      BY ONLY <3>1
    <3> QED BY ONLY <2>1, <3>2, OntologiesInv DEF OntologiesInv
  <2>2. CASE u \notin DOMAIN ontomap
    <3>1. reachable
      <4>1. CASE isLocal(w.onto)
        BY ONLY <4>1, reachable \/ ~isLocal(w.onto)
      <4>2. CASE ~isLocal(w.onto)
        <5>1. u = w.onto
          BY ONLY <1>1, <4>2 DEF setupURI
        <5>2. u \in DOMAIN made.ontomap
          BY ONLY <1>2, <4>2, <5>1, isLocal(w.onto) \/ w.onto \in DOMAIN ontomap'
        <5>3. PICK uri : KnownAlready(made, u) \/ NewlyRead(made, u, uri) \/ Unread(made, u, uri)
          BY ONLY <1>1, Creation
        <5>4. NewlyRead(made, u, uri)
          BY ONLY <2>2, <5>2, <5>3 DEF KnownAlready, Unread
        <5>5. made.ok = TRUE
          BY ONLY <5>4 DEF NewlyRead
        <5>6. CASE ~reachable
          <6>1. ~made.ok
            BY ONLY <1>1, <2>2, <5>6 DEF createOntology
          <6> QED BY ONLY <5>5, <6>1
        <5> QED BY ONLY <5>6
      <4> QED BY ONLY <4>1, <4>2
    <3>2. PICK file : KnownAlready(made, u) \/ NewlyRead(made, u, file) \/ Unread(made, u, file)
      BY ONLY <1>1, Creation
    <3>3. made.ok
      BY ONLY <1>1, <2>2, <3>1, setupURI(w.onto) \in DOMAIN Documents DEF createOntology, parses
    <3>4. NewlyRead(made, u, file)
      BY ONLY <2>2, <3>2, <3>3 DEF KnownAlready, Unread
    <3> QED BY ONLY <3>3, <3>4 DEF NewlyRead
  <2> QED BY ONLY <2>1, <2>2
<1>5. IsNamespace(made.onto.ns)
  <2>1. OntologyOf(w, made.onto)
    BY ONLY <1>1, <1>4, setupURI(w.onto) \in DOMAIN Documents, OntologyIsOf
  <2> QED BY ONLY <2>1 DEF OntologyOf
<1>6. PICK ctx : ctx = QueryCtx(made.onto, InputOf(w), w.pattern, inter)
  OBVIOUS
<1>7. PICK dlq : MeantBy(w, made.onto, dlq) /\ ctx = [ok |-> TRUE, query |-> Query(dlq, ProjOf(w, inter))]
  BY ONLY <1>2, <1>5, <1>6, UnderstoodIsMade, w \in Queries, Understood(w, inter)
<1>8. ctx.ok = TRUE /\ ctx.query.dlq = dlq
  BY ONLY <1>7 DEF Query
<1>9. dlq.pattern = w.pattern
  <2>1. MeantBy(w, made.onto, dlq)
    BY ONLY <1>7
  <2>2. PICK onto : onto = made.onto
    OBVIOUS
  <2>3. MeantBy(w, onto, dlq)
    BY ONLY <2>1, <2>2
  <2> QED BY ONLY <2>3, MeantOutput
<1>10. ExpectedType(w.atom, dlq)
  BY ONLY <1>2, <1>3, <1>9, TypeIsExpected
<1>11. PICK dirs : dirs = getDirectors(w.atom, dlq, ctx.query.proj)
  OBVIOUS
<1>12. dirs.ok = TRUE
  BY ONLY <1>10, <1>11 DEF getDirectors, Composite
<1>13. p = WithContext(w, made, ctx)
  BY ONLY <1>1, <1>4, <1>6, p = Prepare(w, inter, reachable) DEF Prepare, WithOntology
<1>14. p = WithDirectors(made, ctx, dirs)
  BY ONLY <1>8, <1>11, <1>13 DEF WithContext
<1>15. p.ok = TRUE
  BY ONLY <1>12, <1>14 DEF WithDirectors
<1> QED BY ONLY <1>15, ~p.ok

\* RACER refuses a command about an ABox it has only for its head or its body.
LEMMA RefusedForBody ==
  ASSUME NEW c, NEW r, AsksOnly(c), c.abox \in DOMAIN r.aboxes,
         ~RacerAnswerDriver(NoAnswer, Answer(c, r)).ok
  PROVE  c.cmd = "retrieve-under-premise" /\ ~Legal(c.head, c.body)
<1>1. PICK reply, cmd : reply = Answer(c, r) /\ cmd = c.cmd
  OBVIOUS
<1>2. reply.kind = "error" /\ reply.text # "incoherent"
  <2>1. \A a : [ok |-> TRUE, answer |-> a].ok = TRUE /\ \A x : [ok |-> x, answer |-> a].ok = x
    OBVIOUS
  <2> QED BY ONLY <1>1, <2>1, ~RacerAnswerDriver(NoAnswer, Answer(c, r)).ok DEF RacerAnswerDriver
<1>3. \A b : Reply(b).kind # "error"
  BY DEF Reply
<1>4. \A p : Truth(p).kind # "error"
  BY ONLY <1>3 DEF Truth
<1>5. \A items : Listing(items).kind # "error"
  BY ONLY <1>3 DEF Listing
<1>6. \A xs : Singles(xs).kind # "error" /\ Pairs(xs).kind # "error"
  BY ONLY <1>5 DEF Singles, Pairs
<1>7. \A xs, h : Bindings(xs, h).kind # "error"
  BY ONLY <1>4, <1>5 DEF Bindings
<1>8. Error("incoherent").text = "incoherent"
  BY DEF Error
<1>9. PICK kb : kb = Known(c, r)
  OBVIOUS
<1>11. cmd \in {"abox-consistent?", "concept-instances", "individual-instance?",
  "retrieve-related-individuals", "individuals-related?", "individual-fillers", "retrieve-under-premise"}
  BY ONLY <1>1, AsksOnly(c) DEF AsksOnly
<1>12. ~(cmd = "abox-consistent?")
  <2> SUFFICES ASSUME cmd = "abox-consistent?" PROVE FALSE
    OBVIOUS
  <2>1. reply = Truth(~Contradictory(kb))
    BY ONLY <1>1, <1>9, c.abox \in DOMAIN r.aboxes, cmd = "abox-consistent?" DEF Answer
  <2> QED BY ONLY <1>2, <1>4, <2>1
<1>13. ~Contradictory(kb)
  <2> SUFFICES ASSUME Contradictory(kb) PROVE FALSE
    OBVIOUS
  <2>1. c.cmd # "abox-consistent?"
    BY ONLY <1>1, <1>12
  <2>2. reply = Error("incoherent")
    BY ONLY <1>1, <1>9, c.abox \in DOMAIN r.aboxes, <2>1, Contradictory(kb) DEF Answer
  <2> QED BY ONLY <1>2, <1>8, <2>2
<1>14. cmd = "retrieve-under-premise"
  <2>1. CASE cmd = "concept-instances"
    <3>1. reply = Singles(Instances(kb, c.c))
      BY ONLY <1>1, <1>9, <1>13, c.abox \in DOMAIN r.aboxes, <2>1 DEF Answer
    <3> QED BY ONLY <1>2, <1>6, <3>1
  <2>2. CASE cmd = "individual-instance?"
    <3>1. reply = Truth(ConceptLiteral(c.c, c.i.name) \in kb)
      BY ONLY <1>1, <1>9, <1>13, c.abox \in DOMAIN r.aboxes, <2>2 DEF Answer
    <3> QED BY ONLY <1>2, <1>4, <3>1
  <2>3. CASE cmd = "retrieve-related-individuals"
    <3>1. reply = Pairs(Related2(kb, c.r))
      BY ONLY <1>1, <1>9, <1>13, c.abox \in DOMAIN r.aboxes, <2>3 DEF Answer
    <3> QED BY ONLY <1>2, <1>6, <3>1
  <2>4. CASE cmd = "individuals-related?"
    <3>1. reply = Truth(<<c.i1.name, c.i2.name>> \in Related2(kb, c.r))
      BY ONLY <1>1, <1>9, <1>13, c.abox \in DOMAIN r.aboxes, <2>4 DEF Answer
    <3> QED BY ONLY <1>2, <1>4, <3>1
  <2>5. CASE cmd = "individual-fillers"
    <3>1. reply = Singles(FillersOf(kb, c.i, c.r))
      BY ONLY <1>1, <1>9, <1>13, c.abox \in DOMAIN r.aboxes, <2>5 DEF Answer
    <3> QED BY ONLY <1>2, <1>6, <3>1
  <2> QED BY ONLY <1>11, <1>12, <2>1, <2>2, <2>3, <2>4, <2>5
<1>15. ~Legal(c.head, c.body)
  <2> SUFFICES ASSUME Legal(c.head, c.body) PROVE FALSE
    OBVIOUS
  <2>1. reply = Bindings(Retrieved(kb, r.una, c.head, c.body), c.head)
    BY ONLY <1>1, <1>9, <1>13, <1>14, c.abox \in DOMAIN r.aboxes, Legal(c.head, c.body) DEF Answer
  <2> QED BY ONLY <1>2, <1>7, <2>1
<1> QED BY ONLY <1>1, <1>14, <1>15

\* A query about the clone is no retrieve command.
LEMMA CloneIsNotRetrieved ==
  ASSUME NEW atom, NEW dlq, Fits(atom, dlq), ~Retrieves(atom, dlq), NEW b, b = OfClone(atom, dlq)
  PROVE  b.expr.cmd # "retrieve-under-premise"
<1>1. CloneCommand(atom, dlq, b)
  BY ONLY Fits(atom, dlq), ~Retrieves(atom, dlq), b = OfClone(atom, dlq), CloneCommands
<1>2. \A e : Built(e).expr = e
  BY DEF Built
<1> QED BY ONLY <1>1, <1>2 DEF CloneCommand, ConceptInstances, RoleIndividuals, Fillers

\* The director in turn refuses nothing that is understood.
LEMMA NotRefused ==
  ASSUME MeantNow(asking), Understood(asking.query, asking.inter), Fits(asking.query.atom, asking.dlq),
         NEW c, AskedOfKb(asking, c, racer), NEW b, b.ok, c = b.expr,
         b = IF Retrieves(asking.query.atom, asking.dlq)
                         THEN RetrieveUnderPremise(HeadOf(asking.query.atom, asking.dlq),
                                BodyOf(asking.query.atom, asking.dlq), asking.dlq, asking.proj)
                         ELSE OfClone(asking.query.atom, asking.dlq),
         ~RacerAnswerDriver(NoAnswer, Answer(c, racer)).ok
  PROVE  FALSE
<1>1. PICK q, w, dlq, onto : q = asking /\ w = q.query /\ dlq = q.dlq /\ onto = q.dlq.onto
  OBVIOUS
<1>2. AsksOnly(c) /\ c.abox \in DOMAIN racer.aboxes
  BY ONLY AskedOfKb(asking, c, racer) DEF AskedOfKb
<1>3. c.cmd = "retrieve-under-premise" /\ ~Legal(c.head, c.body)
  BY ONLY <1>2, ~RacerAnswerDriver(NoAnswer, Answer(c, racer)).ok, RefusedForBody
<1>4. w \in Queries /\ Understood(w, q.inter) /\ MeantBy(w, onto, dlq) /\ Fits(w.atom, dlq)
  BY ONLY <1>1, MeantNow(asking), Understood(asking.query, asking.inter), Fits(asking.query.atom, asking.dlq) DEF MeantNow
<1>5. b = IF Retrieves(w.atom, dlq) THEN RetrieveUnderPremise(HeadOf(w.atom, dlq), BodyOf(w.atom, dlq), dlq, q.proj)
          ELSE OfClone(w.atom, dlq)
  BY ONLY <1>1, b = IF Retrieves(asking.query.atom, asking.dlq)
                         THEN RetrieveUnderPremise(HeadOf(asking.query.atom, asking.dlq),
                                BodyOf(asking.query.atom, asking.dlq), asking.dlq, asking.proj)
                         ELSE OfClone(asking.query.atom, asking.dlq)
<1>6. CASE Retrieves(w.atom, dlq)
  <2>1. b = RetrieveUnderPremise(HeadOf(w.atom, dlq), BodyOf(w.atom, dlq), dlq, q.proj)
    BY ONLY <1>5, <1>6
  <2>2. Legal(b.expr.head, b.expr.body)
    BY ONLY <1>4, <1>6, <2>1, b.ok, RetrievalIsLegal
  <2> QED BY ONLY <1>3, <2>2, c = b.expr
<1>7. CASE ~Retrieves(w.atom, dlq)
  <2>1. b = OfClone(w.atom, dlq)
    BY ONLY <1>5, <1>7
  <2>2. b.expr.cmd # "retrieve-under-premise"
    BY ONLY <1>4, <1>7, <2>1, CloneIsNotRetrieved
  <2> QED BY ONLY <1>3, <2>2, c = b.expr
<1> QED BY ONLY <1>6, <1>7

\* What the proofs about answers stand on.
BasesInv ==
  /\ ArgumentsInv /\ RegistryInv /\ FilesInv /\ CopiesInv /\ TurnInv /\ AskingInv /\ CrashInv
  /\ StemsInv /\ OntologiesInv /\ DialogInv

\* They hold at the beginning.
LEMMA BasesStart == Init => BasesInv
<1> SUFFICES ASSUME Init PROVE BasesInv
  OBVIOUS
<1>1. phase = "options" /\ contexts = {} /\ returned = NoQuery /\ asking = NoQuery
  BY DEF Init
<1>2. CrashInv /\ TurnInv
  BY <1>1 DEF CrashInv, OnlyKnownCrashes, TurnInv
<1> QED BY <1>2, RegistryStarts, NobodyAsks, DialogStarts DEF BasesInv

\* Every step keeps them.
LEMMA BasesStep == BasesInv /\ [Next]_vars => BasesInv'
BY ArgumentsStep, RegistryStep, FilesStep, CopiesStep, TurnStep, AskingStep, CrashStep,
   StemsStep, OntologiesStep, DialogStep DEF BasesInv

\* A query fails, crashes, is in the cache, or begins.
LEMMA AskMakes ==
  ASSUME Ask
  PROVE  \E w \in Queries : \E inter \in Interpretations[w], reachable \in BOOLEAN : \E p :
           /\ reachable \/ ~isLocal(w.onto)
           /\ p = Prepare(w, inter, reachable) /\ Idle /\ Asks(w, inter, p)
           /\ \/ ~p.ok /\ returned' = Failed(w, inter) /\ contexts' = contexts
              \/ p.ok /\ returned' = Aborted(w, inter) /\ contexts' = contexts
              \/ p.ok /\ CacheHit(w, inter, p)
              \/ p.ok /\ returned' = NoQuery /\ contexts' = contexts
BY DEF Ask, Reject, Abort, CacheHit, Begin

\* Whether the query that failed is excused.
LEMMA FailedIs == \A w, inter : Failed(w, inter).kind = "error" /\ Failed(w, inter).query = w /\ Failed(w, inter).inter = inter
BY DEF Failed

\* What is returned by other outcomes is no error.
LEMMA OthersAreNone ==
  \A w, inter, v, t, f : /\ Returned(w, inter, v, t, f).kind # "error" /\ Aborted(w, inter).kind # "error"
                         /\ NoQuery.kind # "error"
BY DEF Returned, Aborted, NoQuery

\* The property, by the excuses that a refused query has.
LEMMA ExcusedIs ==
  /\ UnderstoodIsAnswered <=> (returned.kind = "error" => Excused(returned.query, returned.inter, ontomap))
  /\ UnderstoodIsAnswered' <=> (returned'.kind = "error" => Excused(returned'.query, returned'.inter, ontomap'))
BY DEF UnderstoodIsAnswered, Excused, Asked

\* A query that is asked has its excuse when it is rejected.
LEMMA AskedIsExcused ==
  ASSUME BasesInv, Ask
  PROVE  UnderstoodIsAnswered'
<1>1. PICK w \in Queries : \E inter \in Interpretations[w], reachable \in BOOLEAN : \E p :
           /\ reachable \/ ~isLocal(w.onto)
           /\ p = Prepare(w, inter, reachable) /\ Idle /\ Asks(w, inter, p)
           /\ \/ ~p.ok /\ returned' = Failed(w, inter) /\ contexts' = contexts
              \/ p.ok /\ returned' = Aborted(w, inter) /\ contexts' = contexts
              \/ p.ok /\ CacheHit(w, inter, p)
              \/ p.ok /\ returned' = NoQuery /\ contexts' = contexts
  BY Ask, AskMakes
<1>2. PICK inter, reachable, p :
           /\ inter \in Interpretations[w] /\ reachable \in BOOLEAN
           /\ reachable \/ ~isLocal(w.onto)
           /\ p = Prepare(w, inter, reachable) /\ Idle /\ Asks(w, inter, p)
           /\ \/ ~p.ok /\ returned' = Failed(w, inter) /\ contexts' = contexts
              \/ p.ok /\ returned' = Aborted(w, inter) /\ contexts' = contexts
              \/ p.ok /\ CacheHit(w, inter, p)
              \/ p.ok /\ returned' = NoQuery /\ contexts' = contexts
  BY <1>1
<1>3. PICK kind : kind = "error"
  OBVIOUS
<1>4. CASE ~p.ok /\ returned' = Failed(w, inter)
  <2>1. Excused(w, inter, ontomap')
    <3>1. RegistryInv /\ OntologiesInv
      BY ONLY BasesInv DEF BasesInv
    <3>2. (reachable \/ ~isLocal(w.onto)) /\ p = Prepare(w, inter, reachable) /\ Asks(w, inter, p) /\ ~p.ok
      BY ONLY <1>2, <1>4
    <3> QED BY ONLY <3>1, <3>2, NotRejected, w \in Queries
  <2>2. returned'.query = w /\ returned'.inter = inter
    BY ONLY <1>4, FailedIs
  <2>3. Excused(returned'.query, returned'.inter, ontomap')
    BY ONLY <2>1, <2>2
  <2> QED BY ONLY <2>3, ExcusedIs
<1>5. CASE returned' = Aborted(w, inter) \/ returned' = NoQuery \/ CacheHit(w, inter, p)
  <2>1. returned' = Aborted(w, inter) \/ returned' = NoQuery \/ \E v, t : returned' = Returned(w, inter, v, t, "cache")
    <3>1. CASE CacheHit(w, inter, p)
      BY ONLY <3>1 DEF CacheHit
    <3> QED BY ONLY <1>5, <3>1
  <2>2. returned'.kind # kind
    BY ONLY <1>3, <2>1, OthersAreNone
  <2> QED BY ONLY <1>3, <2>2, ExcusedIs
<1> QED BY ONLY <1>2, <1>4, <1>5

\* A director whose command cannot be built is that of a datatype query for a value.
LEMMA ThrownIsExcused ==
  ASSUME BasesInv, BuilderThrows
  PROVE  Excused(asking.query, asking.inter, ontomap)
<1>1. asking # NoQuery /\ ~Link.build.ok
  BY ONLY BuilderThrows DEF BuilderThrows, Turn
<1>2. PICK q, left, whole : q = asking /\ left = todo /\ whole = half
  OBVIOUS
<1>3. Underway(q, left, whole) /\ MeantNow(q)
  BY ONLY <1>1, <1>2, BasesInv, MeantUnderway DEF BasesInv, AskingInv
<1>4. ~Head(left).build.ok
  BY ONLY <1>1, <1>2 DEF Link
<1>5. LastOfRetrieval(q, left)
  <2>1. FullReset.build.ok
    BY DEF FullReset, Ignored, QueryDirector, Built
  <2>2. \/ Head(left) = FullReset \/ Prepares(Head(left), q.dlq.onto) \/ LastOfRetrieval(q, left)
        \/ Head(left).build.ok = TRUE
    BY ONLY <1>3, LinkInTurn
  <2> QED BY ONLY <1>4, <2>1, <2>2 DEF Prepares
<1>6. Retrieves(q.query.atom, q.dlq) /\ Len(left) = 1
  BY ONLY <1>5 DEF LastOfRetrieval
<1>7. Places(Chain(q), q, Opening(q)) /\ Len(Chain(q)) \in Nat /\ Head(left) = Chain(q)[Sent(q, left) + 1]
  BY ONLY <1>3, LinkPlace
<1>8. Sent(q, left) + 1 = Len(Chain(q))
  BY ONLY <1>6, <1>7 DEF Sent
<1>9. Fits(q.query.atom, q.dlq)
  BY ONLY <1>3 DEF Underway
<1>10. PICK l : l = Head(left)
  OBVIOUS
<1>11. l = Chain(q)[Len(Chain(q))]
  BY ONLY <1>7, <1>8, <1>10
<1>12. l.build = RetrieveUnderPremise(HeadOf(q.query.atom, q.dlq), BodyOf(q.query.atom, q.dlq), q.dlq, q.proj)
  BY ONLY <1>6, <1>7, <1>9, <1>11, LastLink
<1>13. PICK w, dlq, b : w = q.query /\ dlq = q.dlq /\ b = l.build
  OBVIOUS
<1>14. dlq.pattern = w.pattern
  BY ONLY <1>3, <1>13 DEF MeantNow
<1>15. ~RetrieveUnderPremise(HeadOf(w.atom, dlq), BodyOf(w.atom, dlq), dlq, q.proj).ok
  BY ONLY <1>4, <1>10, <1>12, <1>13
<1>16. w.atom = "dlDR" /\ ~isVariable(w.pattern[2])
  BY ONLY <1>6, <1>9, <1>13, <1>14, <1>15, BuilderFailsFor
<1> QED BY ONLY <1>2, <1>13, <1>16 DEF Excused

\* A query whose command is sent has its excuse when it is refused.
LEMMA SentIsExcused ==
  ASSUME BasesInv, UnderstoodIsAnswered, Send
  PROVE  UnderstoodIsAnswered'
<1>0. ontomap' = ontomap
  BY Send DEF Send, Still
<1>1. DialogInv /\ AskingInv /\ StemsInv /\ OntologiesInv /\ RegistryInv /\ FilesInv /\ CopiesInv
  BY ONLY BasesInv DEF BasesInv
<1>2. CASE Len(todo) > 1
  <2>1. returned' = returned
    BY ONLY <1>1, <1>2, Send, BeforeTheLast
  <2> QED BY ONLY <1>0, <2>1, UnderstoodIsAnswered, ExcusedIs
<1>3. CASE ~(Len(todo) > 1)
  <2>1. PICK c, read :
           /\ racer' = racer /\ asking # NoQuery /\ Fits(asking.query.atom, asking.dlq)
           /\ AskedOfKb(asking, c, racer)
           /\ Link.build.ok /\ c = Link.build.expr
           /\ Link.build = IF Retrieves(asking.query.atom, asking.dlq)
                           THEN RetrieveUnderPremise(HeadOf(asking.query.atom, asking.dlq),
                                  BodyOf(asking.query.atom, asking.dlq), asking.dlq, asking.proj)
                           ELSE OfClone(asking.query.atom, asking.dlq)
           /\ read = RacerAnswerDriver(NoAnswer, Answer(c, racer))
           /\ Goes(read) \/ Refused(read) \/ HandleInconsistency(read)
    BY ONLY <1>1, <1>3, Send, TheLast
  <2>2. MeantNow(asking)
    BY ONLY <1>1, <2>1, MeantUnderway
  <2>3. PICK kind : kind = "error"
    OBVIOUS
  <2>4. CASE Goes(read) \/ HandleInconsistency(read)
    <3>1. \E a : Deliver(a)
      <4>1. CASE Goes(read)
        BY ONLY <1>3, <4>1 DEF Goes
      <4>2. CASE HandleInconsistency(read)
        BY ONLY <4>2 DEF HandleInconsistency
      <4> QED BY ONLY <2>4, <4>1, <4>2
    <3>2. \E w, i, v, t, f : returned' = Returned(w, i, v, t, f)
      BY ONLY <3>1 DEF Deliver
    <3>3. returned'.kind # kind
      BY ONLY <2>3, <3>2, OthersAreNone
    <3> QED BY ONLY <2>3, <3>3, ExcusedIs
  <2>5. CASE Refused(read)
    <3>1. ~read.ok /\ returned' = Failed(asking.query, asking.inter)
      BY ONLY <2>5 DEF Refused, Throw
    <3>2. ~Understood(asking.query, asking.inter)
      <4> SUFFICES ASSUME Understood(asking.query, asking.inter) PROVE FALSE
        OBVIOUS
      <4>1. PICK b : b = Link.build
        OBVIOUS
      <4>2. /\ b.ok /\ c = b.expr /\ Fits(asking.query.atom, asking.dlq) /\ AskedOfKb(asking, c, racer)
            /\ b = IF Retrieves(asking.query.atom, asking.dlq)
                         THEN RetrieveUnderPremise(HeadOf(asking.query.atom, asking.dlq),
                                BodyOf(asking.query.atom, asking.dlq), asking.dlq, asking.proj)
                         ELSE OfClone(asking.query.atom, asking.dlq)
        BY ONLY <2>1, <4>1
      <4>3. ~RacerAnswerDriver(NoAnswer, Answer(c, racer)).ok
        BY ONLY <2>1, <3>1
      <4> QED BY ONLY <2>2, <4>2, <4>3, NotRefused, Understood(asking.query, asking.inter)
    <3>3. Excused(asking.query, asking.inter, ontomap')
      BY ONLY <3>2 DEF Excused
    <3>4. returned'.query = asking.query /\ returned'.inter = asking.inter
      BY ONLY <3>1, FailedIs
    <3> QED BY ONLY <3>3, <3>4, ExcusedIs
  <2> QED BY ONLY <2>1, <2>4, <2>5
<1> QED BY ONLY <1>2, <1>3

\* Every step keeps the property.
LEMMA UnderstoodStep ==
  ASSUME BasesInv, UnderstoodIsAnswered, [Next]_vars
  PROVE  UnderstoodIsAnswered'
<1>1. CASE Ask
  BY ONLY <1>1, BasesInv, AskedIsExcused
<1>2. CASE Send
  BY ONLY <1>2, BasesInv, UnderstoodIsAnswered, SentIsExcused
<1>3. CASE BuilderThrows
  <2>1. returned' = Failed(asking.query, asking.inter) /\ ontomap' = ontomap
    BY ONLY <1>3 DEF BuilderThrows, Throw, Still
  <2>2. Excused(asking.query, asking.inter, ontomap)
    BY ONLY <1>3, BasesInv, ThrownIsExcused
  <2>3. returned'.query = asking.query /\ returned'.inter = asking.inter
    BY ONLY <2>1, FailedIs
  <2>4. Excused(returned'.query, returned'.inter, ontomap')
    BY ONLY <2>1, <2>2, <2>3
  <2> QED BY ONLY <2>4, ExcusedIs
<1>4. CASE Exit
  <2>1. returned' = returned /\ ontomap' = NoOntologies
    BY ONLY <1>4 DEF Exit
  <2>2. DOMAIN ontomap' = {}
    BY ONLY <2>1 DEF NoOntologies
  <2>3. \A w, inter : Excused(w, inter, ontomap) => Excused(w, inter, ontomap')
    BY ONLY <2>2 DEF Excused
  <2> QED BY ONLY <2>1, <2>3, UnderstoodIsAnswered, ExcusedIs
<1>5. CASE Help \/ SetOntology \/ SetKBReload \/ SetDLSetup \/ SetDLOpt \/ SetDLDebug \/ SetDefaults \/ KeepArgument \/ OptionsSet
  <2>1. phase = "options" /\ returned' = returned
    BY ONLY <1>5 DEF Help, SetOntology, SetKBReload, SetDLSetup, SetDLOpt, SetDLDebug, SetDefaults, KeepArgument,
            OptionsSet, Looks, Erase
  <2>2. returned = NoQuery
    BY ONLY <2>1, BasesInv DEF BasesInv, CrashInv
  <2>3. returned'.kind # "error"
    BY ONLY <2>1, <2>2, OthersAreNone
  <2> QED BY ONLY <2>3, ExcusedIs
<1>6. CASE Garbled \/ UNCHANGED vars
  <2>1. returned' = returned /\ ontomap' = ontomap
    BY ONLY <1>6 DEF Garbled, Still, vars, ontologies
  <2> QED BY ONLY <2>1, UnderstoodIsAnswered, ExcusedIs
<1> QED BY ONLY <1>1, <1>2, <1>3, <1>4, <1>5, <1>6, [Next]_vars DEF Next

\* A query that is understood, of a document that can be read, is not refused: in every
\* state of every run, an error has one of the excuses the property names.
\* (QueryCtx.cpp, RacerNRQLBuilder.cpp, RacerBuilder.cpp, RacerExtAtom.tcc.)
THEOREM UnderstoodAlwaysAnswered == Spec => []UnderstoodIsAnswered
<1>1. Init => BasesInv /\ UnderstoodIsAnswered
  <2>1. Init => returned = NoQuery
    BY DEF Init
  <2>2. Init => UnderstoodIsAnswered
    BY <2>1, OthersAreNone DEF UnderstoodIsAnswered
  <2> QED BY <2>2, BasesStart
<1>2. (BasesInv /\ UnderstoodIsAnswered) /\ [Next]_vars => (BasesInv /\ UnderstoodIsAnswered)'
  BY BasesStep, UnderstoodStep
<1> QED BY <1>1, <1>2, PTL DEF Spec

\* The last command of a query is asked of what its own document and its own interpretation
\* say, and of nothing that an earlier query left in RACER, whatever was asked, failed or
\* garbled before; names are unique, and a datatype query has its values.
\* (QueryDirector.cpp, RacerBuilder.cpp, RacerExtAtom.tcc.)
AsksOfItsOwn == ~(Len(todo) > 1) => AskedOfKb(asking, Link.build.expr, racer)

THEOREM AsksOfItsOwnKnowledge == Spec => [][Send => AsksOfItsOwn]_vars
<1>1. Init => BasesInv
  BY BasesStart
<1>2. BasesInv /\ [Next]_vars => BasesInv'
  BY BasesStep
<1>3. BasesInv /\ [Next]_vars => [Send => AsksOfItsOwn]_vars
  BY TheLast DEF BasesInv, AsksOfItsOwn
<1> QED BY <1>1, <1>2, <1>3, PTL DEF Spec

\* A query under way that is understood is what its text says: the dl-query and the facts
\* projected from the interpretation are those of the written query, in its document.
\* (QueryCtx.cpp, Query.cpp, AtomSeparator.cpp, URI.cpp.)
IsWhatIsMeant == asking # NoQuery => MeantNow(asking)

THEOREM AskedIsWhatIsMeant == Spec => []IsWhatIsMeant
<1>1. Init => BasesInv
  BY BasesStart
<1>2. BasesInv /\ [Next]_vars => BasesInv'
  BY BasesStep
<1>3. BasesInv => IsWhatIsMeant
  BY MeantUnderway DEF BasesInv, IsWhatIsMeant
<1> QED BY <1>1, <1>2, <1>3, PTL DEF Spec

=============================================================================
