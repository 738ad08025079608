-------------------------------- MODULE Racer --------------------------------
(***************************************************************************)
(* RACER, as the code uses it (external): which state the commands leave   *)
(* behind and what is answered.  Knowledge is a set of literals about named*)
(* individuals, and exactly these are entailed, unless two contradict each *)
(* other.                                                                  *)
(***************************************************************************)
EXTENDS Commands, Ontologies

CONSTANTS
  DatatypeRoles  \* their second arguments are values

Fact(neg, name, args) == [neg |-> neg, name |-> name, args |-> args]
Opposite(l) == [l EXCEPT !.neg = ~@]

\* What a document says; declarations of classes and roles say nothing here.
Literals(doc) ==
  LET typed == {t \in doc.triples : t.p = rdfType /\ (Head(t.o) \notin SchemaNamespaces \/ t.o = owlThing)}
      related == {t \in doc.triples : t.p # rdfType}
  IN  {Fact(FALSE, t.o, <<t.s>>) : t \in typed} \cup {Fact(FALSE, t.p, <<t.s, t.o>>) : t \in related}
        \cup doc.more

Contradictory(kb) == \E l \in kb : Opposite(l) \in kb

FreshRacer == [una |-> FALSE, mirror |-> FALSE, aboxes |-> [n \in {} |-> {}]]

\* What a concept without a sign says of an object.
UnsignedLiteral(c, x) ==
  IF c.op = "concept" THEN Fact(FALSE, c.name, <<x>>)
  ELSE Fact(FALSE, c.role.name, <<x, c.of.list[1].name>>)

\* What a concept says of an object, and what an assertion adds; nobody negates twice.
ConceptLiteral(c, x) ==
  IF c.op = "not" THEN Opposite(UnsignedLiteral(c.of, x)) ELSE UnsignedLiteral(c, x)

AssertedBy(a) ==
  IF a.op \in {"instance", "add-concept"} THEN ConceptLiteral(a.c, a.i.name)
  ELSE Fact(FALSE, a.r.name, <<a.i1.name, a.i2.name>>)

isDatatypeFact(l) == l.name \in DatatypeRoles
Values(kb) == {l.args[2] : l \in {f \in kb : isDatatypeFact(f)}}
IndividualsOf(kb) == UNION {ToSet(l.args) : l \in kb} \ Values(kb)

-----------------------------------------------------------------------------
(* Bodies under an assignment of individuals and values to variable names. *)

VarsOfAtom(a) ==
  LET q == IF a.op = "not-query" THEN a.of ELSE a
      objects == IF q.op = "concept-query" THEN {q.o} ELSE {q.o1, q.o2}
  IN  {o \in objects : o.op = "var"}

ValueOf(o, env) == IF o.op = "var" THEN env[o.name] ELSE o.name

RoleLiteral(q, env) == Fact(FALSE, q.r.name, <<ValueOf(q.o1, env), ValueOf(q.o2, env)>>)

AtomHolds(kb, a, env) ==
  CASE a.op = "concept-query" -> ConceptLiteral(a.c, ValueOf(a.o, env)) \in kb
    [] a.op = "role-query" ->
         /\ RoleLiteral(a, env) \in kb
         /\ a.r.datatype = isDatatypeFact(RoleLiteral(a, env))
    [] a.op = "not-query" -> Opposite(RoleLiteral(a.of, env)) \in kb
    [] a.op = "same-as" -> ValueOf(a.o1, env) = ValueOf(a.o2, env)

AtomsOfBody(body) == IF body.op = "and" THEN body.of ELSE {body}
Bodies(body) == IF body.op = "union" THEN body.of ELSE {body}
VarsOfBody(body) == UNION {VarsOfAtom(a) : a \in AtomsOfBody(body)}

\* Injective variables are bound to different individuals, which there are only
\* under the unique name assumption.
Assignments(kb, una, vars) ==
  LET injective == {v.name : v \in {w \in vars : w.injective /\ ~w.substrate}}
      range == IndividualsOf(kb) \cup Values(kb)
  IN  {env \in [{v.name : v \in vars} -> range] :
         \A x, y \in injective : x # y => una /\ env[x] # env[y]}

\* A variable of the head that a body of a union does not mention ranges over all.
HeadTuples(kb, una, head, body) ==
  LET vars == VarsOfBody(body) \cup {o \in ToSet(head) : o.op = "var"}
  IN  {[i \in DOMAIN head |-> ValueOf(head[i], env)] :
         env \in {e \in Assignments(kb, una, vars) : \A a \in AtomsOfBody(body) : AtomHolds(kb, a, e)}}

\* RACER refuses an empty body and a head no body mentions.
Legal(head, body) ==
  /\ Bodies(body) # {}
  /\ \A b \in Bodies(body) : AtomsOfBody(b) # {}
  /\ {o \in ToSet(head) : o.op = "var"} \subseteq UNION {VarsOfBody(b) : b \in Bodies(body)}

Retrieved(kb, una, head, body) == UNION {HeadTuples(kb, una, head, b) : b \in Bodies(body)}

-----------------------------------------------------------------------------
(* What is printed: trees of individuals, variables and lists. *)

Word(w) == [t |-> "word", w |-> w]
Ind(x) == [t |-> "individual", name |-> x]
ListOf(s) == [t |-> "list", of |-> s]
Error(text) == [kind |-> "error", text |-> text]
Reply(body) == [kind |-> "answer", body |-> body]

Truth(p) == Reply(Word(IF p THEN "T" ELSE "NIL"))

\* No instance prints as NIL.
Listing(items) == Reply(IF items = {} THEN Word("NIL") ELSE ListOf(SetToSeq(items)))
Singles(xs) == Listing({Ind(x) : x \in xs})
Pairs(ps) == Listing({ListOf(<<Ind(p[1]), Ind(p[2])>>) : p \in ps})

\* A tuple has each individual behind its variable; without a head there is only truth.
Bindings(tuples, head) ==
  IF head = <<>> THEN Truth(tuples # {})
  ELSE Listing({ListOf([i \in DOMAIN t |-> ListOf(<<[t |-> "variable"], Ind(t[i])>>)]) : t \in tuples})

Instances(kb, c) == {x \in IndividualsOf(kb) : ConceptLiteral(c, x) \in kb}
Related2(kb, r) == {l.args : l \in {f \in kb : ~f.neg /\ f.name = r.name /\ ~isDatatypeFact(f)}}
FillersOf(kb, i, r) ==
  IF r.op = "inv" THEN {p[1] : p \in {q \in Related2(kb, r.of) : q[2] = i.name}}
  ELSE {p[2] : p \in {q \in Related2(kb, r) : q[1] = i.name}}

\* What the ABox of a query command is known to say, r being RACER's state.
Known(c, r) ==
  r.aboxes[c.abox] \cup
    (IF c.cmd = "retrieve-under-premise" THEN {AssertedBy(a) : a \in c.premise} ELSE {})

\* An incoherent ABox is not asked, except whether it is one.
Answer(c, r) ==
  IF c.abox \notin DOMAIN r.aboxes THEN Error("undefined")
  ELSE LET kb == Known(c, r) IN
  IF c.cmd = "abox-consistent?" THEN Truth(~Contradictory(kb))
  ELSE IF Contradictory(kb) THEN Error("incoherent")
  ELSE
  CASE c.cmd = "concept-instances" -> Singles(Instances(kb, c.c))
    [] c.cmd = "individual-instance?" -> Truth(ConceptLiteral(c.c, c.i.name) \in kb)
    [] c.cmd = "retrieve-related-individuals" -> Pairs(Related2(kb, c.r))
    [] c.cmd = "individuals-related?" -> Truth(<<c.i1.name, c.i2.name>> \in Related2(kb, c.r))
    [] c.cmd = "individual-fillers" -> Singles(FillersOf(kb, c.i, c.r))
    [] c.cmd = "retrieve-under-premise" ->
         IF ~Legal(c.head, c.body) THEN Error("illegal body")
         ELSE Bindings(Retrieved(kb, r.una, c.head, c.body), c.head)

\* The document a command names: a local one by its absolute path, or a copy.
Readable(uri, files) == uri \in DOMAIN files \/ uri \in DOMAIN Documents
Read(uri, files) == Documents[IF uri \in DOMAIN files THEN files[uri] ELSE uri]

\* What a command makes of RACER, and its reply; files are the temporary files.
Obey(r, c, files) ==
  LET has(n) == n \in DOMAIN r.aboxes
      put(n, kb) == [r EXCEPT !.aboxes = Put(@, n, kb)]
      done(s) == [racer |-> s, reply |-> Reply(Word("OKAY"))]
      refuse == [racer |-> r, reply |-> Error("undefined")]
  IN
  CASE c.cmd = "full-reset" -> done(FreshRacer)
    [] c.cmd = "set-unique-name-assumption" -> done([r EXCEPT !.una = TRUE])
    [] c.cmd = "enable-data-substrate-mirroring" -> done([r EXCEPT !.mirror = TRUE])
    [] c.cmd \in {"owl-read-file", "owl-read-document"} ->
         IF ~Readable(c.uri, files) THEN refuse
         ELSE [racer |-> put(c.kb, {l \in Literals(Read(c.uri, files)) : ~isDatatypeFact(l) \/ r.mirror}),
               reply |-> Reply(Ind(c.kb))]
    [] c.cmd = "kb-ontologies" -> IF has(c.kb) THEN done(r) ELSE refuse
    [] c.cmd = "clone-abox" -> IF has(c.from) THEN done(put(c.to, r.aboxes[c.from])) ELSE refuse
    [] c.cmd = "state" ->
         IF has(kbName) THEN done(put(kbName, r.aboxes[kbName] \cup {AssertedBy(a) : a \in c.assertions}))
         ELSE refuse
    [] c.cmd = "forget-abox" ->
         IF has(c.abox) THEN done([r EXCEPT !.aboxes = [n \in DOMAIN @ \ {c.abox} |-> @[n]]])
         ELSE refuse
    [] OTHER -> [racer |-> r, reply |-> Answer(c, r)]

=============================================================================
