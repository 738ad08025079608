---------------------------- MODULE QueryMeaning ----------------------------
(***************************************************************************)
(* What a dl-atom says, without the code: a written query is a union of    *)
(* conjunctions of literals over the names of a document and the atoms of  *)
(* an interpretation, and its answers are the bindings of the variables of *)
(* its output list.                                                        *)
(*                                                                         *)
(* A written query is [atom, onto, preds, text, pattern, union]: preds are *)
(* the four input predicates, text is how union is spelled.                *)
(***************************************************************************)
EXTENDS AnswerGrammar

Literal(neg, name, args) == [neg |-> neg, name |-> name, args |-> args]

Resolve(name, ns) ==
  LET bare == Unbracketed(name)
  IN  IF isVariable(name) \/ Head(bare) \in Namespaces THEN bare ELSE ns \o bare

\* What the interpretation adds: atoms of the four predicates with one argument after
\* the name of a concept, and two after that of a role.
Stated(w, inter, ns) ==
  LET places(a) == {k \in 1..4 : a.pred = w.preds[k] /\ Len(a.args) = IF k <= 2 THEN 2 ELSE 3}
  IN  {Fact(places(a) \subseteq {2, 4}, Resolve(a.args[1], ns),
            [k \in 1..Len(a.args) - 1 |-> Resolve(a.args[k + 1], ns)]) :
         a \in {b \in inter : places(b) # {}}}

DocumentOf(w) == Documents[setupURI(w.onto)]
NamespaceOf(w) == namespaceHandler(DocumentOf(w))
Knowledge(w, inter) == Literals(DocumentOf(w)) \cup Stated(w, inter, NamespaceOf(w))
Coherent(w, inter) == ~Contradictory(Knowledge(w, inter))

VariablesOf(texts) == {t \in texts : isVariable(t)}
VariablesAt(conj, places) == VariablesOf(UNION {ToSet(conj[j].args) : j \in places})
VariablesIn(conj) == VariablesAt(conj, DOMAIN conj)

Says(l, env, ns, kb) ==
  LET arg(k) == IF isVariable(l.args[k]) THEN env[l.args[k]] ELSE Resolve(l.args[k], ns)
  IN  CASE l.name = <<"==">> -> arg(1) = arg(2)
        [] l.name = <<"!=">> -> arg(1) # arg(2)
        [] OTHER -> Fact(l.neg, Resolve(l.name, ns), [k \in DOMAIN l.args |-> arg(k)]) \in kb

\* What the output list asks for.
AskedFor(pattern) ==
  FlattenSeq([k \in DOMAIN pattern |-> IF isVariable(pattern[k]) THEN <<pattern[k]>> ELSE <<>>])

Bound(w, env) ==
  [k \in DOMAIN AskedFor(w.pattern) |-> IndividualTerm(env[AskedFor(w.pattern)[k]])]

MeaningOf(w, conj, kb) ==
  LET things == IndividualsOf(kb) \cup Values(kb)
      envs == [VariablesIn(conj) -> things]
  IN  {Bound(w, env) :
         env \in {e \in envs : \A j \in DOMAIN conj : Says(conj[j], e, NamespaceOf(w), kb)}}

\* &dlConsistent asks nothing more.
Meaning(w, inter) ==
  IF w.atom = "dlConsistent" THEN IF Coherent(w, inter) THEN {<<>>} ELSE {}
  ELSE UNION {MeaningOf(w, w.union[i], Knowledge(w, inter)) : i \in DOMAIN w.union}

-----------------------------------------------------------------------------
(* How it is written. *)

Punctuation == {"(", ")", ",", " ", " v ", "-", "<", ">"}

\* A name is a text without punctuation; in brackets stands a URI.
isName(t) ==
  /\ t \in Seq(ToSet(t)) /\ Unbracketed(t) # <<>>
  /\ ToSet(Unbracketed(t)) \cap Punctuation = {}
  /\ Unbracketed(t) # t => Head(Unbracketed(t)) \in Namespaces

isEquation(l) == l.name \in {<<"==">>, <<"!=">>}

isLiteral(l) ==
  /\ l.neg \in BOOLEAN /\ isName(l.name) /\ ~isVariable(l.name)
  /\ l.args \in Seq(ToSet(l.args)) /\ Len(l.args) \in {1, 2} /\ \A k \in DOMAIN l.args : isName(l.args[k])
  /\ isEquation(l) => Len(l.args) = 2

PlainText(l) == (IF l.neg THEN <<"-">> ELSE <<>>) \o l.name

AtomText(l) ==
  PlainText(l) \o <<"(">> \o l.args[1]
    \o (IF Len(l.args) = 2 THEN <<",", " ">> \o l.args[2] ELSE <<>>) \o <<")">>

\* Texts with a separator between them.
Joined(texts, separator) ==
  FlattenSeq([i \in DOMAIN texts |-> (IF i = 1 THEN <<>> ELSE <<separator>>) \o texts[i]])

ConjText(conj) == Joined([j \in DOMAIN conj |-> AtomText(conj[j])], ",")
UnionText(u) == Joined([i \in DOMAIN u |-> ConjText(u[i])], " v ")

Plainly(w) ==
  w.atom \in {"dlC", "dlR"} /\ "(" \notin ToSet(w.text) /\ " v " \notin ToSet(w.text)

\* A name with its output list, or a union of conjunctions.
Spelled(w) ==
  /\ w.union \in Seq(ToSet(w.union))
  /\ \A i \in DOMAIN w.union :
       /\ w.union[i] \in Seq(ToSet(w.union[i])) /\ w.union[i] # <<>>
       /\ \A j \in DOMAIN w.union[i] : isLiteral(w.union[i][j])
  /\ \A k \in DOMAIN w.pattern : isName(w.pattern[k])
  /\ CASE w.atom = "dlConsistent" -> TRUE
       [] w.atom = "dlDR" \/ Plainly(w) ->
            /\ Len(w.union) = 1 /\ Len(w.union[1]) = 1 /\ ~isEquation(w.union[1][1])
            /\ w.text = PlainText(w.union[1][1]) /\ w.pattern = w.union[1][1].args
       [] OTHER -> w.union # <<>> /\ w.text = UnionText(w.union)

-----------------------------------------------------------------------------
(* What the code takes as it is written.  Everything else is a limit of the code.    *)

\* Variables stand in some other literal than equations, in every part of a union those
\* of the output list too.
Safe(w, conj) ==
  VariablesIn(conj) \cup VariablesOf(ToSet(w.pattern))
    \subseteq VariablesAt(conj, {j \in DOMAIN conj : ~isEquation(conj[j])})

\* Signs count only in front of a concept; one inequality of two different variables in
\* a conjunction, none in a union.
TakenAsWritten(w, conj) ==
  LET inequalities == {j \in DOMAIN conj : conj[j].name = <<"!=">>}
  IN  /\ \A j \in DOMAIN conj : conj[j].neg => Plainly(w) /\ w.atom = "dlC"
      /\ Cardinality(inequalities) <= (IF Len(w.union) = 1 THEN 1 ELSE 0)
      /\ \A j \in inequalities :
           conj[j].args[1] # conj[j].args[2] /\ \A k \in {1, 2} : isVariable(conj[j].args[k])

\* A plain query does not compare the places of its output list; what RACER answers for a
\* constant in the head of a conjunctive one is not to be seen in the code.
Listed(w) ==
  IF w.atom = "dlDR" \/ Plainly(w)
  THEN \A k, l \in DOMAIN w.pattern : w.pattern[k] = w.pattern[l] /\ isVariable(w.pattern[k]) => k = l
  ELSE \A k \in DOMAIN w.pattern : isVariable(w.pattern[k])

\* A concept atom takes no conjunction, a role atom no union, and the text of a union goes with its own atom.
RightKind(w) ==
  CASE w.atom = "dlC" -> Plainly(w)
    [] w.atom \in {"dlR", "dlCQ"} -> Len(w.union) = 1
    [] w.atom = "dlUCQ" -> Len(w.union) > 1
    [] OTHER -> TRUE

\* Under a document without a namespace the sign of a minus predicate is sent twice.
SignsKept(w, inter) ==
  NamespaceOf(w) = NoNamespace => \A l \in Stated(w, inter, NoNamespace) : ~l.neg

\* Names are used as in OWL DL: datatype roles relate individuals to values, which are
\* none, and only &dlDR asks for them; an interpretation is sent as facts about
\* individuals, an empty one as the fact foo(bar).
InVocabulary(w, inter) ==
  LET kb == Knowledge(w, inter)
      stated == Stated(w, inter, NamespaceOf(w))
      asked == {l \in UNION {ToSet(w.union[i]) : i \in DOMAIN w.union} : ~isEquation(l)}
      name(l) == Resolve(l.name, NamespaceOf(w))
  IN  /\ \A l \in kb : isDatatypeFact(l) => ~l.neg /\ Len(l.args) = 2 /\ l \notin stated
      /\ \A l \in kb : \A k \in DOMAIN l.args : l.args[k] \in Values(kb) => isDatatypeFact(l) /\ k = 2
      /\ \A l \in asked : (name(l) \in DatatypeRoles) = (w.atom = "dlDR")
      /\ \A l \in asked, m \in kb : m.name = name(l) => Len(m.args) = Len(l.args)
      /\ Foo.name \notin DatatypeRoles \cup {l.name : l \in kb} \cup {name(l) : l \in asked}

Understood(w, inter) ==
  /\ Spelled(w) /\ RightKind(w) /\ Listed(w) /\ IsInjective(w.preds)
  /\ SignsKept(w, inter) /\ InVocabulary(w, inter)
  /\ \A i \in DOMAIN w.union : Safe(w, w.union[i]) /\ TakenAsWritten(w, w.union[i])

=============================================================================
