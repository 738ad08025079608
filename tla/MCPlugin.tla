------------------------------ MODULE MCPlugin ------------------------------
(***************************************************************************)
(* An instance of Plugin: a local document with a namespace, one without,  *)
(* and one on the web; dl-atoms of every kind, with variables, constants   *)
(* and both, some that are written wrongly; command lines.                 *)
(***************************************************************************)
EXTENDS Plugin

Birds == [scheme |-> "file", path |-> <<"/", "cwd", "birds.owl">>]
Cats == [scheme |-> "file", path |-> <<"/", "cwd", "cats.owl">>]
Web == [scheme |-> "http", path |-> <<"web.owl">>]
BirdsRelative == [scheme |-> "none", path |-> <<"birds.owl">>]
CatsRelative == [scheme |-> "file", path |-> <<"cats.owl">>]
Missing == [scheme |-> "none", path |-> <<"missing.owl">>]

\* One more than there are evaluations.
TemporaryFiles == {[scheme |-> "file", path |-> <<"/", "tmp", k>>] : k \in {"owl-1", "owl-2", "owl-3"}}

\* The name that the KB manager makes for its ABox is that of no document.
TemporaryABox == [scheme |-> "KB", path |-> <<"1">>]

n(name) == <<"n#", name>>
tweety == n("tweety")
joe == n("joe")

\* joe is no Flier; joe and ann have no other type than owl:Thing.
BirdsDocument ==
  [xmlns |-> <<<<"n#">>>>,
   triples |-> {Triple(tweety, rdfType, n("Bird")), Triple(joe, rdfType, owlThing),
                Triple(n("ann"), rdfType, owlThing), Triple(n("Bird"), rdfType, <<"owl#", "Class">>),
                Triple(tweety, n("likes"), joe), Triple(tweety, n("age"), <<"3">>)},
   more |-> {Fact(TRUE, n("Flier"), <<joe>>)}]
CatsDocument ==
  [xmlns |-> <<>>, triples |-> {Triple(<<"kim">>, rdfType, <<"Cat">>)}, more |-> {}]
WebDocument ==
  [xmlns |-> <<<<"h#">>, <<"n#">>>>, triples |-> {Triple(joe, rdfType, n("Bird"))}, more |-> {}]
DocumentSet == (Birds :> BirdsDocument) @@ (Cats :> CatsDocument) @@ (Web :> WebDocument)

AllNamespaces == {"n#", "h#", "rdf#", "rdfs#", "owl#"}
Variables == {"X", "Y", "Z"}
Ages == {n("age")}

-----------------------------------------------------------------------------
X == <<"X">>
Y == <<"Y">>
Z == <<"Z">>
Pos(name, args) == Literal(FALSE, name, args)
Neg(name, args) == Literal(TRUE, name, args)

Preds == <<"pc", "mc", "pr", "mr">>
Written(atom, onto, text, pattern, union) ==
  [atom |-> atom, onto |-> onto, preds |-> Preds, text |-> text, pattern |-> pattern, union |-> union]
Simple(atom, onto, l) == Written(atom, onto, PlainText(l), l.args, <<<<l>>>>)
Conj(atom, onto, pattern, conj) == Written(atom, onto, ConjText(conj), pattern, <<conj>>)

BirdsOf == Simple("dlC", BirdsRelative, Pos(<<"Bird">>, <<X>>))
IsNoFlier == Simple("dlC", Birds, Neg(n("Flier"), <<<<"joe">>>>))
Likes == Simple("dlR", Birds, Pos(<<"likes">>, <<X, Y>>))
LikedByTweety == Simple("dlR", Birds, Pos(<<"likes">>, <<<<"tweety">>, X>>))
LikeJoe == Simple("dlR", Birds, Pos(<<"likes">>, <<X, <<"<">> \o joe \o <<">">>>>))
TweetyLikesJoe == Simple("dlR", Birds, Pos(n("likes"), <<tweety, joe>>))
Dislikes == Simple("dlR", Birds, Neg(<<"likes">>, <<X, Y>>))
AgesOf == Simple("dlDR", Birds, Pos(<<"age">>, <<X, Y>>))
AgeOfTweety == Simple("dlDR", Birds, Pos(<<"age">>, <<tweety, Y>>))
Threes == Simple("dlDR", Birds, Pos(<<"age">>, <<X, <<"3">>>>))
LikesAnother == Conj("dlCQ", Birds, <<X, Y>>,
  <<Pos(<<"likes">>, <<X, Y>>), Pos(<<"Bird">>, <<X>>), Pos(<<"!=">>, <<X, Y>>)>>)
TweetyLikes == Conj("dlCQ", Birds, <<>>, <<Pos(n("likes"), <<tweety, X>>)>>)
BirdsOrLiked == LET u == <<<<Pos(<<"Bird">>, <<X>>)>>, <<Pos(<<"likes">>, <<Y, X>>)>>>>
                IN  Written("dlUCQ", Birds, UnionText(u), <<X>>, u)
BirdsOrLikers == LET u == <<<<Pos(<<"Bird">>, <<X>>)>>, <<Pos(<<"likes">>, <<X, Y>>)>>>>
                 IN  Written("dlUCQ", Birds, UnionText(u), <<X, Y>>, u)
UnboundHead == Conj("dlCQ", Birds, <<X, Y>>, <<Pos(<<"Bird">>, <<X>>)>>)
Consistent == Written("dlConsistent", Birds, <<>>, <<>>, <<>>)
ConjunctiveConcept == Conj("dlC", Birds, <<X>>, <<Pos(<<"Bird">>, <<X>>)>>)
TrailingComma == Written("dlCQ", Birds, AtomText(Pos(<<"Bird">>, <<X>>)) \o <<",">>, <<X>>, <<>>)
Unclosed == Written("dlCQ", Birds, <<"Bird", "(", "X", ")", ",", "likes", "(", "X">>, <<X>>, <<>>)
NoFliers == Conj("dlCQ", Birds, <<X>>, <<Neg(<<"Flier">>, <<X>>)>>)
LikesItself == Conj("dlCQ", Birds, <<X>>, <<Pos(<<"likes">>, <<X, Y>>), Pos(<<"==">>, <<X, Y>>)>>)
Bracketed == Simple("dlC", Birds, Pos(<<"<", "n#", "Bird", ">">>, <<X>>))
OnePredicate == [Bracketed EXCEPT !.preds = <<"pc", "pc", "pr", "mr">>]
WebBirds == Simple("dlC", Web, Pos(<<"Bird">>, <<X>>))
CatsOf == Simple("dlC", CatsRelative, Pos(<<"Cat">>, <<X>>))
IsNoCat == Simple("dlC", CatsRelative, Neg(<<"Cat">>, <<<<"tom">>>>))
NotJoe == Conj("dlCQ", Birds, <<X>>, <<Pos(<<"likes">>, <<X, Y>>), Pos(<<"!=">>, <<Y, joe>>)>>)
BackAndForth == Conj("dlCQ", Birds, <<X>>,
  <<Pos(<<"likes">>, <<X, Y>>), Pos(<<"likes">>, <<Y, Z>>), Pos(<<"!=">>, <<X, Y>>), Pos(<<"!=">>, <<Y, Z>>)>>)
ConceptUnion == LET u == <<<<Pos(<<"Bird">>, <<X>>)>>, <<Pos(<<"Flier">>, <<X>>)>>>>
                IN  Written("dlC", Birds, <<"Bird", " v ", "Flier">>, <<X>>, u)
LikeThemselves == Simple("dlR", Birds, Pos(<<"likes">>, <<X, X>>))
NotThemselves == Conj("dlCQ", Birds, <<X>>, <<Pos(<<"likes">>, <<X, Y>>), Pos(<<"!=">>, <<X, X>>)>>)
AgesAsRole == Simple("dlR", Birds, Pos(<<"age">>, <<X, Y>>))
FooBar == Simple("dlC", CatsRelative, Pos(<<"foo">>, <<X>>))
EqualNames == Simple("dlR", Birds, Pos(<<"==">>, <<joe, joe>>))
NoDocument == Simple("dlC", Missing, Pos(<<"Bird">>, <<X>>))

\* What the interpretations say: that joe is a Bird and likes tweety, whom kim likes;
\* that joe is no Bird; that joe flies, which the document denies.
BirdJoe == [pred |-> "pc", args |-> <<<<"Bird">>, joe>>]
NoBirdJoe == [pred |-> "mc", args |-> <<<<"Bird">>, <<"joe">>>>]
JoeLikesTweety == [pred |-> "pr", args |-> <<<<"likes">>, <<"joe">>, <<"tweety">>>>]
JoeLikesJoe == [pred |-> "pr", args |-> <<<<"likes">>, joe, <<"joe">>>>]
KimNotTweety == [pred |-> "mr", args |-> <<n("likes"), <<"kim">>, tweety>>]
WrongArity == [pred |-> "pc", args |-> <<<<"likes">>, tweety, tweety>>]
JoeFlies == [pred |-> "pc", args |-> <<<<"Flier">>, <<"joe">>>>]
OtherCat == [pred |-> "pc", args |-> <<<<"Cat">>, <<"tom">>>>]
NoOtherCat == [pred |-> "mc", args |-> <<<<"Cat">>, <<"tom">>>>]

Full == {BirdJoe, JoeLikesTweety, KimNotTweety, WrongArity}
Contrary == {JoeFlies, JoeLikesTweety}

Asked2 == {{}, Full}
Asked3 == {{}, Full, Contrary}
InterpretationsOf ==
  (BirdsOf :> {{NoBirdJoe}, Full, Contrary}) @@ (IsNoFlier :> Asked3) @@ (Likes :> Asked2)
  @@ (LikedByTweety :> {Full}) @@ (LikeJoe :> Asked3) @@ (TweetyLikesJoe :> {{WrongArity}, Full})
  @@ (Dislikes :> {Full}) @@ (AgesOf :> Asked2) @@ (AgeOfTweety :> {{}, Contrary}) @@ (Threes :> {Full})
  @@ (LikesAnother :> Asked3) @@ (TweetyLikes :> {{}, Contrary}) @@ (BirdsOrLiked :> Asked2)
  @@ (BirdsOrLikers :> {{}}) @@ (Consistent :> {Full, Contrary}) @@ (ConjunctiveConcept :> {{}})
  @@ (TrailingComma :> {{}}) @@ (WebBirds :> {{}}) @@ (CatsOf :> {{OtherCat}, {NoOtherCat}})
  @@ (Unclosed :> {{}}) @@ (NoFliers :> {{}}) @@ (LikesItself :> {Full \cup {JoeLikesJoe}})
  @@ (Bracketed :> {{BirdJoe}}) @@ (OnePredicate :> {{BirdJoe}}) @@ (NoDocument :> {{}})
  @@ (UnboundHead :> {{}}) @@ (IsNoCat :> {{NoOtherCat}}) @@ (NotJoe :> {{}}) @@ (BackAndForth :> {Full})
  @@ (ConceptUnion :> {{}}) @@ (LikeThemselves :> {{}}) @@ (NotThemselves :> {{}})
  @@ (AgesAsRole :> {{}}) @@ (FooBar :> {{}}) @@ (EqualNames :> {{}})
QuerySet == DOMAIN InterpretationsOf

-----------------------------------------------------------------------------
Program == <<"birds.hex">>
CommandLineSet ==
  {<<<<"--dldebug=", "3">>, <<"--dlopt=", "-push", "-dlcache">>, <<"--kb-reload">>>>,
   <<<<"--dlopt=", "-dlcache">>, <<"out", "--dldebug=", "3">>, Program>>,
   <<<<"--dldebug=", "high">>, <<"--dlsetup=", "-una">>, <<"--dlopt=", "-cache">>>>,
   <<<<"--dlopt=", "-dlcache">>, <<"--dldebug=", "high">>>>,
   <<<<"--ontology=", "none", "birds.owl">>>>,
   <<<<"--ontology=", "http", "web.owl">>>>,
   <<<<"--dftrans=", "2">>>>,
   <<Program, <<"--dfcq=", "off">>>>}

\* For what the documentation says of options: the cache is disabled the way the help text
\* says, a debug level follows, and it is disabled again the way the README says.
EverythingOff ==
  {<<<<"--dlopt=", "-dlcache">>, <<"--dlsetup=", "-una">>, <<"--dldebug=", "3">>,
     <<"--dlopt=", "-cache">>>>}
OneConcept == {BirdsOf}
=============================================================================
