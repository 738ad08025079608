-------------------------------- MODULE Names --------------------------------
(***************************************************************************)
(* The names of concepts, roles and individuals as they are written in     *)
(* programs (URI.cpp) and as they are sent to RACER (RacerQueryExpr.cpp).  *)
(*                                                                         *)
(* A text is a sequence of tokens: a namespace such as "n#", a name, a     *)
(* sign, a bracket.  The quotes around a term are not modelled: ComfortTerm*)
(* is a class of dlvhex, and a quoted name is taken to come out of         *)
(* getUnquotedString without its quotes, as RacerQueryExpr.cpp:55 wants it *)
(* also behind a sign.                                                     *)
(***************************************************************************)
EXTENDS Integers, Sequences, SequencesExt, FiniteSets, FiniteSetsExt, Folds

CONSTANTS
  Namespaces,   \* tokens with a scheme, such as "n#" for http://n#
  VarNames      \* tokens that begin with a capital letter or stand for variables

NoNamespace == <<>>

\* The texts of terms.
isVariable(t) == t # <<>> /\ Head(t) \in VarNames
isStrongNegated(pred) == pred # <<>> /\ Head(pred) = "-"

Unsigned(s) == IF s # <<>> /\ Head(s) = "-" THEN Tail(s) ELSE s

Unbracketed(s) ==
  IF Len(s) >= 2 /\ Head(s) = "<" /\ Last(s) = ">" THEN SubSeq(s, 2, Len(s) - 1) ELSE s

getPlainURI(s) == Unbracketed(Unsigned(s))

HasScheme(plain) == plain # <<>> /\ Head(plain) \in Namespaces

\* Behind a sign and in brackets too.
isValid(s) == HasScheme(getPlainURI(s))

\* How a constant is sent: a URI as it is, other names behind the namespace of the
\* ontology.  The sign goes; it is for the builders to send it.
Symbol(term, ns) ==
  IF isValid(term) THEN getPlainURI(term)
  ELSE IF ns = NoNamespace THEN term ELSE ns \o Unsigned(term)

-----------------------------------------------------------------------------
(* URIs of documents, compared as they are written. *)

URI(scheme, path) == [scheme |-> scheme, path |-> path]

\* Pathnames, file:path and file://path are of the file system; what begins with
\* another scheme than http:// is taken for a path.
isLocal(uri) == uri.scheme # "http"

getAbsolutePath(path) == IF Head(path) = "/" THEN path ELSE <<"/", "cwd">> \o path

setupURI(uri) ==
  IF isLocal(uri) THEN URI("file", getAbsolutePath(uri.path)) ELSE uri

=============================================================================
