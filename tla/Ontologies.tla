----------------------------- MODULE Ontologies -----------------------------
(***************************************************************************)
(* The registry of ontologies (Ontology.cpp) and what is read of their     *)
(* documents (OWLParser.cpp).  Downloads and the XML parser are external:  *)
(* a document is the default namespaces it declares, its triples, and the  *)
(* literals that follow from the rest of it.                               *)
(***************************************************************************)
EXTENDS Names

CONSTANTS
  Documents,  \* the well-formed documents: [absolute URIs -> [xmlns, triples, more]]
  TempNames   \* what the C library has for names of temporary files

rdfType == <<"rdf#", "type">>
owlThing == <<"owl#", "Thing">>
SchemaNamespaces == {"rdf#", "rdfs#", "owl#"}
Triple(s, p, o) == [s |-> s, p |-> p, o |-> o]

\* The last default namespace declared is kept.
namespaceHandler(doc) == IF doc.xmlns = <<>> THEN NoNamespace ELSE Last(doc.xmlns)

\* Variant of aboxHandler: instances of owl:Thing are not taken.
AboxHandlerSchema(t) == t.p = rdfType /\ Head(t.o) \notin SchemaNamespaces

\* What has a type, be it owl:Thing or one that is not of the schema languages, is
\* an individual.
aboxHandler(t) ==
  t.p = rdfType /\ (t.o = owlThing \/ Head(t.o) \notin SchemaNamespaces)

\* Any error that the XML parser reports is a DLParsingError; warnings are not heard.
\* Which handlers are set makes no difference to it.
parses(uri) == uri \in DOMAIN Documents

parseNamespace(uri) == namespaceHandler(Documents[uri])

parseABox(doc) == {<<"<">> \o t.s \o <<">">> : t \in {u \in doc.triples : aboxHandler(u)}}

-----------------------------------------------------------------------------
(* createOntology: [ok, onto, ontomap, files].  The temporary files that are on the  *)
(* disk are a function from their names to the URIs they were downloaded from.       *)

NoOntologies == [u \in {} |-> {}]
NoFiles == [f \in {} |-> {}]

\* The ABoxes are read on demand.
NoABoxes == [u \in {} |-> {}]

\* An entry of a map, new or in the place of an old one.
Put(m, key, value) == [k \in DOMAIN m \cup {key} |-> IF k = key THEN value ELSE m[k]]

\* The file is opened before anything is fetched, and stays when nothing is.
fetchURI(files, file, uri) == Put(files, file, uri)

\* tempnam: the name of no file on the disk.
tempnam(files) == CHOOSE f \in TempNames : f \notin DOMAIN files

Ontology(realuri, uri) ==
  [realuri |-> realuri, uri |-> uri, ns |-> parseNamespace(realuri)]

\* Variant of createOntology: the URI is looked up as it is written.
CreateOntologyAsWritten(m, files, text, reachable) ==
  LET uri == setupURI(text)
  IN  IF text \in DOMAIN m THEN [ok |-> TRUE, onto |-> m[text], ontomap |-> m, files |-> files]
      ELSE IF uri \in DOMAIN Documents /\ reachable
      THEN [ok |-> TRUE, onto |-> Ontology(uri, uri),
            ontomap |-> Put(m, text, Ontology(uri, uri)), files |-> files]
      ELSE [ok |-> FALSE, ontomap |-> m, files |-> files]

\* There is one object for an absolute URI, and none for a document that could not be
\* read when it was asked for.  The file of a download is there before it fails.
createOntology(m, files, text, reachable) ==
  LET finduri == setupURI(text)
      uri == IF isLocal(finduri) THEN finduri ELSE tempnam(files)
      fetched == IF isLocal(finduri) THEN files ELSE fetchURI(files, uri, finduri)
  IN  IF finduri \in DOMAIN m
      THEN [ok |-> TRUE, onto |-> m[finduri], ontomap |-> m, files |-> files]
      ELSE IF reachable /\ parses(finduri)
      THEN [ok |-> TRUE, onto |-> Ontology(finduri, uri),
            ontomap |-> Put(m, finduri, Ontology(finduri, uri)), files |-> fetched]
      ELSE [ok |-> FALSE, ontomap |-> m, files |-> fetched]

\* Variant of RemoveFiles: the copies are looked for among the local documents.
RemoveFilesOfLocal(m, files) ==
  LET copies == {m[u].uri : u \in {v \in DOMAIN m : isLocal(m[v].realuri)}}
  IN  [f \in DOMAIN files \ copies |-> files[f]]

\* The destructors of the registered ontologies: a downloaded copy is removed.
RemoveFiles(m, files) ==
  LET copies == {m[u].uri : u \in {v \in DOMAIN m : ~isLocal(m[v].realuri)}}
  IN  [f \in DOMAIN files \ copies |-> files[f]]

=============================================================================
