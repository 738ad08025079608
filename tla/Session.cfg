CONSTANTS
  f = f
  g = g
  Facts <- TwoFacts
  Individuals = {1, 2}
  Mentions <- MentionedIn
  OwnIndividuals = {1}
  Inconsistent <- Both
  Queries <- SessionQueries
  Entailed <- SessionTheory
  Refusable = {"full-reset", "set-una", "mirror", "kb-ontologies", "clone-abox", "owl-read", "state", "ask", "retrieve"}
  MayFailParse = FALSE
SPECIFICATION Spec
INVARIANTS TypeOK CoherentAnswersExact SkippedErrorsOnlyLose ConsistencyDecided InconsistentIsTrue InconsistentRetrievalCovers
