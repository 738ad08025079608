CONSTANTS
  f = f
  g = g
  Facts <- TwoFacts
  Individuals = {1, 2, 3}
  Mentions <- MentionedIn
  OwnIndividuals = {3}
  Inconsistent <- Both
  Queries <- Retrievals
  Entailed <- RetrievalTheory
  Refusable = {}
  MayFailParse = TRUE
SPECIFICATION Spec
INVARIANT InconsistentRetrievalCovers
