CONSTANTS
  f = f
  g = g
  Facts <- TwoFacts
  Individuals = {1, 2}
  Mentions <- MentionedIn
  OwnIndividuals = {1}
  Inconsistent <- Both
  Queries <- BooleanQueries
  Entailed <- BooleanTheory
  Refusable = {}
  MayFailParse = FALSE
SPECIFICATION Spec
INVARIANT TrivialIsDelivered
