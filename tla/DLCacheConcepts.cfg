CONSTANTS
  f1 = f1
  f2 = f2
  r1 = r1
  r2 = r2
  Ontologies = {1}
  Names = {1, 2}
  Individuals = {1, 2}
  Facts = {f1, f2}
  Retrievals = {r1, r2}
  Queries <- ConceptQueries
  Theories <- AllTheories
  W = 3
SPECIFICATION Spec
INVARIANTS TypeOK CachedIsEntailed Frontier AnswersStayCached StatsAgree
PROPERTY ImplementsOracle
