CONSTANTS
  Namespaces <- AllNamespaces
  VarNames <- Variables
  Documents <- DocumentSet
  DatatypeRoles <- Ages
  TempNames <- TemporaryFiles
  kbName <- TemporaryABox
  CommandLines <- CommandLineSet
  Queries <- QuerySet
  Interpretations <- InterpretationsOf
  MaxAsks = 2
SPECIFICATION Spec
INVARIANTS TypeOK AnswersMeanWhatIsWritten TrivialAnswersCover UnderstoodIsAnswered CacheAsDocumented
INVARIANTS OneOntologyPerDocument CopiesBelongToOntologies TemporaryABoxForgotten OnlyKnownCrashes
CHECK_DEADLOCK FALSE
