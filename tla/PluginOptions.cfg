CONSTANTS
  Namespaces <- AllNamespaces
  VarNames <- Variables
  Documents <- DocumentSet
  DatatypeRoles <- Ages
  TempNames <- TemporaryFiles
  kbName <- TemporaryABox
  CommandLines <- EverythingOff
  Queries <- OneConcept
  Interpretations <- InterpretationsOf
  MaxAsks = 2
SPECIFICATION Spec
INVARIANT TurnedOffStaysOff
CHECK_DEADLOCK FALSE
