SPECIFICATION Spec
CONSTANTS
  VarNames = {"X", "Y"}
  Individuals = {"a"}
  Words = {"", "a", "arg", "b", "f", "n", "neg_", "p", "X", "Y"}
  Files <- MCFiles
  KBs <- MCKBs
  MaxFiles = 2
  MaxDefaults = 2
INVARIANTS
  TypeOK
  OmittedPartsAreInherited
  RulesAreSafe
  AuxiliaryNamesApart
  AnswerSetsAreExtensions
