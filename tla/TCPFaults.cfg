CONSTANTS
  CommandLength <- Commands_4_2_1
  AnswerLength <- Answers_1_4_2
  ErrorLength = 2
  BufSize = 2
  MayClose = TRUE
  MayAbandon = TRUE
  OffsetFloor <- Minus2
SPECIFICATION Spec
INVARIANTS LinesAreWhole FailureIsFinal BlocksOnlyBehindAbandoned
PROPERTY ImplementsDialog
CHECK_DEADLOCK FALSE
