CONSTANTS
  CommandLength <- Commands_5_3_1_7
  AnswerLength <- Answers_4_1_6_3
  ErrorLength = 2
  BufSize = 3
  MayClose = FALSE
  MayAbandon = FALSE
  OffsetFloor <- Minus1
SPECIFICATION FairSpec
INVARIANTS TypeOK LinesAreWhole
PROPERTIES ImplementsDialog EveryCommandEnds
