CONSTANTS
  CommandLength <- Commands_3_2
  AnswerLength <- Answers_3_1
  ErrorLength = 2
  BufSize = 2
  MayClose = TRUE
  MayAbandon = FALSE
  OffsetFloor <- Minus2
SPECIFICATION FairSpec
PROPERTY EveryCommandEnds
