SPECIFICATION FairSpec
CONSTANTS
  Commands = 3
  Steps <- MCSteps
  Attempts = 2
  Noises <- MCNoises
INVARIANTS
  TypeOK
  AnswersMatch
  ExecutedOnce
  OnlyGivesUpWithCause
PROPERTIES
  SessionEnds
CHECK_DEADLOCK FALSE
