SPECIFICATION FairSpec
CONSTANTS
  MaxNew = 2
  Overload = TRUE
INVARIANTS TransactionOK EndsAnswered
PROPERTIES OneAnswer AnsweredEnds
CHECK_DEADLOCK FALSE
