SPECIFICATION FairSpec
CONSTANTS
  Targets = 2
  Ways = {"dns", "slowDns", "flow"}
  MaxCancels <- MCMaxCancels
INVARIANTS TransactionOK OneFinal CancelFollowsInvite
PROPERTIES NoFailureAfterSuccess TransactionEnds
CHECK_DEADLOCK FALSE
