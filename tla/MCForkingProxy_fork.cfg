CONSTANTS
  t1 = t1  t2 = t2  t3 = t3  t4 = t4
  Target = {t1, t2, t3, t4}
  UriOf <- MCUriOf
  QOf <- MCQOf
  Methods = {"INVITE", "OTHER"}
  AuthCodes = {403}
  Config <- MCConfig
  MaxSerial = 2
  MaxSent = 2
SPECIFICATION FairSpec
INVARIANTS ContextConsistent OneFailure ForwardsBest AnswerStopsBranches
PROPERTIES NoLateStart RequestEnds
CHECK_DEADLOCK FALSE
