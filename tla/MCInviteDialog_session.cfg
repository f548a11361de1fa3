SPECIFICATION Spec
CONSTANTS
  Setups <- MCSetups
INVARIANTS SessionsSound SdpAgrees OfferReported AnswerStillComing
PROPERTIES BothEnd
CHECK_DEADLOCK FALSE
