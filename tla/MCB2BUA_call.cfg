\* One call, one caller, every outcome of dialling and authorization.
SPECIFICATION FairSpec
CONSTANTS
  Call = {k1}
  Leg = {l1}
  NoLeg = NoLeg
  OfferKinds = {TRUE}
  SdpKinds <- Direct
  AuthResults = {"permitted"}
  RouteCounts = {0, 1, 2}
  HangupAnswers = {TRUE, FALSE}
  RejectCodes = {"busy", "other"}
  MaxRings = 3
  Reinvites = {}
  EarlyBye = FALSE
  AckLoss = FALSE
INVARIANTS TypeOK NeverMisused AnswerAgrees NoCallWithoutCaller
PROPERTIES CallEnds
