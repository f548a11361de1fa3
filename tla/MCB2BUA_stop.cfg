\* Two calls, every answer of the authorization, and a shutdown at any moment.
SPECIFICATION FairSpec
CONSTANTS
  Call = {k1,k2}
  Leg = {l1}
  NoLeg = NoLeg
  OfferKinds = {TRUE}
  SdpKinds <- Direct
  AuthResults = {"noHandle", "pending", "permitted", "denied"}
  RouteCounts = {0, 1}
  HangupAnswers = {FALSE}
  RejectCodes = {"other"}
  MaxRings = 0
  Reinvites = {}
  EarlyBye = FALSE
  AckLoss = FALSE
INVARIANTS StopReachesEveryCall
PROPERTIES StopDrains CallEnds
