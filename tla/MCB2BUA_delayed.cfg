\* A caller whose INVITE carries no offer.
SPECIFICATION Spec
CONSTANTS
  Call = {k1}
  Leg = {l1}
  NoLeg = NoLeg
  OfferKinds = {FALSE}
  SdpKinds <- Direct
  AuthResults = {"permitted"}
  RouteCounts = {1}
  HangupAnswers = {FALSE}
  RejectCodes = {"other"}
  MaxRings = 0
  Reinvites = {}
  EarlyBye = FALSE
  AckLoss = FALSE
INVARIANT AnsweredIsNotDialing
