\* One relayed call with two callers.
SPECIFICATION Spec
CONSTANTS
  Call = {k1}
  Leg = {l1,l2}
  NoLeg = NoLeg
  OfferKinds = {TRUE, FALSE}
  SdpKinds <- RelayedOrFull
  AuthResults = {"permitted"}
  RouteCounts = {1}
  HangupAnswers = {FALSE}
  RejectCodes = {"other"}
  MaxRings = 1
  Reinvites = {"A", "B"}
  EarlyBye = TRUE
  AckLoss = TRUE
SYMMETRY LegSymmetry
INVARIANTS CallsRest NoSessionLeftBehind
PROPERTIES ReasonStable ImplementsLifecycle
