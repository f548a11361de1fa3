\* Two subscriptions of one camera, each subscribed again once and refreshed.
SPECIFICATION FairSpec
CONSTANTS
  Dialog = {d1, d2}
  Device = {cam1}
  EventId = {e1}
  NoEventId = NoEventId
  NoDialog = NoDialog
  MaxHandle = 2
  MaxNamed = 2
  MaxNotify = 1
  MaxRefresh = 1
INVARIANTS TypeOK SubscriptionsSound
PROPERTIES AlarmReachesAll EverySubscriptionEnds
CHECK_DEADLOCK FALSE
