\* More connections than slots: slots are used again, and the table can be full.
SPECIFICATION FairSpec
CONSTANTS
  MaxConnections = 2
  Client = {c1, c2, c3}
  NoClient = NoClient
  MaxMessages = 2
  AcceptErrors = TRUE
INVARIANTS TypeOK NoAnswerLost
PROPERTIES ConnectionEnds
