\* A slot is used by a second connection.
SPECIFICATION Spec
CONSTANTS
  MaxConnections = 1
  Client = {c1, c2}
  NoClient = NoClient
  MaxMessages = 2
  AcceptErrors = FALSE
INVARIANT AnswerToAsker
