SPECIFICATION Spec
CONSTANTS
  Targets = 1
  Ways = {"dns"}
  MaxNew = 2
  Overload = TRUE
PROPERTY ImplementsRequestReply
CHECK_DEADLOCK FALSE
