CONSTANTS
  Conn = {c1, c2}
  GroupId = {g1}
  SessionId = {}
  Params <- Pair
  MaxParties = 2
  MaxSignups = 2
  Methods <- DappMethods
SPECIFICATION Spec
PROPERTY OnlyEmptyGroupsPruned
CHECK_DEADLOCK FALSE
