CONSTANTS
  Conn = {c1, c2, c3}
  GroupId = {g1}
  SessionId = {s1}
  Params <- Pair
  MaxParties = 2
  MaxSignups = 2
  Methods <- DappMethods
SPECIFICATION Spec
PROPERTY AnnouncedToEnough
CHECK_DEADLOCK FALSE
