CONSTANTS
  Conn = {c1, c2, c3}
  GroupId = {g1}
  SessionId = {s1}
  Params <- Pair
  MaxParties = 2
  MaxSignups = 3
  Methods <- FinishMethods
SPECIFICATION FairSpec
PROPERTIES
  ReadyIsTold
  EmptyGroupsGo
CHECK_DEADLOCK FALSE
