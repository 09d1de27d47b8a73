CONSTANTS
  Conn = {c1, c2, c3}
  GroupId = {g1}
  SessionId = {s1}
  Params <- PairOrRefused
  MaxParties = 2
  MaxSignups = 3
  Methods <- RelayMethods
SPECIFICATION Spec
SYMMETRY Symmetry
INVARIANTS
  TypeOK
  GroupCapacity
  MembersConnected
  PartyNumbersUnique
  ReadyWhenTold
  AnnouncedOnce
  SessionIsolation
CHECK_DEADLOCK FALSE
