SPECIFICATION FairSpec
CONSTANTS
  c1 = c1
  c2 = c2
  c3 = c3
  Client = {c1, c2, c3}
  Kinds = {"keygen", "message", "transaction"}
  MaxSessions = 2
  Visits <- WizardsOpened
  MaxParties = 3
  Sizes <- FirstCreates
  Key <- TwoOfThree
  Shares <- HeldShares
  Patient = TRUE
INVARIANTS TypeOK ComputeReady MessagesHeard NoSurplus OneSink OnlyApproved ProofOfSession ParametersAccepted
PROPERTY Completes
CHECK_DEADLOCK FALSE
