SPECIFICATION Spec
CONSTANTS
  c1 = c1
  c2 = c2
  c3 = c3
  Client = {c1, c2}
  Kinds = {"message"}
  MaxSessions = 2
  Visits <- WizardsOpened
  MaxParties = 3
  Sizes <- FirstCreates
  Key <- TwoOfThree
  Shares <- HeldShares
  Patient = FALSE
INVARIANT ProofOfSession
CHECK_DEADLOCK FALSE
