SPECIFICATION FairSpec
CONSTANTS
    Party = {p1, p2, p3}
    Rounds = 2
    PeerRounds = {1}
INVARIANTS TypeOK RoundInputs NothingRefused SinkAhead Lockstep
PROPERTIES BarrierSpec Completes
CHECK_DEADLOCK FALSE
