SPECIFICATION SignSpec
CONSTANTS
    Party = {p1, p2, p3}
    Rounds = 3
    PeerRounds = {3}
    Numbers = {1, 2, 4}
    ClosingRounds = {2}
SYMMETRY Symmetry
INVARIANTS SignTypeOK PeersResolve EndQuiet
PROPERTIES RoundsSpec
CHECK_DEADLOCK FALSE
