SPECIFICATION FairSpec
CONSTANTS
    MaxCalls = 6
    MaxSockets = 4
INVARIANTS TypeOK OneConnection CallOrder OwnAnswer
PROPERTIES Settles
CHECK_DEADLOCK FALSE
