SPECIFICATION FairSpec
CONSTANTS
    Conn = {c1, c2}
    MaxReceivers = 2
PROPERTIES NotificationSent
CHECK_DEADLOCK FALSE
