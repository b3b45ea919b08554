SPECIFICATION FairSpec
CONSTANTS
    WS_MSG_CREDIT = 1
    WS_MSG_TOLERANCE = 2
    MAX_VISITOR = 3
    MAX_APP = 2
INVARIANT CreditConserved
PROPERTIES RelayIsTwoPipes EndsMeet MessagesArrive
CHECK_DEADLOCK FALSE
