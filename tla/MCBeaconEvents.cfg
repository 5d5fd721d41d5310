CONSTANTS
    MaxItems = 3
    MaxFailures = 2
SPECIFICATION FairSpec
INVARIANT NothingLostBeforeTheEnd
PROPERTY HeadsGetThrough
CHECK_DEADLOCK FALSE
