CONSTANTS
    MaxRequests = 5
    BufSize = 2
SPECIFICATION FairReplyStreamSpec
INVARIANTS
    ReplyStreamTypeOK
    RepliesInOrder
    Backpressure
    LittleWorkForNobody
PROPERTIES
    EveryRequestReplied
    TaskEnds
CHECK_DEADLOCK FALSE
