SPECIFICATION FairSpec
CONSTANTS
    Replies <- SomeReplies
    MaxSize = 4
    MaxTokens = 10
INVARIANT
    TypeOK
PROPERTIES
    ImplementsChannel
    RecvReturns
CHECK_DEADLOCK FALSE
