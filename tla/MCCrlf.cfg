SPECIFICATION Spec
CONSTANTS
    Replies <- SomeReplies
    MaxSize = 4
    MaxTokens = 9
PROPERTY
    CrlfEndsOneLine
CHECK_DEADLOCK FALSE
