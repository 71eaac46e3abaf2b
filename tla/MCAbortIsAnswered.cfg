SPECIFICATION Spec
CONSTANTS
    MaxBacklog = 0
    SslContexts = {FALSE}
    Rfc2428Supports = {TRUE}
PROPERTY
    AbortIsAnswered
CHECK_DEADLOCK FALSE
