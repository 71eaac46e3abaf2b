SPECIFICATION Spec
CONSTANTS
    MaxBacklog = 0
    SslContexts = {FALSE}
    Rfc2428Supports = {TRUE}
PROPERTY
    GreetingIsFresh
CHECK_DEADLOCK FALSE
