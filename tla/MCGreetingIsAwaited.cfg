SPECIFICATION Spec
CONSTANTS
    MaxBacklog = 0
    SslContexts = {FALSE}
    Rfc2428Supports = {TRUE}
PROPERTY
    GreetingIsAwaited
CHECK_DEADLOCK FALSE
