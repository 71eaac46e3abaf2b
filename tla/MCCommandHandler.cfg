SPECIFICATION AppFairSpec
CONSTANTS
    MaxBacklog = 1
    SslContexts = {FALSE}
    Rfc2428Supports = {TRUE}
INVARIANTS
    AppTypeOK
    PromptIsQuiet
PROPERTIES
    KeptIsWhole
    PromptComesBack
CHECK_DEADLOCK FALSE
