SPECIFICATION AppSpec
CONSTANTS
    MaxBacklog = 1
    SslContexts = {FALSE}
    Rfc2428Supports = {TRUE}
INVARIANTS
    FailedGetLeavesNoFile
CHECK_DEADLOCK FALSE
