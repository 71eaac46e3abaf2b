SPECIFICATION FairSpec
CONSTANTS
    MaxBacklog = 0
    SslContexts = {FALSE, TRUE}
    Rfc2428Supports = {FALSE, TRUE}
INVARIANTS
    TypeOK
    Dialog
    QuietWhenIdle
    TlsAgreement
    SettingsAgree
PROPERTIES
    RepliesMatch
    OperationReturns
CHECK_DEADLOCK FALSE
