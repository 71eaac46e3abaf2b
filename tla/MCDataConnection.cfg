SPECIFICATION FairSpec
CONSTANTS
    MaxLen = 5
    Texts <- AllTexts
    BlockSize = 2
    InternalSize = 3
INVARIANTS
    TypeOK
    DataArrives
    CallbackProtocol
    CancelledSoon
PROPERTIES
    ImplementsTransfer
    TransferLeaves
CHECK_DEADLOCK FALSE
