SPECIFICATION FairSpec
CONSTANTS
    Sizes = {0, 1, 2, 3}
    Window = 2
INVARIANTS
    TypeOK
    UploadIsWhole
    DownloadIsWhole
PROPERTIES
    ImplementsTransfer
    TransferEnds
CHECK_DEADLOCK FALSE
