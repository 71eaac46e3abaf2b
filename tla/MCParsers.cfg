SPECIFICATION Spec
CONSTANTS
    Max8 = 255
    Max16 = 65535
    Max32 = 262143
    Max64 = 1048575
    Names <- CommandNames
    Inputs <- WellSaid
INVARIANTS
    ResultsFit
    NumberIsExact
    AnswersAreRead
    CommandsNameTheListener
    TimeIsRead
    ListingIsLines
    WordsAreRead
    FileIsWrittenHere
CHECK_DEADLOCK FALSE
