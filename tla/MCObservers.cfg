SPECIFICATION Spec
CONSTANTS
    o1 = o1
    o2 = o2
    Observer = {o1, o2}
    MaxCopies = 2
    MaxDepth = 2
    MaxAnswers = 3
SYMMETRY Interchangeable
INVARIANTS
    TypeOK
    EachIsTold
    CallbacksKeepStep
CHECK_DEADLOCK FALSE
