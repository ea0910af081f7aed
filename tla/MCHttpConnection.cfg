CONSTANTS
    Shapes <- MCShapes
    MaxRequests = 3
SPECIFICATION Spec
INVARIANTS
    TypeOK
    AnswersInOrder
    OwnBody
    HandledOnce
    NoPatternHandled
    BlockedForCause
    ClosesForCause
PROPERTIES
    PatientAnswered
