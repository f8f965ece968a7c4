SPECIFICATION FairSpec
CONSTANTS
    Requests = {r1, r2}
INVARIANTS
    TypeOK
    ResponsesAreWhole
    ExitStatusIsTrue
PROPERTIES
    AnswersAreTrue
    RequestsAnswered
    SignalEndsProcess
CHECK_DEADLOCK FALSE
