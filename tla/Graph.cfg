SPECIFICATION Spec
CONSTANTS
    Queries <- MCQueries
    MaxLen = 2
INVARIANTS
    ResponseConforms
    FailureContained
    NothingLeftBehind
PROPERTIES
    Answered
CHECK_DEADLOCK FALSE
