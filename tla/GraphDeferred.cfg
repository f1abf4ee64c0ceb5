SPECIFICATION Spec
CONSTANTS
    Queries <- MCQueries
    MaxLen = 2
INVARIANTS
    SlotsConform
CHECK_DEADLOCK FALSE
