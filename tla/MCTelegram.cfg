\* Two pollers of one bot, two messages, processes that stop, die and fail.
SPECIFICATION FairSpec
CONSTANTS
    Process = {p1, p2}
    NoOne = none
    MaxUpdates = 2
    MaxRounds = 1
INVARIANTS
    TypeOK
    HandledOnce
    NothingSlipsByTheOffset

    
CHECK_DEADLOCK FALSE
