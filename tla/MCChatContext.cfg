\* Turns of up to three rounds over a transcript of up to seven records, of
\* which a turn loads the last five.
SPECIFICATION FairSpec
CONSTANTS
    Window = 5
    MaxRepeated = 1
    MaxRounds = 3
    MaxRecords = 7
INVARIANTS
    TypeOK
    
    ResultsKeepTheirCalls
    SummaryToldWhenNeeded
    NothingFromBeforeClear
PROPERTIES
    EveryTurnEnds
CHECK_DEADLOCK FALSE
