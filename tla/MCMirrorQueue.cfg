\* Two threads that enqueue, flush and stop, and a queue of one job.
SPECIFICATION FairSpec
CONSTANTS
    Caller = {c1, c2}
    Key = {k1, k2}
    None = none
    Capacity = 1
    MaxCalls = 4
INVARIANTS
    KeysStandForJobs
    FlushMeansMirrored
PROPERTIES
    EveryJobIsMirrored
CHECK_DEADLOCK FALSE
