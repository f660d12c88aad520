\* Two processes that append to one file, a subscriber in one of them and a
\* page.
SPECIFICATION FairSpec
CONSTANTS
    Stream = {s1, s2}
    Watched = s1
    Torn = torn
    Capacity = 1
    Milestones = {1}
    MaxTurns = 2
    MaxSeq = 2
    MaxFaults = 1
    MaxDrops = 1
INVARIANTS
    TypeOK
    PageFollowsTheFile
    
    SubscriberMissesNoMilestone
PROPERTIES
    PageCatchesUp
CHECK_DEADLOCK FALSE
