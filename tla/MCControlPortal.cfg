\* The portal of a REPL: a runner that was never started. No crashes.
SPECIFICATION FairSpec
CONSTANTS
    Proc = {p1}
    Thread = {t1, t2}
    Machine = machine
    Nobody = nobody
    Gone = gone
    Scheduled = {}
    PidReuse = {}
    Unreliable = {}
    MaxPrompts = 2
    MaxRestarts = 0
    BeatEvery = 1
    MaxLate = 1
    StaleAfter = 3
PROPERTY QueuedPromptsLeaveTheQueue
