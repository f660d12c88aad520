\* A container service and a REPL portal.
SPECIFICATION FairSpec
CONSTANTS
    Proc = {p1, p2}
    Thread = {t1, t2}
    Machine = machine
    Nobody = nobody
    Gone = gone
    Scheduled = {p1}
    PidReuse = {p1}
    Unreliable = {}
    MaxPrompts = 2
    MaxRestarts = 1
    BeatEvery = 1
    MaxLate = 0
    StaleAfter = 1
PROPERTIES
    QueuedPromptsLeaveTheQueue
    MachineSlotComesBack
