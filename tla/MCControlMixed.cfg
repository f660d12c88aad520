\* A reliable service beside one that may miss heartbeats.
SPECIFICATION Spec
CONSTANTS
    Proc = {p1, p2}
    Thread = {t1, t2}
    Machine = machine
    Nobody = nobody
    Gone = gone
    Scheduled = {p1}
    PidReuse = {p1}
    Unreliable = {p2}
    MaxPrompts = 2
    MaxRestarts = 1
    BeatEvery = 1
    MaxLate = 0
    StaleAfter = 1
INVARIANTS
    WorkerHoldsItsLeases
SYMMETRY ThreadSymmetry
