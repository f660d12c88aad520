\* Two reliable services, one a container that keeps its pid.
SPECIFICATION Spec
CONSTANTS
    Proc = {p1, p2}
    Thread = {t1, t2}
    Machine = machine
    Nobody = nobody
    Gone = gone
    Scheduled = {p1, p2}
    PidReuse = {p1}
    Unreliable = {}
    MaxPrompts = 2
    MaxRestarts = 1
    BeatEvery = 1
    MaxLate = 1
    StaleAfter = 3
INVARIANTS
    OneTurnPerMachine
    RunningTurnIsOnRecord
    IdleHoldsNoLease
PROPERTY ImplementsGate
SYMMETRY ThreadSymmetry
