\* Three threads, a channel of capacity 1 or 4 (3 rounded up), two calls each.
SPECIFICATION Spec
CONSTANTS
    None = None
    Threads = {t1, t2, t3}
    Capacities = {1, 3}
    MaxCalls = 2
    MaxSpurious = 1
SYMMETRY Symmetry
INVARIANTS
    LockDiscipline
    FifoExactlyOnce
    ResidualDisposed
    NoLostWakeup
    ClosedNobodySleeps
PROPERTIES
    ImplementsFifo
\* Every thread may have used up its calls.
CHECK_DEADLOCK FALSE
