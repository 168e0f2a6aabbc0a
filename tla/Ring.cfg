\* Three threads sharing a ring of one or two slots, SPSC and MPMC.
SPECIFICATION Spec
CONSTANTS
    None = None
    Threads = {t1, t2, t3}
    RingCaps = {1, 2}
    MaxCalls = 2
SYMMETRY Symmetry
INVARIANTS
    NoDataRace
    ExactlyOnce
    ResidualExact
PROPERTIES
    LinearizesToFifo
CHECK_DEADLOCK FALSE
