\* Liveness: three threads with one call each over capacity 1,
\* no symmetry.
SPECIFICATION FairSpec
CONSTANTS
    None = None
    Threads = {t1, t2, t3}
    Capacities = {0, 1}
    MaxCalls = 1
    MaxSpurious = 1
PROPERTIES
    CloseEndsCalls
    SleeperServed
CHECK_DEADLOCK FALSE
