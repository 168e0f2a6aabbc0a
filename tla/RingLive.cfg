\* Progress of the CAS and publish-order loops: three threads, one call each.
SPECIFICATION FairSpec
CONSTANTS
    None = None
    Threads = {t1, t2, t3}
    RingCaps = {1, 2}
    MaxCalls = 1
PROPERTIES
    CallsEnd
CHECK_DEADLOCK FALSE
