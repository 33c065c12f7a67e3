\* Four threads, each of which may fail to start.
CONSTANT NUMTHREADS = 4
SPECIFICATION FairSpec
INVARIANTS DoneCounts NoLostWakeup ExitAfterAll
PROPERTIES Returns
CHECK_DEADLOCK FALSE
