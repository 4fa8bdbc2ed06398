SPECIFICATION Spec
CONSTANTS
    Threads = {t1, t2, t3}
    NoThread = NoThread
    Slaves = {s1, s2}
    Operations = {"write", "dump", "poll", "ack"}
    MaxRuns = 4
CHECK_DEADLOCK FALSE
INVARIANTS
    NoCircularWait
