CONSTANTS
    Threads = {t1, t2}
    MaxMessages = 1
SPECIFICATION Spec
INVARIANT OneThreadInASink
CHECK_DEADLOCK FALSE
