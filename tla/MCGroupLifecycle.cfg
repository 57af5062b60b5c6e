CONSTANTS
    NumWorkers = 2
    Groups = {1, 2}
    MaxEpochs = 4
    Prompt = {"repost", "release", "meet", "sleep", "pause"}
SPECIFICATION Spec
INVARIANT TypeOK
INVARIANT GroupReady
INVARIANT Detached
INVARIANT OnePrimary
PROPERTY ClosedBeforeFreed
PROPERTY WorkerReleased
CHECK_DEADLOCK FALSE
