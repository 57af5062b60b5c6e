CONSTANTS
    NumWorkers = 2
    Groups = {1, 2}
    MaxEpochs = 3
    Prompt = {"repost", "release"}
SPECIFICATION Spec
INVARIANT CollectivesAgree
INVARIANT DetailsAreLast
PROPERTY ServiceSpec
CHECK_DEADLOCK FALSE
