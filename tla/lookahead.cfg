CONSTANTS
    Vocab = {"a", "b", "eos"}
    Stop = {"eos"}
    Depth = 2
    Models <- AllModels
    MaxTokens = 9
    W = 4
    PoolDepth = 2
SPECIFICATION Spec
CHECK_DEADLOCK FALSE
PROPERTIES
    ImplementsGenerate
