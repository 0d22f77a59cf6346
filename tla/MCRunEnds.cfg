CONSTANTS
    MaxTurns = 3
    Budget = 1
    LLMCosts = {0}
    Tools = {search}
    Arguments = {q}
    MaxBatch = 1
    Estimate = 0
    ToolCosts = {0}
    ToolRetries = 0
    BackupEvery = 4
    MaxCrashes = 1
SPECIFICATION FairSpec
PROPERTIES
    RunEnds
CHECK_DEADLOCK FALSE
