CONSTANTS
    MaxTurns = 3
    Budget = 6
    LLMCosts = {2}
    Tools = {search}
    Arguments = {q}
    MaxBatch = 2
    Estimate = 1
    ToolCosts = {1}
    ToolRetries = 1
    BackupEvery = 2
    MaxCrashes = 1
SPECIFICATION Spec
INVARIANTS
    TypeOK
    BudgetRespected
    ToolsRunOncePerCall
    ReplayFaithful
CHECK_DEADLOCK FALSE
