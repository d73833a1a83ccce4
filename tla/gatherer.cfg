SPECIFICATION FairSpec
CONSTANTS
    MaxToolCalls = 3
    ContextLimit = 6
    StopAt = 4
    HardStopAt = 6
    PackBudget = 3
    Missing = Missing
    MaxCallsPerTurn = 2
    MaxSnippets = 3
    MaxSize = 3
INVARIANTS
    NoCompletionAboveHardStop
    ObservationsAccounted
PROPERTIES
    GatheringTerminates
