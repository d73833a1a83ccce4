SPECIFICATION Spec
CONSTANTS
    MaxPlannerTurns = 3
    ToolCallsPerTurn = 2
    MaxRequests = 2
    MaxToolCalls = 3
INVARIANTS
    ReplanContract
    NotesAnswerRequests
