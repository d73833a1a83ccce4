SPECIFICATION FairSpec
CONSTANTS
    Count = 2
    MaxRuns = 3
    MaxKills = 1
INVARIANT OfficialListsRecords
INVARIANT FreshPredictionScored
INVARIANT StaleOnlyThroughWindow
INVARIANT NoWorkerLeft
PROPERTY RecordsKept
PROPERTY InvocationEnds
