SPECIFICATION Spec
CONSTANTS
    code = code
    anchor = anchor
    suite = suite
    c0 = c0
    c1 = c1
    c2 = c2
    Absent = Absent
    Files = {code, anchor, suite}
    Contents = {c0, c1}
    Origin <- MCOrigin
    Anchor = anchor
    RegressionFiles = {suite}
    Tests = {anchor, suite}
    MaxPlannerTurns = 2
    CandidateCount <- SingleCount
    MaxPassed = 1
    Docker = TRUE
    CleanupBranches = TRUE
    Litter = "untracked"
    TestsProtected = TRUE
INVARIANTS
    BaseIsSelectedCandidate
    SelectedWorkSurvives
    RegressionFilesRestored
    BlockedRunKeepsRepository
PROPERTIES
    RollingPatchSpec
    TrackedFilesFromBase
