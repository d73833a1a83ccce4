SPECIFICATION Spec
CONSTANTS
    code = code
    anchor = anchor
    suite = suite
    c0 = c0
    c1 = c1
    c2 = c2
    Absent = Absent
    Files = {code}
    Contents = {c0, c1, c2}
    Origin <- MCOrigin
    Anchor = code
    RegressionFiles = {}
    Tests = {}
    MaxPlannerTurns = 2
    CandidateCount <- DefaultCount
    MaxPassed = 1
    Docker = FALSE
    CleanupBranches = TRUE
    Litter = "none"
    TestsProtected = FALSE
INVARIANTS
    SelectedWorkSurvives
