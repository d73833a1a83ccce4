SPECIFICATION Spec
CONSTANTS
    code = code
    anchor = anchor
    suite = suite
    c0 = c0
    c1 = c1
    c2 = c2
    Absent = Absent
    Files = {code, anchor}
    Contents = {c0, c1}
    Origin <- MCOrigin
    Anchor = anchor
    RegressionFiles = {}
    Tests = {anchor}
    MaxPlannerTurns = 2
    CandidateCount <- SingleCount
    MaxPassed = 1
    Docker = FALSE
    CleanupBranches = TRUE
    Litter = "none"
    TestsProtected = FALSE
INVARIANTS
    NoAssertionFailure
