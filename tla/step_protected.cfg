SPECIFICATION FairSpec
CONSTANTS
    suite = suite
    repro = repro
    extra = extra
    nested = nested
    root = root
    testFolder = testFolder
    newFolder = newFolder
    c0 = c0
    c1 = c1
    Absent = Absent
    Files = {suite, repro, extra, nested}
    Contents = {c0}
    Base <- MCBase
    Tests = {suite, repro, extra, nested}
    Folder <- MCFolder
    Top = root
    TestFolders = {testFolder}
    Quoted = {}
    Garbled = {}
    ReproFile = repro
    Guarded = TRUE
    Loopholes = {"stage", "gather", "tests", "status"}
    MaxToolRounds = 3
    MaxCalls = 1
    MaxEdits = 1
    MaxClaims = 1
INVARIANTS
    TypeOK
    ProtectedTestsIntact
    LastRunReported
    AtMostOnePassReported
    UnreviewedIsNewAndNoTest
PROPERTIES
    StepTerminates
