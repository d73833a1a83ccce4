SPECIFICATION Spec
CONSTANTS
    source = source
    suite = suite
    anchor = anchor
    root = root
    Absent = Absent
    Defective = Defective
    Fixed = Fixed
    Asserting = Asserting
    Plain = Plain
    Raising = Raising
    Broken = Broken
    Files = {source, suite, anchor}
    Contents <- MCContents
    Base <- MCBase
    Tests = {suite, anchor}
    Folder <- MCFolder
    Top = root
    TestFolders = {}
    Quoted = {}
    Garbled = {}
    Loopholes = {"stage", "gather", "tests", "status"}
    MaxToolRounds = 3
    MaxCalls = 1
    MaxEdits = 1
INVARIANTS
    TypeOK
    AnchorFailsOnBase
    CommittedTestsIntact
