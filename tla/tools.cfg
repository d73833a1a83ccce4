SPECIFICATION FairSpec
CONSTANTS
    Files = {code, test}
    MaxCharacters = 3
    HeadSize = 1
    TailSize = 1
    MaxLines = 4
    MaxOutput = 4
INVARIANT OutputAccounted
INVARIANT ReadsRequestedLines
PROPERTY RegressionNotOverwritten
PROPERTY CallEnds
