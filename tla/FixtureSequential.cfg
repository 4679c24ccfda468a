SPECIFICATION Spec
CONSTANTS
    s1 = s1
    s2 = s2
    NoSuite = NoSuite
    Suites <- MCTwo
    CustomOpts <- MCCustom
    Overlap = FALSE
    MaxTries = 1
    ScratchTries = 2
    MaxScratch = 2
    CasePins <- MCAllPins
    FailAt <- MCNone
INVARIANT TypeOK
INVARIANT FreshDeployment
INVARIANT GetSucceeds
INVARIANT CleanBetweenSuites
