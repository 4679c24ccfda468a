SPECIFICATION Spec
CONSTANTS
    s1 = s1
    s2 = s2
    NoSuite = NoSuite
    Suites <- MCTwo
    CustomOpts <- MCCustom
    Overlap = FALSE
    MaxTries = 2
    ScratchTries = 1
    MaxScratch = 1
    CasePins <- MCAborted
    FailAt <- MCUndone
INVARIANT CleanBetweenSuites
