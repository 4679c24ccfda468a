SPECIFICATION Spec
CONSTANTS
    s1 = s1
    s2 = s2
    NoSuite = NoSuite
    Suites <- MCTwo
    CustomOpts <- MCNone
    Overlap = FALSE
    MaxTries = 1
    ScratchTries = 1
    MaxScratch = 1
    CasePins <- MCNone
    FailAt <- MCAllFailures
INVARIANT HalfBuiltStackCleanedUp
