SPECIFICATION FairSpec
CONSTANTS
    s1 = s1
    s2 = s2
    NoSuite = NoSuite
    Suites <- MCTwo
    CustomOpts <- MCNone
    Overlap = TRUE
    MaxTries = 2
    ScratchTries = 1
    MaxScratch = 1
    CasePins <- MCLeaked
    FailAt <- MCAllFailures
INVARIANT RefsCountHolders
INVARIANT MountedWhileHeld
INVARIANT ServerOutlivesMounts
PROPERTY HeldDeploymentIsStable
PROPERTY ImplementsDeployment
PROPERTY GetReturns
PROPERTY PutReturns
