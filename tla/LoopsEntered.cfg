SPECIFICATION Spec
CONSTANTS
    Suites <- MCSuites
    Files <- MCFiles
    Limit = 8
INVARIANT LoopsEntered
