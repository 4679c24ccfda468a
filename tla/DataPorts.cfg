SPECIFICATION Spec
CONSTANTS
    Suites <- MCSuites
    Files <- MCFiles
    Limit = 8
INVARIANT TypeOK
INVARIANT ExpectationsHold
INVARIANT DirectoryRemoved
PROPERTY ImplementsPosix
