SPECIFICATION FairSpec
CONSTANTS
    Suites <- MCSuites
    Files <- MCFiles
    Limit = 8
INVARIANT ExpectationsHold
INVARIANT CacheCoherent
INVARIANT WorkersJoined
PROPERTY CaseEnds
