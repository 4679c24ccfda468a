SPECIFICATION FairSpec
CONSTANTS
    a = a
    b = b
    Storms <- MCStorms
    Names = 2
    Rounds = 3
    Opens = 2
    MaxTries = 3
INVARIANT OnlyNamedRaces
INVARIANT FrameOutlivesStorms
PROPERTY DirectoryEmptied
PROPERTY CaseEnds
