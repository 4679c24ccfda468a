SPECIFICATION FairSpec
CONSTANTS
    Files = 12
    SweepTries = 3
INVARIANT MountSucceeds
INVARIANT UsableAfterRace
INVARIANT FrameOutlivesUmount
INVARIANT NoScratchLeft
PROPERTY UmountOnTimeSucceeds
PROPERTY NothingHangs
