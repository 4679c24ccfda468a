SPECIFICATION Spec
CONSTANTS
    Files = 2
    SweepTries = 3
INVARIANT BothCommandsSucceed
