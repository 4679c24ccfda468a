SPECIFICATION Spec
CONSTANTS
    c1 = c1
    c2 = c2
    c3 = c3
    c4 = c4
    NoCred = NoCred
    Users <- MCUsers
    CredIds <- MCCredIds
INVARIANT CurrentNeverFreed
INVARIANT NothingLeaks
INVARIANT DacApplies
INVARIANT RootWhenRestored
