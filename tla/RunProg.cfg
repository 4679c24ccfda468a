SPECIFICATION FairSpec
CONSTANTS
    N = 3
    Statuses <- MCStatuses
    Failures <- MCFailures
INVARIANT LogsPrivate
INVARIANT BinaryThere
INVARIANT JobsOutliveThreads
INVARIANT NothingLeft
INVARIANT VerdictExact
PROPERTY CaseEnds
