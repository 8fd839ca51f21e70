SPECIFICATION FairSpec
CONSTANTS
    Cams = {c0, c1}
    MaxUpdates = 2
    QueueCap = 1
    SnapCap = 1
INVARIANT TypeOK
INVARIANT RunInOrder
INVARIANT NoneForgottenUnqueued
PROPERTY EveryCommandRuns
PROPERTY InboxSpec
