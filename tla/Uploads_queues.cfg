SPECIFICATION UFairSpec
CONSTANTS
    Interval <- SmallInterval
    Capacity <- SmallCapacity
    Quantum <- SmallQuantum
    Gap = 2
    MaxBoxes = 5
    Horizon = 2
    Unit = 8
    Cols = 4
    Rows = 4
    GraphLabels = {"person", "cat"}
    AlertLabels = {"person"}
    Settings <- SmallSettings
    Frames <- SmallFrames
    SendRejected = TRUE
    QueueCap = 1
INVARIANT TypeOK
INVARIANT UTypeOK
INVARIANT WithinEveryLimit
INVARIANT OverviewsApart
INVARIANT AlertsInOrder
INVARIANT FewAtStake
INVARIANT HitsAreWanted
PROPERTY BucketsAreIdeal
PROPERTY MainComesBack
PROPERTY AlertsGoOut
CHECK_DEADLOCK FALSE
