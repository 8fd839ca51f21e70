SPECIFICATION Spec
CONSTANTS
    NumCams = 2
    Kinds = {"snapshot"}
    ChanCap = 1
    ArmCount = 0
INVARIANT TypeOK
INVARIANT ReadsOpenFeed
INVARIANT SettledFeedsFollowFlags
PROPERTY ImplementsFeedService
