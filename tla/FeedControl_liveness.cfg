SPECIFICATION FairSpec
CONSTANTS
    NumCams = 2
    Kinds = {}
    ChanCap = 1
    ArmCount = 0
PROPERTY FeedFollowsSchedule
PROPERTY ActiveFeedRead
PROPERTY CancelEndsProcess
PROPERTY HungMainRestarts
