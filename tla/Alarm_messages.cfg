SPECIFICATION FairSpec
CONSTANTS
    NumCams = 2
    Controlled = {1, 2}
    MaxMsgs = 2
    MaxOutstanding = 1
INVARIANT TypeOK
INVARIANT AckedIsInHand
INVARIANT ModesAsTold
PROPERTY DeletionDropsNoneInHand
PROPERTY EveryMessageHandled
PROPERTY ReceiveEnds
PROPERTY HouseSpec
CHECK_DEADLOCK FALSE
