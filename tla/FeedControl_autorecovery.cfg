SPECIFICATION FairSpec
CONSTANTS
    NumCams = 1
    Kinds = {}
    ChanCap = 1
    ArmCount = 1
PROPERTY AutoRecovery
