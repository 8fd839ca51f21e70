SPECIFICATION FairSpec
CONSTANTS
    NumCams = 1
    Kinds = {"snapshot", "frame"}
    ChanCap = 2
    ArmCount = 0
PROPERTY CommandServed
