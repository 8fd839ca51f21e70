SPECIFICATION FairSpec
CONSTANTS
    Weekdays <- TwoDays
    HourLimit = 2
    ObjLists <- TwoLists
INVARIANT TypeOK
INVARIANT ModeKept
INVARIANT AnswerIsCurrent
INVARIANT TableIsSnapshot
INVARIANT ChangesOnlyNamed
PROPERTY StoreSpec
PROPERTY CommandsEnd
