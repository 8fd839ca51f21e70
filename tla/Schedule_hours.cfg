SPECIFICATION Spec
CONSTANTS
    Weekdays <- TwoDays
    HourLimit = 2
    ObjLists <- FourLists
INVARIANT RowsAreHours
