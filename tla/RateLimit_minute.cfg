SPECIFICATION Spec
CONSTANTS
    Interval <- QuarterInterval
    Capacity <- QuarterCapacity
    Quantum <- QuarterQuantum
    Gap = 1
    MaxBoxes = 1
    Horizon = 6
INVARIANT CapPerMinute
CHECK_DEADLOCK FALSE
