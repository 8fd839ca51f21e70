SPECIFICATION Spec
CONSTANTS
    Interval <- RealInterval
    Capacity <- RealCapacity
    Quantum <- RealQuantum
    Gap = 10
    MaxBoxes = 1
    Horizon = 1
INVARIANT QuotaLasts
CHECK_DEADLOCK FALSE
