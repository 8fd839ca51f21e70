---------------------------- MODULE MCRateLimit ----------------------------
(* Small instances of RateLimit: the minute and its parts scaled down.      *)
EXTENDS RateLimit

PerBucket(frame, burst, pace) ==
    [b \in Bucket |-> IF b = "frame" THEN frame ELSE IF b = "burst" THEN burst ELSE pace]

\* Four paced stretches to a minute, which together allow more than the minute.
QuarterInterval == PerBucket(4, 1, 1)
QuarterCapacity == PerBucket(3, 2, 1)
QuarterQuantum  == PerBucket(3, 1, 1)

\* The buckets of camera.New.
RealInterval == PerBucket(60, 1, 15)
RealCapacity == PerBucket(20, 3, 6)
RealQuantum  == PerBucket(20, 1, 6)

=============================================================================
