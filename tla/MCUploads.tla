----------------------------- MODULE MCUploads ------------------------------
(* A small instance of Uploads: a camera that looks at 4 by 4 pixels. *)
EXTENDS Uploads

PerBucket(frameB, burst, pace) ==
    [b \in Bucket |-> IF b = "frame" THEN frameB ELSE IF b = "burst" THEN burst ELSE pace]

SmallInterval == PerBucket(2, 1, 2)
SmallCapacity == PerBucket(3, 2, 2)
SmallQuantum  == PerBucket(3, 1, 2)

SmallSettings ==
    [minWidth |-> 1, maxWidth |-> 2, minHeight |-> 2, maxHeight |-> 0,
     portrait |-> TRUE, roi |-> [minX |-> 0, minY |-> 0, maxX |-> 3, maxY |-> 4],
     minConfidence |-> 15]

Seen(class, score, left, top, right, bottom) ==
    [valid |-> TRUE, class |-> class, score |-> score,
     left |-> left, top |-> top, right |-> right, bottom |-> bottom]

\* Positions in eighths of the frame; some lie outside it.  Swapped has its corners in
\* the wrong order and beyond three borders.
Good == Seen("person", 90, 0, 0, 4, 8)
Swapped == Seen("person", 90, 2, 12, -3, -2)
Wide == Seen("person", 90, 0, 0, 6, 8)
Flat == Seen("person", 90, 0, 0, 4, 3)
Square == Seen("person", 90, 0, 0, 4, 4)
Outside == Seen("person", 90, 5, 0, 11, 8)
Unsure == Seen("person", 14, 0, 0, 4, 8)
Cat == Seen("cat", 90, 0, 0, 4, 8)
Broken == [Good EXCEPT !.valid = FALSE]

\* Square, Wide, Outside and Unsure are each refused by one pass alone.
SmallFrames == {<<Good, Cat, Broken, Swapped, Square>>, <<Wide, Flat, Outside, Unsure>>}

=============================================================================
