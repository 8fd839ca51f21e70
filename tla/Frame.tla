-------------------------------- MODULE Frame --------------------------------
(***************************************************************************)
(* What the detector's answer for one frame of a camera is worth.          *)
(*                                                                         *)
(* ParseResult makes a box of each valid detection, ParseAlerts keeps the  *)
(* boxes with a label that alerts, and four passes give the boxes that the *)
(* camera's settings refuse a reason (a later pass overwrites the reason   *)
(* of an earlier one).  A box without a reason is a hit.  A frame is the   *)
(* sequence of its detections, and a box is known by its place in it.      *)
(*                                                                         *)
(* Left out: images and their crops; a box without area, for which the     *)
(* crop fails and ends the process before any pass looks at it.            *)
(***************************************************************************)
EXTENDS Integers, Sequences

CONSTANTS
    Unit,           \* positions are fractions of the frame in units of 1/Unit
    Cols, Rows,     \* size of the cropped frame
    GraphLabels,    \* the labels of the detector's classes
    AlertLabels,    \* the labels that alert
    Settings        \* of the camera: sizes (0: any), portrait, roi, minConfidence

NoROI == [minX |-> 0, minY |-> 0, maxX |-> -1, maxY |-> -1]
Rectangle == [minX : Int, minY : Int, maxX : Int, maxY : Int]

ASSUME FrameSizeAssumption == Unit \in Nat \ {0} /\ Cols \in Nat /\ Rows \in Nat
ASSUME SettingsAssumption ==
    Settings \in [minWidth : Nat, maxWidth : Nat, minHeight : Nat, maxHeight : Nat,
                  portrait : BOOLEAN, roi : Rectangle, minConfidence : Nat]

\* valid: none of the seven numbers is NaN or infinite.
Detection ==
    [valid : BOOLEAN, class : STRING, score : Nat, left : Int, top : Int, right : Int, bottom : Int]

-----------------------------------------------------------------------------
(* Boxes.                                                                   *)

\* actualPos: to whole pixels, and out of range to the border.
ActualPos(frac, d) ==
    LET p == (frac * d) \div Unit IN IF p < 0 THEN 0 ELSE IF p > d THEN d ELSE p

Low(x, y) == IF x < y THEN x ELSE y
High(x, y) == IF x < y THEN y ELSE x

\* image.Rect puts the corners in order.
Coords(det) ==
    LET x1 == ActualPos(det.left, Cols)     y1 == ActualPos(det.top, Rows)
        x2 == ActualPos(det.right, Cols)    y2 == ActualPos(det.bottom, Rows)
    IN  [minX |-> Low(x1, x2), minY |-> Low(y1, y2), maxX |-> High(x1, x2), maxY |-> High(y1, y2)]

Width(r) == r.maxX - r.minX
Height(r) == r.maxY - r.minY
HasArea(r) == Width(r) > 0 /\ Height(r) > 0

ParseResult(frame) == {i \in DOMAIN frame : frame[i].valid /\ frame[i].class \in GraphLabels}

ParseAlerts(frame) == {i \in ParseResult(frame) : frame[i].class \in AlertLabels}

-----------------------------------------------------------------------------
(* The passes: the reason a box has afterwards.                             *)

RejectSize_HeightByWidth(det, reason) ==
    LET w == Width(Coords(det))
    IN  IF \/ Settings.minWidth # 0 /\ w < Settings.minWidth
           \/ Settings.minHeight # 0 /\ w < Settings.minHeight
           \/ Settings.maxWidth # 0 /\ w > Settings.maxWidth
           \/ Settings.maxHeight # 0 /\ w > Settings.maxHeight
        THEN "size" ELSE reason

RejectSize(det, reason) ==
    LET w == Width(Coords(det))
        h == Height(Coords(det))
    IN  IF \/ Settings.minWidth # 0 /\ w < Settings.minWidth
           \/ Settings.minHeight # 0 /\ h < Settings.minHeight
           \/ Settings.maxWidth # 0 /\ w > Settings.maxWidth
           \/ Settings.maxHeight # 0 /\ h > Settings.maxHeight
        THEN "size" ELSE reason

RejectOrientation(det, reason) ==
    IF Settings.portrait /\ ~(Width(Coords(det)) < Height(Coords(det)))
    THEN "landscape" ELSE reason

\* image.Rectangle.In, for a box that has an area.
In(r, s) == s.minX <= r.minX /\ r.maxX <= s.maxX /\ s.minY <= r.minY /\ r.maxY <= s.maxY

RejectOutsideROI(det, reason) ==
    IF Settings.roi # NoROI /\ ~In(Coords(det), Settings.roi) THEN "bounds" ELSE reason

RejectLowConfidence(det, reason) ==
    IF Settings.minConfidence # 0 /\ det.score < Settings.minConfidence
    THEN "confidence" ELSE reason

RejectReason(det) ==
    RejectLowConfidence(det, RejectOutsideROI(det, RejectOrientation(det, RejectSize(det, ""))))

HitBoxes(frame) == {i \in ParseAlerts(frame) : RejectReason(frame[i]) = ""}

RejectedBoxes(frame) == {i \in ParseAlerts(frame) : RejectReason(frame[i]) # ""}

-----------------------------------------------------------------------------
(* What the settings mean.                                                  *)

\* The sizes from least to most, where 0 is no limit.
Sizes(least, most) == {n \in Nat : n >= least /\ (most # 0 => n <= most)}

Pixels(r) == (r.minX .. r.maxX - 1) \X (r.minY .. r.maxY - 1)

\* What a camera asks of a thing that alerts: large and small enough, upright if it
\* must be, every pixel in the region of interest, and sure enough.
Wanted(det) ==
    LET r == Coords(det)
    IN  /\ Width(r) \in Sizes(Settings.minWidth, Settings.maxWidth)
        /\ Height(r) \in Sizes(Settings.minHeight, Settings.maxHeight)
        /\ Settings.portrait => Height(r) > Width(r)
        /\ Settings.roi # NoROI => Pixels(r) \subseteq Pixels(Settings.roi)
        /\ det.score >= Settings.minConfidence

=============================================================================
