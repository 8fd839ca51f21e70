--------------------------- MODULE UploadsProofs ---------------------------
(***************************************************************************)
(* Proofs about Frame and Uploads, for any frame size, settings, frames,   *)
(* buckets and queue capacity.  Every step of Uploads is one of RateLimit  *)
(* or leaves its variables alone, so RateLimit's theorems hold here too.   *)
(***************************************************************************)
EXTENDS Uploads, RateLimitProofs, FiniteSetTheorems, SequenceTheorems

-----------------------------------------------------------------------------
(* The filters.                                                             *)

LEMMA ActualPosBounds ==
    ASSUME NEW frac \in Int, NEW d \in Nat
    PROVE  ActualPos(frac, d) \in 0 .. d
<1>1. (frac * d) \div Unit \in Int
  BY FrameSizeAssumption
<1> QED BY <1>1 DEF ActualPos

\* Whatever the detector answers, the box lies in the frame.
LEMMA CoordsInFrame ==
    ASSUME NEW det \in Detection
    PROVE  /\ Coords(det).minX \in 0 .. Cols /\ Coords(det).maxX \in 0 .. Cols
           /\ Coords(det).minY \in 0 .. Rows /\ Coords(det).maxY \in 0 .. Rows
<1>1. /\ det.left \in Int /\ det.top \in Int /\ det.right \in Int /\ det.bottom \in Int
  BY DEF Detection
<1>2. /\ ActualPos(det.left, Cols) \in 0 .. Cols /\ ActualPos(det.right, Cols) \in 0 .. Cols
      /\ ActualPos(det.top, Rows) \in 0 .. Rows /\ ActualPos(det.bottom, Rows) \in 0 .. Rows
  BY <1>1, ActualPosBounds, FrameSizeAssumption
<1> QED BY <1>2 DEF Coords, Low, High

\* For a box with an area, comparing corners is comparing pixels.
LEMMA InIsPixels ==
    ASSUME NEW r, NEW s,
           r.minX \in Int, r.maxX \in Int, r.minY \in Int, r.maxY \in Int,
           s.minX \in Int, s.maxX \in Int, s.minY \in Int, s.maxY \in Int,
           HasArea(r)
    PROVE  In(r, s) <=> Pixels(r) \subseteq Pixels(s)
<1>1. ASSUME In(r, s) PROVE Pixels(r) \subseteq Pixels(s)
  BY <1>1 DEF In, Pixels
<1>2. ASSUME Pixels(r) \subseteq Pixels(s) PROVE In(r, s)
  <2>1. <<r.minX, r.minY>> \in Pixels(r) /\ <<r.maxX - 1, r.maxY - 1>> \in Pixels(r)
    BY DEF Pixels, HasArea, Width, Height
  <2>2. <<r.minX, r.minY>> \in Pixels(s) /\ <<r.maxX - 1, r.maxY - 1>> \in Pixels(s)
    BY <1>2, <2>1
  <2> QED BY <2>2 DEF In, Pixels
<1> QED BY <1>1, <1>2

\* The four passes, each of which may overwrite the reason of the one before, leave a
\* box without a reason exactly when it is what the settings want.
THEOREM HitsAsWanted ==
    ASSUME NEW det \in Detection, HasArea(Coords(det))
    PROVE  RejectReason(det) = "" <=> Wanted(det)
<1> DEFINE r == Coords(det)
<1>1. /\ r.minX \in Int /\ r.maxX \in Int /\ r.minY \in Int /\ r.maxY \in Int
      /\ Width(r) \in Nat /\ Height(r) \in Nat /\ HasArea(r)
  BY CoordsInFrame, FrameSizeAssumption DEF Width, Height, HasArea
<1>2. /\ det.score \in Nat
  BY DEF Detection
<1>3. /\ Settings.minWidth \in Nat /\ Settings.maxWidth \in Nat
      /\ Settings.minHeight \in Nat /\ Settings.maxHeight \in Nat
      /\ Settings.portrait \in BOOLEAN /\ Settings.minConfidence \in Nat
      /\ Settings.roi \in Rectangle
  BY SettingsAssumption
<1>4. In(r, Settings.roi) <=> Pixels(r) \subseteq Pixels(Settings.roi)
  <2> HIDE DEF r
  <2> QED BY <1>1, <1>3, InIsPixels DEF Rectangle
<1>5. RejectSize(det, "") = "" <=> /\ Width(r) \in Sizes(Settings.minWidth, Settings.maxWidth)
                                   /\ Height(r) \in Sizes(Settings.minHeight, Settings.maxHeight)
  <2> HIDE DEF r
  <2>1. RejectSize(det, "") = "" <=>
          /\ ~(Settings.minWidth # 0 /\ Width(r) < Settings.minWidth)
          /\ ~(Settings.minHeight # 0 /\ Height(r) < Settings.minHeight)
          /\ ~(Settings.maxWidth # 0 /\ Width(r) > Settings.maxWidth)
          /\ ~(Settings.maxHeight # 0 /\ Height(r) > Settings.maxHeight)
    BY DEF RejectSize, r
  <2>2. ASSUME NEW n \in Nat, NEW least \in Nat, NEW most \in Nat
        PROVE  n \in Sizes(least, most) <=>
                 ~(least # 0 /\ n < least) /\ ~(most # 0 /\ n > most)
    BY DEF Sizes
  <2>3. Width(r) \in Sizes(Settings.minWidth, Settings.maxWidth) <=>
          /\ ~(Settings.minWidth # 0 /\ Width(r) < Settings.minWidth)
          /\ ~(Settings.maxWidth # 0 /\ Width(r) > Settings.maxWidth)
    <3>1. Width(r) \in Nat /\ Settings.minWidth \in Nat /\ Settings.maxWidth \in Nat
      BY <1>1, <1>3
    <3> QED BY <3>1, <2>2
  <2>4. Height(r) \in Sizes(Settings.minHeight, Settings.maxHeight) <=>
          /\ ~(Settings.minHeight # 0 /\ Height(r) < Settings.minHeight)
          /\ ~(Settings.maxHeight # 0 /\ Height(r) > Settings.maxHeight)
    <3>1. Height(r) \in Nat /\ Settings.minHeight \in Nat /\ Settings.maxHeight \in Nat
      BY <1>1, <1>3
    <3> QED BY <3>1, <2>2
  <2> QED BY <2>1, <2>3, <2>4
<1>6. \A reason : RejectOrientation(det, reason) = "" <=>
          reason = "" /\ (Settings.portrait => Height(r) > Width(r))
  BY <1>1, <1>3 DEF RejectOrientation
<1>7. \A reason : RejectOutsideROI(det, reason) = "" <=>
          reason = "" /\ (Settings.roi # NoROI => In(r, Settings.roi))
  BY DEF RejectOutsideROI
<1>8. \A reason : RejectLowConfidence(det, reason) = "" <=>
          reason = "" /\ det.score >= Settings.minConfidence
  <2> TAKE reason
  <2>1. det.score \in Nat /\ Settings.minConfidence \in Nat
    BY <1>2, <1>3
  <2>2. (Settings.minConfidence # 0 /\ det.score < Settings.minConfidence)
          <=> ~(det.score >= Settings.minConfidence)
    BY <2>1
  <2> QED BY <2>2 DEF RejectLowConfidence
<1> QED
  BY <1>4, <1>5, <1>6, <1>7, <1>8 DEF RejectReason, Wanted
-----------------------------------------------------------------------------
(* The attempts are those of RateLimit.                                     *)

HitIsDue ==
    frame \in Frames /\ HitBoxes(frame) # {} /\ held = 0 /\ boxes = 0 /\ trying = "none"

\* What the main loop knows of the frame it is at: its hits come after the images it had
\* in hand, and an attempt comes after the image before it.
AtFrame ==
    /\ frame \in Frames \cup {<<>>}
    /\ toInform \in Nat
    /\ hitDue \in BOOLEAN
    /\ hitDue => HitIsDue
    /\ trying # "none" => held = 0

LEMMA BoxCounts ==
    ASSUME NEW f \in Frames
    PROVE  /\ Cardinality(RejectedBoxes(f)) \in Nat
           /\ HitBoxes(f) # {} => Cardinality(HitBoxes(f)) \in 1 .. MaxBoxes
<1>1. f \in Seq(Detection) /\ Len(f) <= MaxBoxes /\ Len(f) \in Nat /\ DOMAIN f = 1 .. Len(f)
  BY FramesAssumption
<1>2. HitBoxes(f) \in SUBSET (1 .. Len(f)) /\ RejectedBoxes(f) \in SUBSET (1 .. Len(f))
  BY <1>1 DEF HitBoxes, RejectedBoxes, ParseAlerts, ParseResult
<1>3. IsFiniteSet(1 .. Len(f)) /\ Cardinality(1 .. Len(f)) = Len(f)
  <2>1. Len(f) \in Int /\ 1 \in Int
    BY <1>1
  <2> QED BY <2>1, <1>1, FS_Interval
<1>4. IsFiniteSet(HitBoxes(f)) /\ Cardinality(HitBoxes(f)) <= Len(f) /\ IsFiniteSet(RejectedBoxes(f))
  BY <1>2, <1>3, FS_Subset
<1>5. Cardinality(HitBoxes(f)) \in Nat /\ Cardinality(RejectedBoxes(f)) \in Nat
  BY <1>4, FS_CardinalityType
<1>6. HitBoxes(f) # {} => Cardinality(HitBoxes(f)) # 0
  BY <1>4, FS_EmptySet
<1> QED BY <1>1, <1>4, <1>5, <1>6, BoundAssumption

LEMMA InitAtFrame == UInit => AtFrame
<1> SUFFICES ASSUME UInit PROVE AtFrame
  OBVIOUS
<1>1. frame \in Frames \cup {<<>>} /\ toInform \in Nat
  BY DEF UInit
<1>2. hitDue \in BOOLEAN /\ ~hitDue /\ held = 0
  BY DEF UInit
<1> QED BY <1>1, <1>2 DEF AtFrame

\* A step that leaves the frame alone.
LEMMA SameFrame ==
    ASSUME AtFrame, UNCHANGED <<frame, hitDue, held, boxes, trying>>, toInform' \in Nat
    PROVE  AtFrame'
<1>1. HitBoxes(frame)' = HitBoxes(frame)
  BY DEF HitBoxes, ParseAlerts, ParseResult
<1>2. HitIsDue' = HitIsDue
  BY <1>1 DEF HitIsDue
<1> QED BY <1>2 DEF AtFrame

\* A step on the way through a frame whose hits are not due any more.
LEMMA NoHitDue ==
    ASSUME AtFrame, frame' \in {frame, <<>>}, toInform' = toInform, hitDue' \in BOOLEAN, ~hitDue',
           trying' # "none" => held' = 0
    PROVE  AtFrame'
BY DEF AtFrame

LEMMA StepAtFrame == ASSUME AtFrame, [UNext]_uvars PROVE AtFrame'
<1>1. ASSUME NEW f \in Frames, NextFrameFromCam(f) PROVE AtFrame'
  <2>1. Cardinality(RejectedBoxes(f)) \in Nat
    BY BoxCounts
  <2>2. /\ frame' = f /\ hitDue' = (HitBoxes(f) # {})
        /\ toInform' = IF SendRejected THEN Cardinality(RejectedBoxes(f)) ELSE 0
    BY <1>1, Zenon DEF NextFrameFromCam
  <2>3. HitBoxes(frame)' = HitBoxes(f)
    BY <2>2 DEF HitBoxes, ParseAlerts, ParseResult
  <2>8. held' = 0 /\ boxes' = 0 /\ trying' = "none"
    <3>1. Idle /\ UNCHANGED <<held, boxes, trying>>
      BY <1>1 DEF NextFrameFromCam, rateVars
    <3> QED BY <3>1 DEF Idle
  <2>4. toInform' \in Nat
    BY <2>1, <2>2
  <2>5. hitDue' => HitIsDue'
    BY <2>2, <2>3, <2>8 DEF HitIsDue
  <2>6. frame' \in Frames \cup {<<>>}
    BY <2>2
  <2>7. hitDue' \in BOOLEAN
    BY <2>2
  <2> QED BY <2>4, <2>5, <2>6, <2>7, <2>8, Zenon DEF AtFrame
<1>2. CASE Snapshot
  <2>1. toInform' = 1 /\ UNCHANGED <<frame, hitDue, held, boxes, trying>>
    BY <1>2 DEF Snapshot, rateVars
  <2> QED BY <2>1, SameFrame
<1>3. CASE Inform
  <2>1. toInform' = toInform - 1 /\ toInform > 0 /\ UNCHANGED <<frame, hitDue, held, boxes, trying>>
    BY <1>3 DEF Inform, rateVars
  <2>2. toInform' \in Nat
    BY <2>1 DEF AtFrame
  <2> QED BY <2>1, <2>2, SameFrame
<1>4. CASE TryOverview
  <2>1. held' = 0
    BY <1>4 DEF TryOverview, AtFrame, HitIsDue
  <2> QED BY <1>4, <2>1, NoHitDue DEF TryOverview
<1>10. CASE TryTokens
  <2>1. trying # "none" /\ frame' = frame /\ toInform' = toInform /\ hitDue' = hitDue
    BY <1>10 DEF TryTokens, TakeFrameBuckets, Refused, GoesOn, Granted
  <2>2. hitDue \in BOOLEAN /\ ~hitDue
    BY <2>1 DEF AtFrame, HitIsDue
  <2>3. trying' # "none" => held' = 0
    BY <1>10 DEF TryTokens, Hold, TakeFrameBuckets, Refused, GoesOn, Granted
  <2> QED BY <2>1, <2>2, <2>3, NoHitDue
<1>5. CASE TryBox
  <2>1. boxes > 0 /\ frame' = frame /\ toInform' = toInform /\ hitDue' = hitDue /\ held' = 0
    BY <1>5 DEF TryBox, Box
  <2>2. hitDue \in BOOLEAN /\ ~hitDue
    BY <2>1 DEF AtFrame, HitIsDue
  <2> QED BY <2>1, <2>2, NoHitDue
<1>6. CASE Alert
  <2>1. held # 0 /\ frame' = frame /\ toInform' = toInform /\ hitDue' = hitDue /\ held' = 0
    BY <1>6 DEF Alert
  <2>2. hitDue \in BOOLEAN /\ ~hitDue
    BY <2>1 DEF AtFrame, HitIsDue
  <2> QED BY <2>1, <2>2, NoHitDue
<1>7. CASE TakeAlert \/ TakeInfo \/ Returned \/ UploadHangs \/ UploaderStops \/ Cancel
  <2>1. UNCHANGED <<frame, toInform, hitDue, held, boxes, trying>>
    BY <1>7 DEF TakeAlert, TakeInfo, Returned, UploadHangs, UploaderStops, Cancel, rateVars, mainVars
  <2> QED BY <2>1, SameFrame DEF AtFrame
<1>8. CASE Elsewhere
  <2>1. UNCHANGED <<frame, toInform, hitDue, held, boxes, trying>>
    BY <1>8 DEF Elsewhere, ShowTokens, Pass, mainVars
  <2> QED BY <2>1, SameFrame DEF AtFrame
<1>9. CASE UNCHANGED uvars
  <2>1. UNCHANGED <<frame, toInform, hitDue, held, boxes, trying>>
    BY <1>9 DEF uvars
  <2> QED BY <2>1, SameFrame DEF AtFrame
<1> QED BY <1>1, <1>2, <1>3, <1>4, <1>5, <1>6, <1>7, <1>8, <1>9, <1>10 DEF UNext, Main

LEMMA StepIsRateLimit == ASSUME AtFrame, [UNext]_uvars PROVE [Next]_vars
<1>1. CASE TryOverview
  <2>1. Cardinality(HitBoxes(frame)) \in 1 .. MaxBoxes
    BY <1>1, BoxCounts DEF TryOverview, AtFrame, HitIsDue
  <2> QED BY <1>1, <2>1 DEF TryOverview, Next
<1>2. CASE TryBox \/ TryTokens
  BY <1>2 DEF TryBox, TryTokens, Next
<1>3. CASE Elsewhere
  BY <1>3 DEF Elsewhere, Next
<1>4. CASE (\E f \in Frames : NextFrameFromCam(f)) \/ Snapshot \/ Inform \/ Alert
  BY <1>4 DEF NextFrameFromCam, Snapshot, Inform, Alert, rateVars, vars
<1>5. CASE TakeAlert \/ TakeInfo \/ Returned \/ UploadHangs \/ UploaderStops \/ Cancel
  BY <1>5 DEF TakeAlert, TakeInfo, Returned, UploadHangs, UploaderStops, Cancel, rateVars, vars
<1>6. CASE UNCHANGED uvars
  BY <1>6 DEF uvars, vars
<1> QED BY <1>1, <1>2, <1>3, <1>4, <1>5, <1>6 DEF UNext, Main

LEMMA AlwaysAtFrame == USpec => []AtFrame
BY InitAtFrame, StepAtFrame, PTL DEF USpec

\* The main loop of Uploads, which stops at full queues, takes the steps of RateLimit.
\* That is how Uploads is built, but for one thing: a frame has no more hits than Hit allows.
LEMMA UploadsKeepTheRate == USpec => Spec
<1>1. UInit => Init
  BY DEF UInit
<1>2. AtFrame /\ [UNext]_uvars => [Next]_vars
  BY StepIsRateLimit
<1> QED BY <1>1, <1>2, AlwaysAtFrame, PTL DEF USpec, Spec

\* So every limit holds of the images the composition grants, overviews are apart, and
\* no more than thirty are granted in a minute, whatever the queues and the Uploader do.
THEOREM UploadsKeepEveryLimit ==
    USpec => [](WithinEveryLimit /\ OverviewsApart /\ AtMostThirty)
<1> QED BY UploadsKeepTheRate, LimitsHold, OverviewsAreApart, ThirtyAMinute, PTL

\* The boxes of every frame lie inside it, and the hits are those the settings want.
THEOREM HitsAreAsWanted == USpec => []HitsAreWanted
<1>1. AtFrame => HitsAreWanted
  <2> SUFFICES ASSUME AtFrame, NEW i \in ParseAlerts(frame)
               PROVE  /\ Pixels(Coords(frame[i])) \subseteq (0 .. Cols - 1) \X (0 .. Rows - 1)
                      /\ i \in HitBoxes(frame) <=> Wanted(frame[i])
    BY DEF HitsAreWanted
  <2>1. frame \in Frames
    BY DEF AtFrame, ParseAlerts, ParseResult
  <2>2. frame[i] \in Detection /\ HasArea(Coords(frame[i]))
    <3>1. frame \in Seq(Detection) /\ HasArea(Coords(frame[i]))
      BY <2>1, FramesAssumption
    <3>2. i \in DOMAIN frame
      BY DEF ParseAlerts, ParseResult
    <3> QED BY <3>1, <3>2
  <2>3. Pixels(Coords(frame[i])) \subseteq (0 .. Cols - 1) \X (0 .. Rows - 1)
    BY <2>2, CoordsInFrame, FrameSizeAssumption DEF Pixels
  <2>4. i \in HitBoxes(frame) <=> RejectReason(frame[i]) = ""
    BY DEF HitBoxes
  <2> QED BY <2>2, <2>3, <2>4, HitsAsWanted
<1> QED BY <1>1, AlwaysAtFrame, PTL

-----------------------------------------------------------------------------
(* The order of the alerts.                                                 *)

Hand == IF held = 0 THEN <<>> ELSE <<held>>

\* AlertsInOrder place by place, and what it takes for a step to keep it: there is
\* nothing in the Uploader's hand when it takes the next image.
Placed ==
    /\ attempted \in Seq(Nat) /\ sending \in Seq(Nat) /\ alerts \in Seq(Nat) /\ held \in Nat
    /\ \A i \in 1 .. Len(attempted) : attempted[i] = i
    /\ \A i \in 1 .. Len(sending) : sending[i] = Len(attempted) + i
    /\ \A i \in 1 .. Len(alerts) : alerts[i] = Len(attempted) + Len(sending) + i
    /\ held # 0 => held = Len(attempted) + Len(sending) + Len(alerts) + 1
    /\ Len(sent) = Len(attempted) + Len(sending) + Len(alerts) + (IF held = 0 THEN 0 ELSE 1)

InHand == uploader \in {"select", "info"} => sending = <<>>

LEMMA InitPlaced == UInit => Placed /\ InHand
BY DEF UInit, Init, Placed, InHand

LEMMA StepInHand == ASSUME InHand, [UNext]_uvars PROVE InHand'
<1> USE DEF InHand
<1>1. CASE TakeAlert \/ TakeInfo \/ Returned
  BY <1>1 DEF TakeAlert, TakeInfo, Returned
<1>2. CASE UploadHangs \/ UploaderStops \/ Cancel
  BY <1>2 DEF UploadHangs, UploaderStops, Cancel
<1>3. CASE (\E f \in Frames : NextFrameFromCam(f)) \/ Snapshot \/ Inform \/ Alert
  BY <1>3 DEF NextFrameFromCam, Snapshot, Inform, Alert, uploadVars
<1>4. CASE TryOverview \/ TryBox \/ TryTokens \/ Elsewhere
  BY <1>4 DEF TryOverview, TryBox, TryTokens, Elsewhere, uploadVars
<1>5. CASE UNCHANGED uvars
  BY <1>5 DEF uvars
<1> QED BY <1>1, <1>2, <1>3, <1>4, <1>5 DEF UNext, Main

\* An attempt adds one image to the history, or none.
LEMMA AttemptPlaced ==
    ASSUME TypeOK, Placed, held = 0, Hold, UNCHANGED <<alerts, sending, attempted>>,
           sent' = sent \/ \E image : sent' = Append(sent, image)
    PROVE  Placed'
<1>1. Len(sent) \in Nat
  BY DEF TypeOK
<1>2. CASE sent' = sent
  <2>1. held' = 0
    BY <1>1, <1>2 DEF Hold
  <2> QED BY <1>2, <2>1 DEF Placed
<1>3. CASE \E image : sent' = Append(sent, image)
  <2>1. Len(sent') = Len(sent) + 1
    BY <1>3 DEF TypeOK
  <2>2. held' = Len(sent) + 1
    BY <1>1, <2>1 DEF Hold
  <2>3. /\ Len(attempted) \in Nat /\ Len(sending) \in Nat /\ Len(alerts) \in Nat
        /\ Len(sent) = Len(attempted) + Len(sending) + Len(alerts)
    BY DEF Placed
  <2>4. held' \in Nat \ {0} /\ held' = Len(attempted) + Len(sending) + Len(alerts) + 1
        /\ Len(sent') = Len(attempted) + Len(sending) + Len(alerts) + 1
    BY <1>1, <2>1, <2>2, <2>3
  <2> QED BY <2>4 DEF Placed
<1> QED BY <1>2, <1>3

LEMMA StepPlaced ==
    ASSUME TypeOK, AtFrame, InHand, Placed, [UNext]_uvars PROVE Placed'
<1>1. ASSUME NEW f \in Frames, NextFrameFromCam(f) PROVE Placed'
  BY <1>1 DEF NextFrameFromCam, rateVars, uploadVars, Placed
<1>2. CASE Snapshot \/ Inform
  BY <1>2 DEF Snapshot, Inform, rateVars, uploadVars, Placed
<1>3. CASE TryOverview \/ TryBox
  BY <1>3 DEF TryOverview, Hit, TryBox, Box, uploadVars, Placed
<1>4. CASE TryTokens
  <2>1. held = 0 /\ UNCHANGED <<alerts, sending, attempted>> /\ Hold
    BY <1>4 DEF TryTokens, uploadVars, AtFrame, TakeFrameBuckets, Refused, GoesOn, Granted
  <2>2. sent' = sent \/ \E image : sent' = Append(sent, image)
    BY <1>4 DEF TryTokens, TakeFrameBuckets, Refused, GoesOn, Granted
  <2> QED BY <2>1, <2>2, AttemptPlaced
<1>5. CASE Alert
  <2>1. /\ held # 0 /\ held' = 0 /\ alerts' = Append(alerts, held)
        /\ UNCHANGED <<sent, sending, attempted>>
    BY <1>5 DEF Alert, rateVars, uploadVars
  <2>2. /\ alerts' \in Seq(Nat) /\ Len(alerts') = Len(alerts) + 1
        /\ \A i \in 1 .. Len(alerts) : alerts'[i] = alerts[i]
        /\ alerts'[Len(alerts) + 1] = held
    BY <2>1 DEF Placed
  <2>3. ASSUME NEW i \in 1 .. Len(alerts')
        PROVE  alerts'[i] = Len(attempted) + Len(sending) + i
    <3>1. CASE i \in 1 .. Len(alerts)
      BY <3>1, <2>2 DEF Placed
    <3>2. CASE i = Len(alerts) + 1
      BY <3>2, <2>1, <2>2 DEF Placed
    <3> QED BY <3>1, <3>2, <2>2 DEF Placed
  <2>4. Len(sent') = Len(attempted') + Len(sending') + Len(alerts')
    BY <2>1, <2>2 DEF Placed
  <2> QED BY <2>1, <2>2, <2>3, <2>4 DEF Placed
<1>6. CASE TakeAlert
  <2>1. /\ sending = <<>> /\ alerts # <<>>
        /\ sending' = <<Head(alerts)>> /\ alerts' = Tail(alerts)
        /\ UNCHANGED <<sent, held, attempted>>
    BY <1>6 DEF TakeAlert, InHand, rateVars, mainVars
  <2>2. /\ alerts' \in Seq(Nat) /\ Len(alerts') = Len(alerts) - 1
        /\ \A i \in 1 .. Len(alerts) - 1 : alerts'[i] = alerts[i + 1]
        /\ sending' \in Seq(Nat) /\ Len(sending') = 1 /\ sending'[1] = alerts[1]
        /\ Len(alerts) \in Nat \ {0} /\ Len(attempted) \in Nat /\ Len(sending) = 0
    BY <2>1 DEF Placed
  <2>3. \A i \in 1 .. Len(sending') : sending'[i] = Len(attempted) + i
    BY <2>2 DEF Placed
  <2>4. \A i \in 1 .. Len(alerts') : alerts'[i] = Len(attempted) + Len(sending') + i
    BY <2>2 DEF Placed
  <2>5. Len(attempted') + Len(sending') + Len(alerts') = Len(attempted) + Len(sending) + Len(alerts)
    BY <2>1, <2>2
  <2> QED BY <2>1, <2>2, <2>3, <2>4, <2>5 DEF Placed
<1>7. CASE Returned
  <2>1. /\ sending' = <<>> /\ attempted' = attempted \o sending
        /\ UNCHANGED <<sent, held, alerts>>
    BY <1>7 DEF Returned, rateVars, mainVars
  <2>2. /\ attempted' \in Seq(Nat) /\ Len(attempted') = Len(attempted) + Len(sending)
        /\ \A i \in 1 .. Len(attempted) + Len(sending) : attempted'[i] =
                IF i <= Len(attempted) THEN attempted[i] ELSE sending[i - Len(attempted)]
    BY <2>1, ConcatProperties DEF Placed
  <2> QED BY <2>1, <2>2 DEF Placed
<1>8. CASE TakeInfo \/ UploadHangs \/ UploaderStops \/ Cancel
  BY <1>8 DEF TakeInfo, UploadHangs, UploaderStops, Cancel, rateVars, mainVars, Placed
<1>9. CASE Elsewhere
  BY <1>9 DEF Elsewhere, ShowTokens, Pass, mainVars, uploadVars, Placed
<1>10. CASE UNCHANGED uvars
  BY <1>10 DEF uvars, Placed
<1> QED BY <1>1, <1>2, <1>3, <1>4, <1>5, <1>6, <1>7, <1>8, <1>9, <1>10 DEF UNext, Main

\* Counting on.
CountsTo(s, n) == s \in Seq(Nat) /\ Len(s) = n /\ \A i \in 1 .. n : s[i] = i

LEMMA CountOn ==
    ASSUME NEW s, NEW m \in Nat, CountsTo(s, m),
           NEW t \in Seq(Nat), \A i \in 1 .. Len(t) : t[i] = m + i
    PROVE  CountsTo(s \o t, m + Len(t))
<1>1. s \in Seq(Nat) /\ Len(s) = m
  BY DEF CountsTo
<1>2. /\ s \o t \in Seq(Nat) /\ Len(s \o t) = m + Len(t)
      /\ \A i \in 1 .. m + Len(t) : (s \o t)[i] = IF i <= m THEN s[i] ELSE t[i - m]
  BY <1>1, ConcatProperties
<1>3. ASSUME NEW i \in 1 .. m + Len(t) PROVE (s \o t)[i] = i
  <2>1. CASE i <= m
    BY <1>2, <2>1 DEF CountsTo
  <2>2. CASE ~(i <= m)
    BY <1>2, <2>2
  <2> QED BY <2>1, <2>2
<1> QED BY <1>2, <1>3 DEF CountsTo

\* Such a sequence is the function.
LEMMA CountedIs ==
    ASSUME NEW s, NEW n \in Nat, CountsTo(s, n)
    PROVE  s = [i \in 1 .. n |-> i]
<1>1. s \in Seq(Nat) /\ Len(s) = n /\ \A i \in 1 .. n : s[i] = i
  BY DEF CountsTo
<1>2. [i \in 1 .. n |-> i] \in Seq(Nat) /\ Len([i \in 1 .. n |-> i]) = n
  OBVIOUS
<1> QED BY <1>1, <1>2, SeqEqual

LEMMA PlacedIsInOrder == ASSUME Placed PROVE AlertsInOrder
<1> DEFINE a == Len(attempted)
           b == Len(sending)
           c == Len(alerts)
<1>1. a \in Nat /\ b \in Nat /\ c \in Nat
  BY DEF Placed
<1>2. CountsTo(attempted, a)
  BY DEF Placed, CountsTo
<1>3. CountsTo(attempted \o sending, a + b)
  BY <1>1, <1>2, CountOn DEF Placed
<1>4. CountsTo(attempted \o sending \o alerts, a + b + c)
  <2>1. a + b \in Nat /\ alerts \in Seq(Nat) /\ \A i \in 1 .. Len(alerts) : alerts[i] = (a + b) + i
    BY <1>1 DEF Placed
  <2> QED BY <1>3, <2>1, CountOn
<1>5. /\ Hand \in Seq(Nat) /\ \A i \in 1 .. Len(Hand) : Hand[i] = a + b + c + i
      /\ a + b + c + Len(Hand) = Len(sent)
  <2>1. CASE held = 0
    BY <1>1, <2>1 DEF Placed, Hand
  <2>2. CASE held # 0
    <3>1. Hand = <<held>> /\ held \in Nat /\ held = a + b + c + 1 /\ a + b + c + 1 = Len(sent)
      BY <2>2 DEF Placed, Hand
    <3> QED BY <3>1
  <2> QED BY <2>1, <2>2
<1>6. CountsTo(attempted \o sending \o alerts \o Hand, Len(sent))
  <2>1. a + b + c \in Nat
    BY <1>1
  <2>2. CountsTo(attempted \o sending \o alerts \o Hand, a + b + c + Len(Hand))
    BY <1>4, <1>5, <2>1, CountOn
  <2> QED BY <1>5, <2>2
<1>7. attempted \o sending \o alerts \o Hand = [i \in 1 .. Len(sent) |-> i]
  <2>1. Len(sent) \in Nat
    BY <1>1 DEF Placed
  <2> QED BY <1>6, <2>1, CountedIs
<1> QED BY <1>7 DEF AlertsInOrder, Hand

\* No image that was granted is lost, sent twice or overtaken between the main loop and
\* the request to Telegram.
THEOREM AlertsGoInOrder == USpec => []AlertsInOrder
<1>1. USpec => []TypeOK
  BY UploadsKeepTheRate, TypeCorrect
<1>2. AtFrame /\ TypeOK /\ InHand /\ Placed /\ [UNext]_uvars => (InHand /\ Placed)'
  BY StepInHand, StepPlaced
<1>3. InHand /\ Placed => AlertsInOrder
  BY PlacedIsInOrder
<1> QED BY <1>1, <1>2, <1>3, InitPlaced, AlwaysAtFrame, PTL DEF USpec

-----------------------------------------------------------------------------
(* Queues.                                                                  *)

\* The lengths of the queues and where the Uploader is.
QueuesBounded ==
    /\ Len(alerts) <= QueueCap /\ infos \in 0 .. QueueCap /\ Len(sending) <= 1
    /\ uploader \in {"select", "alert", "info", "hung", "stopped"}

LEMMA StepQueues ==
    ASSUME Placed, QueuesBounded, [UNext]_uvars PROVE QueuesBounded'
<1>0. QueueCap \in Nat \ {0} /\ alerts \in Seq(Nat)
  BY QueueAssumption DEF Placed
<1>1. CASE Inform
  BY <1>0, <1>1 DEF Inform, QueuesBounded, uploadVars
<1>2. CASE Alert
  BY <1>0, <1>2 DEF Alert, QueuesBounded, uploadVars, Placed
<1>3. CASE TakeAlert
  <2>1. Len(sending') = 1
    BY <1>3 DEF TakeAlert
  <2> QED BY <1>0, <1>3, <2>1 DEF TakeAlert, QueuesBounded
<1>4. CASE TakeInfo
  BY <1>0, <1>4 DEF TakeInfo, QueuesBounded
<1>5. CASE Returned \/ UploadHangs \/ UploaderStops \/ Cancel
  BY <1>5 DEF Returned, UploadHangs, UploaderStops, Cancel, QueuesBounded
<1>6. CASE (\E f \in Frames : NextFrameFromCam(f)) \/ Snapshot
  BY <1>6 DEF NextFrameFromCam, Snapshot, QueuesBounded, uploadVars
<1>7. CASE TryOverview \/ TryBox \/ TryTokens \/ Elsewhere
  BY <1>7 DEF TryOverview, TryBox, TryTokens, Elsewhere, QueuesBounded, uploadVars
<1>8. CASE UNCHANGED uvars
  BY <1>8 DEF QueuesBounded, uvars
<1> QED BY <1>1, <1>2, <1>3, <1>4, <1>5, <1>6, <1>7,
           <1>8 DEF UNext, Main

LEMMA AlwaysPlaced ==
    USpec => [](AtFrame /\ InHand /\ Placed /\ QueuesBounded)
<1>1. USpec => []TypeOK
  BY UploadsKeepTheRate, TypeCorrect
<1>2. AtFrame /\ TypeOK /\ InHand /\ Placed /\ [UNext]_uvars => (InHand /\ Placed)'
  BY StepInHand, StepPlaced
<1>3. UInit => QueuesBounded
  BY QueueAssumption DEF UInit, QueuesBounded
<1>4. Placed /\ QueuesBounded /\ [UNext]_uvars => QueuesBounded'
  BY StepQueues
<1> QED BY <1>1, <1>2, <1>3, <1>4, InitPlaced, AlwaysAtFrame, PTL DEF USpec

\* The queues keep their capacity, whoever waits at them, and the image main has in
\* hand is one that was granted.
THEOREM QueuesTypeCorrect == USpec => []UTypeOK
<1>1. AtFrame /\ Placed /\ QueuesBounded => UTypeOK
  <2> SUFFICES ASSUME AtFrame, Placed, QueuesBounded PROVE UTypeOK
    OBVIOUS
  <2>1. held \in 0 .. Len(sent)
    BY DEF Placed
  <2> QED BY <2>1 DEF AtFrame, QueuesBounded, UTypeOK
<1> QED BY <1>1, AlwaysPlaced, PTL

\* A process that ends, or a request that never returns, costs at most a full queue and
\* the two images on either side of it, for any capacity and however many are granted.
THEOREM LittleIsLost == USpec => []FewAtStake
<1>1. Placed /\ QueuesBounded => FewAtStake
  <2> SUFFICES ASSUME Placed, QueuesBounded PROVE FewAtStake
    OBVIOUS
  <2> DEFINE waiting == IF held = 0 THEN 0 ELSE 1
  <2>1. attempted \in Seq(Nat) /\ sending \in Seq(Nat) /\ alerts \in Seq(Nat)
    BY DEF Placed
  <2>2. Len(attempted) \in Nat /\ Len(sending) \in Nat /\ Len(alerts) \in Nat
    BY <2>1
  <2>3. Len(sent) = Len(attempted) + Len(sending) + Len(alerts) + waiting /\ waiting \in 0 .. 1
    BY DEF Placed
  <2>4. Len(sending) <= 1 /\ Len(alerts) <= QueueCap
    BY DEF QueuesBounded
  <2> HIDE DEF waiting
  <2> QED BY <2>2, <2>3, <2>4, QueueAssumption DEF FewAtStake
<1> QED BY <1>1, AlwaysPlaced, PTL

=============================================================================
