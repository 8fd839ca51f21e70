------------------------------ MODULE Uploads -------------------------------
(***************************************************************************)
(* From a detection to Telegram: NextFrameFromCam, the snapshots and the   *)
(* Uploader.                                                               *)
(*                                                                         *)
(* The main loop sends the rejected boxes of a frame to the info queue (if *)
(* the camera is told to), then tries the overview and the hit boxes as in *)
(* RateLimit and sends the images granted to the alert queue.  Both queues *)
(* are bounded channels, and the main loop waits where one is full.  The   *)
(* Uploader takes from either, tries once to send, and goes on; it stops   *)
(* when the context is cancelled.  A request to Telegram may hang.         *)
(***************************************************************************)
EXTENDS RateLimit, Frame, FiniteSets

CONSTANTS
    Frames,         \* the frames the detector may answer with
    SendRejected,   \* of the camera: rejected boxes are sent too
    QueueCap        \* capacity of each queue (5000 in app.go)

ASSUME QueueAssumption == QueueCap \in Nat \ {0} /\ SendRejected \in BOOLEAN
ASSUME FramesAssumption == \A f \in Frames :
    /\ f \in Seq(Detection) /\ Len(f) <= MaxBoxes
    /\ \A i \in ParseAlerts(f) : HasArea(Coords(f[i]))

VARIABLES
    frame,      \* the latest frame with anything that alerts in it, until its hits are tried
    toInform,   \* images the main loop has still to put into the info queue
    hitDue,     \* the hits of the frame are still to be tried
    held,       \* the image it waits to put into the alert queue, or 0
    alerts,     \* AlertUploadChan: the images, by their place in sent
    infos,      \* InfoUploadChan: the number of images
    uploader,   \* "select", "alert" or "info" (sending), "hung", "stopped"
    sending,    \* the alert image being sent, if any, as a sequence
    attempted,  \* history: the alert images whose request returned, in order
    cancelled   \* the context is cancelled

rateVars == <<now, tokens, tick, lastOverview, boxes, trying, got, sent>>
mainVars == <<frame, toInform, hitDue, held>>
uploadVars == <<uploader, sending, attempted, cancelled>>
uvars == <<now, tokens, tick, lastOverview, boxes, trying, got, sent, frame, toInform, hitDue,
           held, alerts, infos, uploader, sending, attempted, cancelled>>

-----------------------------------------------------------------------------
(* The main loop.                                                           *)

UInit ==
    /\ Init
    /\ frame = <<>> /\ toInform = 0 /\ hitDue = FALSE /\ held = 0
    /\ alerts = <<>> /\ infos = 0
    /\ uploader = "select" /\ sending = <<>> /\ attempted = <<>> /\ cancelled = FALSE

\* Back in the select of Run.
Idle == toInform = 0 /\ ~hitDue /\ held = 0 /\ boxes = 0 /\ trying = "none"

\* A tick, and the detector's answer: a frame without any alert is over.
NextFrameFromCam(f) ==
    /\ Idle /\ ParseAlerts(f) # {}
    /\ frame' = f
    /\ toInform' = IF SendRejected THEN Cardinality(RejectedBoxes(f)) ELSE 0
    /\ hitDue' = (HitBoxes(f) # {})
    /\ UNCHANGED <<rateVars, held, alerts, infos, uploadVars>>

\* The snap or the frame command.
Snapshot ==
    /\ Idle /\ toInform' = 1
    /\ UNCHANGED <<rateVars, frame, hitDue, held, alerts, infos, uploadVars>>

\* InfoUploadChan <- job, in its turn.
Inform ==
    /\ toInform > 0 /\ infos < QueueCap
    /\ toInform' = toInform - 1 /\ infos' = infos + 1
    /\ UNCHANGED <<rateVars, frame, hitDue, held, alerts, uploadVars>>

\* maybeSendOverview, once the rejected boxes are out.  Of the frame only the number of
\* its hits matters from here on.
TryOverview ==
    /\ toInform = 0 /\ hitDue /\ hitDue' = FALSE
    /\ Hit(Cardinality(HitBoxes(frame))) /\ frame' = <<>>
    /\ UNCHANGED <<toInform, held, alerts, infos, uploadVars>>

\* maybeSendBox, once the image before it is out.
TryBox ==
    /\ held = 0 /\ Box
    /\ UNCHANGED <<frame, toInform, hitDue, held, alerts, infos, uploadVars>>

\* The image is in hand when it is granted.
Hold_Refused == held' = IF trying' = "none" THEN Len(sent) + 1 ELSE 0

Hold == held' = IF Len(sent') > Len(sent) THEN Len(sent') ELSE 0

TryTokens ==
    /\ TakeFrameBuckets /\ Hold
    /\ UNCHANGED <<frame, toInform, hitDue, alerts, infos, uploadVars>>

\* AlertUploadChan <- job.
Alert_DropsWhenFull ==
    /\ held # 0 /\ held' = 0
    /\ alerts' = IF Len(alerts) < QueueCap THEN Append(alerts, held) ELSE alerts
    /\ UNCHANGED <<rateVars, frame, toInform, hitDue, infos, uploadVars>>

Alert_NeverFull ==
    /\ held # 0 /\ held' = 0 /\ alerts' = Append(alerts, held)
    /\ UNCHANGED <<rateVars, frame, toInform, hitDue, infos, uploadVars>>

Alert ==
    /\ held # 0 /\ held' = 0
    /\ Len(alerts) < QueueCap /\ alerts' = Append(alerts, held)
    /\ UNCHANGED <<rateVars, frame, toInform, hitDue, infos, uploadVars>>

Main == Inform \/ TryOverview \/ TryBox \/ TryTokens \/ Alert

-----------------------------------------------------------------------------
(* The Uploader.                                                            *)

TakeAlert_AfterInfos ==
    /\ uploader = "select" /\ alerts # <<>> /\ infos = 0
    /\ uploader' = "alert" /\ sending' = <<Head(alerts)>> /\ alerts' = Tail(alerts)
    /\ UNCHANGED <<rateVars, mainVars, infos, attempted, cancelled>>

TakeAlert ==
    /\ uploader = "select" /\ alerts # <<>>
    /\ uploader' = "alert" /\ sending' = <<Head(alerts)>> /\ alerts' = Tail(alerts)
    /\ UNCHANGED <<rateVars, mainVars, infos, attempted, cancelled>>

TakeInfo ==
    /\ uploader = "select" /\ infos > 0
    /\ uploader' = "info" /\ infos' = infos - 1
    /\ UNCHANGED <<rateVars, mainVars, alerts, sending, attempted, cancelled>>

\* SendEvents returns; an error is logged and the image is not tried again.
Returned_EndsOnError ==
    /\ uploader \in {"alert", "info"} /\ uploader' \in {"select", "stopped"}
    /\ sending' = <<>> /\ attempted' = attempted \o sending
    /\ UNCHANGED <<rateVars, mainVars, alerts, infos, cancelled>>

Returned ==
    /\ uploader \in {"alert", "info"} /\ uploader' = "select"
    /\ sending' = <<>> /\ attempted' = attempted \o sending
    /\ UNCHANGED <<rateVars, mainVars, alerts, infos, cancelled>>

\* It never returns.
UploadHangs ==
    /\ uploader \in {"alert", "info"} /\ uploader' = "hung"
    /\ UNCHANGED <<rateVars, mainVars, alerts, infos, sending, attempted, cancelled>>

UploaderStops ==
    /\ uploader = "select" /\ cancelled /\ uploader' = "stopped"
    /\ UNCHANGED <<rateVars, mainVars, alerts, infos, sending, attempted, cancelled>>

\* CancelAndExit.
Cancel ==
    /\ ~cancelled /\ cancelled' = TRUE
    /\ UNCHANGED <<rateVars, mainVars, alerts, infos, uploader, sending, attempted>>

Elsewhere ==
    /\ Pass \/ \E b \in Bucket : ShowTokens(b)
    /\ UNCHANGED <<mainVars, alerts, infos, uploadVars>>

UNext ==
    \/ \E f \in Frames : NextFrameFromCam(f)
    \/ Snapshot \/ Main \/ TakeAlert \/ TakeInfo \/ Returned \/ UploadHangs \/ UploaderStops
    \/ Cancel \/ Elsewhere

USpec == UInit /\ [][UNext]_uvars

\* Goroutines go on, and select takes a case that is ready again and again.
UFairness ==
    /\ WF_uvars(Main) /\ WF_uvars(Returned)
    /\ SF_uvars(TakeAlert) /\ SF_uvars(TakeInfo)

UFairSpec == USpec /\ UFairness

-----------------------------------------------------------------------------
(* What holds.                                                              *)

UTypeOK ==
    /\ frame \in Frames \cup {<<>>}
    /\ toInform \in Nat /\ hitDue \in BOOLEAN /\ held \in 0 .. Len(sent)
    /\ Len(alerts) <= QueueCap /\ infos \in 0 .. QueueCap
    /\ uploader \in {"select", "alert", "info", "hung", "stopped"}

\* The images granted reach Telegram's door in the order they were granted, each
\* tried once: none is lost in a full queue or behind a failed request, and none
\* is sent again, until the Uploader stops.
AlertsInOrder ==
    attempted \o sending \o alerts \o (IF held = 0 THEN <<>> ELSE <<held>>)
        = [i \in 1 .. Len(sent) |-> i]

\* What the end of the process, or a request that never returns, can cost: besides a
\* full queue one image at the Uploader and one in the hand of the main loop, which
\* waits with it and attempts no other.
FewAtStake == Len(sent) - Len(attempted) <= QueueCap + 2

\* ParseResult and the four Reject passes: the boxes lie inside the frame, however
\* far outside the detector saw them, and the hits are those the settings want.
HitsAreWanted ==
    \A i \in ParseAlerts(frame) :
        /\ Pixels(Coords(frame[i])) \subseteq (0 .. Cols - 1) \X (0 .. Rows - 1)
        /\ i \in HitBoxes(frame) <=> Wanted(frame[i])

\* The main loop comes back to its select, through full queues and failed requests,
\* unless a request hangs or the process is on its way to its end.
MainComesBack == ~Idle ~> (Idle \/ uploader = "hung" \/ cancelled)

\* An image that was granted is tried: the images of the info queue, which no rate
\* limit keeps down, cannot keep it waiting for ever.
AlertsGoOut ==
    \A i \in 1 .. Capacity["frame"] :
        Len(sent) >= i ~> (Len(attempted) >= i \/ uploader = "hung" \/ cancelled)

=============================================================================
