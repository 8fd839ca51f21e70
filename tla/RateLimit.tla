----------------------------- MODULE RateLimit -----------------------------
(***************************************************************************)
(* The rate limit on one camera's alert images.                            *)
(*                                                                         *)
(* When the detector hits, the main loop tries to send the whole frame     *)
(* (maybeSendOverview) and then one crop for each box (maybeSendBox).      *)
(* Each attempt asks three buckets for a token, one after the other, and   *)
(* is dropped when one of them is empty; the tokens already taken are not  *)
(* returned.  A bucket is filled lazily, by the call that looks at it: an  *)
(* attempt, or the tokens command in another goroutine.  Time may pass and *)
(* the command may look between any two of these calls.                    *)
(***************************************************************************)
EXTENDS Integers, Sequences

CONSTANTS
    Interval,   \* Interval[b]: seconds between two fills of bucket b
    Capacity,   \* Capacity[b]: tokens in a full bucket
    Quantum,    \* Quantum[b]: tokens added by a fill
    Gap,        \* least seconds between two overviews (10 in app.go)
    MaxBoxes,   \* bound: boxes that pass the filters in one frame
    Horizon     \* bound: seconds a behaviour may last

Bucket == {"frame", "burst", "pace"}
Kind == {"overview", "box"}

ASSUME BucketAssumption ==
    /\ Interval \in [Bucket -> Nat \ {0}]
    /\ Capacity \in [Bucket -> Nat \ {0}]
    /\ Quantum \in [Bucket -> Nat \ {0}]
ASSUME GapAssumption == Gap \in Nat
ASSUME BoundAssumption == MaxBoxes \in Nat /\ Horizon \in Nat

VARIABLES
    now,            \* seconds since camera.New made the buckets
    tokens,         \* tokens[b]: availableTokens, as of tick[b]
    tick,           \* tick[b]: latestTick, the fill last accounted for
    lastOverview,   \* LastOverviewSent
    boxes,          \* boxes of the current frame still to be tried
    trying,         \* the kind of image an attempt is under way for, or "none"
    got,            \* its tokens: for each bucket that gave one, when
    sent            \* history: the images granted, each with its tokens

vars == <<now, tokens, tick, lastOverview, boxes, trying, got, sent>>

-----------------------------------------------------------------------------
(* Buckets (juju/ratelimit).                                                *)

NoTokens == [b \in {} |-> 0]

Init ==
    /\ now = 0
    /\ tokens = Capacity
    /\ tick = [b \in Bucket |-> 0]
    /\ lastOverview = -Gap
    /\ boxes = 0
    /\ trying = "none" /\ got = NoTokens
    /\ sent = <<>>

CurrentTick(b) == now \div Interval[b]

\* The tokens a call that looks at b now finds there.
Available(b) ==
    LET filled == tokens[b] + (CurrentTick(b) - tick[b]) * Quantum[b]
    IN  IF filled < Capacity[b] THEN filled ELSE Capacity[b]

Taken_NoFloor(b) == Available(b) - 1

Taken(b) == IF Available(b) > 0 THEN Available(b) - 1 ELSE 0

\* TakeAvailable(1) fills the bucket and takes a token if there is one.
TakeAvailable_TicksAll(b) ==
    /\ tokens' = [tokens EXCEPT ![b] = Taken(b)]
    /\ tick' = [a \in Bucket |-> CurrentTick(a)]

TakeAvailable(b) ==
    /\ tokens' = [tokens EXCEPT ![b] = Taken(b)]
    /\ tick' = [tick EXCEPT ![b] = CurrentTick(b)]

-----------------------------------------------------------------------------
(* An attempt: TakeFrameBuckets, one call of TakeAvailable at a time.       *)

\* The bucket it has come to.
Asked ==
    IF "frame" \notin DOMAIN got THEN "frame"
    ELSE IF "burst" \notin DOMAIN got THEN "burst" ELSE "pace"

\* The call takes one token or none, and the attempt ends with none.
Empty_NotPace(b) == b # "pace" /\ Available(b) = 0

Empty(b) == Available(b) = 0

\* Its tokens with the one it is given now.
WithToken == [b \in DOMAIN got \cup {Asked} |-> IF b = Asked THEN now ELSE got[b]]

Refused ==
    /\ trying # "none" /\ Empty(Asked) /\ TakeAvailable(Asked)
    /\ trying' = "none" /\ got' = NoTokens
    /\ UNCHANGED <<now, lastOverview, boxes, sent>>

GoesOn ==
    /\ trying # "none" /\ ~Empty(Asked) /\ TakeAvailable(Asked)
    /\ Asked # "pace" /\ got' = WithToken
    /\ UNCHANGED <<now, lastOverview, boxes, trying, sent>>

\* maybeSendOverview notes the time of an image it goes on to send.
Granted ==
    /\ trying # "none" /\ ~Empty(Asked) /\ TakeAvailable(Asked)
    /\ Asked = "pace" /\ sent' = Append(sent, [kind |-> trying, at |-> WithToken])
    /\ lastOverview' = IF trying = "overview" THEN now ELSE lastOverview
    /\ trying' = "none" /\ got' = NoTokens
    /\ UNCHANGED <<now, boxes>>

TakeFrameBuckets == Refused \/ GoesOn \/ Granted

-----------------------------------------------------------------------------
(* The main loop.                                                           *)

OverviewDue_NoGap == TRUE

OverviewDue == now - lastOverview >= Gap

\* A frame with n boxes that pass the filters: the overview is tried first.
Hit(n) ==
    /\ trying = "none" /\ boxes = 0 /\ boxes' = n
    /\ trying' = IF OverviewDue THEN "overview" ELSE "none"
    /\ UNCHANGED <<now, tokens, tick, lastOverview, got, sent>>

\* maybeSendBox for the next box of the frame.
Box ==
    /\ trying = "none" /\ boxes > 0 /\ boxes' = boxes - 1
    /\ trying' = "box"
    /\ UNCHANGED <<now, tokens, tick, lastOverview, got, sent>>

\* The tokens command (Cam.TokensRemaining), in the Telegram goroutine, asks each
\* bucket what is in it, which fills it.
ShowTokens(b) ==
    /\ tokens' = [tokens EXCEPT ![b] = Available(b)]
    /\ tick' = [tick EXCEPT ![b] = CurrentTick(b)]
    /\ UNCHANGED <<now, lastOverview, boxes, trying, got, sent>>

\* A second passes, also between two boxes of a frame or two buckets of an attempt.
Pass ==
    /\ now < Horizon
    /\ now' = now + 1
    /\ UNCHANGED <<tokens, tick, lastOverview, boxes, trying, got, sent>>

Next ==
    \/ \E n \in 1 .. MaxBoxes : Hit(n)
    \/ Box \/ TakeFrameBuckets \/ Pass
    \/ \E b \in Bucket : ShowTokens(b)

Spec == Init /\ [][Next]_vars

-----------------------------------------------------------------------------
(* What holds.                                                              *)

TypeOK ==
    /\ now \in Nat
    /\ tokens \in [Bucket -> Nat] /\ \A b \in Bucket : tokens[b] <= Capacity[b]
    /\ tick \in [Bucket -> Nat] /\ \A b \in Bucket : tick[b] <= CurrentTick(b)
    /\ lastOverview \in Int
    /\ boxes \in Nat
    /\ trying \in Kind \cup {"none"}
    /\ got \in UNION {[B -> 0 .. now] : B \in {{}, {"frame"}, {"frame", "burst"}}}
    /\ trying = "none" => got = NoTokens
    /\ sent \in Seq([kind : Kind, at : [Bucket -> Nat]])

\* camera.New's three limits: over any stretch of images, each bucket lets
\* through no more than it holds and is given meanwhile, however the attempts,
\* the refused ones and the tokens command fall, and whatever time passes between
\* the three tokens of an image.
WithinEveryLimit ==
    \A b \in Bucket, i, j \in DOMAIN sent : i <= j =>
        j - i + 1 <= Capacity[b]
            + Quantum[b] * (sent[j].at[b] \div Interval[b] - sent[i].at[b] \div Interval[b])

\* An image is sent when it has its last token.
SentAt(i) == sent[i].at["pace"]

\* maybeSendOverview: two overviews are Gap apart, although the time is noted
\* only for the ones that are sent and boxes are sent in between.
OverviewsApart ==
    \A i, j \in DOMAIN sent :
        i < j /\ sent[i].kind = "overview" /\ sent[j].kind = "overview"
            => SentAt(j) - SentAt(i) >= Gap

\* Lazily filled and only when looked at, each bucket is the eager TokenBucket:
\* no fill is lost or counted twice, whoever looks and when.
Ideal(b) == INSTANCE TokenBucket
    WITH Interval <- Interval[b], Capacity <- Capacity[b], Quantum <- Quantum[b],
         level <- Available(b)

BucketsAreIdeal ==
    /\ \A b \in Bucket : Ideal(b)!Init
    /\ [][\A b \in Bucket : [Ideal(b)!Next]_(Ideal(b)!vars)]_vars

-----------------------------------------------------------------------------
(* What the comments in camera.go say, and the buckets do not do.           *)

\* "Send no more than 20 frames in total per minute": in any minute, that is,
\* since Telegram does not know when ours begin.
CapPerMinute ==
    \A i, j \in DOMAIN sent :
        i <= j /\ SentAt(j) - SentAt(i) < Interval["frame"]
            => j - i + 1 <= Capacity["frame"]

\* "Try not use up all the quota in the first 17 seconds": until BurstLimit
\* alone could have let the whole quota through, some of it is left.
QuotaLasts == now < Capacity["frame"] - Capacity["burst"] => Available("frame") > 0

=============================================================================
