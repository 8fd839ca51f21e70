------------------------------- MODULE Alarm --------------------------------
(***************************************************************************)
(* How a message of the house alarm comes to switch the cameras.           *)
(*                                                                         *)
(* The alarm's messages reach the program over a Pub/Sub subscription,     *)
(* which keeps a message until it is acknowledged and delivers it again    *)
(* until then.  Every delivery runs a callback of its own (RunListener),   *)
(* which hands the message over an unbuffered channel to one goroutine     *)
(* (HandleMessages) and acknowledges it, whether or not it was handled.    *)
(* That goroutine sets the mode of each camera the alarm may control.      *)
(* The subscription and the modes outlive the process.                     *)
(*                                                                         *)
(* Left out: a delivery of a message while a callback has it already.      *)
(***************************************************************************)
EXTENDS Naturals, Sequences, FiniteSets

CONSTANTS
    NumCams,        \* number of cameras
    Controlled,     \* the cameras configured with pubsub-control
    MaxMsgs,        \* bound: messages published
    MaxOutstanding  \* most callbacks at a time (100 in messaging.go)

Cam == 1 .. NumCams
\* The modes the alarm sets; a group may also set "sched", which "off" stands for.
Mode == {"on", "off"}

ASSUME ControlAssumption == NumCams \in Nat /\ Controlled \subseteq Cam
ASSUME BoundAssumption == MaxMsgs \in Nat /\ MaxOutstanding \in Nat \ {0}

\* HOUSE ALARM ... OPENING, HOUSE ALARM ... CLOSE, any other text, not JSON.
Kind == {"opening", "close", "other", "garbled"}

Msg == 1 .. MaxMsgs

VARIABLES
    posted,     \* the kinds of the messages published, in order
    subscribed, \* the subscription exists
    kept,       \* the messages it has still to see acknowledged
    up,         \* the process exists
    cancelled,  \* the context is cancelled and the hard-exit timer runs
    receiver,   \* RunListener: "receive", "closing", then DeleteSub, then "done"
    callback,   \* callback[m]: "none", "send" (on the channel) or "ack"
    handler,    \* HandleMessages: "select", "loop" over cameras, "hung", "stopped"
    hand,       \* the message it has in hand, or 0
    todo,       \* the cameras it has still to set for it
    mode,       \* mode[c]: the mode in the store of c
    acked,      \* history: the messages this process acknowledged after a handover
    done,       \* history: the messages it handled to the end
    told,       \* history: told[c]: the mode c was last told to have
    missed      \* history: the cameras that did not hear it (store error, crash)

service == <<posted, subscribed, kept>>
process == <<up, cancelled, receiver>>
handling == <<handler, hand, todo>>
modes == <<mode, told, missed>>
past == <<acked, done>>
vars == <<posted, subscribed, kept, up, cancelled, receiver, callback, handler, hand, todo,
          mode, told, missed, acked, done>>

-----------------------------------------------------------------------------
(* The process.                                                             *)

Init ==
    /\ posted = <<>> /\ subscribed = FALSE /\ kept = {}
    /\ up = FALSE /\ cancelled = FALSE /\ receiver = "receive"
    /\ callback = [m \in Msg |-> "none"]
    /\ handler = "select" /\ hand = 0 /\ todo = {}
    /\ mode = [c \in Cam |-> "off"] /\ told = mode /\ missed = {}
    /\ acked = {} /\ done = {}

\* systemd starts the service, which creates the subscription if it is missing.
Start ==
    /\ ~up /\ up' = TRUE /\ subscribed' = TRUE
    /\ UNCHANGED <<posted, kept, cancelled, receiver, callback, handling, modes, past>>

Exit ==
    /\ up /\ up' = FALSE /\ cancelled' = FALSE /\ receiver' = "receive"
    /\ callback' = [m \in Msg |-> "none"]
    /\ handler' = "select" /\ hand' = 0 /\ todo' = {}
    /\ acked' = {} /\ done' = {}
    /\ missed' = missed \cup todo
    /\ UNCHANGED <<service, mode, told>>

\* A signal, the restart command or the supervisor calls CancelAndExit.
Shutdown ==
    /\ up /\ ~cancelled /\ cancelled' = TRUE
    /\ UNCHANGED <<service, up, receiver, callback, handling, modes, past>>

\* Run returns or the timer expires some time after; or the process ends on an
\* error of its own.
EndAfterCancel == cancelled /\ Exit
Crash == ~cancelled /\ Exit

-----------------------------------------------------------------------------
(* Pub/Sub and RunListener.                                                 *)

\* Nobody keeps a message while there is no subscription.
Publish(kind) ==
    /\ Len(posted) < MaxMsgs
    /\ posted' = Append(posted, kind)
    /\ kept' = IF subscribed THEN kept \cup {Len(posted) + 1} ELSE kept
    /\ UNCHANGED <<subscribed, process, callback, handling, modes, past>>

Running == {m \in Msg : callback[m] # "none"}

SlotFree_OneMore == Cardinality(Running) <= MaxOutstanding

SlotFree == Cardinality(Running) < MaxOutstanding

\* What the callback does first: a message that cannot be decoded is done with.
Decoded(m) == IF posted[m] = "garbled" THEN "ack" ELSE "send"

\* In any order, and again after an acknowledgement that was lost.
Deliver(m) ==
    /\ up /\ receiver = "receive" /\ SlotFree
    /\ m \in kept /\ callback[m] = "none"
    /\ callback' = [callback EXCEPT ![m] = Decoded(m)]
    /\ UNCHANGED <<service, process, handling, modes, past>>

Ack_BeforeSend(m) ==
    /\ up
    /\ \/ /\ callback[m] = "send" /\ m \in kept
          /\ kept' = kept \ {m} /\ acked' = acked \cup {m} /\ UNCHANGED callback
       \/ /\ callback[m] = "ack" /\ callback' = [callback EXCEPT ![m] = "none"]
          /\ UNCHANGED <<kept, acked>>
    /\ UNCHANGED <<posted, subscribed, process, handling, modes, done>>

\* psMsg.Ack, which does not wait for the service and may not reach it.
Ack(m) ==
    /\ up /\ callback[m] = "ack"
    /\ callback' = [callback EXCEPT ![m] = "none"]
    /\ \/ /\ kept' = kept \ {m}
          /\ acked' = IF posted[m] = "garbled" THEN acked ELSE acked \cup {m}
       \/ UNCHANGED <<kept, acked>>
    /\ UNCHANGED <<posted, subscribed, process, handling, modes, done>>

\* Receive pulls no more: it is cancelled, or its stream has failed for good.
StopPulling ==
    /\ up /\ receiver = "receive" /\ receiver' = "closing"
    /\ UNCHANGED <<service, up, cancelled, callback, handling, modes, past>>

ReceiveReturns_AtOnce ==
    /\ up /\ receiver = "closing"
    /\ receiver' = IF cancelled THEN "delete" ELSE "done"
    /\ UNCHANGED <<service, up, cancelled, callback, handling, modes, past>>

\* It returns once every callback has; only a cancelled context leads to DeleteSub,
\* an error is not seen by anybody.
ReceiveReturns ==
    /\ up /\ receiver = "closing" /\ Running = {}
    /\ receiver' = IF cancelled THEN "delete" ELSE "done"
    /\ UNCHANGED <<service, up, cancelled, callback, handling, modes, past>>

\* DeleteSub, which drops what the subscription keeps, or fails.
DeleteSub ==
    /\ up /\ receiver = "delete" /\ receiver' = "done"
    /\ \/ subscribed' = FALSE /\ kept' = {}
       \/ UNCHANGED <<subscribed, kept>>
    /\ UNCHANGED <<posted, up, cancelled, callback, handling, modes, past>>

Receiver == ReceiveReturns \/ DeleteSub

-----------------------------------------------------------------------------
(* HandleMessages.                                                          *)

IsAlarm(m) == posted[m] \in {"opening", "close"}

\* Opening the alarm turns a camera off, closing it turns it on.
ModeFor(m) == IF posted[m] = "opening" THEN "off" ELSE "on"

\* What the camera is to understand: off from the opening of the alarm until it closes.
Meant(m) == IF posted[m] = "close" THEN "on" ELSE "off"

\* The cameras handleMessage sets, in the order of their numbers.
Addressed(m) == IF IsAlarm(m) THEN Controlled ELSE {}

\* The unbuffered channel: callback and goroutine meet.
HandOver(m) ==
    /\ up /\ callback[m] = "send" /\ handler = "select"
    /\ callback' = [callback EXCEPT ![m] = "ack"]
    /\ handler' = "loop" /\ hand' = m /\ todo' = Addressed(m)
    /\ IF IsAlarm(m)
       THEN /\ told' = [c \in Cam |-> IF c \in Controlled THEN Meant(m) ELSE told[c]]
            /\ missed' = missed \ Controlled
       ELSE UNCHANGED <<told, missed>>
    /\ UNCHANGED <<service, process, mode, past>>

InLoop(c) == up /\ handler = "loop" /\ c \in todo /\ \A d \in todo : c <= d

\* handleIncomingCmd sets the mode of the next camera and answers in its group; the
\* answer may never get there.
SetMode(c) ==
    /\ InLoop(c) /\ todo' = todo \ {c}
    /\ mode' = [mode EXCEPT ![c] = ModeFor(hand)]
    /\ told' = IF c \in Controlled THEN [told EXCEPT ![c] = Meant(hand)] ELSE told
    /\ missed' = missed \ {c}
    /\ handler' \in {"loop", "hung"}
    /\ UNCHANGED <<service, process, callback, hand, past>>

SetModeFails_GivesUp(c) ==
    /\ InLoop(c) /\ todo' = {}
    /\ missed' = missed \cup {c}
    /\ UNCHANGED <<service, process, callback, handler, hand, mode, told, past>>

SetModeFails_Stops(c) ==
    /\ InLoop(c) /\ todo' = {} /\ handler' = "stopped"
    /\ missed' = missed \cup todo
    /\ UNCHANGED <<service, process, callback, hand, mode, told, past>>

\* The store fails: it is logged, and the next camera is tried.
SetModeFails(c) ==
    /\ InLoop(c) /\ todo' = todo \ {c}
    /\ missed' = missed \cup {c}
    /\ UNCHANGED <<service, process, callback, handler, hand, mode, told, past>>

Handled_OfAlarms ==
    /\ up /\ handler = "loop" /\ todo = {} /\ IsAlarm(hand)
    /\ handler' = "select" /\ hand' = 0 /\ done' = done \cup {hand}
    /\ UNCHANGED <<service, process, callback, todo, modes, acked>>

Handled ==
    /\ up /\ handler = "loop" /\ todo = {}
    /\ handler' = "select" /\ hand' = 0 /\ done' = done \cup {hand}
    /\ UNCHANGED <<service, process, callback, todo, modes, acked>>

HandlerStops ==
    /\ up /\ cancelled /\ handler = "select" /\ handler' = "stopped"
    /\ UNCHANGED <<service, process, callback, hand, todo, modes, past>>

Handler == Handled \/ \E c \in Cam : SetMode(c) \/ SetModeFails(c)

\* Somebody sets the mode of c in its group.
TelegramSets(c, m) ==
    /\ up
    /\ mode' = [mode EXCEPT ![c] = m] /\ told' = [told EXCEPT ![c] = m]
    /\ missed' = missed \ {c}
    /\ UNCHANGED <<service, process, callback, handling, past>>

Next ==
    \/ Start \/ Shutdown \/ EndAfterCancel \/ Crash \/ StopPulling \/ Receiver
    \/ Handler \/ HandlerStops
    \/ \E kind \in Kind : Publish(kind)
    \/ \E m \in Msg : Deliver(m) \/ HandOver(m) \/ Ack(m)
    \/ \E c \in Cam, m \in Mode : TelegramSets(c, m)

Spec == Init /\ [][Next]_vars

\* Pub/Sub delivers what it keeps to who asks again and again, the senders on a
\* channel are let in in turn, and goroutines go on.  Receive stops pulling when its
\* context is cancelled, and DeleteSub has five seconds.
Fairness ==
    /\ WF_vars(Handler) /\ WF_vars(Receiver) /\ WF_vars(cancelled /\ StopPulling)
    /\ \A m \in Msg : SF_vars(Deliver(m)) /\ SF_vars(HandOver(m)) /\ WF_vars(Ack(m))

FairSpec == Spec /\ Fairness

-----------------------------------------------------------------------------
(* What all this is for: House.                                             *)

AlarmMsgs == {m \in DOMAIN posted : IsAlarm(m)}

\* A camera is due to follow what the subscription keeps, what waits on the channel,
\* and what is in hand until it is the camera's turn.
Due(c) == {m \in AlarmMsgs : m \in kept \/ callback[m] = "send" \/ (m = hand /\ c \in todo)}

\* It was asked to follow what was handled, and what is in hand after its turn.
Tried(c) == {m \in AlarmMsgs : m \in done \/ (m = hand /\ c \notin todo)}

Promise ==
    INSTANCE House WITH
        ending <- cancelled,
        due <- [c \in Controlled |-> Due(c)], tried <- [c \in Controlled |-> Tried(c)]

\* The way from Pub/Sub to the stores is House: each camera is asked to follow every
\* message that reached the subscription, in whatever order and however often it is
\* delivered, and the end of the process costs no more than the message in hand.
HouseSpec == Promise!Spec

-----------------------------------------------------------------------------
(* What holds.                                                              *)

TypeOK ==
    /\ posted \in Seq(Kind) /\ Len(posted) <= MaxMsgs
    /\ subscribed \in BOOLEAN /\ up \in BOOLEAN /\ cancelled \in BOOLEAN
    /\ kept \subseteq DOMAIN posted /\ acked \subseteq DOMAIN posted
    /\ done \subseteq DOMAIN posted
    /\ receiver \in {"receive", "closing", "delete", "done"}
    /\ callback \in [Msg -> {"none", "send", "ack"}] /\ Cardinality(Running) <= MaxOutstanding
    /\ handler \in {"select", "loop", "hung", "stopped"}
    /\ hand \in {0} \cup DOMAIN posted
    /\ todo \subseteq Controlled
    /\ mode \in [Cam -> Mode] /\ told \in [Cam -> Mode] /\ missed \subseteq Cam

\* RunListener acknowledges before the message is handled, and still no more than
\* the one message in hand is at stake when the process ends: every other that it
\* acknowledged it has handled to the end, deliveries running side by side or not.
AckedIsInHand == acked \ done \subseteq {hand}

\* handleMessage: between messages every camera has the mode it was last told to
\* have, by the alarm if it may or by its group, except one whose store failed or
\* that the process ended before: a camera that fails does not keep the others
\* from hearing, and the next message finds all of them again.
ModesAsTold ==
    handler \in {"select", "stopped"} => \A c \in Cam : mode[c] = told[c] \/ c \in missed

\* MessengerListen: DeleteSub comes after every callback, so that it drops no
\* message that was delivered and not yet handed over.
DeletionDropsNoneInHand ==
    [][subscribed /\ ~subscribed' => \A m \in kept : callback[m] = "none"]_vars

\* "This doesn't drop messages, it just stops pulling them until current ones are
\* handled": a message that is kept while the program listens is handled, however
\* few the callbacks may be, unless the program stops listening or is stuck.
EveryMessageHandled ==
    \A m \in Msg :
        (up /\ m \in kept /\ posted[m] # "garbled")
            ~> (m \in done \/ ~up \/ cancelled \/ receiver # "receive" \/ handler = "hung")

\* RunListener and MessengerListen come to their end once the context is cancelled,
\* however many callbacks wait, with one exception: HandleMessages has stopped, or hangs,
\* and a callback waits for it on the channel for ever.  Only the end of the process ends that.
ReceiveEnds ==
    (up /\ cancelled)
        ~> \/ ~up \/ receiver = "done"
           \/ handler \in {"stopped", "hung"} /\ \E m \in Msg : callback[m] = "send"

=============================================================================
