----------------------------- MODULE Commands ------------------------------
(***************************************************************************)
(* How a command typed in a Telegram group comes to be run.                *)
(*                                                                         *)
(* Each camera has a bot, and each bot a goroutine that asks Telegram for  *)
(* updates from an offset on (PollUpdatesToChan).  Telegram keeps an       *)
(* update until it is asked for a later one.  The goroutine moves its      *)
(* offset past each update and puts it into one queue for all cameras,     *)
(* which one listener empties (ListenTelegram).  The listener runs the     *)
(* command itself, or hands a snapshot to the main loop over a channel.    *)
(* Offsets and queue end with the process; what Telegram keeps does not.   *)
(***************************************************************************)
EXTENDS Naturals, Sequences, SequencesExt

CONSTANTS
    Cams,       \* the cameras, each with its bot
    MaxUpdates, \* bound: updates posted to the bots
    QueueCap,   \* capacity of the queue (10000 in cmd.go)
    SnapCap     \* capacity of the snapshot channel (30 in main.go)

ASSUME BoundsAssumption == MaxUpdates \in Nat /\ QueueCap \in Nat \ {0} /\ SnapCap \in Nat \ {0}

\* A snapshot, the restart, or any other text: a command the listener runs by
\* itself or a message that is none, which is queued all the same.
Kind == {"snap", "restart", "other"}

VARIABLES
    posted,     \* posted[c]: the kinds of the updates of c, by update ID
    confirmed,  \* confirmed[c]: Telegram has forgotten the updates up to this ID
    up,         \* the process exists
    offset,     \* offset[c]: config.Offset of the goroutine of c
    poll,       \* poll[c]: where that goroutine is
    batch,      \* batch[c]: the update IDs it has received and still to pass on
    queue,      \* cmds: the commands, as camera and update ID
    listener,   \* "select", "busy" with a command, "hung" in one, or "stopped"
    doing,      \* the command the listener is busy with, if any
    snaps,      \* snapshots the main loop has still to take
    hung,       \* the main loop takes no more of them
    cancelled,  \* the context is cancelled and the hard-exit timer runs
    queued,     \* history: queued[c]: the update IDs ever put into the queue
    ran         \* history: ran[c]: the update IDs this process has run, in order

pollVars == <<offset, poll, batch>>
listenVars == <<listener, doing, ran>>
mainVars == <<snaps, hung, cancelled>>
vars == <<posted, confirmed, up, offset, poll, batch, queue, listener, doing, snaps, hung,
          cancelled, queued, ran>>

-----------------------------------------------------------------------------
(* The process.                                                             *)

Init ==
    /\ posted = [c \in Cams |-> <<>>] /\ confirmed = [c \in Cams |-> 0]
    /\ queued = [c \in Cams |-> {}]
    /\ up = FALSE
    /\ offset = [c \in Cams |-> 0] /\ poll = [c \in Cams |-> "ask"]
    /\ batch = [c \in Cams |-> <<>>]
    /\ queue = <<>> /\ listener = "select" /\ doing = <<>>
    /\ snaps = 0 /\ hung = FALSE /\ cancelled = FALSE
    /\ ran = [c \in Cams |-> <<>>]

\* systemd starts the service.
Start ==
    /\ ~up /\ up' = TRUE
    /\ UNCHANGED <<posted, confirmed, pollVars, queue, listenVars, mainVars, queued>>

Exit ==
    /\ up /\ up' = FALSE
    /\ offset' = [c \in Cams |-> 0] /\ poll' = [c \in Cams |-> "ask"]
    /\ batch' = [c \in Cams |-> <<>>]
    /\ queue' = <<>> /\ listener' = "select" /\ doing' = <<>>
    /\ snaps' = 0 /\ hung' = FALSE /\ cancelled' = FALSE
    /\ ran' = [c \in Cams |-> <<>>]
    /\ UNCHANGED <<posted, confirmed, queued>>

\* A signal or the supervisor calls CancelAndExit.
Shutdown ==
    /\ up /\ ~cancelled /\ cancelled' = TRUE
    /\ UNCHANGED <<posted, confirmed, up, pollVars, queue, listenVars, snaps, hung, queued>>

\* The process ends some time after CancelAndExit, or on an error of its own.
EndAfterCancel == cancelled /\ Exit
Crash == ~cancelled /\ Exit

-----------------------------------------------------------------------------
(* Telegram and the goroutine of a bot.                                     *)

Post(c, kind) ==
    /\ FoldFunction(LAMBDA ids, n : n + Len(ids), 0, posted) < MaxUpdates
    /\ posted' = [posted EXCEPT ![c] = Append(@, kind)]
    /\ UNCHANGED <<confirmed, up, pollVars, queue, listenVars, mainVars, queued>>

\* Telegram learns from the offset it is asked for which updates have arrived.
Confirmed(c) == IF offset[c] > confirmed[c] + 1 THEN offset[c] - 1 ELSE confirmed[c]

PollGoes(c, from, to) ==
    /\ up /\ poll[c] = from
    /\ poll' = [poll EXCEPT ![c] = to]

\* The request reaches Telegram, which holds it until there is an update.
Ask(c) ==
    /\ PollGoes(c, "ask", "wait")
    /\ confirmed' = [confirmed EXCEPT ![c] = Confirmed(c)]
    /\ UNCHANGED <<posted, up, offset, batch, queue, listenVars, mainVars, queued>>

\* The request is lost, or the answer is: five seconds' sleep.
PollFails(c) ==
    /\ PollGoes(c, "ask", "sleep") \/ PollGoes(c, "wait", "sleep")
    /\ UNCHANGED <<posted, confirmed, up, offset, batch, queue, listenVars, mainVars, queued>>

\* It neither fails nor is answered: its client has no timeout, and the goroutine
\* waits for ever.
PollHangs(c) ==
    /\ PollGoes(c, "ask", "hung") \/ PollGoes(c, "wait", "hung")
    /\ UNCHANGED <<posted, confirmed, up, offset, batch, queue, listenVars, mainVars, queued>>

\* Slept, or no update for thirty seconds: ask again.
AskAgain_NotAfterError(c) ==
    /\ PollGoes(c, "wait", "ask") /\ Len(posted[c]) = confirmed[c]
    /\ UNCHANGED <<posted, confirmed, up, offset, batch, queue, listenVars, mainVars, queued>>

AskAgain(c) ==
    /\ \/ PollGoes(c, "sleep", "ask")
       \/ PollGoes(c, "wait", "ask") /\ Len(posted[c]) = confirmed[c]
    /\ UNCHANGED <<posted, confirmed, up, offset, batch, queue, listenVars, mainVars, queued>>

\* The updates Telegram still has, oldest first.
Answer(c) ==
    /\ PollGoes(c, "wait", "pass") /\ Len(posted[c]) > confirmed[c]
    /\ batch' = [batch EXCEPT ![c] =
                    [i \in 1 .. Len(posted[c]) - confirmed[c] |-> confirmed[c] + i]]
    /\ UNCHANGED <<posted, confirmed, up, offset, queue, listenVars, mainVars, queued>>

\* The update is not one that was passed on already.
IsNew(c, id) == id >= offset[c]

OffsetAfter_Same(id) == id

OffsetAfter(id) == id + 1

\* cmds <- cmd waits while the queue is full.
QueueTakes_OffByOne == Len(queue) <= QueueCap

QueueTakes == Len(queue) < QueueCap

\* After the last update of the batch the goroutine asks again.
NextUpdate(c) ==
    /\ up /\ poll[c] = "pass" /\ batch[c] # <<>>
    /\ batch' = [batch EXCEPT ![c] = Tail(@)]
    /\ poll' = [poll EXCEPT ![c] = IF Tail(batch[c]) = <<>> THEN "ask" ELSE "pass"]

\* One update of the batch: move the offset past it and queue it, or skip it.
\* (Nobody reads the offset while the goroutine waits for room in the queue.)
PassOn_DropsWhenFull(c) ==
    /\ NextUpdate(c)
    /\ offset' = [offset EXCEPT ![c] = OffsetAfter(Head(batch[c]))]
    /\ IF QueueTakes
       THEN /\ queue' = Append(queue, <<c, Head(batch[c])>>)
            /\ queued' = [queued EXCEPT ![c] = @ \cup {Head(batch[c])}]
       ELSE UNCHANGED <<queue, queued>>
    /\ UNCHANGED <<posted, confirmed, up, listenVars, mainVars>>

PassOn(c) ==
    /\ NextUpdate(c)
    /\ LET id == Head(batch[c])
       IN  IF IsNew(c, id)
           THEN /\ QueueTakes
                /\ offset' = [offset EXCEPT ![c] = OffsetAfter(id)]
                /\ queue' = Append(queue, <<c, id>>)
                /\ queued' = [queued EXCEPT ![c] = @ \cup {id}]
           ELSE UNCHANGED <<offset, queue, queued>>  \* Telegram gives none of these
    /\ UNCHANGED <<posted, confirmed, up, listenVars, mainVars>>

Poller(c) == Ask(c) \/ PollFails(c) \/ AskAgain(c) \/ Answer(c) \/ PassOn(c)

-----------------------------------------------------------------------------
(* The listener and the main loop.                                          *)

Take ==
    /\ up /\ listener = "select" /\ queue # <<>>
    /\ listener' = "busy" /\ doing' = Head(queue) /\ queue' = Tail(queue)
    /\ UNCHANGED <<posted, confirmed, up, pollVars, ran, mainVars, queued>>

ListenerStops ==
    /\ up /\ listener = "select" /\ cancelled
    /\ listener' = "stopped"
    /\ UNCHANGED <<posted, confirmed, up, pollVars, queue, doing, ran, mainVars, queued>>

\* The kind of the command the listener is busy with.
Doing == posted[doing[1]][doing[2]]

\* handleIncomingCmd returns.
Return ==
    /\ listener' = "select" /\ doing' = <<>>
    /\ ran' = [ran EXCEPT ![doing[1]] = Append(@, doing[2])]
    /\ UNCHANGED <<posted, confirmed, up, pollVars, queue, hung, queued>>

Other   == up /\ listener = "busy" /\ Doing = "other" /\ Return /\ UNCHANGED <<snaps, cancelled>>
Restart == up /\ listener = "busy" /\ Doing = "restart" /\ cancelled' = TRUE /\ Return /\ UNCHANGED snaps

\* An answer to the group that hangs: its request has no timeout.
OtherHangs ==
    /\ up /\ listener = "busy" /\ Doing = "other"
    /\ listener' = "hung"
    /\ UNCHANGED <<posted, confirmed, up, pollVars, queue, doing, ran, mainVars, queued>>

\* SnapshotChan <- cmd waits while the channel is full.
Snap ==
    /\ up /\ listener = "busy" /\ Doing = "snap"
    /\ snaps < SnapCap /\ snaps' = snaps + 1
    /\ Return /\ UNCHANGED cancelled

Listener == Take \/ ListenerStops \/ Other \/ Restart \/ Snap

\* The main loop serves a snapshot.
Serve ==
    /\ up /\ ~hung /\ snaps > 0 /\ snaps' = snaps - 1
    /\ UNCHANGED <<posted, confirmed, up, pollVars, queue, listenVars, hung, cancelled, queued>>

\* It never comes back to its select: a hung read.
MainHangs ==
    /\ up /\ ~hung /\ hung' = TRUE
    /\ UNCHANGED <<posted, confirmed, up, pollVars, queue, listenVars, snaps, cancelled, queued>>

Next ==
    \/ Start \/ Shutdown \/ EndAfterCancel \/ Crash \/ Listener \/ OtherHangs
    \/ Serve \/ MainHangs
    \/ \E c \in Cams : Poller(c) \/ PollHangs(c) \/ \E kind \in Kind : Post(c, kind)

Spec == Init /\ [][Next]_vars

(* Goroutines go on, a full channel lets each of its senders in in turn, and *)
(* select takes a case that is ready again and again.  Of the network: a     *)
(* poll that does not hang ends, and of polls made again and again one       *)
(* reaches Telegram and one is answered.  Nothing says that none hangs.      *)
Fairness ==
    /\ WF_vars(EndAfterCancel) /\ WF_vars(Listener) /\ WF_vars(Serve)
    /\ \A c \in Cams :
        /\ WF_vars(Poller(c))
        /\ SF_vars(Ask(c)) /\ SF_vars(Answer(c)) /\ SF_vars(PassOn(c))

FairSpec == Spec /\ Fairness

-----------------------------------------------------------------------------
(* What holds.                                                              *)

Updates(c) == 1 .. Len(posted[c])

TypeOK ==
    /\ posted \in [Cams -> Seq(Kind)]
    /\ up \in BOOLEAN /\ hung \in BOOLEAN /\ cancelled \in BOOLEAN
    /\ poll \in [Cams -> {"ask", "wait", "pass", "sleep", "hung"}]
    /\ Len(queue) <= QueueCap /\ snaps \in 0 .. SnapCap
    /\ listener \in {"select", "busy", "hung", "stopped"}
    /\ \A c \in Cams :
        /\ confirmed[c] \in 0 .. Len(posted[c])
        /\ offset[c] \in 0 .. Len(posted[c]) + 1
        /\ batch[c] \in Seq(Updates(c)) /\ ran[c] \in Seq(Updates(c))
        /\ queued[c] \subseteq Updates(c)
    /\ \A cmd \in ToSet(queue) : cmd[1] \in Cams /\ cmd[2] \in Updates(cmd[1])
    /\ listener \in {"busy", "hung"} <=> doing # <<>>

\* PollUpdatesToChan and ListenTelegram: one process runs the commands of a
\* camera in the order they were typed, none twice and none left out, through
\* lost requests, lost answers and answers given twice.
RunInOrder == \A c \in Cams : \A i \in 2 .. Len(ran[c]) : ran[c][i] = ran[c][i - 1] + 1

\* Telegram forgets an update only after it has been put into the queue: the
\* offset it is asked for never runs ahead of what was passed on, in this process
\* or an earlier one.
NoneForgottenUnqueued == \A c \in Cams : 1 .. confirmed[c] \subseteq queued[c]

\* PollUpdatesToChan, the queue and ListenTelegram together, of one process and the
\* next: a process takes a camera's updates one by one and runs them in their order;
\* what was taken is forgotten by Telegram with a later poll; the end of a process
\* drops what waits, and the next one takes up after what was forgotten (Inbox).
Taken(c) == IF offset[c] = 0 THEN confirmed[c] ELSE offset[c] - 1

InHand(c) == {id \in Updates(c) : doing = <<c, id>> \/ <<c, id>> \in ToSet(queue)}

Group ==
    INSTANCE Inbox WITH
        forgotten <- confirmed,
        taken <- [c \in Cams |-> Taken(c)], inHand <- [c \in Cams |-> InHand(c)]
InboxSpec == Group!Spec

\* The listener is stuck: in a request that hangs, or behind a channel the main
\* loop empties no more.
Stuck ==
    \/ listener = "hung"
    \/ listener = "busy" /\ Doing = "snap" /\ snaps = SnapCap /\ hung

\* PollUpdatesToChan and ListenTelegram: an update Telegram still has when a process
\* is up is run by it, whatever requests fail and however full the queue is, unless
\* the process ends before, its listener is stuck, or a poll of the camera's own bot
\* hangs.  Another bot's poll that hangs is no excuse, nor are another camera's
\* updates.
EveryCommandRuns ==
    \A c \in Cams, id \in 1 .. MaxUpdates :
        (up /\ id \in confirmed[c] + 1 .. Len(posted[c]))
            ~> (~up \/ Stuck \/ poll[c] = "hung" \/ id \in ToSet(ran[c]))

=============================================================================
