# Watchbot: a verification development

watchbot watches up to four cameras from one process. It reads frames in turn,
runs a detector on a Neural Compute Stick, and sends what it sees to a Telegram
group. The same group controls it, a weekly schedule and a house alarm switch
cameras on and off, and a supervisor restarts the process when frames stop.

This directory holds TLA+ models of the parts of the program in which order,
concurrency and failure matter, the TLC configurations that check them, and
proofs for every number of cameras, every schedule, every rate limit and every
setting of the filters.

## 1. The system

### Components

| Component | Code | State it keeps | Operations |
|---|---|---|---|
| Main loop | `pkg/app/app.go` (Run, NextFrame, CancelAndExit), `main.go` | RoundRobin, the command channels, the context | ticker, snapshot, frame, cancel |
| Supervisor | `pkg/app/supervisor.go` | none of its own: the cameras' flags, the mark counter it reads | checkModeSwitch, checkMainTicker |
| Capture feeds | `pkg/detect/detect.go` | Captures, CapturesLock | CamRead, ToggleFeeds, Close |
| Alert rate limit | `pkg/camera/camera.go`, `app.go` (maybeSend...) | three token buckets, LastOverviewSent | TakeFrameBuckets, TokensRemaining |
| Schedule and mode store | `pkg/datastore` | two SQLite tables, a mutex | the Sched... operations |
| Telegram commands | `pkg/app/cmd.go` | a queue of 10000 commands | handleIncomingCmd |
| House-alarm messages | `pkg/app/messages.go` | MsgChan (unbuffered) | handleMessage |
| Telegram polling | `pkg/telegram` | update offset | PollUpdatesToChan |
| PubSub listener | `pkg/messaging` | a subscription, which outlives the process | RunListener, DeleteSub |
| Uploads | `app.go` (Uploader), `pkg/jobs` | two queues of 5000 jobs | Uploader |
| Frame filter, detection results | `pkg/frame`, `detect.go` (ParseResult) | the boxes of one frame | Reject..., ParseAlerts, ParseResult |
| Error poller | `pkg/app/errchecker.go`, `pkg/systemerr` | none | ErrorPoller |
| Metrics, histograms | `pkg/app/app_metrics.go`, `histo.go`, `pkg/appmetrics` | meters, counters, maps | Mark, Inc, SendHist |
| Heartbeat, configuration, rendering | `app.go`, `main.go`, `pkg/utils`, `pkg/render` | none | |

### How they interact

- Main loop, supervisor, Telegram listener, uploader, heartbeat, error poller and
  PubSub handler are goroutines of one process.
- The supervisor asks each camera's store every five seconds whether the camera
  should be active, writes the camera's flag (`Cam.active`), and, if a flag changed,
  calls `ToggleFeeds`. The main loop reads the flag, and then the capture.
  `CapturesLock` is the only thing that orders the two on the captures.
- The Telegram listener puts `snap` and `frame` commands on channels the main loop
  selects from, and runs the other commands itself, on the stores and the buckets.
- A PubSub message about the house alarm becomes a `mode set` command, run in the
  PubSub handler's goroutine.
- `CancelAndExit` (a signal, `restart`, or the supervisor) cancels the context and
  ends the process five seconds later; systemd starts it again. Only the stores
  survive.

### What is hard, and what must hold

The full list, with lines, is `hazards` in `PROJECT.json`. In short:

- *Feeds*: a capture must not be closed under a reader; feeds must follow flags that
  are set outside the lock and read again inside it; a failed or hanging open or read
  must not take the other cameras or the supervisor with it.
- *Main loop*: one `select` serves a ticker, two queues and the cancellation, and
  must starve none of them; a cancelled process must end even when main hangs.
- *Rate limit*: several buckets, filled lazily by whoever looks, some of them charged
  for attempts that others refuse, must still keep each limit.
- *Store*: operations are several statements without a transaction, any of which may
  fail or be the last one before the process ends.
- *Commands and messages*: delivered once, twice or out of order around restarts,
  through bounded queues, to handlers that may be stuck.
- *Requests to Telegram* have no timeout. The supervisor makes one before it toggles feeds
  or restarts the process, the main loop waits behind one when an upload queue is full,
  the alarm handler makes one for every camera it switches, and the polls themselves are such
  requests.

## 2. Modules

| Module | What it is |
|---|---|
| `FeedControl` | main loop, supervisor, captures, lock, cancellation and restart |
| `FeedService` | what the feeds promise: abstract specification of `FeedControl` |
| `FeedControlProofs` | type correctness, two invariants, refinement |
| `RateLimit` | the attempts of a hit frame on the three buckets of a camera |
| `TokenBucket` | one eager bucket: abstract specification of each of the three |
| `RateLimitProofs` | types, distance of overviews, limits, thirty images a minute, refinement of `TokenBucket` |
| `Frame` | pure: from the detections in a frame to hits and rejected boxes, and what the settings mean |
| `Uploads` | `RateLimit` and `Frame` composed with the main loop's two queues and the Uploader |
| `UploadsProofs` | the filters against their meaning, the limits in the composition, the order of alerts and what is at stake |
| `Schedule` | one camera's store under three goroutines, errors and crashes |
| `Store` | what a store promises: abstract specification of `Schedule` |
| `ScheduleProofs` | a mode that was set is kept |
| `ScheduleOpProofs` | types, and what operations of several statements have done, shown or answered |
| `StoreProofs` | operations take effect at one moment: refinement of `Store` |
| `Commands` | Telegram updates, the bots' polling, the queue and its listener |
| `Inbox` | what becomes of a group's updates: abstract specification of `Commands` |
| `CommandsProofs` | types, order, nothing forgotten unqueued, refinement of `Inbox` |
| `Alarm` | house-alarm messages from Pub/Sub to the cameras' modes, shutdown included |
| `House` | what the cameras are promised of the alarm: abstract specification of `Alarm` |
| `AlarmProofs` | types, what is at stake, modes, deletion of the subscription, refinement of `House` |
| `MCFeedControl`, `MCRateLimit`, `MCSchedule`, `MCCommands`, `MCAlarm`, `MCUploads` | values of the constants for TLC |

A definition called `Name_Variant` is a plausible bug in the code `Name` models. No
action uses it: it is swapped in for `Name` to see that a property notices (the
pairs are `mutants` in `PROJECT.json`).

### FeedControl

`active`, `capture` and `lock` are `Cam.active`, `Detector.Captures` and
`CapturesLock`; `mainPC` and `supPC` say where the two goroutines are; `want` is what
each store would answer, and may change at any time. One action is one stretch of
code between two points at which the other goroutine can see or stop it: taking a
lock, the beginning and the end of a read, one camera of `checkModeSwitch`, one camera of
`ToggleFeeds`, its three-second sleep, one capture of `Close`.

- Errors: a store error breaks the scan (`ScanError`), a failed open or close leaves
  `ToggleFeeds` at once (`StartFeedFails`, `StopFeedFails`), a missing frame or a
  detector error ends the process (`FatalError`).
- Hangs: opening and reading a capture may never return (`StartFeedHangs`,
  `ReadHangs`). The comment at `detect.go:145` shows that the first one happens.
- Requests to Telegram may never return either. Main makes them when it starts and when
  a command names an inactive camera, and waits behind one when its upload queue is
  full: `"blocked"`. The supervisor announces a change of mode and the restart before it
  acts on them (`ScanHangs`, `WatchHangs`): `"mute"`.
- `capture[c]` distinguishes `"nil"` from `"closed"`: `Detector.Close` closes without
  the lock and keeps the pointers, and the supervisor may still be in `ToggleFeeds`.
- What follows a read (detection, filters, uploads) is the phase `busy`, which ends,
  blocks or ends the process; what happens in it is `Uploads`.
- The rate check reads `Count() > 600 && Rate1() < 2`. `marks` counts up to
  `ArmCount + 1`; the exponential average is replaced by a `rate` that may become
  low while main is away from its `select` and may recover at a tick.
- Camera indices are positions: the configuration has no gaps.

### RateLimit

Time is in seconds since start-up. `tokens` and `tick` are `availableTokens` and
`latestTick` of the external library juju/ratelimit, modelled from how it computes
them: a bucket is brought up to date only by a call that looks at it. `Hit(n)` is a
frame in which n boxes pass the filters, `Box` begins an attempt for one of them. An attempt
is up to three steps (`TakeFrameBuckets`), one for each call of `TakeAvailable`: `GoesOn` to
the next bucket, `Refused` with the tokens taken so far gone, or `Granted` with the third.
`trying` and `got` say what is attempted and which tokens it has. Time may pass, and the
tokens command may look at a bucket (`ShowTokens`, one bucket a step), between any two of
these. `sent` is a history variable: what was granted, in order, each with the time of each of
its tokens, since the three may come at different times; an image is sent at the last of them.

### Frame

No state: the decisions of `ParseResult`, `ParseAlerts` and the four `Reject` passes as
operators on a frame, the sequence of its detections. A detection has positions as
fractions of the frame in units of `1/Unit`, some of them outside it; `Coords` clamps
them to pixels and puts the corners in order. Each pass returns the reason a box has
after it, so the order of the passes and the overwriting of reasons are in
`RejectReason`. `Wanted` is the reference: what the settings mean, said with sets of
sizes and of pixels and without passes. The numbers themselves (half-precision decoding,
tensors) are not modelled. A box the clamping leaves without area is left out: its crop
fails in OpenCV and ends the process before any pass sees it.

### Uploads

Extends `RateLimit` and `Frame`. The main loop is `NextFrameFromCam`, `Snapshot` and then,
in the order of the code, `Inform` (rejected boxes and snapshots), `TryOverview`, and
`TryBox`, `TryTokens` and `Alert` in turn; `toInform`, `hitDue`, `boxes`, `trying` and `held`
say how far it has come with a frame. `TryOverview` and `TryBox` begin an attempt as `Hit` and
`Box` of `RateLimit` do, `TryTokens` is one of its calls and holds the image that was granted
until the queue takes it. The Uploader takes from either queue,
sends, and goes on whether or not the request failed; a request may hang. `alerts` holds
the images by their place in `sent`; of the info queue only the length matters.
`attempted` is a history variable. The process does not restart here: both queues and
the buckets start empty and full again with it.

### Schedule

A command is a sequence of store operations (`plan`), an operation a sequence of SQL
statements (`todo`) run under `Store.lock`. Each statement commits on its own. `Fail`
is any statement returning an error, `Crash` the end of the process at any point:
`rows` and `mode` stay. `ParseDayHour` is modelled by what it can return (see the
comment at `ObjsAssumption`). A slot is a pair of day and hour; the clock moves between
slots at will. `base` and `lastSet` are history variables.

`Store` is what all this is for: every operation is one step and its answer is true of that
moment. The rows are mapped to what they were when the lock was taken (`base`) until the
operation under it does its last statement, or is cut short; the answer is there from then
until the lock is given back. What `Store` says of an operation cut short is what can be
said: it has done some of what it was asked.

### Commands

`posted` is what Telegram was sent for a bot, in order; `confirmed` what it has
forgotten, because it was asked for a later update. A bot's goroutine asks (`Ask`),
waits (`Answer`, `AskAgain`), sleeps after an error (`PollFails`) and passes a batch on update
by update (`PassOn`). The thirty seconds of the poll are Telegram's to keep: the HTTP client has
no timeout, and a request may never return (`PollHangs`), which stops that bot and nothing else. The request may be lost, and so may
the answer after Telegram has taken the offset in. `queue` is the channel of
`ListenTelegram`, `snaps` the channel to the main loop, of which this module keeps only
that it takes a snapshot or hangs. An `"other"` update is every command the listener
runs by itself and every message that is no command: those are queued as well. The request
with which such a command answers has no timeout and may hang, and the listener with it
(`OtherHangs`). `queued` and `ran` are history variables.

`Inbox` says what becomes of one group's updates, without polls and queues: a process takes
them one by one, runs them in the order taken, and Telegram forgets none before it was taken.
`taken` is the update before the next offset, or the last one forgotten while there is no offset
yet; `inHand` is what the one queue of all cameras and the listener's hand hold of that group.

The main loop, the stores and the buckets are in modules of their own; what `Commands`
shares with `FeedControl` is the snapshot channel and the cancelled context.

### Alarm

`posted` is what the alarm has published, `kept` what the subscription still holds:
both outlive the process, and so do the modes. Pub/Sub delivers what it keeps in any order,
and again until an acknowledgement reaches it. Each delivery is a callback of
`RunListener` (`callback[m]`), at most `MaxOutstanding` at a time: it hands the message
over an unbuffered channel (`HandOver` is both sides at once) and acknowledges it
without waiting for the outcome. `handler`, `hand` and `todo` are the goroutine of
`HandleMessages` and the loop over the cameras of `handleMessage`; what a mode command does
to one store, statement by statement, is `Schedule`. `receiver` follows `Receive`: it stops
pulling when cancelled or when its stream fails, returns when no callback runs, and only a
cancelled context leads to `DeleteSub`. A camera's group may set its mode meanwhile
(`TelegramSets`), as in `Schedule`; `off` stands for every mode that is not `on`. `told`, `missed`, `acked` and `done` are history
variables. Left out: a message delivered a second time while a callback still has it.

`House` keeps of all this what a camera sees: the messages it is due to follow (`Due`: kept by
the subscription, waiting on the channel, or in hand before the camera's turn) and those it was
asked to follow (`Tried`). It says nothing of the modes themselves: that is `ModesAsTold`.

## 3. Runs

Passing runs:

| Run | Instance | Shows |
|---|---|---|
| `FeedControl_safety` | 2 cameras, snapshot commands, queue of 1 | `TypeOK`; `ReadsOpenFeed`; `SettledFeedsFollowFlags`; refinement of `FeedService` |
| `FeedControl_liveness` | 2 cameras, no commands | `FeedFollowsSchedule`; `ActiveFeedRead`; `CancelEndsProcess`; `HungMainRestarts` |
| `FeedControl_commands` | 1 camera, both queues, of 2 | `CommandServed` |
| `Uploads_queues` | buckets of 3 per 2 s, 2 and 1 per s, 2 per 2 s; 2 s; 2 frames of 5 and 4 detections on 4 by 4 pixels; queues of 1 | `TypeOK` and `UTypeOK`; `WithinEveryLimit`; `OverviewsApart`; each bucket is a `TokenBucket`; `AlertsInOrder`; `FewAtStake`; `HitsAreWanted`; `MainComesBack`; `AlertsGoOut` |
| `Commands_bot` | 2 bots, 2 updates in all, queues of 1 | `TypeOK`; `RunInOrder`; `NoneForgottenUnqueued`; `EveryCommandRuns`; refinement of `Inbox` (`InboxSpec`) |
| `Alarm_messages` | 2 cameras, both controlled; 2 messages, 1 callback | `TypeOK`; `AckedIsInHand`; `ModesAsTold`; `DeletionDropsNoneInHand`; `EveryMessageHandled`; `ReceiveEnds`; refinement of `House` (`HouseSpec`) |
| `Schedule_store` | 2 days of 2 hours, two object lists | `TypeOK`; `ModeKept`; `AnswerIsCurrent`; `TableIsSnapshot`; `ChangesOnlyNamed`; `CommandsEnd`; refinement of `Store` (`StoreSpec`) |

Runs that find what a comment or a document says violated (section 4):
`FeedControl_autorecovery`, `FeedControl_stalledloop`, `RateLimit_minute`,
`RateLimit_quota`, `Schedule_hours`.

Bounds, and why they are enough:

- *Cameras*: two make every order of "this camera, another one behind it" in the scan,
  in `ToggleFeeds`, in `Close` and in the round robin. The safety theorems hold for
  any number. Liveness with commands is checked with one camera, since the commands
  and the round robin meet only in the `select`. In `Alarm` two controlled cameras put one
  behind the one that fails; that a camera outside `Controlled` is left alone, and that callbacks
  may run side by side, is in the theorems, which hold for any set of cameras and any number
  of callbacks.
- *ChanCap* of 1 or 2: full, empty, and something in between.
- *MaxUpdates, MaxMsgs* of 2: one update or message in hand while the other is behind it,
  in the queue, on its way or delivered again. Restarts and lost requests are unbounded.
- *QueueCap, SnapCap, MaxOutstanding* of 1: everybody behind the first one has to wait.
- *ArmCount*: 0 or 1 instead of 600: before and after arming.
- *Horizon, Capacity*: two seconds hold a fill of every bucket, and two boxes with an overview
  empty each of them, between fills and across one. `RateLimit_quota` uses the real constants of
  `camera.New`; `RateLimit_minute` a minute of four seconds with three images to it and a pace of
  one a second, so that pace, like that of `camera.New`, allows more than the minute does. For
  all others see the theorems.
- *Frames*: each of the four passes refuses a box that all others let pass; positions lie in,
  across and beyond the frame and with their corners swapped. `HitsAsWanted` is the theorem for every
  frame and setting.
- *Weekdays, HourLimit*: two days of two hours tell a slot, a day, an hour of every day
  and the whole week apart, and row by row operations can be cut in the middle.
- Deadlock is checked but in `RateLimit` and `Uploads`, whose time ends, and in `Alarm`, where
  all messages may have been published and the process may wait for one that hangs.

Fairness (`Fairness` of `FeedControl`, `Schedule`, `Commands` and `Alarm`, `UFairness` of
`Uploads`), and why:

- Weak fairness of each goroutine: the Go scheduler runs a goroutine that can run.
- Strong fairness of each `select` case: Go picks at random among ready cases
  (`TakeCmd`, `Tick`, `TakeAlert`, `TakeInfo`).
- Strong fairness of taking a mutex: Go's mutex hands over to a waiter that has
  starved for a millisecond.
- `HardExit`: a timer. `Start`: systemd. `RateDecays` while main hangs: an average of a
  rate that has become zero falls below two.
- A channel that is full again and again lets each waiting sender in in turn: Go queues
  the senders (`PassOn`, `HandOver`).
- Of the network: in `Commands`, a request repeated again and again reaches Telegram, and one
  that reached it again and again is answered (`Ask`, `Answer`), unless one of them hangs; in `Alarm`, Pub/Sub delivers
  what it keeps to who keeps asking (`Deliver`).
- Of a request to Telegram it is assumed only that it returns or hangs: once it hangs
  (`PollHangs`, `OtherHangs`, `UploadHangs`, ...) no fairness brings it back, and the liveness
  properties name it as an excuse. The same holds of the alarm's `handler`. `Receive` stops
  pulling when its context is cancelled, and `DeleteSub` has a timeout (`Receiver`,
  `StopPulling`).
- Two assumptions about the world are not part of the fairness but antecedents of the
  properties that need them: a store asked again and again answers (`StoresAnswer`, in
  `FeedFollowsSchedule` and `AutoRecovery`), a feed opened again and again opens
  (`FeedsOpen`, in `AutoRecovery`). Hangs, errors, commands and shutdowns are never
  assumed to happen or not to happen: a property that a hang defeats names it.

## 4. Where the program and its documents disagree

1. *Auto recovery* (`README.md:15`). A feed whose opening failed is not tried again
   until some flag changes (`detect.go:132`, `supervisor.go:60`). Run
   `FeedControl_autorecovery`.
2. *Restart when the stream hangs* (`supervisor.go:28`, `README.md:17`). A hung read keeps
   `CapturesLock`; a schedule change before the rate has fallen makes the supervisor
   wait for that lock, and nobody is left to check the rate. Run
   `FeedControl_stalledloop`. `HungMainRestarts` says what does hold: a main loop that
   hangs, in a read or behind Telegram, is restarted if the supervisor is not stuck itself.
3. *20 frames a minute* (`camera.go:92`). True of minutes counted from start-up, not of any
   minute. Run `RateLimit_minute`. What does hold of any minute is thirty images, by the pace
   bucket: theorem `ThirtyAMinute`, and thirty can be sent (from second 26 to second 78, say).
4. *Not all the quota in 17 seconds* (`camera.go:100`). Refused attempts keep the frame token
   they have taken. Run `RateLimit_quota`.
5. *Hours 0 to 23* (`schedule.go:192`, `:239`). `Activate` does not check. Run `Schedule_hours`.

## 5. Proofs

All proofs are checked by TLAPS, from the named assumptions on the constants
(positive numbers of cameras, capacities and so on; see the ASSUMEs) and nothing else.
Every invariant a passing run checks is proved, and so are the action property and the
refinements: of `FeedService`, `TokenBucket`, `Store`, `Inbox` and `House`.

**FeedControlProofs.** `TypeCorrect` is inductive by itself. `ReadsOpenFeed` and
`SettledFeedsFollowFlags` are not: while the supervisor scans, its loop index separates
flags that were settled from flags that may have moved, and while it toggles, the index
separates feeds that are right already from feeds that are not. `IInv` says so,
together with who holds the lock at which point of which goroutine, and which
captures may be closed while main is closing. `IInvInvariant` proves it invariant, one
lemma per group of actions. `NeverReadsClosedFeed` and `FeedsFollowFlags` follow,
and so does `FeedControlImplementsService`: under `IInv` every step is a step of
`FeedService` or a stutter.

**RateLimitProofs.** `OverviewsAreApart`: the strengthening says that `lastOverview` is
not older than any overview sent, and that none was sent in the future. `LimitsHold`
needs a budget: from any image sent, what was sent since and what a bucket still has
together stay within its capacity and what it was given since (`Budget`). The tokens of an
attempt that is under way count as sent, since the next step may send it. Time, each call of an
attempt, granted or refused, and a look at the bucket each keep it; the arithmetic of the lazy fills
is in lemmas of its own. `BucketsFillThemselves`: what a look would find (`Available`) moves
as the level of an eager bucket does. `ThirtyAMinute` puts the numbers of `camera.New` into
`WithinEveryLimit`: four fills of six fall into any sixty seconds at most.

**UploadsProofs.** `HitsAsWanted` is about operators alone: the four passes together refuse
exactly what `Wanted` does not want, pass by pass; the one that needs an argument says that
the corners lie in the region if and only if every pixel does. `HitsAreAsWanted` adds that
the boxes lie inside the frame. `AlertsGoInOrder` follows each image from the hand to the queue and to Telegram (`Placed`);
`QueuesTypeCorrect` and `LittleIsLost` bound what waits on the way. `UploadsKeepEveryLimit`: the composition keeps every limit of
`RateLimit`, because its steps are steps of `RateLimit` or leave it alone (a lemma, which needs
only that a frame has no more hits than `MaxBoxes`).

**ScheduleProofs.** `ModeIsKept`. The danger is `GetMode`, which writes the default a
statement after it found nothing. The strengthening: a default still to be written
is the first statement of the goroutine under the lock, and there is no mode yet
(`DefaultIsSafe`); the lock has one holder, who has an operation to do.

**ScheduleOpProofs.** `AnswersAreCurrent`, `TablesAreSnapshots` and `OnlyNamedChange` speak of
the end of an operation, or of one cut short. The inductive `Stage` says how far the
operation under the lock has come by the statements it has left: which slots it has still to
write and that it has changed no others, which cells of the table are drawn, whether the mode
is known. A table is the whole schedule because `GetTable`, hour by hour and each with all
its days, and `AllSlots`, day by day and each with all its hours, reach the same cells
(`SameCells`).

**StoreProofs.** `OperationsAreAtomic`. An operation takes effect with its last statement, so
every statement before it must be invisible: `Owed` is what the operation under the lock has
still to do, statement by statement, and what it has done so far together with that is all it
was asked for (`DoneIsAll`). Then the last statement is the whole operation in `Store`, a
failing statement or a crash is a `Cut` or the default of `GetMode`, and everything else is a
stutter. It rests on the `Stage` of `ScheduleOpProofs`. This is what lets `Alarm` take a mode
command for one step.

**CommandsProofs.** What a goroutine has still to pass on, what is in the queue and what the
process has run make one run of consecutive updates without a gap (`NoGap` and the lemmas on
`Gapless` and `Sorted` sequences); `RunInOrder` and `NoneForgottenUnqueued` follow. So does
`CommandsImplementInbox`, one lemma per kind of step: passing an update on is `Take`, since
without a gap it is the next one, or nothing, if it was passed on before; the listener's return
is `Run`, since the queue is sorted; a poll is `Forget`; the end of the process is `End`.

**AlarmProofs.** A callback that acknowledges has handed its message over or could not
decode it (`HandedOver`); what has still to be done for the message in hand is a set of
controlled cameras (`AtAlarm`: only while that message is an alarm), all others have the mode
they were told (`TurnsToCome`); past the end of `Receive` no callback runs (`Quiet`). `AlarmImplementsHouse` adds that what waits on the channel
is still kept (`Safe`): then a handover is invisible, an acknowledgement forgets only what every
camera was asked to follow, and the end of the process loses the message in hand alone.

Only model-checked: liveness (`FeedFollowsSchedule`, `ActiveFeedRead`, `CommandServed`,
`CancelEndsProcess`, `HungMainRestarts`, `EveryCommandRuns`, `EveryMessageHandled`,
`ReceiveEnds`, `MainComesBack`, `AlertsGoOut`, `CommandsEnd`), which is out of the prover's reach.

## 6. Plan

1. Done: all components of section 1 whose state or order matters, with their abstractions,
   runs and proofs; an abstract specification of each component, and the proof that the
   detailed one implements it.
2. Left, in this order: a message of the alarm delivered twice at a time; two camera numberings
   in one model (configuration numbers against positions, when the configuration has gaps);
   `Alarm` and `Schedule` in one specification, which so far meet in `Store` only.

## 7. Not modelled

- *Error poller*: a window of an external log and the time; it keeps no state.
- *Heartbeat*: an HTTP request every two minutes that touches nothing.
- *Metrics and histograms*: numbers for display. What the supervisor reads of them is in
  `FeedControl`. The histogram maps are shared without a lock: the Go runtime may end the
  process, whatever the values, and no property would say more.
- *Configuration*: run once, its result is the constants. *Rendering*: pure output.
- Of `ParseResult`, the half-precision arithmetic and the images; of the uploads, captions and
  image contents; of the messenger, the variant that does nothing.
- Boxes without area, gaps in the camera numbers, a second delivery of a message that a
  callback still has, a restart in `Uploads`: see section 2.
- gocv, the compute stick, juju/ratelimit, go-metrics, SQLite, Telegram, Pub/Sub and systemd are
  external and modelled by what the code relies on.
