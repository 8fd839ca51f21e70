---------------------------- MODULE FeedControl ----------------------------
(***************************************************************************)
(* The capture feeds of watchbot and the two goroutines that share them.   *)
(*                                                                         *)
(* The main loop (app.Run) reads one frame at a time from a camera's       *)
(* capture.  The supervisor (app.Supervisor) asks every camera's store     *)
(* whether the camera should be active, sets the camera's flag, and when a *)
(* flag has changed opens and closes captures (detect.ToggleFeeds).  Both  *)
(* take detect.CapturesLock; neither holds it across a decision it bases   *)
(* on the flags.  The supervisor also watches the rate of the main loop    *)
(* and stops the process when the rate is too low; systemd starts it       *)
(* again.  At shutdown main closes the captures WITHOUT the lock.          *)
(* Requests to Telegram have no timeout: both goroutines make some, and    *)
(* each may wait for one for ever.                                         *)
(***************************************************************************)
EXTENDS Naturals, Sequences

CONSTANTS
    NumCams,    \* configured cameras, indexed 0 .. NumCams-1
    Kinds,      \* the command channels in use: "snapshot", "frame"
    ChanCap,    \* capacity of a command channel (30 in main.go)
    ArmCount    \* marks before the rate check is armed (600 in supervisor.go)

ASSUME NumCamsAssumption == NumCams \in Nat \ {0}
ASSUME KindsAssumption == Kinds \subseteq {"snapshot", "frame"}
ASSUME ChanCapAssumption == ChanCap \in Nat \ {0}
ASSUME ArmCountAssumption == ArmCount \in Nat

Cam == 0 .. NumCams - 1

VARIABLES
    want,       \* want[c]: what the store answers for camera c now
    up,         \* the process exists
    active,     \* active[c]: the flag set by the supervisor
    capture,    \* capture[c]: "nil", "open", or "closed" by main at shutdown
    lock,       \* holder of CapturesLock: "free", "main" or "sup"
    supPC,      \* where the supervisor is
    supAt,      \* index of the camera the supervisor's loops have reached
    supChanged, \* a flag has changed and ToggleFeeds has not returned since
    toggleErr,  \* history: the last ToggleFeeds returned an error
    mainPC,     \* where the main loop is
    mainAt,     \* index of the camera main works on
    job,        \* which select case main is in: "tick" or a command kind
    rr,         \* App.RoundRobin
    chan,       \* chan[k]: the queued commands of kind k, by camera index
    marks,      \* marks of mainTicker, counted up to ArmCount+1
    rate,       \* mainTicker.Rate1(): "ok", or "low" when under 2 a second
    cancelled   \* the context is cancelled and the hard-exit timer runs

envVars  == <<want, chan>>
feedVars == <<capture, lock>>
supVars  == <<supPC, supAt, supChanged, toggleErr, active>>
mainVars == <<mainPC, mainAt, job, rr>>
rateVars == <<marks, rate>>
vars == <<want, up, active, capture, lock, supPC, supAt, supChanged, toggleErr,
          mainPC, mainAt, job, rr, chan, marks, rate, cancelled>>

-----------------------------------------------------------------------------
(* The process starts, ends and is started again.                          *)

\* The state of a process that has just been started: no flag set, no feed.
Init ==
    /\ want \in [Cam -> BOOLEAN]
    /\ up = FALSE
    /\ active = [c \in Cam |-> FALSE]
    /\ capture = [c \in Cam |-> "nil"]
    /\ lock = "free"
    /\ supPC = "idle" /\ supAt = 0 /\ supChanged = FALSE /\ toggleErr = FALSE
    /\ mainPC = "select" /\ mainAt = 0 /\ job = "tick" /\ rr = 0
    /\ chan = [k \in Kinds |-> <<>>]
    /\ marks = 0 /\ rate = "ok"
    /\ cancelled = FALSE

\* The process is gone, and with it everything but the stores' schedules.
Exit ==
    /\ up' = FALSE
    /\ active' = [c \in Cam |-> FALSE]
    /\ capture' = [c \in Cam |-> "nil"]
    /\ lock' = "free"
    /\ supPC' = "idle" /\ supAt' = 0 /\ supChanged' = FALSE /\ toggleErr' = FALSE
    /\ mainPC' = "select" /\ mainAt' = 0 /\ job' = "tick" /\ rr' = 0
    /\ chan' = [k \in Kinds |-> <<>>]
    /\ marks' = 0 /\ rate' = "ok"
    /\ cancelled' = FALSE
    /\ UNCHANGED want

\* Where main goes on after a request to Telegram, which may hang.
Announced == {"select", "blocked"}

\* systemd starts the service; before the main loop begins, Run tells every group.
Start ==
    /\ ~up
    /\ up' = TRUE
    /\ mainPC' \in Announced
    /\ UNCHANGED <<envVars, feedVars, supVars, mainAt, job, rr, rateVars, cancelled>>

\* A signal or the restart command: CancelAndExit.
Shutdown ==
    /\ up /\ ~cancelled
    /\ cancelled' = TRUE
    /\ UNCHANGED <<up, envVars, feedVars, supVars, mainVars, rateVars>>

\* The timer of CancelAndExit ends the process wherever its goroutines are.
HardExit_NoTimer == up /\ cancelled /\ mainPC = "closing" /\ Exit

HardExit == up /\ cancelled /\ Exit

-----------------------------------------------------------------------------
(* What happens around the process.                                        *)

\* The hour, the mode or the schedule changes what the store of c answers.
ChangeWant(c) ==
    /\ want' = [want EXCEPT ![c] = ~@]
    /\ UNCHANGED <<up, chan, feedVars, supVars, mainVars, rateVars, cancelled>>

\* A command from Telegram; the listener waits while the channel is full.
Enqueue(k, c) ==
    /\ up
    /\ Len(chan[k]) < ChanCap
    /\ chan' = [chan EXCEPT ![k] = Append(@, c)]
    /\ UNCHANGED <<want, up, feedVars, supVars, mainVars, rateVars, cancelled>>

\* While main is away from its select the one-minute rate decays.
RateDecays ==
    /\ up /\ mainPC # "select"
    /\ rate = "ok" /\ rate' = "low"
    /\ UNCHANGED <<up, envVars, feedVars, supVars, mainVars, marks, cancelled>>

-----------------------------------------------------------------------------
(* The main goroutine.  (Here and below, a definition Name_Variant is a    *)
(* plausible bug in the code of Name: no action uses it, the checks swap   *)
(* it in to see that a property notices.)                                  *)

NextRR_SkipLast == IF rr + 2 >= NumCams THEN 0 ELSE rr + 1

NextRR == IF rr + 1 >= NumCams THEN 0 ELSE rr + 1

\* The ticker case: mark, move on to the next camera, read it if it is active.
Tick ==
    /\ up /\ mainPC = "select"
    /\ marks' = IF marks > ArmCount THEN marks ELSE marks + 1
    /\ rate' \in {rate, "ok"}
    /\ rr' = NextRR
    /\ job' = "tick"
    /\ mainAt' = NextRR
    /\ mainPC' = IF active[NextRR] THEN "lock" ELSE "select"
    /\ UNCHANGED <<up, envVars, feedVars, supVars, cancelled>>

\* A command waits in the channel.
CmdReady_IfActive(k) == chan[k] # <<>> /\ active[Head(chan[k])]

CmdReady(k) == chan[k] # <<>>

\* A command case: read the camera the command names, active or not.
TakeCmd(k) ==
    /\ up /\ mainPC = "select"
    /\ CmdReady(k)
    /\ chan' = [chan EXCEPT ![k] = Tail(@)]
    /\ job' = k
    /\ mainAt' = Head(chan[k])
    /\ mainPC' = "lock"
    /\ UNCHANGED <<want, up, rr, feedVars, supVars, rateVars, cancelled>>

\* CapturesLock.Lock() can return.
LockFree_NoLock == TRUE

LockFree == lock = "free"

\* CamRead finds no capture: CamStatusInactive, and back to the select, after an
\* answer to the group that gave a command.
ReadInactive ==
    /\ up /\ mainPC = "lock" /\ LockFree
    /\ capture[mainAt] = "nil"
    /\ mainPC' \in IF job = "tick" THEN {"select"} ELSE Announced
    /\ UNCHANGED <<up, envVars, feedVars, supVars, mainAt, job, rr, rateVars, cancelled>>

\* CamRead takes the lock and calls Read on the capture it found.
ReadBegin ==
    /\ up /\ mainPC = "lock" /\ LockFree
    /\ capture[mainAt] # "nil"
    /\ lock' = "main"
    /\ mainPC' = "read"
    /\ UNCHANGED <<up, envVars, capture, supVars, mainAt, job, rr, rateVars, cancelled>>

\* Read returns a frame: detection and uploads follow without the lock.
ReadOk ==
    /\ up /\ mainPC = "read"
    /\ lock' = "free"
    /\ mainPC' = "busy"
    /\ UNCHANGED <<up, envVars, capture, supVars, mainAt, job, rr, rateVars, cancelled>>

\* Read never returns: a stalled stream.
ReadHangs ==
    /\ up /\ mainPC = "read"
    /\ mainPC' = "hung"
    /\ UNCHANGED <<up, envVars, feedVars, supVars, mainAt, job, rr, rateVars, cancelled>>

\* The frame is dealt with.
Finish ==
    /\ up /\ mainPC = "busy"
    /\ mainPC' = "select"
    /\ UNCHANGED <<up, envVars, feedVars, supVars, mainAt, job, rr, rateVars, cancelled>>

\* Its upload queue is full and its Uploader waits for a request that hangs.
FinishBlocks ==
    /\ up /\ mainPC = "busy"
    /\ mainPC' = "blocked"
    /\ UNCHANGED <<up, envVars, feedVars, supVars, mainAt, job, rr, rateVars, cancelled>>

\* No frame, an empty frame, or a detector or encoder error: Run returns the
\* error and main ends in log.Fatal.
FatalError == up /\ mainPC \in {"read", "busy"} /\ Exit

\* Run returns nil; main goes on to Detector.Close.
SeeCancel ==
    /\ up /\ mainPC = "select" /\ cancelled
    /\ mainPC' = "closing"
    /\ mainAt' = 0
    /\ UNCHANGED <<up, envVars, feedVars, supVars, job, rr, rateVars, cancelled>>

\* The loop of Detector.Close has captures left.
MoreToClose_OffByOne == mainAt <= NumCams

MoreToClose == mainAt < NumCams

\* Detector.Close closes one capture, without the lock, and keeps the pointer.
CloseFeed ==
    /\ up /\ mainPC = "closing" /\ MoreToClose
    /\ capture' = [capture EXCEPT ![mainAt] = IF @ = "nil" THEN "nil" ELSE "closed"]
    /\ mainAt' = mainAt + 1
    /\ UNCHANGED <<up, envVars, lock, supVars, mainPC, job, rr, rateVars, cancelled>>

\* main returns, which ends the process.
MainExit == up /\ mainPC = "closing" /\ mainAt = NumCams /\ Exit

Main ==
    \/ Tick \/ (\E k \in Kinds : TakeCmd(k))
    \/ ReadInactive \/ ReadBegin \/ ReadOk \/ ReadHangs
    \/ Finish \/ FinishBlocks \/ FatalError \/ SeeCancel \/ CloseFeed \/ MainExit

-----------------------------------------------------------------------------
(* The supervisor goroutine.                                               *)

SupTick ==
    /\ up /\ supPC = "idle"
    /\ supPC' = "scan" /\ supAt' = 0 /\ supChanged' = FALSE
    /\ UNCHANGED <<up, active, toggleErr, envVars, feedVars, mainVars, rateVars, cancelled>>

SupStop ==
    /\ up /\ supPC = "idle" /\ cancelled
    /\ supPC' = "stopped"
    /\ UNCHANGED <<up, active, supAt, supChanged, toggleErr, envVars, feedVars, mainVars,
                   rateVars, cancelled>>

\* After the loop of checkModeSwitch: toggle the feeds if a flag changed.
AfterScan(changed) == IF changed THEN "waiting" ELSE "watch"

\* stateChanged after the loop has dealt with camera c.
Changed_Overwritten(c) == want[c] # active[c]

Changed(c) == supChanged \/ want[c] # active[c]

\* The store answers for the camera the loop has reached.
ScanCam ==
    /\ up /\ supPC = "scan"
    /\ active' = [active EXCEPT ![supAt] = want[supAt]]
    /\ supChanged' = Changed(supAt)
    /\ supAt' = supAt + 1
    /\ supPC' = IF supAt + 1 < NumCams THEN "scan" ELSE AfterScan(supChanged')
    /\ UNCHANGED <<up, toggleErr, envVars, feedVars, mainVars, rateVars, cancelled>>

\* The announcement of the change never returns: the flag has been set.
ScanHangs ==
    /\ up /\ supPC = "scan" /\ want[supAt] # active[supAt]
    /\ active' = [active EXCEPT ![supAt] = want[supAt]]
    /\ supChanged' = TRUE
    /\ supPC' = "mute"
    /\ UNCHANGED <<up, supAt, toggleErr, envVars, feedVars, mainVars, rateVars, cancelled>>

\* The store returns an error: the loop breaks, the cameras behind are not asked.
ScanError ==
    /\ up /\ supPC = "scan"
    /\ supPC' = AfterScan(supChanged)
    /\ UNCHANGED <<up, active, supAt, supChanged, toggleErr, envVars, feedVars, mainVars,
                   rateVars, cancelled>>

\* ToggleFeeds takes the lock.
ToggleBegin ==
    /\ up /\ supPC = "waiting" /\ LockFree
    /\ lock' = "sup"
    /\ supPC' = "toggle" /\ supAt' = 0
    /\ UNCHANGED <<up, active, supChanged, toggleErr, envVars, capture, mainVars,
                   rateVars, cancelled>>

\* ToggleFeeds has reached a camera whose feed must be opened.
AtStart == up /\ supPC = "toggle" /\ supAt < NumCams /\ active[supAt] /\ capture[supAt] = "nil"

\* ToggleFeeds has reached a camera whose feed must be closed.
AtStop_Any == up /\ supPC = "toggle" /\ supAt < NumCams /\ capture[supAt] # "nil"

AtStop  == up /\ supPC = "toggle" /\ supAt < NumCams /\ ~active[supAt] /\ capture[supAt] # "nil"

\* ToggleFeeds returns: the deferred Unlock, then checkMainTicker.
ToggleReturn(err) ==
    /\ lock' = "free"
    /\ toggleErr' = err
    /\ supChanged' = FALSE
    /\ supPC' = "watch"
    /\ UNCHANGED <<up, active, supAt, envVars, mainVars, rateVars, cancelled>>

\* The three-second sleep after a feed was opened or closed.
PauseWith(c, value) ==
    /\ capture' = [capture EXCEPT ![c] = value]
    /\ supPC' = "pause"
    /\ UNCHANGED <<up, active, supAt, supChanged, toggleErr, lock, envVars, mainVars,
                   rateVars, cancelled>>

StartFeed      == AtStart /\ PauseWith(supAt, "open")
StartFeedFails == AtStart /\ ToggleReturn(TRUE) /\ UNCHANGED capture
StartFeedHangs ==
    /\ AtStart
    /\ supPC' = "hung"
    /\ UNCHANGED <<up, active, supAt, supChanged, toggleErr, envVars, feedVars, mainVars,
                   rateVars, cancelled>>

\* stopCamFeed forgets the capture whether or not Close returned an error.
StopFeed      == AtStop /\ PauseWith(supAt, "nil")
StopFeedFails ==
    /\ AtStop
    /\ capture' = [capture EXCEPT ![supAt] = "nil"]
    /\ ToggleReturn(TRUE)

\* The feed of the camera the loop has reached is as it should be.
ToggleSkip_Return ==
    /\ up /\ supPC = "toggle" /\ supAt < NumCams
    /\ ~AtStart /\ ~AtStop
    /\ ToggleReturn(FALSE)
    /\ UNCHANGED capture

ToggleSkip ==
    /\ up /\ supPC = "toggle" /\ supAt < NumCams
    /\ ~AtStart /\ ~AtStop
    /\ supAt' = supAt + 1
    /\ UNCHANGED <<up, active, supPC, supChanged, toggleErr, envVars, feedVars, mainVars,
                   rateVars, cancelled>>

PauseEnd ==
    /\ up /\ supPC = "pause"
    /\ supPC' = "toggle" /\ supAt' = supAt + 1
    /\ UNCHANGED <<up, active, supChanged, toggleErr, envVars, feedVars, mainVars, rateVars,
                   cancelled>>

ToggleDone ==
    /\ up /\ supPC = "toggle" /\ supAt = NumCams
    /\ ToggleReturn(FALSE)
    /\ UNCHANGED capture

\* checkMainTicker is armed.
Armed == marks > ArmCount

\* checkModeSwitch has returned, checkMainTicker runs.
AtWatch_Locked == up /\ supPC = "watch" /\ LockFree

AtWatch == up /\ supPC = "watch"

TooSlow == Armed /\ rate = "low"

\* checkMainTicker: announce and CancelAndExit when the rate is too low.
WatchTicker ==
    /\ AtWatch
    /\ cancelled' = (cancelled \/ TooSlow)
    /\ supPC' = "idle"
    /\ UNCHANGED <<up, active, supAt, supChanged, toggleErr, envVars, feedVars, mainVars,
                   rateVars>>

\* The announcement never returns, and the process is not cancelled.
WatchHangs ==
    /\ AtWatch /\ TooSlow
    /\ supPC' = "mute"
    /\ UNCHANGED <<up, active, supAt, supChanged, toggleErr, envVars, feedVars, mainVars,
                   rateVars, cancelled>>

Sup ==
    \/ SupTick \/ SupStop \/ ScanCam \/ ScanHangs \/ ScanError
    \/ ToggleBegin \/ StartFeed \/ StartFeedFails \/ StartFeedHangs
    \/ StopFeed \/ StopFeedFails \/ ToggleSkip \/ PauseEnd \/ ToggleDone
    \/ WatchTicker \/ WatchHangs

-----------------------------------------------------------------------------
Env ==
    \/ Start \/ Shutdown \/ HardExit \/ RateDecays
    \/ \E c \in Cam : ChangeWant(c)
    \/ \E k \in Kinds, c \in Cam : Enqueue(k, c)

Next == Main \/ Sup \/ Env

Spec == Init /\ [][Next]_vars

\* Main is in a call that never returns.
MainHangs == mainPC \in {"hung", "blocked"}

(* What the Go runtime, the timers and systemd guarantee.  A goroutine      *)
(* that can run does run; select picks at random among the ready cases, so  *)
(* a case that is ready again and again is taken; a mutex is not withheld   *)
(* from a waiter for ever.  Nothing is assumed of hangs, errors, commands.  *)
Fairness ==
    /\ WF_vars(Start) /\ WF_vars(HardExit)
    /\ WF_vars(MainHangs /\ RateDecays)
    /\ WF_vars(Main) /\ SF_vars(Tick) /\ SF_vars(ReadInactive \/ ReadBegin)
    /\ \A k \in Kinds : SF_vars(TakeCmd(k))
    /\ WF_vars(Sup) /\ SF_vars(ToggleBegin)

FairSpec == Spec /\ Fairness

-----------------------------------------------------------------------------
(* Safety.                                                                  *)

TypeOK ==
    /\ want \in [Cam -> BOOLEAN]
    /\ up \in BOOLEAN
    /\ active \in [Cam -> BOOLEAN]
    /\ capture \in [Cam -> {"nil", "open", "closed"}]
    /\ lock \in {"free", "main", "sup"}
    /\ supPC \in {"idle", "scan", "waiting", "toggle", "pause", "hung", "watch", "mute",
                  "stopped"}
    /\ supAt \in 0 .. NumCams
    /\ supChanged \in BOOLEAN
    /\ toggleErr \in BOOLEAN
    /\ mainPC \in {"select", "lock", "read", "hung", "busy", "blocked", "closing"}
    /\ mainAt \in 0 .. NumCams
    /\ job \in Kinds \cup {"tick"}
    /\ rr \in Cam
    /\ chan \in [Kinds -> Seq(Cam)]
    /\ marks \in 0 .. ArmCount + 1
    /\ rate \in {"ok", "low"}
    /\ cancelled \in BOOLEAN

\* Main is inside VideoCapture.Read.
Reading == mainPC \in {"read", "hung"}

\* CamRead: the capture main found non-nil under the lock stays open until
\* Read has returned, whatever the supervisor decides meanwhile.
ReadsOpenFeed == Reading => (lock = "main" /\ mainAt \in Cam /\ capture[mainAt] = "open")

\* checkModeSwitch and ToggleFeeds: outside a mode switch, unless the last
\* toggle failed, exactly the flagged cameras have an open feed.  The flags
\* are read by ToggleFeeds long after they were set, and main may have been
\* reading in between.
SettledFeedsFollowFlags ==
    (up /\ mainPC # "closing" /\ ~supChanged /\ ~toggleErr)
        => \A c \in Cam : (capture[c] = "open") <=> active[c]

\* The feeds, seen from outside, are the ones FeedService promises.
Phase == IF ~up THEN "down" ELSE IF mainPC = "closing" THEN "closing" ELSE "up"
Feeds == {c \in Cam : capture[c] = "open"}
Readers == IF Reading THEN {mainAt} ELSE {}

Service == INSTANCE FeedService
    WITH phase <- Phase, flag <- active, feeds <- Feeds, reader <- Readers

ImplementsFeedService == Service!Spec

-----------------------------------------------------------------------------
(* Liveness.                                                                *)

\* Two assumptions about the world, each used where it is named: a store that is
\* asked again and again answers, and a feed that is opened again and again opens.
StoresAnswer == \A c \in Cam : SF_vars(supAt = c /\ ScanCam)
FeedsOpen == \A c \in Cam : SF_vars(supAt = c /\ StartFeed)

\* Main waits for ever: in Read, for Telegram, or for a lock held by a hung open.
MainStuck == MainHangs \/ (mainPC = "lock" /\ supPC = "hung")

\* The supervisor waits for ever: in an open, for Telegram, or for a lock held by a
\* hung Read.
SupStuck == supPC \in {"hung", "mute"} \/ (supPC = "waiting" /\ mainPC = "hung")

\* Supervisor and ToggleFeeds: once the schedule of a camera stays as it is,
\* in a process that stays up and whose toggles stop failing, the feed comes
\* to follow the schedule and stays so, if the stores answer.
FeedFollowsSchedule ==
    StoresAnswer => \A c \in Cam :
        <>[](up /\ ~toggleErr) /\ <>[][want'[c] = want[c]]_want
            => <>[]((capture[c] = "open") = want[c]) \/ <>[]SupStuck

\* Run's select: a queued command is served however often the ticker fires,
\* unless main is stuck or the process ends.
CommandServed ==
    \A k \in Kinds : (chan[k] # <<>>) ~> (job = k \/ ~up \/ MainStuck)

\* NextFrame: every camera whose feed is on is read again and again, whatever
\* the other cameras and the commands do.
ActiveFeedRead ==
    \A c \in Cam :
        <>[](up /\ active[c] /\ capture[c] = "open")
            => []<>(mainPC = "read" /\ job = "tick" /\ mainAt = c) \/ <>[]MainStuck

\* CancelAndExit: a cancelled process ends, even one that is stuck.
CancelEndsProcess == cancelled ~> ~up

\* checkMainTicker: a main loop that hangs after the rate check is armed is
\* restarted, unless the supervisor is stuck itself.
HungMainRestarts == (MainHangs /\ Armed) ~> (~up \/ SupStuck)

-----------------------------------------------------------------------------
(* What the documents say, and the code does not do.                        *)

\* README.md, "Auto recovery when camera connection is lost": a camera that
\* should be on, and whose feed would open if it were tried, is on again.
AutoRecovery ==
    StoresAnswer /\ FeedsOpen => \A c \in Cam : <>[](up /\ want[c]) => []<>(capture[c] = "open") \/ <>[](SupStuck \/ MainStuck)

\* supervisor.go, "Ensure the stream hasn't crashed, shutdown the app if it
\* has": a main loop that hangs after the rate check is armed is restarted, if the
\* supervisor can announce it.
StalledLoopRestarts == (mainPC = "hung" /\ Armed) ~> (~up \/ supPC = "mute")

=============================================================================
