------------------------- MODULE FeedControlProofs -------------------------
(***************************************************************************)
(* Proofs about FeedControl for every number of cameras, every set of      *)
(* command kinds, channel capacity and arming threshold.                   *)
(*                                                                         *)
(* The inductive invariant is IInv.  SettledFeedsFollowFlags alone is not  *)
(* inductive: that a toggle ends with every feed as its flag says needs to *)
(* know how far it has come (Progress), that no flag changes meanwhile     *)
(* (Pending: only the scan changes flags, and it is over), and that main   *)
(* does not touch a capture before shutdown (NoneClosed).                  *)
(***************************************************************************)
EXTENDS FeedControl, TLAPS

\* The index of a loop or of a read that is under way names a camera.
IndexOK ==
    /\ supPC \in {"scan", "pause"} => supAt \in Cam
    /\ mainPC \in {"lock", "read", "hung"} => mainAt \in Cam

\* The holder of CapturesLock is exactly the goroutine inside its section.
Toggling == supPC \in {"toggle", "pause", "hung"}
LockInv ==
    /\ lock = "main" <=> Reading
    /\ lock = "sup" <=> Toggling

\* Only Detector.Close leaves a closed capture behind.
NoneClosed == mainPC # "closing" => \A c \in Cam : capture[c] # "closed"

\* A flag change is pending from the scan that made it to the end of the toggle.
Pending ==
    /\ supPC \in {"idle", "watch", "stopped"} => ~supChanged
    /\ supPC = "waiting" \/ Toggling => supChanged

Matches(c) == (capture[c] = "open") <=> active[c]

\* The cameras ToggleFeeds has passed have the feed their flag asks for.
Progress ==
    mainPC # "closing" =>
        /\ supPC = "toggle" => \A c \in Cam : c < supAt => Matches(c)
        /\ supPC = "pause" => \A c \in Cam : c <= supAt => Matches(c)

Settled ==
    (mainPC # "closing" /\ ~supChanged /\ ~toggleErr) => \A c \in Cam : Matches(c)

\* A process that is not there is not doing anything.
DownIsIdle == ~up => mainPC = "select"

IInv ==
    /\ TypeOK /\ IndexOK
    /\ DownIsIdle /\ LockInv /\ ReadsOpenFeed /\ NoneClosed
    /\ Pending /\ Progress /\ Settled

-----------------------------------------------------------------------------
(* Cameras are numbers.                                                     *)

LEMMA CamFacts ==
    /\ Cam \subseteq Nat
    /\ 0 \in Cam
    /\ \A c \in Cam : c + 1 \in 0 .. NumCams /\ c \in 0 .. NumCams
    /\ \A n \in 0 .. NumCams : n # NumCams => n \in Cam
    /\ \A n \in 0 .. NumCams : n < NumCams => n \in Cam
    /\ \A n \in Cam : n < NumCams
  BY NumCamsAssumption DEF Cam

\* NextFrame's index is a camera again.
LEMMA NextRRInCam == ASSUME rr \in Cam PROVE NextRR \in Cam
  BY NumCamsAssumption DEF NextRR, Cam

-----------------------------------------------------------------------------
(* Types.                                                                   *)

TypeInv == TypeOK /\ IndexOK

LEMMA InitTypeInv == Init => TypeInv
  <1> SUFFICES ASSUME Init PROVE TypeInv
    OBVIOUS
  <1>1. chan \in [Kinds -> Seq(Cam)]
    BY DEF Init
  <1>2. marks \in 0 .. ArmCount + 1
    BY ArmCountAssumption DEF Init
  <1> QED
    BY <1>1, <1>2, CamFacts DEF Init, TypeInv, TypeOK, IndexOK

LEMMA ExitTypeInv == ASSUME TypeInv, Exit PROVE TypeInv'
  <1>1. (chan \in [Kinds -> Seq(Cam)])'
    BY DEF Exit
  <1>2. (marks \in 0 .. ArmCount + 1)'
    BY ArmCountAssumption DEF Exit
  <1> QED
    BY <1>1, <1>2, CamFacts DEF Exit, TypeInv, TypeOK, IndexOK

LEMMA MainTypeInv == ASSUME TypeInv, Main PROVE TypeInv'
  <1> USE DEF TypeInv, TypeOK, IndexOK, mainVars, envVars, feedVars, supVars, rateVars
  <1>1. CASE Tick
    <2>1. marks' \in 0 .. ArmCount + 1
      BY <1>1, ArmCountAssumption DEF Tick
    <2> QED
      BY <1>1, <2>1, NextRRInCam, CamFacts DEF Tick
  <1>2. ASSUME NEW k \in Kinds, TakeCmd(k) PROVE TypeInv'
    <2>1. chan[k] \in Seq(Cam) /\ chan[k] # <<>>
      BY <1>2 DEF TakeCmd, CmdReady
    <2>2. Head(chan[k]) \in Cam /\ Tail(chan[k]) \in Seq(Cam)
      BY <2>1
    <2>3. chan' \in [Kinds -> Seq(Cam)]
      BY <1>2, <2>2 DEF TakeCmd
    <2> QED
      BY <1>2, <2>2, <2>3, CamFacts DEF TakeCmd
  <1>3. CASE ReadInactive BY <1>3 DEF ReadInactive, Announced
  <1>4. CASE ReadBegin BY <1>4 DEF ReadBegin
  <1>5. CASE ReadOk BY <1>5 DEF ReadOk
  <1>6. CASE ReadHangs BY <1>6 DEF ReadHangs
  <1>7. CASE Finish BY <1>7 DEF Finish
  <1>8. CASE FatalError BY <1>8, ExitTypeInv DEF FatalError
  <1>9. CASE SeeCancel BY <1>9, CamFacts DEF SeeCancel
  <1>10. CASE CloseFeed
    <2>1. mainAt \in Cam
      BY <1>10, CamFacts DEF CloseFeed, MoreToClose
    <2> QED
      BY <1>10, <2>1, CamFacts DEF CloseFeed
  <1>11. CASE MainExit BY <1>11, ExitTypeInv DEF MainExit
  <1>12. CASE FinishBlocks BY <1>12 DEF FinishBlocks
  <1> QED
    BY <1>1, <1>2, <1>3, <1>4, <1>5, <1>6, <1>7, <1>8, <1>9, <1>10, <1>11, <1>12 DEF Main

LEMMA SupTypeInv == ASSUME TypeInv, Sup PROVE TypeInv'
  <1> USE DEF TypeInv, TypeOK, IndexOK, mainVars, envVars, feedVars, supVars, rateVars
  <1>1. CASE SupTick BY <1>1, CamFacts DEF SupTick
  <1>2. CASE SupStop BY <1>2 DEF SupStop
  <1>3. CASE ScanCam
    <2>1. supAt \in Cam /\ supAt + 1 \in 0 .. NumCams
      BY <1>3, CamFacts DEF ScanCam
    <2>2. supChanged' \in BOOLEAN
      BY <1>3 DEF ScanCam, Changed
    <2>3. supAt + 1 < NumCams => supAt + 1 \in Cam
      BY <2>1, CamFacts
    <2> QED
      BY <1>3, <2>1, <2>2, <2>3 DEF ScanCam, AfterScan
  <1>4. CASE ScanError BY <1>4 DEF ScanError, AfterScan
  <1>5. CASE ToggleBegin BY <1>5, CamFacts DEF ToggleBegin
  <1>6. CASE StartFeed BY <1>6, CamFacts DEF StartFeed, AtStart, PauseWith
  <1>7. CASE StartFeedFails BY <1>7 DEF StartFeedFails, AtStart, ToggleReturn
  <1>8. CASE StartFeedHangs BY <1>8 DEF StartFeedHangs, AtStart
  <1>9. CASE StopFeed BY <1>9, CamFacts DEF StopFeed, AtStop, PauseWith
  <1>10. CASE StopFeedFails BY <1>10, CamFacts DEF StopFeedFails, AtStop, ToggleReturn
  <1>11. CASE ToggleSkip BY <1>11, CamFacts DEF ToggleSkip
  <1>12. CASE PauseEnd BY <1>12, CamFacts DEF PauseEnd
  <1>13. CASE ToggleDone BY <1>13 DEF ToggleDone, ToggleReturn
  <1>14. CASE WatchTicker BY <1>14 DEF WatchTicker, AtWatch
  <1>15. CASE ScanHangs BY <1>15 DEF ScanHangs
  <1>16. CASE WatchHangs BY <1>16 DEF WatchHangs, AtWatch
  <1> QED
    BY <1>1, <1>2, <1>3, <1>4, <1>5, <1>6, <1>7, <1>8, <1>9, <1>10, <1>11, <1>12,
       <1>13, <1>14, <1>15, <1>16 DEF Sup

LEMMA EnvTypeInv == ASSUME TypeInv, Env PROVE TypeInv'
  <1> USE DEF TypeInv, TypeOK, IndexOK, mainVars, envVars, feedVars, supVars, rateVars
  <1>1. CASE Start BY <1>1 DEF Start, Announced
  <1>2. CASE Shutdown BY <1>2 DEF Shutdown
  <1>3. CASE HardExit BY <1>3, ExitTypeInv DEF HardExit
  <1>4. CASE RateDecays BY <1>4 DEF RateDecays
  <1>5. ASSUME NEW c \in Cam, ChangeWant(c) PROVE TypeInv'
    BY <1>5 DEF ChangeWant
  <1>6. ASSUME NEW k \in Kinds, NEW c \in Cam, Enqueue(k, c) PROVE TypeInv'
    <2>1. Append(chan[k], c) \in Seq(Cam)
      OBVIOUS
    <2>2. chan' \in [Kinds -> Seq(Cam)]
      BY <1>6, <2>1 DEF Enqueue
    <2> QED
      BY <1>6, <2>2 DEF Enqueue
  <1> QED
    BY <1>1, <1>2, <1>3, <1>4, <1>5, <1>6 DEF Env

LEMMA StutterTypeInv == ASSUME TypeInv, UNCHANGED vars PROVE TypeInv'
  BY DEF TypeInv, TypeOK, IndexOK, vars

\* Every variable of FeedControl has its type in every reachable state.
THEOREM TypeCorrect == Spec => []TypeOK
  <1>1. TypeInv /\ [Next]_vars => TypeInv'
    BY MainTypeInv, SupTypeInv, EnvTypeInv, StutterTypeInv DEF Next
  <1>2. TypeInv => TypeOK
    BY DEF TypeInv
  <1> QED
    BY InitTypeInv, <1>1, <1>2, PTL DEF Spec

-----------------------------------------------------------------------------
(* The inductive invariant.                                                 *)

\* IInv without its types.
Core == DownIsIdle /\ LockInv /\ ReadsOpenFeed /\ NoneClosed /\ Pending /\ Progress /\ Settled

LEMMA InitCore == Init => Core
  BY CamFacts
  DEF Init, Core, DownIsIdle, LockInv, ReadsOpenFeed, NoneClosed, Pending, Progress, Settled,
      Matches, Reading, Toggling

LEMMA ExitCore == ASSUME Exit PROVE Core'
  BY CamFacts
  DEF Exit, Core, DownIsIdle, LockInv, ReadsOpenFeed, NoneClosed, Pending, Progress, Settled,
      Matches, Reading, Toggling

\* Main owns the lock while it reads, and only Detector.Close closes a capture.
LEMMA MainCore == ASSUME TypeInv, Core, Main PROVE Core'
  <1> USE DEF Core, DownIsIdle, LockInv, ReadsOpenFeed, NoneClosed, Pending, Progress, Settled,
              Matches, Reading, Toggling, envVars, feedVars, supVars, mainVars, rateVars
  <1>1. CASE Tick BY <1>1 DEF Tick
  <1>2. ASSUME NEW k \in Kinds, TakeCmd(k) PROVE Core'
    BY <1>2 DEF TakeCmd
  <1>3. CASE ReadInactive BY <1>3 DEF ReadInactive, Announced
  <1>4. CASE ReadBegin
    <2>1. mainAt \in Cam /\ capture[mainAt] = "open"
      BY <1>4 DEF ReadBegin, TypeInv, TypeOK, IndexOK
    <2> QED
      BY <1>4, <2>1 DEF ReadBegin, LockFree
  <1>5. CASE ReadOk BY <1>5 DEF ReadOk
  <1>6. CASE ReadHangs BY <1>6 DEF ReadHangs
  <1>7. CASE Finish BY <1>7 DEF Finish
  <1>8. CASE FatalError BY <1>8, ExitCore DEF FatalError
  <1>9. CASE SeeCancel BY <1>9 DEF SeeCancel
  <1>10. CASE CloseFeed BY <1>10 DEF CloseFeed
  <1>11. CASE MainExit BY <1>11, ExitCore DEF MainExit
  <1>12. CASE FinishBlocks BY <1>12 DEF FinishBlocks
  <1> QED
    BY <1>1, <1>2, <1>3, <1>4, <1>5, <1>6, <1>7, <1>8, <1>9, <1>10, <1>11, <1>12 DEF Main

\* The flags change in the scan only, the captures under the lock only, and the
\* loop of ToggleFeeds leaves the cameras behind it as their flags say.
LEMMA SupCore == ASSUME TypeInv, Core, Sup PROVE Core'
  <1> USE DEF Core, DownIsIdle, LockInv, ReadsOpenFeed, NoneClosed, Pending, Progress, Settled,
              Matches, Reading, Toggling, envVars, feedVars, supVars, mainVars, rateVars
  <1>1. CASE SupTick BY <1>1 DEF SupTick
  <1>2. CASE SupStop BY <1>2 DEF SupStop
  <1>3. CASE ScanCam
    <2>1. ~supChanged' => (~supChanged /\ active' = active)
      BY <1>3 DEF ScanCam, Changed, TypeInv, TypeOK, IndexOK
    <2>2. supPC' \in {"scan", "waiting", "watch"} /\ (supPC' = "waiting" => supChanged')
      BY <1>3 DEF ScanCam, AfterScan
    <2>3. supPC' = "watch" => ~supChanged'
      BY <1>3 DEF ScanCam, AfterScan
    <2> QED
      BY <1>3, <2>1, <2>2, <2>3 DEF ScanCam
  <1>4. CASE ScanError BY <1>4 DEF ScanError, AfterScan
  <1>5. CASE ToggleBegin BY <1>5, CamFacts DEF ToggleBegin, LockFree
  <1>6. CASE StartFeed
    <2>1. supAt \in Cam /\ active[supAt] /\ ~Reading
      BY <1>6, CamFacts DEF StartFeed, AtStart, TypeInv, TypeOK
    <2>2. \A c \in Cam : capture'[c] = IF c = supAt THEN "open" ELSE capture[c]
      BY <1>6, <2>1 DEF StartFeed, PauseWith, TypeInv, TypeOK
    <2>3. \A c \in Cam : c <= supAt => c < supAt \/ c = supAt
      BY <2>1, CamFacts
    <2> QED
      BY <1>6, <2>1, <2>2, <2>3 DEF StartFeed, AtStart, PauseWith
  <1>7. CASE StartFeedFails BY <1>7 DEF StartFeedFails, AtStart, ToggleReturn
  <1>8. CASE StartFeedHangs BY <1>8 DEF StartFeedHangs, AtStart
  <1>9. CASE StopFeed
    <2>1. supAt \in Cam /\ ~active[supAt] /\ ~Reading
      BY <1>9, CamFacts DEF StopFeed, AtStop, TypeInv, TypeOK
    <2>2. \A c \in Cam : capture'[c] = IF c = supAt THEN "nil" ELSE capture[c]
      BY <1>9, <2>1 DEF StopFeed, PauseWith, TypeInv, TypeOK
    <2>3. \A c \in Cam : c <= supAt => c < supAt \/ c = supAt
      BY <2>1, CamFacts
    <2> QED
      BY <1>9, <2>1, <2>2, <2>3 DEF StopFeed, AtStop, PauseWith
  <1>10. CASE StopFeedFails
    <2>1. supAt \in Cam /\ ~Reading
      BY <1>10, CamFacts DEF StopFeedFails, AtStop, TypeInv, TypeOK
    <2>2. \A c \in Cam : capture'[c] = IF c = supAt THEN "nil" ELSE capture[c]
      BY <1>10, <2>1 DEF StopFeedFails, TypeInv, TypeOK
    <2> QED
      BY <1>10, <2>1, <2>2 DEF StopFeedFails, AtStop, ToggleReturn
  <1>11. CASE ToggleSkip
    <2>1. supAt \in Cam
      BY <1>11, CamFacts DEF ToggleSkip, TypeInv, TypeOK
    <2>2. mainPC # "closing" => Matches(supAt)
      BY <1>11, <2>1 DEF ToggleSkip, AtStart, AtStop, TypeInv, TypeOK
    <2>3. \A c \in Cam : c < supAt + 1 => c < supAt \/ c = supAt
      BY <2>1, CamFacts
    <2> QED
      BY <1>11, <2>2, <2>3 DEF ToggleSkip
  <1>12. CASE PauseEnd
    <2>1. supAt \in Cam
      BY <1>12 DEF PauseEnd, TypeInv, IndexOK
    <2>2. \A c \in Cam : c < supAt + 1 => c <= supAt
      BY <2>1 DEF Cam
    <2> QED
      BY <1>12, <2>2 DEF PauseEnd
  <1>13. CASE ToggleDone
    <2>1. mainPC # "closing" => \A c \in Cam : Matches(c)
      BY <1>13, CamFacts DEF ToggleDone
    <2> QED
      BY <1>13, <2>1 DEF ToggleDone, ToggleReturn
  <1>14. CASE WatchTicker BY <1>14 DEF WatchTicker, AtWatch
  <1>15. CASE ScanHangs BY <1>15 DEF ScanHangs
  <1>16. CASE WatchHangs BY <1>16 DEF WatchHangs, AtWatch
  <1> QED
    BY <1>1, <1>2, <1>3, <1>4, <1>5, <1>6, <1>7, <1>8, <1>9, <1>10, <1>11, <1>12,
       <1>13, <1>14, <1>15, <1>16 DEF Sup

LEMMA EnvCore == ASSUME TypeInv, Core, Env PROVE Core'
  <1> USE DEF Core, DownIsIdle, LockInv, ReadsOpenFeed, NoneClosed, Pending, Progress, Settled,
              Matches, Reading, Toggling, envVars, feedVars, supVars, mainVars, rateVars
  <1>1. CASE Start BY <1>1 DEF Start, Announced
  <1>2. CASE Shutdown BY <1>2 DEF Shutdown
  <1>3. CASE HardExit BY <1>3, ExitCore DEF HardExit
  <1>4. CASE RateDecays BY <1>4 DEF RateDecays
  <1>5. ASSUME NEW c \in Cam, ChangeWant(c) PROVE Core'
    BY <1>5 DEF ChangeWant
  <1>6. ASSUME NEW k \in Kinds, NEW c \in Cam, Enqueue(k, c) PROVE Core'
    BY <1>6 DEF Enqueue
  <1> QED
    BY <1>1, <1>2, <1>3, <1>4, <1>5, <1>6 DEF Env

LEMMA StutterCore == ASSUME Core, UNCHANGED vars PROVE Core'
  BY DEF Core, DownIsIdle, LockInv, ReadsOpenFeed, NoneClosed, Pending, Progress, Settled, Matches,
         Reading, Toggling, vars

\* IInv holds of every reachable state, in two layers: the types, then the rest.
THEOREM IInvInvariant == Spec => []IInv
  <1>1. Init => TypeInv /\ Core
    BY InitTypeInv, InitCore
  <1>2. TypeInv /\ Core /\ [Next]_vars => (TypeInv /\ Core)'
    BY MainTypeInv, SupTypeInv, EnvTypeInv, StutterTypeInv,
       MainCore, SupCore, EnvCore, StutterCore DEF Next
  <1>3. TypeInv /\ Core => IInv
    BY DEF TypeInv, Core, IInv
  <1> QED
    BY <1>1, <1>2, <1>3, PTL DEF Spec

\* CamRead never reads a capture that is closed or being closed: main holds the
\* lock, and the capture it found stays open, for as long as Read takes.
THEOREM NeverReadsClosedFeed == Spec => []ReadsOpenFeed
  <1>1. IInv => ReadsOpenFeed
    BY DEF IInv
  <1> QED
    BY IInvInvariant, <1>1, PTL

\* Outside a mode switch, and unless the last toggle failed, the open feeds are
\* those of the flagged cameras, for every number of cameras.
THEOREM FeedsFollowFlags == Spec => []SettledFeedsFollowFlags
  <1>1. IInv => SettledFeedsFollowFlags
    BY DEF IInv, Settled, Matches, SettledFeedsFollowFlags
  <1> QED
    BY IInvInvariant, <1>1, PTL

-----------------------------------------------------------------------------
(* FeedControl implements FeedService.                                      *)

LEMMA InitImplements == Init => Service!Init
  BY DEF Init, Service!Init, Phase, Feeds, Readers, Reading, Cam, Service!Cam

\* Whatever ends the process takes the service down.
LEMMA ExitImplements == ASSUME up, Exit PROVE Service!Down
  <1>1. Phase # "down" /\ Phase' = "down"
    BY DEF Exit, Phase
  <1>2. Feeds' = {} /\ Readers' = {}
    BY DEF Exit, Feeds, Readers, Reading
  <1> QED
    BY <1>1, <1>2 DEF Exit, Service!Down, Cam, Service!Cam

\* A step that changes neither the flags nor the captures, nor begins or ends a
\* read or the process, is a stutter.
LEMMA Stutters ==
  ASSUME UNCHANGED <<active, capture, Phase, Readers>> PROVE UNCHANGED Service!vars
  BY DEF Service!vars, Feeds

\* The value of one capture changes under no reader.
LEMMA FeedChange ==
  ASSUME TypeInv, NEW c \in Cam, NEW v \in {"nil", "open", "closed"}, up,
         capture' = [capture EXCEPT ![c] = v],
         UNCHANGED <<active, Phase, Readers>>, c \notin Readers,
         v = "open" => active[c],
         v # "open" => ~active[c] \/ Phase = "closing"
  PROVE  Service!Next \/ UNCHANGED Service!vars
  <1>1. Phase # "down"
    BY DEF Phase
  <1>2. c \in Service!Cam
    BY DEF Cam, Service!Cam
  <1>3. CASE v = "open"
    <2>1. Feeds' = Feeds \cup {c}
      BY <1>3 DEF Feeds, TypeInv, TypeOK
    <2>2. CASE c \in Feeds
      <3>1. Feeds' = Feeds
        BY <2>1, <2>2
      <3> QED
        BY <3>1 DEF Service!vars
    <2>3. CASE c \notin Feeds
      BY <1>1, <1>2, <1>3, <2>1, <2>3 DEF Service!Next, Service!Open
    <2> QED
      BY <2>2, <2>3
  <1>4. CASE v # "open"
    <2>1. Feeds' = Feeds \ {c}
      BY <1>4 DEF Feeds, TypeInv, TypeOK
    <2>2. CASE c \notin Feeds
      <3>1. Feeds' = Feeds
        BY <2>1, <2>2
      <3> QED
        BY <3>1 DEF Service!vars
    <2>3. CASE c \in Feeds
      BY <1>1, <1>2, <1>4, <2>1, <2>3 DEF Service!Next, Service!Release
    <2> QED
      BY <2>2, <2>3
  <1> QED
    BY <1>3, <1>4

LEMMA MainImplements ==
  ASSUME TypeInv, Core, Main PROVE Service!Next \/ UNCHANGED Service!vars
  <1> USE DEF envVars, feedVars, supVars, mainVars, rateVars
  <1>1. CASE Tick
    BY <1>1, Stutters DEF Tick, Phase, Readers, Reading
  <1>2. ASSUME NEW k \in Kinds, TakeCmd(k) PROVE UNCHANGED Service!vars
    BY <1>2, Stutters DEF TakeCmd, Phase, Readers, Reading
  <1>3. CASE ReadInactive
    BY <1>3, Stutters DEF ReadInactive, Announced, Phase, Readers, Reading
  <1>4. CASE ReadBegin
    <2>1. mainAt \in Cam /\ capture[mainAt] = "open"
      BY <1>4 DEF ReadBegin, TypeInv, TypeOK, IndexOK, Core, NoneClosed
    <2>2. Readers = {} /\ Readers' = {mainAt} /\ Feeds' = Feeds /\ mainAt \in Feeds
      BY <1>4, <2>1 DEF ReadBegin, Readers, Reading, Feeds
    <2>3. Phase = "up" /\ Phase' = "up"
      BY <1>4 DEF ReadBegin, Phase
    <2>4. Service!BeginRead(mainAt)
      BY <1>4, <2>2, <2>3 DEF ReadBegin, Service!BeginRead
    <2> QED
      BY <2>1, <2>4 DEF Service!Next, Cam, Service!Cam
  <1>5. CASE ReadOk
    <2>1. Readers # {} /\ Readers' = {} /\ Feeds' = Feeds /\ Phase' = Phase
      BY <1>5 DEF ReadOk, Readers, Reading, Feeds, Phase
    <2>2. Service!EndRead
      BY <1>5, <2>1 DEF ReadOk, Service!EndRead
    <2> QED
      BY <2>2 DEF Service!Next
  <1>6. CASE ReadHangs
    BY <1>6, Stutters DEF ReadHangs, Phase, Readers, Reading
  <1>7. CASE Finish
    BY <1>7, Stutters DEF Finish, Phase, Readers, Reading
  <1>8. CASE FatalError
    BY <1>8, ExitImplements DEF FatalError, Service!Next
  <1>9. CASE SeeCancel
    <2>1. Readers = {} /\ Readers' = {} /\ Feeds' = Feeds
      BY <1>9 DEF SeeCancel, Readers, Reading, Feeds
    <2>2. Phase = "up" /\ Phase' = "closing"
      BY <1>9 DEF SeeCancel, Phase
    <2>3. Service!Close
      BY <1>9, <2>1, <2>2 DEF SeeCancel, Service!Close
    <2> QED
      BY <2>3 DEF Service!Next
  <1>10. CASE CloseFeed
    <2>1. mainAt \in Cam
      BY <1>10, CamFacts DEF CloseFeed, MoreToClose, TypeInv, TypeOK
    <2>2. PICK v \in {"nil", "closed"} : capture' = [capture EXCEPT ![mainAt] = v]
      BY <1>10, <2>1 DEF CloseFeed, TypeInv, TypeOK
    <2>3. Readers = {} /\ UNCHANGED <<up, active, Phase, Readers>> /\ Phase = "closing" /\ up
      BY <1>10 DEF CloseFeed, Readers, Reading, Phase
    <2> QED
      BY <2>1, <2>2, <2>3, FeedChange
  <1>11. CASE MainExit
    BY <1>11, ExitImplements DEF MainExit, Service!Next
  <1>12. CASE FinishBlocks
    BY <1>12, Stutters DEF FinishBlocks, Phase, Readers, Reading
  <1> QED
    BY <1>1, <1>2, <1>3, <1>4, <1>5, <1>6, <1>7, <1>8, <1>9, <1>10, <1>11, <1>12 DEF Main

LEMMA SupImplements ==
  ASSUME TypeInv, Core, Sup PROVE Service!Next \/ UNCHANGED Service!vars
  <1> USE DEF envVars, feedVars, supVars, mainVars, rateVars
  <1>1. CASE SupTick
    BY <1>1, Stutters DEF SupTick, Phase, Readers, Reading
  <1>2. CASE SupStop
    BY <1>2, Stutters DEF SupStop, Phase, Readers, Reading
  <1>3. CASE ScanCam \/ ScanHangs
    <2>1. supAt \in Cam /\ UNCHANGED <<Phase, Feeds, Readers>> /\ Phase # "down"
      BY <1>3 DEF ScanCam, ScanHangs, TypeInv, IndexOK, Phase, Feeds, Readers, Reading
    <2>2. CASE want[supAt] = active[supAt]
      <3>1. active' = active
        BY <1>3, <2>1, <2>2 DEF ScanCam, ScanHangs, TypeInv, TypeOK
      <3> QED
        BY <2>1, <3>1 DEF Service!vars
    <2>3. CASE want[supAt] # active[supAt]
      <3>1. want[supAt] = ~active[supAt]
        BY <2>1, <2>3 DEF TypeInv, TypeOK
      <3>2. Service!SetFlag(supAt)
        BY <1>3, <2>1, <3>1 DEF ScanCam, ScanHangs, Service!SetFlag
      <3> QED
        BY <2>1, <3>2 DEF Service!Next, Cam, Service!Cam
    <2> QED
      BY <2>2, <2>3
  <1>4. CASE ScanError
    BY <1>4, Stutters DEF ScanError, Phase, Readers, Reading
  <1>5. CASE ToggleBegin
    BY <1>5, Stutters DEF ToggleBegin, Phase, Readers, Reading
  <1>6. CASE StartFeed
    <2>1. supAt \in Cam /\ active[supAt] /\ up /\ Readers = {}
      BY <1>6, CamFacts
      DEF StartFeed, AtStart, TypeInv, TypeOK, Core, LockInv, Toggling, Readers, Reading
    <2>2. capture' = [capture EXCEPT ![supAt] = "open"] /\ UNCHANGED <<active, Phase, Readers>>
      BY <1>6 DEF StartFeed, PauseWith, Phase, Readers, Reading
    <2> QED
      BY <2>1, <2>2, FeedChange
  <1>7. CASE StartFeedFails
    BY <1>7, Stutters DEF StartFeedFails, AtStart, ToggleReturn, Phase, Readers, Reading
  <1>8. CASE StartFeedHangs
    BY <1>8, Stutters DEF StartFeedHangs, AtStart, Phase, Readers, Reading
  <1>9. CASE StopFeed \/ StopFeedFails
    <2>1. supAt \in Cam /\ ~active[supAt] /\ up /\ Readers = {}
      BY <1>9, CamFacts
      DEF StopFeed, StopFeedFails, AtStop, TypeInv, TypeOK, Core, LockInv, Toggling, Readers,
          Reading
    <2>2. capture' = [capture EXCEPT ![supAt] = "nil"] /\ UNCHANGED <<active, Phase, Readers>>
      BY <1>9 DEF StopFeed, StopFeedFails, PauseWith, ToggleReturn, Phase, Readers, Reading
    <2> QED
      BY <2>1, <2>2, FeedChange
  <1>10. CASE ToggleSkip
    BY <1>10, Stutters DEF ToggleSkip, Phase, Readers, Reading
  <1>11. CASE PauseEnd
    BY <1>11, Stutters DEF PauseEnd, Phase, Readers, Reading
  <1>12. CASE ToggleDone
    BY <1>12, Stutters DEF ToggleDone, ToggleReturn, Phase, Readers, Reading
  <1>13. CASE WatchTicker
    BY <1>13, Stutters DEF WatchTicker, AtWatch, Phase, Readers, Reading
  <1>14. CASE WatchHangs
    BY <1>14, Stutters DEF WatchHangs, AtWatch, Phase, Readers, Reading
  <1> QED
    BY <1>1, <1>2, <1>3, <1>4, <1>5, <1>6, <1>7, <1>8, <1>9, <1>10, <1>11, <1>12,
       <1>13, <1>14 DEF Sup

LEMMA EnvImplements ==
  ASSUME TypeInv, Core, Env PROVE Service!Next \/ UNCHANGED Service!vars
  <1> USE DEF envVars, feedVars, supVars, mainVars, rateVars
  <1>1. CASE Start
    <2>1. Phase = "down" /\ Phase' = "up" /\ UNCHANGED <<active, Feeds, Readers>>
      BY <1>1 DEF Start, Announced, Phase, Feeds, Readers, Reading, Core, DownIsIdle
    <2>2. Service!Start
      BY <2>1 DEF Service!Start
    <2> QED
      BY <2>2 DEF Service!Next
  <1>2. CASE Shutdown
    BY <1>2, Stutters DEF Shutdown, Phase, Readers, Reading
  <1>3. CASE HardExit
    BY <1>3, ExitImplements DEF HardExit, Service!Next
  <1>4. CASE RateDecays
    BY <1>4, Stutters DEF RateDecays, Phase, Readers, Reading
  <1>5. ASSUME NEW c \in Cam, ChangeWant(c) PROVE UNCHANGED Service!vars
    BY <1>5, Stutters DEF ChangeWant, Phase, Readers, Reading
  <1>6. ASSUME NEW k \in Kinds, NEW c \in Cam, Enqueue(k, c) PROVE UNCHANGED Service!vars
    BY <1>6, Stutters DEF Enqueue, Phase, Readers, Reading
  <1> QED
    BY <1>1, <1>2, <1>3, <1>4, <1>5, <1>6 DEF Env

\* The supervisor, the main loop and the shutdown, with their lock and their
\* loops, provide what FeedService promises: a feed opens only for a flagged
\* camera, is released only when the flag is off or at shutdown, and never
\* while it is being read.
THEOREM FeedControlImplementsService == Spec => ImplementsFeedService
  <1>1. TypeInv /\ Core /\ [Next]_vars => [Service!Next]_(Service!vars)
    <2>1. UNCHANGED vars => UNCHANGED Service!vars
      BY DEF vars, Service!vars, Phase, Feeds, Readers, Reading
    <2> QED
      BY <2>1, MainImplements, SupImplements, EnvImplements DEF Next
  <1>2. IInv => TypeInv /\ Core
    BY DEF IInv, TypeInv, Core
  <1> QED
    BY InitImplements, IInvInvariant, <1>1, <1>2, PTL
    DEF Spec, ImplementsFeedService, Service!Spec

=============================================================================
