---------------------------- MODULE AlarmProofs -----------------------------
(***************************************************************************)
(* Proofs about Alarm for every number of cameras, any of them controlled, *)
(* any number of messages and of callbacks.                                *)
(***************************************************************************)
EXTENDS Alarm, FiniteSetTheorems, TLAPS

Typed ==
    /\ posted \in Seq(Kind) /\ Len(posted) <= MaxMsgs
    /\ subscribed \in BOOLEAN /\ up \in BOOLEAN /\ cancelled \in BOOLEAN
    /\ kept \subseteq DOMAIN posted /\ acked \subseteq DOMAIN posted
    /\ done \subseteq DOMAIN posted
    /\ receiver \in {"receive", "closing", "delete", "done"}
    /\ callback \in [Msg -> {"none", "send", "ack"}]
    /\ \A m \in Msg : callback[m] # "none" => m \in DOMAIN posted
    /\ handler \in {"select", "loop", "hung", "stopped"}
    /\ hand \in {0} \cup DOMAIN posted
    /\ handler = "loop" => hand # 0
    /\ todo \subseteq Controlled
    /\ mode \in [Cam -> Mode] /\ told \in [Cam -> Mode] /\ missed \subseteq Cam

\* A callback that is past the channel has left its message in the hand, or it
\* was handled since.
HandedOver ==
    \A m \in Msg : callback[m] = "ack" /\ posted[m] # "garbled" => m \in done \cup {hand}

\* HandleMessages holds a message, and cameras to set, only inside the loop.
EmptyHand == handler \in {"select", "stopped"} => hand = 0 /\ todo = {}

\* A camera that is not as it was told missed it, or its turn is still to come.
TurnsToCome == \A c \in Cam : mode[c] = told[c] \/ c \in missed \/ c \in todo

\* While Receive runs there may be callbacks, and afterwards there are none.
Quiet == receiver \in {"delete", "done"} => \A m \in Msg : callback[m] = "none"

Slots == Cardinality(Running) <= MaxOutstanding

\* Cameras wait for their turn at an alarm only.
AtAlarm == todo # {} => hand \in AlarmMsgs

Core == Typed /\ HandedOver /\ AckedIsInHand /\ EmptyHand /\ TurnsToCome /\ Quiet

Inv == Core /\ AtAlarm

-----------------------------------------------------------------------------

LEMMA MsgsArePosted == ASSUME Typed PROVE DOMAIN posted \subseteq Msg /\ DOMAIN posted = 1 .. Len(posted) /\ Len(posted) \in Nat
  BY BoundAssumption DEF Typed, Msg

LEMMA InitInv == Init => Inv
  <1> SUFFICES ASSUME Init PROVE Inv
    OBVIOUS
  <1>1. posted \in Seq(Kind) /\ Len(posted) = 0 /\ DOMAIN posted = {}
    BY DEF Init
  <1>2. Typed
    <2>1. Len(posted) <= MaxMsgs
      BY <1>1, BoundAssumption
    <2>2. mode \in [Cam -> Mode] /\ told \in [Cam -> Mode] /\ callback \in [Msg -> {"none", "send", "ack"}]
      BY DEF Init, Mode
    <2>3. todo = {} /\ missed = {} /\ \A m \in Msg : callback[m] = "none"
      BY DEF Init
    <2> QED BY <1>1, <2>1, <2>2, <2>3 DEF Init, Typed
  <1> QED
    BY <1>2 DEF Inv, Core, AtAlarm, Init, HandedOver, AckedIsInHand, EmptyHand, TurnsToCome, Quiet

\* At an alarm handleMessage sets the mode that is meant.
LEMMA MeantAtAlarm == \A m \in AlarmMsgs : Meant(m) = ModeFor(m)
  BY DEF Meant, ModeFor, AlarmMsgs, IsAlarm

LEMMA StepCore == ASSUME Inv, [Next]_vars PROVE Core'
  <1>0. Typed /\ HandedOver /\ AckedIsInHand /\ EmptyHand /\ TurnsToCome /\ Quiet
    BY DEF Inv, Core
  <1> USE DEF service, process, handling, modes, past
  <1>1. CASE Start
    BY <1>0, <1>1 DEF Core, Start, Typed, HandedOver, AckedIsInHand, EmptyHand, TurnsToCome, Quiet
  <1>2. CASE Exit
    <2>1. Typed'
      BY <1>0, <1>2, ControlAssumption DEF Exit, Typed
    <2> QED
      BY <1>0, <1>2, <2>1 DEF Core, Exit, HandedOver, AckedIsInHand, EmptyHand, TurnsToCome, Quiet
  <1>3. CASE EndAfterCancel \/ Crash
    BY <1>2, <1>3 DEF EndAfterCancel, Crash
  <1>4. CASE Shutdown
    BY <1>0, <1>4 DEF Core, Shutdown, Typed, HandedOver, AckedIsInHand, EmptyHand, TurnsToCome, Quiet
  <1>5. CASE StopPulling
    BY <1>0, <1>5 DEF Core, StopPulling, Typed, HandedOver, AckedIsInHand, EmptyHand, TurnsToCome, Quiet
  <1>6. CASE ReceiveReturns
    BY <1>0, <1>6 DEF Core, ReceiveReturns, Running, Typed, HandedOver, AckedIsInHand, EmptyHand,
                      TurnsToCome, Quiet
  <1>7. CASE DeleteSub
    BY <1>0, <1>7 DEF Core, DeleteSub, Typed, HandedOver, AckedIsInHand, EmptyHand, TurnsToCome, Quiet
  <1>8. CASE HandlerStops
    BY <1>0, <1>8 DEF Core, HandlerStops, Typed, HandedOver, AckedIsInHand, EmptyHand, TurnsToCome, Quiet
  <1>9. ASSUME NEW kind \in Kind, Publish(kind) PROVE Core'
    <2>1. /\ posted' \in Seq(Kind) /\ Len(posted') = Len(posted) + 1 /\ Len(posted) \in Nat
          /\ DOMAIN posted \subseteq DOMAIN posted' /\ Len(posted) + 1 \in DOMAIN posted'
          /\ \A m \in DOMAIN posted : posted'[m] = posted[m]
      BY <1>0, <1>9 DEF Publish, Typed
    <2>2. Typed'
      BY <1>0, <1>9, <2>1, BoundAssumption DEF Publish, Typed
    <2>3. HandedOver'
      BY <1>0, <1>9, <2>1 DEF Publish, HandedOver, Typed
    <2> QED
      BY <1>0, <1>9, <2>2, <2>3 DEF Core, Publish, AckedIsInHand, EmptyHand, TurnsToCome, Quiet
  <1>10. ASSUME NEW m \in Msg, Deliver(m) PROVE Core'
    <2>1. callback' = [callback EXCEPT ![m] = Decoded(m)]
          /\ Decoded(m) \in {"none", "send", "ack"} /\ (Decoded(m) = "ack" => posted[m] = "garbled")
      BY <1>10 DEF Deliver, Decoded
    <2>2. Typed'
      BY <1>0, <1>10, <2>1 DEF Deliver, Typed
    <2>3. HandedOver'
      BY <1>0, <1>10, <2>1 DEF Deliver, HandedOver, Typed
    <2> QED
      BY <1>0, <1>10, <2>2, <2>3 DEF Core, Deliver, AckedIsInHand, EmptyHand, TurnsToCome, Quiet
  <1>11. ASSUME NEW m \in Msg, Ack(m) PROVE Core'
    <2>1. m \in DOMAIN posted /\ callback[m] = "ack" /\ callback' = [callback EXCEPT ![m] = "none"]
      BY <1>0, <1>11 DEF Ack, Typed
    <2>2. Typed'
      BY <1>0, <1>11, <2>1 DEF Ack, Typed
    <2>3. HandedOver' /\ Quiet'
      BY <1>0, <1>11, <2>1 DEF Ack, HandedOver, Typed, Quiet
    <2>4. AckedIsInHand'
      BY <1>0, <1>11, <2>1 DEF Ack, HandedOver, AckedIsInHand
    <2> QED
      BY <1>0, <1>11, <2>2, <2>3, <2>4 DEF Core, Ack, EmptyHand, TurnsToCome
  <1>12. ASSUME NEW m \in Msg, HandOver(m) PROVE Core'
    <2>1. m \in DOMAIN posted /\ m # 0 /\ callback' = [callback EXCEPT ![m] = "ack"]
          /\ hand = 0 /\ hand' = m /\ handler = "select" /\ handler' = "loop" /\ todo = {}
      BY <1>0, <1>12 DEF HandOver, Typed, EmptyHand, Msg
    <2>2. todo' \subseteq Controlled /\ told' \in [Cam -> Mode] /\ missed' \subseteq Cam
      BY <1>0, <1>12 DEF HandOver, Addressed, Meant, Mode, Typed
    <2>3. Typed'
      BY <1>0, <1>12, <2>1, <2>2 DEF HandOver, Typed
    <2>4. HandedOver' /\ Quiet'
      <3>1. \A k \in Msg : callback[k] = "ack" /\ posted[k] # "garbled" => k \in done
        BY <1>0, <2>1 DEF HandedOver, Msg
      <3> QED BY <1>0, <1>12, <2>1, <3>1 DEF HandOver, HandedOver, Typed, Quiet
    <2>5. AckedIsInHand'
      <3>1. acked \ done \subseteq {}
        <4>1. 0 \notin DOMAIN posted
          BY <1>0, MsgsArePosted
        <4> QED BY <1>0, <2>1, <4>1 DEF AckedIsInHand, Typed
      <3> QED BY <1>12, <3>1 DEF HandOver, AckedIsInHand
    <2>6. TurnsToCome'
      BY <1>0, <1>12, <2>1 DEF HandOver, Addressed, TurnsToCome, Typed
    <2> QED BY <2>1, <2>3, <2>4, <2>5, <2>6 DEF Core, EmptyHand
  <1>13. ASSUME NEW c \in Cam, SetMode(c) PROVE Core'
    <2>1. c \in Controlled /\ c \in todo /\ ModeFor(hand) \in Mode /\ handler = "loop" /\ handler' \in {"loop", "hung"}
      BY <1>0, <1>13 DEF SetMode, InLoop, Typed, ModeFor, Mode
    <2>2. Typed'
      BY <1>0, <1>13, <2>1, MeantAtAlarm DEF SetMode, Inv, AtAlarm, Typed
    <2>3. TurnsToCome'
      BY <1>0, <1>13, <2>1, MeantAtAlarm DEF SetMode, Inv, AtAlarm, TurnsToCome, Typed
    <2> QED
      BY <1>0, <1>13, <2>1, <2>2, <2>3 DEF Core, SetMode, HandedOver, AckedIsInHand, EmptyHand, Quiet
  <1>14. ASSUME NEW c \in Cam, SetModeFails(c) PROVE Core'
    BY <1>0, <1>14 DEF Core, SetModeFails, InLoop, Typed, HandedOver, AckedIsInHand, EmptyHand,
                       TurnsToCome, Quiet
  <1>15. CASE Handled
    <2>1. hand \in DOMAIN posted /\ hand' = 0 /\ todo = {}
      BY <1>0, <1>15 DEF Handled, Typed
    <2>2. Typed'
      BY <1>0, <1>15, <2>1 DEF Handled, Typed
    <2> QED
      BY <1>0, <1>15, <2>1, <2>2 DEF Core, Handled, HandedOver, AckedIsInHand, EmptyHand, TurnsToCome, Quiet
  <1>16. ASSUME NEW c \in Cam, NEW m \in Mode, TelegramSets(c, m) PROVE Core'
    <2>1. Typed'
      BY <1>0, <1>16 DEF TelegramSets, Typed
    <2>2. TurnsToCome'
      BY <1>0, <1>16 DEF TelegramSets, TurnsToCome, Typed
    <2> QED
      BY <1>0, <1>16, <2>1, <2>2 DEF Core, TelegramSets, HandedOver, AckedIsInHand, EmptyHand, Quiet
  <1>17. CASE UNCHANGED vars
    BY <1>0, <1>17 DEF Core, vars, Typed, HandedOver, AckedIsInHand, EmptyHand, TurnsToCome, Quiet
  <1> QED
    BY <1>1, <1>3, <1>4, <1>5, <1>6, <1>7, <1>8, <1>9, <1>10, <1>11, <1>12, <1>13, <1>14, <1>15,
       <1>16, <1>17 DEF Next, Receiver, Handler

LEMMA StepAtAlarm == ASSUME Inv, [Next]_vars PROVE AtAlarm'
  <1>0. Typed /\ EmptyHand /\ AtAlarm
    BY DEF Inv, Core
  <1> USE DEF service, process, handling, modes, past, AtAlarm, AlarmMsgs, IsAlarm
  <1>1. CASE \E kind \in Kind : Publish(kind)
    <2>1. \A m \in DOMAIN posted : m \in DOMAIN posted' /\ posted'[m] = posted[m]
      BY <1>0, <1>1 DEF Publish, Typed
    <2> QED BY <1>0, <1>1, <2>1 DEF Publish
  <1>2. ASSUME NEW m \in Msg, HandOver(m) PROVE AtAlarm'
    <2>1. m \in DOMAIN posted
      BY <1>0, <1>2 DEF HandOver, Typed
    <2> QED BY <1>0, <1>2, <2>1 DEF HandOver, Addressed
  <1>3. CASE Handler
    BY <1>0, <1>3 DEF Handler, Handled, SetMode, SetModeFails
  <1>4. CASE \/ Start \/ Shutdown \/ EndAfterCancel \/ Crash \/ StopPulling \/ Receiver \/ HandlerStops
             \/ \E m \in Msg : Deliver(m) \/ Ack(m)
             \/ \E c \in Cam, m \in Mode : TelegramSets(c, m)
             \/ UNCHANGED vars
    BY <1>0, <1>4 DEF Start, Shutdown, EndAfterCancel, Crash, Exit, StopPulling, Receiver, ReceiveReturns,
                      DeleteSub, HandlerStops, Deliver, Ack, TelegramSets, vars
  <1> QED BY <1>1, <1>2, <1>3, <1>4 DEF Next

LEMMA StepInv == ASSUME Inv, [Next]_vars PROVE Inv'
  BY StepCore, StepAtAlarm DEF Inv

\* Callbacks are counted: one more only where there is a slot.
LEMMA SlotsStep ==
  ASSUME Typed, Typed', Cardinality(Running) <= MaxOutstanding, [Next]_vars
  PROVE  Cardinality(Running)' <= MaxOutstanding
  <1>1. IsFiniteSet(Msg)
    BY BoundAssumption, FS_Interval DEF Msg
  <1>2. IsFiniteSet(Running) /\ Cardinality(Running) \in Nat
    BY <1>1, FS_Subset, FS_CardinalityType DEF Running
  <1>3. CASE Running' \subseteq Running
    <2>1. Cardinality(Running') <= Cardinality(Running) /\ Cardinality(Running') \in Nat
      BY <1>2, <1>3, FS_Subset, FS_CardinalityType
    <2> QED BY <1>2, <2>1, BoundAssumption
  <1>4. ASSUME NEW m \in Msg, Deliver(m) PROVE Cardinality(Running)' <= MaxOutstanding
    <2>1. Running' \subseteq Running \cup {m} /\ SlotFree
      BY <1>4 DEF Deliver, Running, Typed
    <2>2. IsFiniteSet(Running \cup {m}) /\ Cardinality(Running \cup {m}) <= Cardinality(Running) + 1
          /\ Cardinality(Running \cup {m}) \in Nat
      BY <1>2, FS_AddElement, FS_CardinalityType
    <2>3. Cardinality(Running') <= Cardinality(Running \cup {m}) /\ Cardinality(Running') \in Nat
      BY <2>1, <2>2, FS_Subset, FS_CardinalityType
    <2> QED BY <1>2, <2>1, <2>2, <2>3, BoundAssumption DEF SlotFree
  <1>5. (\A m \in Msg : ~Deliver(m)) => Running' \subseteq Running
    BY DEF Next, vars, Start, Exit, EndAfterCancel, Crash, Shutdown, StopPulling, Receiver,
           ReceiveReturns, DeleteSub, Handler, SetMode, SetModeFails, Handled, HandlerStops,
           Publish, HandOver, Ack, TelegramSets, Running, Typed
  <1> QED BY <1>3, <1>4, <1>5

\* The types, and that no more callbacks run than MaxOutstandingMessages, for any
\* number of messages delivered, lost and delivered again.
THEOREM TypeCorrect == Spec => []TypeOK
  <1>1. Init => Slots
    <2> SUFFICES ASSUME Init PROVE Slots
      OBVIOUS
    <2>1. Running = {}
      BY DEF Init, Running
    <2> QED BY <2>1, FS_EmptySet, BoundAssumption DEF Slots
  <1>2. Inv /\ Slots /\ [Next]_vars
            => Inv' /\ Slots'
    BY StepInv, SlotsStep DEF Inv, Core, Slots
  <1>3. Inv /\ Slots => TypeOK
    BY DEF Inv, Core, Typed, Slots, TypeOK
  <1> QED
    BY InitInv, <1>1, <1>2, <1>3, PTL DEF Spec

\* RunListener's early acknowledgement puts no more than one message at stake, for
\* any number of callbacks side by side: what is acknowledged was handled to the
\* end or is in the hand, because the channel is unbuffered (HandedOver).
THEOREM OneAtStake == Spec => []AckedIsInHand
  <1>1. Inv => AckedIsInHand
    BY DEF Inv, Core
  <1> QED
    BY InitInv, StepInv, <1>1, PTL DEF Spec

\* Between messages every camera is as it was last told to be or has missed it, for
\* any set of controlled cameras: handleMessage leaves none out (TurnsToCome).
THEOREM ModesFollow == Spec => []ModesAsTold
  <1>1. Inv => ModesAsTold
    BY DEF Inv, Core, EmptyHand, TurnsToCome, ModesAsTold
  <1> QED
    BY InitInv, StepInv, <1>1, PTL DEF Spec

\* MessengerListen deletes the subscription under no callback.
THEOREM DeletionIsQuiet == Spec => DeletionDropsNoneInHand
  <1>1. Inv /\ [Next]_vars
            => [subscribed /\ ~subscribed' => \A m \in kept : callback[m] = "none"]_vars
    <2> SUFFICES ASSUME Inv, Next, subscribed, ~subscribed', NEW m \in kept
                 PROVE  callback[m] = "none"
      OBVIOUS
    <2>1. receiver = "delete"
      BY DEF Next, Start, Exit, EndAfterCancel, Crash, Shutdown, StopPulling, Receiver, ReceiveReturns,
             DeleteSub, Handler, SetMode, SetModeFails, Handled, HandlerStops, Publish,
             Deliver, HandOver, Ack, TelegramSets, service
    <2>2. m \in Msg
      BY MsgsArePosted DEF Inv, Core, Typed
    <2> QED BY <2>1, <2>2 DEF Inv, Core, Quiet
  <1> QED
    BY InitInv, StepInv, <1>1, PTL DEF Spec, DeletionDropsNoneInHand

-----------------------------------------------------------------------------
(* The promise of House.                                                    *)

\* What waits on the channel is kept, since nobody has acknowledged it, and only an
\* orderly end deletes the subscription.
Safe ==
    /\ \A m \in Msg : callback[m] = "send" => m \in kept
    /\ receiver = "delete" => cancelled

LEMMA InitSafe == Init => Safe
  BY DEF Init, Safe

LEMMA StepSafe == ASSUME Inv, Safe, [Next]_vars PROVE Safe'
  <1>0. Typed /\ Quiet
    BY DEF Inv, Core
  <1> USE DEF service, process, handling, modes, past, Safe
  <1>1. CASE Start \/ Exit \/ EndAfterCancel \/ Crash \/ Shutdown \/ StopPulling \/ ReceiveReturns
    BY <1>1 DEF Start, Exit, EndAfterCancel, Crash, Shutdown, StopPulling, ReceiveReturns
  <1>2. CASE DeleteSub
    BY <1>0, <1>2 DEF DeleteSub, Quiet
  <1>3. CASE Handler \/ HandlerStops
    BY <1>3 DEF Handler, Handled, SetMode, SetModeFails, HandlerStops
  <1>4. ASSUME NEW kind \in Kind, Publish(kind) PROVE Safe'
    BY <1>4 DEF Publish
  <1>5. ASSUME NEW m \in Msg, Deliver(m) PROVE Safe'
    BY <1>0, <1>5 DEF Deliver, Typed
  <1>6. ASSUME NEW m \in Msg, Ack(m) PROVE Safe'
    BY <1>0, <1>6 DEF Ack, Typed
  <1>7. ASSUME NEW m \in Msg, HandOver(m) PROVE Safe'
    BY <1>0, <1>7 DEF HandOver, Typed
  <1>8. ASSUME NEW c \in Cam, NEW m \in Mode, TelegramSets(c, m) PROVE Safe'
    BY <1>8 DEF TelegramSets
  <1>9. CASE UNCHANGED vars
    BY <1>9 DEF vars
  <1> QED
    BY <1>1, <1>2, <1>3, <1>4, <1>5, <1>6, <1>7, <1>8, <1>9 DEF Next, Receiver

\* Steps no camera sees.
LEMMA Unseen ==
  ASSUME UNCHANGED <<posted, up, cancelled>>,
         \A c \in Controlled : Due(c)' = Due(c) /\ Tried(c)' = Tried(c)
  PROVE  UNCHANGED Promise!vars
  BY DEF Promise!vars

\* What House sees of a state.
LEMMA SameView ==
  ASSUME UNCHANGED <<posted, kept, callback, done, hand, todo>>
  PROVE  \A c \in Controlled : Due(c)' = Due(c) /\ Tried(c)' = Tried(c)
  BY DEF Due, Tried, AlarmMsgs, IsAlarm

LEMMA InitHouse == Init => Promise!Init
  <1> SUFFICES ASSUME Init PROVE Promise!Init
    OBVIOUS
  <1>1. AlarmMsgs = {}
    <2>1. DOMAIN <<>> = {}
      OBVIOUS
    <2> QED BY <2>1 DEF Init, AlarmMsgs
  <1>2. \A c \in Controlled : Due(c) = {} /\ Tried(c) = {}
    BY <1>1 DEF Due, Tried
  <1> QED BY <1>2 DEF Init, Promise!Init

\* A message that finds a subscription is due to everybody, if it is an alarm.
LEMMA PublishHouse ==
  ASSUME Typed, NEW kind \in Kind, Publish(kind)
  PROVE  Promise!Publish
  <1> DEFINE n == Len(posted) + 1
  <1>1. /\ posted' = Append(posted, kind) /\ n \in Nat
        /\ DOMAIN posted' = DOMAIN posted \cup {n} /\ n \notin DOMAIN posted
        /\ \A m \in DOMAIN posted : posted'[m] = posted[m]
        /\ posted'[n] = kind
    BY DEF Publish, Typed
  <1>2. /\ UNCHANGED <<up, cancelled, callback, hand, todo, done>>
        /\ kept' = IF subscribed THEN kept \cup {n} ELSE kept
    BY DEF Publish, process, handling, modes, past
  <1>3. n \in Msg /\ callback[n] # "send" /\ n # hand /\ n \notin done /\ n \notin kept
    <2>1. n \in Msg
      BY <1>1, BoundAssumption DEF Publish, Msg
    <2> QED BY <1>1, <2>1 DEF Typed
  <1>4. \A c \in Controlled : Tried(c)' = Tried(c)
    BY <1>1, <1>2, <1>3 DEF Tried, AlarmMsgs, IsAlarm
  <1>5. CASE subscribed /\ kind \in {"opening", "close"}
    <2>1. \A c \in Controlled : Due(c)' = Due(c) \cup {n}
      BY <1>1, <1>2, <1>3, <1>5 DEF Due, AlarmMsgs, IsAlarm
    <2> QED BY <1>1, <1>2, <1>4, <2>1 DEF Promise!Publish
  <1>6. CASE ~(subscribed /\ kind \in {"opening", "close"})
    <2>1. \A c \in Controlled : Due(c)' = Due(c)
      BY <1>1, <1>2, <1>3, <1>6 DEF Due, AlarmMsgs, IsAlarm
    <2> QED BY <1>1, <1>2, <1>4, <2>1 DEF Promise!Publish
  <1> QED BY <1>5, <1>6

\* The camera whose turn it is follows the message in hand, or its store fails.
LEMMA TurnHouse ==
  ASSUME Typed, AtAlarm, NEW c \in Cam, SetMode(c) \/ SetModeFails(c)
  PROVE  c \in Controlled /\ Promise!Ask(c)
  <1>1. /\ up /\ c \in todo /\ c \in Controlled /\ todo' = todo \ {c}
        /\ UNCHANGED <<posted, up, cancelled, kept, callback, hand, done>>
    BY DEF SetMode, SetModeFails, InLoop, Typed, service, process, past
  <1>2. hand \in AlarmMsgs
    BY <1>1 DEF AtAlarm
  <1>3. hand \in Due(c) /\ posted[hand] \in {"opening", "close"}
    BY <1>1, <1>2 DEF Due, AlarmMsgs, IsAlarm
  <1>4. \A d \in Controlled : Tried(d)' = IF d = c THEN Tried(c) \cup {hand} ELSE Tried(d)
    BY <1>1, <1>2 DEF Tried, AlarmMsgs, IsAlarm
  <1>5. \A d \in Controlled : d # c => Due(d)' = Due(d)
    BY <1>1 DEF Due, AlarmMsgs, IsAlarm
  <1>6. Due(c)' = Due(c) \/ Due(c)' = Due(c) \ {hand}
    BY <1>1 DEF Due, AlarmMsgs, IsAlarm
  <1> QED BY <1>1, <1>3, <1>4, <1>5, <1>6 DEF Promise!Ask

\* What is acknowledged was handled, or is past the turn of those who forget it.
LEMMA AckHouse ==
  ASSUME Typed, HandedOver, NEW m \in Msg, Ack(m)
  PROVE  Promise!Forget
  <1>1. /\ up /\ callback[m] = "ack" /\ callback' = [callback EXCEPT ![m] = "none"]
        /\ UNCHANGED <<posted, up, cancelled, hand, todo, done>>
        /\ kept' = kept \ {m} \/ kept' = kept
    BY DEF Ack, process, handling, modes
  <1>2. \A k \in AlarmMsgs : k \in Msg /\ (callback'[k] = "send" <=> callback[k] = "send")
    <2>1. AlarmMsgs \subseteq Msg
      BY MsgsArePosted DEF AlarmMsgs
    <2> QED BY <1>1, <2>1 DEF Typed
  <1>3. AlarmMsgs' = AlarmMsgs /\ \A c \in Controlled : Tried(c)' = Tried(c)
    BY <1>1 DEF Tried, AlarmMsgs, IsAlarm
  <1>4. ASSUME NEW c \in Controlled
        PROVE  Due(c)' \subseteq Due(c) /\ Due(c) \ Due(c)' \subseteq Tried(c)
    <2>1. Due(c)' \subseteq Due(c) /\ Due(c) \ Due(c)' \subseteq {m}
      BY <1>1, <1>2, <1>3 DEF Due
    <2>2. m \in Due(c) \ Due(c)' => m \in AlarmMsgs /\ ~(m = hand /\ c \in todo)
      BY <1>1, <1>3 DEF Due
    <2>3. m \in AlarmMsgs => m \in done \cup {hand}
      BY <1>1 DEF HandedOver, AlarmMsgs, IsAlarm
    <2> QED BY <2>1, <2>2, <2>3 DEF Tried
  <1> QED BY <1>1, <1>3, <1>4 DEF Promise!Forget

\* With the process ends what it has in hand, and nothing else that is not kept.
LEMMA ExitHouse ==
  ASSUME Typed, AtAlarm, Safe, Exit
  PROVE  Promise!End
  <1>1. /\ up /\ up' = FALSE /\ cancelled' = FALSE /\ hand' = 0 /\ todo' = {} /\ done' = {}
        /\ callback' = [m \in Msg |-> "none"] /\ UNCHANGED <<posted, kept>>
    BY DEF Exit, service
  <1>2. AlarmMsgs \subseteq Msg /\ 0 \notin AlarmMsgs /\ AlarmMsgs' = AlarmMsgs
    BY <1>1, MsgsArePosted DEF AlarmMsgs, IsAlarm
  <1>3. \A c \in Controlled : Tried(c)' = {}
    BY <1>1, <1>2 DEF Tried
  <1>4. \A c \in Controlled : Due(c)' = {m \in AlarmMsgs : m \in kept}
    BY <1>1, <1>2 DEF Due
  <1>5. \A c \in Controlled : Due(c) = {m \in AlarmMsgs : m \in kept \/ (m = hand /\ c \in todo)}
    BY <1>2 DEF Due, Safe
  <1>6. CASE todo = {} \/ hand \in kept
    <2>1. \A c \in Controlled : Due(c)' = Due(c)
      BY <1>4, <1>5, <1>6
    <2> QED BY <1>1, <1>3, <2>1 DEF Promise!End
  <1>7. CASE todo # {} /\ hand \notin kept
    <2>1. hand \in DOMAIN posted
      BY <1>7 DEF AtAlarm, AlarmMsgs
    <2>2. \A c \in Controlled : Due(c)' = Due(c) \ {hand}
      BY <1>4, <1>5, <1>7
    <2> QED BY <1>1, <1>3, <2>1, <2>2 DEF Promise!End
  <1> QED BY <1>6, <1>7

\* Only an orderly end deletes the subscription.
LEMMA DeleteHouse ==
  ASSUME Safe, DeleteSub
  PROVE  Promise!GiveUp
  <1>1. /\ up /\ cancelled /\ kept' \subseteq kept
        /\ UNCHANGED <<posted, up, cancelled, callback, hand, todo, done>>
    BY DEF DeleteSub, Safe, handling, modes, past
  <1>2. AlarmMsgs' = AlarmMsgs
    BY <1>1 DEF AlarmMsgs, IsAlarm
  <1>3. \A c \in Controlled : Tried(c)' = Tried(c) /\ Due(c)' \subseteq Due(c)
    BY <1>1, <1>2 DEF Tried, Due
  <1> QED BY <1>1, <1>3 DEF Promise!GiveUp

\* A message on the channel, or going from there into the hand, is due all the time.
LEMMA DeliverUnseen ==
  ASSUME Typed, NEW m \in Msg, Deliver(m) PROVE UNCHANGED Promise!vars
  <1>1. /\ m \in kept /\ UNCHANGED <<posted, up, cancelled, kept, hand, todo, done>>
        /\ \A k \in Msg : k # m => callback'[k] = callback[k]
    BY DEF Deliver, Typed, service, process, handling, modes, past
  <1>2. AlarmMsgs \subseteq Msg /\ AlarmMsgs' = AlarmMsgs
    BY <1>1, MsgsArePosted DEF AlarmMsgs, IsAlarm
  <1>3. \A c \in Controlled : Due(c)' = Due(c) /\ Tried(c)' = Tried(c)
    BY <1>1, <1>2 DEF Due, Tried
  <1> QED BY <1>1, <1>3, Unseen

LEMMA HandOverUnseen ==
  ASSUME Typed, EmptyHand, Safe, NEW m \in Msg, HandOver(m) PROVE UNCHANGED Promise!vars
  <1>1. /\ m \in kept /\ hand = 0 /\ todo = {} /\ hand' = m /\ todo' = Addressed(m)
        /\ UNCHANGED <<posted, up, cancelled, kept, done>>
        /\ \A k \in Msg : k # m => callback'[k] = callback[k]
    BY DEF HandOver, EmptyHand, Safe, Typed, service, process, past
  <1>2. AlarmMsgs \subseteq Msg /\ 0 \notin AlarmMsgs /\ AlarmMsgs' = AlarmMsgs
    BY <1>1, MsgsArePosted DEF AlarmMsgs, IsAlarm
  <1>3. m \in AlarmMsgs => todo' = Controlled
    BY <1>1 DEF Addressed, AlarmMsgs
  <1>4. \A c \in Controlled : Due(c)' = Due(c)
    BY <1>1, <1>2 DEF Due
  <1>5. \A c \in Controlled : Tried(c)' = Tried(c)
    BY <1>1, <1>2, <1>3 DEF Tried
  <1> QED BY <1>1, <1>4, <1>5, Unseen

LEMMA HandledUnseen ==
  ASSUME Typed, Handled PROVE UNCHANGED Promise!vars
  <1>1. /\ todo = {} /\ todo' = {} /\ hand' = 0 /\ done' = done \cup {hand}
        /\ UNCHANGED <<posted, up, cancelled, kept, callback>>
    BY DEF Handled, service, process, modes
  <1>2. 0 \notin AlarmMsgs /\ AlarmMsgs' = AlarmMsgs
    BY <1>1, MsgsArePosted DEF AlarmMsgs, IsAlarm
  <1>3. \A c \in Controlled : Due(c)' = Due(c) /\ Tried(c)' = Tried(c)
    BY <1>1, <1>2 DEF Due, Tried
  <1> QED BY <1>1, <1>3, Unseen

LEMMA StepHouse ==
  ASSUME Inv, Safe, [Next]_vars PROVE Promise!Next \/ UNCHANGED Promise!vars
  <1>0. Typed /\ HandedOver /\ EmptyHand /\ AtAlarm
    BY DEF Inv, Core
  <1> USE DEF service, process, handling, modes, past
  <1>1. CASE Start \/ Shutdown
    <2>1. UNCHANGED <<posted, kept, callback, done, hand, todo>>
      BY <1>1 DEF Start, Shutdown
    <2>2. \A c \in Controlled : Due(c)' = Due(c) /\ Tried(c)' = Tried(c)
      BY <2>1, SameView
    <2>3. \/ ~up /\ up' = TRUE /\ UNCHANGED cancelled
          \/ up /\ ~cancelled /\ cancelled' = TRUE /\ UNCHANGED up
      BY <1>1 DEF Start, Shutdown
    <2> QED BY <2>1, <2>2, <2>3 DEF Promise!Next, Promise!Start, Promise!Cancel
  <1>2. CASE EndAfterCancel \/ Crash
    BY <1>0, <1>2, ExitHouse DEF EndAfterCancel, Crash, Promise!Next
  <1>3. CASE StopPulling \/ ReceiveReturns \/ HandlerStops \/ UNCHANGED vars
    <2>1. UNCHANGED <<posted, up, cancelled, kept, callback, done, hand, todo>>
      BY <1>3 DEF StopPulling, ReceiveReturns, HandlerStops, vars
    <2> QED BY <2>1, SameView, Unseen
  <1>4. CASE DeleteSub
    BY <1>4, DeleteHouse DEF Promise!Next
  <1>5. CASE Handled
    BY <1>0, <1>5, HandledUnseen
  <1>6. ASSUME NEW c \in Cam, SetMode(c) \/ SetModeFails(c) PROVE Promise!Next
    BY <1>0, <1>6, TurnHouse DEF Promise!Next
  <1>7. ASSUME NEW kind \in Kind, Publish(kind) PROVE Promise!Next
    BY <1>0, <1>7, PublishHouse DEF Promise!Next
  <1>8. ASSUME NEW m \in Msg, Deliver(m) PROVE UNCHANGED Promise!vars
    BY <1>0, <1>8, DeliverUnseen
  <1>9. ASSUME NEW m \in Msg, HandOver(m) PROVE UNCHANGED Promise!vars
    BY <1>0, <1>9, HandOverUnseen
  <1>10. ASSUME NEW m \in Msg, Ack(m) PROVE Promise!Next
    BY <1>0, <1>10, AckHouse DEF Promise!Next
  <1>11. ASSUME NEW c \in Cam, NEW m \in Mode, TelegramSets(c, m) PROVE UNCHANGED Promise!vars
    <2>1. UNCHANGED <<posted, up, cancelled, kept, callback, done, hand, todo>>
      BY <1>11 DEF TelegramSets
    <2> QED BY <2>1, SameView, Unseen
  <1> QED
    BY <1>1, <1>2, <1>3, <1>4, <1>5, <1>6, <1>7, <1>8, <1>9, <1>10, <1>11
       DEF Next, Receiver, Handler

\* Callbacks, early acknowledgements and one goroutine for all messages come to what
\* House promises, for any cameras, messages and number of callbacks, and whenever the
\* process ends: no message is forgotten before every controlled camera was asked to
\* follow it, and the end costs the one in hand at most.
THEOREM AlarmImplementsHouse == Spec => HouseSpec
  <1>1. Inv /\ Safe /\ [Next]_vars => [Promise!Next]_(Promise!vars)
    BY StepHouse
  <1> QED
    BY InitInv, StepInv, InitSafe, StepSafe, InitHouse, <1>1, PTL DEF Spec, HouseSpec, Promise!Spec

=============================================================================
