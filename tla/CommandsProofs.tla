--------------------------- MODULE CommandsProofs ---------------------------
(***************************************************************************)
(* Proofs about Commands for every set of cameras, every number of updates *)
(* and queues of any capacity: types, the order in which a process runs    *)
(* the commands of a camera, and that Telegram forgets none too early.     *)
(***************************************************************************)
EXTENDS Commands, TLAPS

Typed ==
    /\ posted \in [Cams -> Seq(Kind)]
    /\ confirmed \in [Cams -> Nat] /\ offset \in [Cams -> Nat]
    /\ poll \in [Cams -> {"ask", "wait", "pass", "sleep", "hung"}]
    /\ batch \in [Cams -> Seq(Nat)] /\ ran \in [Cams -> Seq(Nat)]
    /\ queued \in [Cams -> SUBSET Nat]
    /\ up \in BOOLEAN /\ hung \in BOOLEAN /\ cancelled \in BOOLEAN
    /\ queue \in Seq(Cams \X Nat) /\ Len(queue) <= QueueCap
    /\ doing = <<>> \/ doing \in Cams \X Nat
    /\ snaps \in 0 .. SnapCap
    /\ listener \in {"select", "busy", "hung", "stopped"}
    /\ listener \in {"busy", "hung"} <=> doing # <<>>

\* Every ID anywhere is that of an update that was posted.
Known ==
    \A c \in Cams :
        /\ confirmed[c] <= Len(posted[c]) /\ offset[c] <= Len(posted[c]) + 1
        /\ \A i \in DOMAIN batch[c] : batch[c][i] \in Updates(c)
        /\ \A i \in DOMAIN ran[c] : ran[c][i] \in Updates(c)
        /\ queued[c] \subseteq Updates(c)
        /\ \A i \in DOMAIN queue : queue[i][1] = c => queue[i][2] \in Updates(c)
        /\ doing # <<>> /\ doing[1] = c => doing[2] \in Updates(c)

TypeInv == Typed /\ Known

-----------------------------------------------------------------------------
(* Types.                                                                   *)

LEMMA SeqWithin ==
  ASSUME NEW S, NEW T, NEW s \in Seq(T), \A i \in DOMAIN s : s[i] \in S
  PROVE  s \in Seq(S)
  OBVIOUS

LEMMA PairParts ==
  ASSUME NEW S, NEW T, NEW p \in S \X T
  PROVE  p # <<>> /\ p = <<p[1], p[2]>> /\ p[1] \in S /\ p[2] \in T
  <1>1. PICK a \in S, b \in T : p = <<a, b>>
    OBVIOUS
  <1>2. Len(<<a, b>>) = 2 /\ Len(<<>>) = 0
    OBVIOUS
  <1> QED BY <1>1, <1>2

LEMMA HeadAndTail ==
  ASSUME NEW S, NEW s \in Seq(S), s # <<>>
  PROVE  /\ Head(s) \in S /\ Head(s) = s[1] /\ 1 \in DOMAIN s
         /\ Tail(s) \in Seq(S) /\ Len(Tail(s)) = Len(s) - 1
         /\ \A i \in DOMAIN Tail(s) : i \in Nat \ {0} /\ i + 1 \in DOMAIN s /\ Tail(s)[i] = s[i + 1]
         /\ \A i \in DOMAIN s : i = 1 \/ (i - 1 \in DOMAIN Tail(s) /\ Tail(s)[i - 1] = s[i])
  OBVIOUS

LEMMA AtTheEnd ==
  ASSUME NEW S, NEW s \in Seq(S), NEW e \in S
  PROVE  /\ Append(s, e) \in Seq(S) /\ Len(Append(s, e)) = Len(s) + 1
         /\ Len(s) + 1 \in DOMAIN Append(s, e) /\ Append(s, e)[Len(s) + 1] = e
         /\ \A i \in DOMAIN s : i \in DOMAIN Append(s, e) /\ Append(s, e)[i] = s[i]
         /\ \A i \in DOMAIN Append(s, e) : i \in DOMAIN s \/ i = Len(s) + 1
  OBVIOUS

LEMMA TypedInit == Init => TypeInv
  <1> SUFFICES ASSUME Init PROVE TypeInv
    OBVIOUS
  <1>1. <<>> \in Seq(Kind) /\ <<>> \in Seq(Nat) /\ <<>> \in Seq(Cams \X Nat) /\ Len(<<>>) = 0
    OBVIOUS
  <1>2. Typed
    <2>1. posted \in [Cams -> Seq(Kind)] /\ batch \in [Cams -> Seq(Nat)] /\ ran \in [Cams -> Seq(Nat)]
      BY <1>1 DEF Init
    <2>2. queue \in Seq(Cams \X Nat) /\ Len(queue) <= QueueCap /\ snaps \in 0 .. SnapCap
      BY <1>1, BoundsAssumption DEF Init
    <2> QED BY <2>1, <2>2 DEF Init, Typed
  <1>3. Known
    BY <1>1 DEF Init, Known, Updates
  <1> QED BY <1>2, <1>3 DEF TypeInv

\* The capacities are guards of the two sends; everything else is a type.
LEMMA TypedStep == ASSUME Typed, [Next]_vars PROVE Typed'
  <1> USE BoundsAssumption DEF Typed, pollVars, listenVars, mainVars
  <1>1. CASE Start BY <1>1 DEF Start
  <1>2. CASE Shutdown BY <1>2 DEF Shutdown
  <1>3. CASE Exit
    <2>1. <<>> \in Seq(Nat) /\ <<>> \in Seq(Cams \X Nat) /\ Len(<<>>) = 0
      OBVIOUS
    <2>2. batch' \in [Cams -> Seq(Nat)] /\ ran' \in [Cams -> Seq(Nat)]
      BY <1>3, <2>1 DEF Exit
    <2>3. offset' \in [Cams -> Nat] /\ poll' \in [Cams -> {"ask", "wait", "pass", "sleep", "hung"}]
      BY <1>3 DEF Exit
    <2>4. queue' \in Seq(Cams \X Nat) /\ Len(queue') <= QueueCap /\ snaps' \in 0 .. SnapCap
      BY <1>3, <2>1 DEF Exit
    <2>5. listener' \in {"select", "busy", "hung", "stopped"} /\ (listener' \in {"busy", "hung"} <=> doing' # <<>>)
          /\ (doing' = <<>> \/ doing' \in Cams \X Nat)
      BY <1>3 DEF Exit
    <2>6. up' \in BOOLEAN /\ hung' \in BOOLEAN /\ cancelled' \in BOOLEAN
          /\ UNCHANGED <<posted, confirmed, queued>>
      BY <1>3 DEF Exit
    <2> QED BY <2>2, <2>3, <2>4, <2>5, <2>6
  <1>4. CASE EndAfterCancel \/ Crash
    BY <1>3, <1>4 DEF EndAfterCancel, Crash
  <1>5. CASE Serve BY <1>5 DEF Serve
  <1>6. CASE MainHangs \/ OtherHangs BY <1>6 DEF MainHangs, OtherHangs
  <1>7. CASE Take
    <2>1. Head(queue) \in Cams \X Nat /\ Tail(queue) \in Seq(Cams \X Nat) /\ Len(Tail(queue)) = Len(queue) - 1
      BY <1>7, HeadAndTail DEF Take
    <2>2. Head(queue) # <<>>
      BY <2>1, PairParts
    <2>3. Len(queue) \in Nat
      OBVIOUS
    <2> QED BY <1>7, <2>1, <2>2, <2>3 DEF Take
  <1>8. CASE ListenerStops BY <1>8 DEF ListenerStops
  <1>9. ASSUME NEW c \in Cams, NEW kind \in Kind, Post(c, kind) PROVE Typed'
    <2>1. Append(posted[c], kind) \in Seq(Kind)
      BY AtTheEnd
    <2>2. posted' \in [Cams -> Seq(Kind)]
      BY <1>9, <2>1 DEF Post
    <2> QED BY <1>9, <2>2 DEF Post
  <1>10. ASSUME NEW c \in Cams, Ask(c) PROVE Typed'
    <2>1. Confirmed(c) \in Nat
      BY DEF Confirmed
    <2> QED BY <1>10, <2>1 DEF Ask, PollGoes
  <1>11. ASSUME NEW c \in Cams, PollFails(c) \/ PollHangs(c) \/ AskAgain(c) PROVE Typed'
    BY <1>11 DEF PollFails, PollHangs, AskAgain, PollGoes
  <1>12. ASSUME NEW c \in Cams, Answer(c) PROVE Typed'
    <2>1. Len(posted[c]) - confirmed[c] \in Nat
      <3>1. Len(posted[c]) \in Nat /\ confirmed[c] \in Nat
        OBVIOUS
      <3> QED BY <1>12, <3>1 DEF Answer
    <2> DEFINE n == Len(posted[c]) - confirmed[c]
    <2>2. \A i \in 1 .. n : confirmed[c] + i \in Nat
      OBVIOUS
    <2>3. n \in Nat /\ confirmed[c] \in Nat
      BY <2>1
    <2>4. [i \in 1 .. n |-> confirmed[c] + i] \in Seq(Nat)
      <3> HIDE DEF n
      <3> QED BY <2>2, <2>3
    <2>5. batch' \in [Cams -> Seq(Nat)]
      BY <1>12, <2>4 DEF Answer
    <2> QED BY <1>12, <2>5 DEF Answer, PollGoes
  <1>13. ASSUME NEW c \in Cams, PassOn(c) PROVE Typed'
    <2>1. Head(batch[c]) \in Nat /\ Tail(batch[c]) \in Seq(Nat)
      BY <1>13, HeadAndTail DEF PassOn, NextUpdate
    <2>2. batch' \in [Cams -> Seq(Nat)]
      BY <1>13, <2>1 DEF PassOn, NextUpdate
    <2>3. CASE ~IsNew(c, Head(batch[c]))
      BY <1>13, <2>2, <2>3 DEF PassOn, NextUpdate
    <2>4. CASE IsNew(c, Head(batch[c]))
      <3> DEFINE id == Head(batch[c])
      <3>1. queue' = Append(queue, <<c, id>>) /\ Len(queue) < QueueCap
        BY <1>13, <2>4 DEF PassOn, QueueTakes
      <3>2. <<c, id>> \in Cams \X Nat /\ Len(queue) \in Nat
        BY <2>1
      <3>3. queue' \in Seq(Cams \X Nat) /\ Len(queue') <= QueueCap
        <4>1. Append(queue, <<c, id>>) \in Seq(Cams \X Nat) /\ Len(Append(queue, <<c, id>>)) = Len(queue) + 1
          BY <3>2, AtTheEnd
        <4> QED BY <3>1, <3>2, <4>1
      <3>4. offset' = [offset EXCEPT ![c] = id + 1] /\ queued' = [queued EXCEPT ![c] = @ \cup {id}]
        BY <1>13, <2>4 DEF PassOn, OffsetAfter
      <3>5. id + 1 \in Nat /\ queued[c] \cup {id} \in SUBSET Nat
        BY <2>1
      <3>6. offset' \in [Cams -> Nat] /\ queued' \in [Cams -> SUBSET Nat]
        <4> HIDE DEF id
        <4> QED BY <3>4, <3>5
      <3> QED BY <1>13, <2>2, <3>3, <3>6 DEF PassOn, NextUpdate
    <2> QED BY <2>3, <2>4
  <1>14. CASE Other \/ Restart \/ Snap
    <2>1. doing \in Cams \X Nat
      BY <1>14 DEF Other, Restart, Snap
    <2>2. doing[1] \in Cams /\ doing[2] \in Nat
      BY <2>1, PairParts
    <2>3. Append(ran[doing[1]], doing[2]) \in Seq(Nat)
      BY <2>2, AtTheEnd
    <2>4. ran' \in [Cams -> Seq(Nat)]
      BY <1>14, <2>2, <2>3 DEF Other, Restart, Snap, Return
    <2>5. listener' \in {"select", "busy", "hung", "stopped"} /\ (listener' \in {"busy", "hung"} <=> doing' # <<>>)
          /\ (doing' = <<>> \/ doing' \in Cams \X Nat)
      BY <1>14 DEF Other, Restart, Snap, Return
    <2>6. snaps' \in 0 .. SnapCap
      BY <1>14 DEF Other, Restart, Snap
    <2>7. UNCHANGED <<posted, confirmed, up, offset, poll, batch, queue, hung, queued>>
          /\ cancelled' \in BOOLEAN
      BY <1>14 DEF Other, Restart, Snap, Return
    <2> QED BY <2>4, <2>5, <2>6, <2>7
  <1>15. CASE UNCHANGED vars
    BY <1>15 DEF vars
  <1> QED
    BY <1>1, <1>2, <1>3, <1>4, <1>5, <1>6, <1>7, <1>8, <1>9, <1>10, <1>11, <1>12, <1>13, <1>14,
       <1>15 DEF Next, Listener, Poller

\* What the invariants below are about.
data == <<posted, confirmed, offset, batch, queue, doing, ran, queued>>

\* handleIncomingCmd returns, whatever the command.
Returns == doing # <<>> /\ Return

LEMMA StepCases ==
  ASSUME Typed, [Next]_vars
  PROVE  \/ UNCHANGED data \/ Exit \/ Take \/ Returns
         \/ \E c \in Cams : Ask(c) \/ Answer(c) \/ PassOn(c) \/ \E kind \in Kind : Post(c, kind)
  <1> USE DEF pollVars, listenVars, mainVars, data
  <1>1. Start \/ Shutdown \/ Serve \/ MainHangs \/ OtherHangs \/ ListenerStops \/ UNCHANGED vars
        => UNCHANGED data
    BY DEF Start, Shutdown, Serve, MainHangs, OtherHangs, ListenerStops, vars
  <1>2. \A c \in Cams : PollFails(c) \/ PollHangs(c) \/ AskAgain(c) => UNCHANGED data
    BY DEF PollFails, PollHangs, AskAgain
  <1>3. EndAfterCancel \/ Crash => Exit
    BY DEF EndAfterCancel, Crash
  <1>4. Other \/ Restart \/ Snap => Returns
    BY DEF Other, Restart, Snap, Returns, Typed
  <1> QED BY <1>1, <1>2, <1>3, <1>4 DEF Next, Listener, Poller

\* What the one step that fills the queue does to a camera's numbers.
LEMMA PassOnEffect ==
  ASSUME Typed, NEW c \in Cams, PassOn(c)
  PROVE  /\ 1 \in DOMAIN batch[c] /\ batch[c][1] \in Nat /\ batch' = [batch EXCEPT ![c] = Tail(@)]
         /\ UNCHANGED <<posted, confirmed, doing, ran>>
         /\ \/ batch[c][1] < offset[c] /\ UNCHANGED <<offset, queue, queued>>
            \/ /\ batch[c][1] >= offset[c]
               /\ offset' = [offset EXCEPT ![c] = batch[c][1] + 1]
               /\ queue' = Append(queue, <<c, batch[c][1]>>)
               /\ queued' = [queued EXCEPT ![c] = @ \cup {batch[c][1]}]
  <1>1. batch[c] \in Seq(Nat) /\ batch[c] # <<>> /\ offset[c] \in Nat
    BY DEF Typed, PassOn, NextUpdate
  <1>2. Head(batch[c]) = batch[c][1] /\ batch[c][1] \in Nat /\ 1 \in DOMAIN batch[c]
    BY <1>1, HeadAndTail
  <1> QED
    BY <1>1, <1>2 DEF PassOn, NextUpdate, IsNew, OffsetAfter, listenVars, mainVars

LEMMA KnownStep == ASSUME TypeInv, [Next]_vars, Typed' PROVE Known'
  <1>0. Typed /\ Known
    BY DEF TypeInv
  <1>1. CASE UNCHANGED data
    BY <1>0, <1>1 DEF data, Known, Updates
  <1>2. CASE Exit
    BY <1>0, <1>2 DEF Exit, Known, Updates, Typed
  <1>3. CASE Take
    <2>1. /\ queue' = Tail(queue) /\ doing' = queue[1] /\ 1 \in DOMAIN queue
          /\ \A i \in DOMAIN queue' : i + 1 \in DOMAIN queue /\ queue'[i] = queue[i + 1]
      BY <1>0, <1>3, HeadAndTail DEF Take, Typed
    <2>2. UNCHANGED <<posted, confirmed, offset, batch, ran, queued>>
      BY <1>3 DEF Take, pollVars, mainVars
    <2> QED BY <1>0, <2>1, <2>2 DEF Known, Updates
  <1>4. CASE Returns
    <2>1. doing[1] \in Cams /\ doing[2] \in Updates(doing[1]) /\ doing[2] \in Nat
      BY <1>0, <1>4, PairParts DEF Returns, Typed, Known
    <2>2. ran' = [ran EXCEPT ![doing[1]] = Append(@, doing[2])] /\ doing' = <<>>
          /\ UNCHANGED <<posted, confirmed, offset, batch, queue, queued>>
      BY <1>4 DEF Returns, Return, pollVars
    <2>3. ASSUME NEW c \in Cams, NEW i \in DOMAIN ran'[c] PROVE ran'[c][i] \in Updates(c)
      <3>1. CASE c # doing[1]
        BY <1>0, <2>2, <3>1 DEF Known, Typed
      <3>2. CASE c = doing[1]
        <4>1. ran[c] \in Seq(Nat) /\ ran'[c] = Append(ran[c], doing[2])
          BY <1>0, <2>2, <3>2 DEF Typed
        <4>2. (i \in DOMAIN ran[c] /\ ran'[c][i] = ran[c][i]) \/ ran'[c][i] = doing[2]
          BY <2>1, <2>3, <4>1, AtTheEnd
        <4> QED BY <1>0, <2>1, <3>2, <4>2 DEF Known
      <3> QED BY <3>1, <3>2
    <2>4. UNCHANGED <<posted, confirmed, offset, batch, queue, queued>> /\ doing' = <<>>
      BY <2>2
    <2> QED BY <1>0, <2>3, <2>4 DEF Known, Updates
  <1>5. ASSUME NEW c \in Cams, NEW kind \in Kind, Post(c, kind) PROVE Known'
    <2>1. Len(posted'[c]) = Len(posted[c]) + 1 /\ Len(posted[c]) \in Nat
      <3>1. posted[c] \in Seq(Kind) /\ posted'[c] = Append(posted[c], kind)
        BY <1>0, <1>5 DEF Post, Typed
      <3> QED BY <3>1, AtTheEnd
    <2>2. \A d \in Cams : d # c => posted'[d] = posted[d]
      BY <1>0, <1>5 DEF Post, Typed
    <2>3. \A d \in Cams : Len(posted[d]) \in Nat /\ Len(posted'[d]) \in Nat /\ Len(posted[d]) <= Len(posted'[d])
      <3>1. \A d \in Cams : posted[d] \in Seq(Kind)
        BY <1>0 DEF Typed
      <3>2. \A d \in Cams : Len(posted[d]) \in Nat
        BY <3>1
      <3> QED BY <2>1, <2>2, <3>2
    <2>4. \A d \in Cams : Updates(d) \subseteq Updates(d)'
      BY <2>3 DEF Updates
    <2>5. UNCHANGED <<confirmed, offset, batch, queue, doing, ran, queued>>
      BY <1>5 DEF Post, pollVars, listenVars
    <2>6. \A d \in Cams : confirmed[d] \in Nat /\ offset[d] \in Nat
      BY <1>0 DEF Typed
    <2> QED BY <1>0, <2>3, <2>4, <2>5, <2>6 DEF Known
  <1>6. ASSUME NEW c \in Cams, Ask(c) PROVE Known'
    <2>1. confirmed[c] \in Nat /\ offset[c] \in Nat /\ Len(posted[c]) \in Nat
      BY <1>0 DEF Typed
    <2>2. Confirmed(c) <= Len(posted[c])
      BY <1>0, <2>1 DEF Confirmed, Known
    <2>3. confirmed' = [confirmed EXCEPT ![c] = Confirmed(c)]
          /\ UNCHANGED <<posted, offset, batch, queue, doing, ran, queued>>
      BY <1>6 DEF Ask, listenVars
    <2>4. \A d \in Cams : confirmed'[d] <= Len(posted[d])
      BY <1>0, <2>2, <2>3 DEF Typed, Known
    <2> QED BY <1>0, <2>3, <2>4 DEF Known, Updates
  <1>7. ASSUME NEW c \in Cams, Answer(c) PROVE Known'
    <2>1. confirmed[c] \in Nat /\ Len(posted[c]) \in Nat
      BY <1>0 DEF Typed
    <2> DEFINE new == [i \in 1 .. Len(posted[c]) - confirmed[c] |-> confirmed[c] + i]
    <2>2. \A i \in DOMAIN new : new[i] \in Updates(c)
      BY <2>1 DEF Updates
    <2>3. batch' = [batch EXCEPT ![c] = new]
          /\ UNCHANGED <<posted, confirmed, offset, queue, doing, ran, queued>>
      BY <1>7 DEF Answer, listenVars
    <2> HIDE DEF new
    <2>4. \A d \in Cams : \A i \in DOMAIN batch'[d] : batch'[d][i] \in Updates(d)
      BY <1>0, <2>2, <2>3 DEF Known, Typed
    <2> QED BY <1>0, <2>3, <2>4 DEF Known, Updates
  <1>8. ASSUME NEW c \in Cams, PassOn(c) PROVE Known'
    <2> DEFINE id == batch[c][1]
    <2>1. id \in Updates(c) /\ id \in Nat /\ Len(posted[c]) \in Nat /\ id <= Len(posted[c])
      BY <1>0, <1>8, PassOnEffect DEF Known, Updates, Typed
    <2>2. \A i \in DOMAIN Tail(batch[c]) : Tail(batch[c])[i] \in Updates(c)
      <3>1. batch[c] \in Seq(Nat) /\ batch[c] # <<>>
        BY <1>0, <1>8 DEF PassOn, NextUpdate, Typed
      <3> QED BY <1>0, <3>1, HeadAndTail DEF Known
    <2>3. \A d \in Cams : \A i \in DOMAIN batch'[d] : batch'[d][i] \in Updates(d)
      <3>1. batch' = [batch EXCEPT ![c] = Tail(@)]
        BY <1>0, <1>8, PassOnEffect
      <3>2. \A d \in Cams : batch'[d] = IF d = c THEN Tail(batch[c]) ELSE batch[d]
        BY <1>0, <3>1 DEF Typed
      <3> QED BY <1>0, <2>2, <3>2 DEF Known
    <2>4. UNCHANGED <<posted, confirmed, doing, ran>>
      BY <1>0, <1>8, PassOnEffect
    <2>5. CASE UNCHANGED <<offset, queue, queued>>
      BY <1>0, <2>3, <2>4, <2>5 DEF Known, Updates
    <2>6. CASE /\ offset' = [offset EXCEPT ![c] = id + 1] /\ queue' = Append(queue, <<c, id>>)
               /\ queued' = [queued EXCEPT ![c] = @ \cup {id}]
      <3>1. queue \in Seq(Cams \X Nat) /\ <<c, id>> \in Cams \X Nat
        BY <1>0, <2>1 DEF Typed
      <3>2. \A i \in DOMAIN queue' : (i \in DOMAIN queue /\ queue'[i] = queue[i]) \/ queue'[i] = <<c, id>>
        BY <2>6, <3>1, AtTheEnd
      <3>3. \A d \in Cams : \A i \in DOMAIN queue' : queue'[i][1] = d => queue'[i][2] \in Updates(d)
        BY <1>0, <2>1, <3>2 DEF Known
      <3>4. \A d \in Cams : offset'[d] <= Len(posted[d]) + 1 /\ queued'[d] \subseteq Updates(d)
        <4>1. \A d \in Cams : /\ offset'[d] = IF d = c THEN id + 1 ELSE offset[d]
                              /\ queued'[d] = IF d = c THEN queued[c] \cup {id} ELSE queued[d]
          BY <1>0, <2>6 DEF Typed
        <4> HIDE DEF id
        <4> QED BY <1>0, <2>1, <4>1 DEF Known
      <3> QED BY <1>0, <2>3, <2>4, <3>3, <3>4 DEF Known, Updates
    <2> QED BY <1>0, <1>8, <2>5, <2>6, PassOnEffect
  <1> QED
    BY <1>0, <1>1, <1>2, <1>3, <1>4, <1>5, <1>6, <1>7, <1>8, StepCases

LEMMA KnownTypes == TypeInv => TypeOK
  <1> SUFFICES ASSUME TypeInv PROVE TypeOK
    OBVIOUS
  <1>1. Typed /\ Known
    BY DEF TypeInv
  <1>2. \A c \in Cams : batch[c] \in Seq(Updates(c)) /\ ran[c] \in Seq(Updates(c))
    <2>1. \A c \in Cams : batch[c] \in Seq(Nat) /\ ran[c] \in Seq(Nat)
      BY <1>1 DEF Typed
    <2> QED BY <1>1, <2>1, SeqWithin DEF Known
  <1>3. \A cmd \in ToSet(queue) : cmd[1] \in Cams /\ cmd[2] \in Updates(cmd[1])
    <2> SUFFICES ASSUME NEW i \in DOMAIN queue
                 PROVE  queue[i][1] \in Cams /\ queue[i][2] \in Updates(queue[i][1])
      BY DEF ToSet
    <2>1. queue[i] \in Cams \X Nat
      BY <1>1 DEF Typed
    <2> QED BY <1>1, <2>1, PairParts DEF Known
  <1>4. \A c \in Cams : confirmed[c] \in 0 .. Len(posted[c]) /\ offset[c] \in 0 .. Len(posted[c]) + 1
    BY <1>1 DEF Typed, Known
  <1> QED BY <1>1, <1>2, <1>3, <1>4 DEF Typed, Known, TypeOK

\* The types, for every set of cameras and every capacity: the queue and the
\* snapshot channel never hold more than they can, whichever goroutines send.
THEOREM TypeCorrect == Spec => []TypeOK
  <1>1. TypeInv /\ [Next]_vars => TypeInv'
    BY TypedStep, KnownStep DEF TypeInv
  <1> QED
    BY TypedInit, <1>1, KnownTypes, PTL DEF Spec

-----------------------------------------------------------------------------
(* What Telegram forgets.                                                   *)

\* The update that a goroutine expects next.
Expected(c) == IF offset[c] = 0 THEN confirmed[c] + 1 ELSE offset[c]

\* The batch goes on from an update that is not later than the expected one, and
\* everything before that one has been queued.
NoGap ==
    \A c \in Cams :
        /\ \A i \in DOMAIN batch[c] : batch[c][i] = batch[c][1] + i - 1
        /\ batch[c] # <<>> => batch[c][1] <= Expected(c)
        /\ batch[c] # <<>> /\ offset[c] = 0 => batch[c][1] = Expected(c)
        /\ confirmed[c] < Expected(c)
        /\ \A id \in Nat : 0 < id /\ id < Expected(c) => id \in queued[c]

LEMMA NoGapStep == ASSUME TypeInv, Typed', NoGap, [Next]_vars PROVE NoGap'
  <1>0. Typed
    BY DEF TypeInv
  <1>a. \A c \in Cams : /\ confirmed[c] \in Nat /\ offset[c] \in Nat /\ Expected(c) \in Nat \ {0}
                        /\ batch[c] \in Seq(Nat)
    <2> SUFFICES ASSUME NEW c \in Cams
                 PROVE  /\ confirmed[c] \in Nat /\ offset[c] \in Nat /\ Expected(c) \in Nat \ {0}
                        /\ batch[c] \in Seq(Nat)
      OBVIOUS
    <2>1. confirmed[c] \in Nat /\ offset[c] \in Nat /\ batch[c] \in Seq(Nat)
      BY <1>0 DEF Typed
    <2> QED BY <2>1 DEF Expected
  <1>1. CASE UNCHANGED data \/ Take \/ Returns
    <2>1. UNCHANGED <<confirmed, offset, batch, queued>>
      BY <1>1 DEF data, Take, Returns, Return, pollVars, mainVars
    <2> QED BY <2>1 DEF NoGap, Expected
  <1>2. CASE Exit
    <2>1. ASSUME NEW c \in Cams
          PROVE  /\ offset'[c] = 0 /\ batch'[c] = <<>> /\ confirmed' = confirmed /\ queued' = queued
                 /\ Expected(c)' = confirmed[c] + 1
      BY <1>2 DEF Exit, Expected
    <2>2. ASSUME NEW c \in Cams, NEW id \in Nat, 0 < id, id < confirmed[c] + 1 PROVE id \in queued[c]
      BY <1>a, <2>2 DEF NoGap
    <2> QED BY <1>a, <2>1, <2>2 DEF NoGap
  <1>3. ASSUME NEW c \in Cams, NEW kind \in Kind, Post(c, kind) PROVE NoGap'
    BY <1>3 DEF Post, NoGap, Expected, pollVars
  <1>4. ASSUME NEW c \in Cams, Ask(c) PROVE NoGap'
    <2>1. /\ UNCHANGED <<offset, batch, queued>>
          /\ \A d \in Cams : confirmed'[d] = IF d = c THEN Confirmed(c) ELSE confirmed[d]
      BY <1>0, <1>4 DEF Ask, Typed
    <2>2. \A d \in Cams : Expected(d)' = Expected(d) /\ confirmed'[d] < Expected(d)
      BY <1>a, <2>1 DEF Expected, Confirmed, NoGap
    <2> QED BY <2>1, <2>2 DEF NoGap
  <1>5. ASSUME NEW c \in Cams, Answer(c) PROVE NoGap'
    <2> DEFINE first == confirmed[c]
               n == Len(posted[c]) - first
               new == [i \in 1 .. n |-> first + i]
    <2>1. n \in Nat /\ 1 <= n /\ first \in Nat
      <3>1. Len(posted[c]) \in Nat /\ Len(posted[c]) > confirmed[c]
        BY <1>0, <1>5 DEF Answer, Typed
      <3> QED BY <1>a, <3>1
    <2>2. new[1] = first + 1 /\ \A i \in DOMAIN new : new[i] = new[1] + i - 1
      <3> HIDE DEF n, first
      <3>1. new[1] = first + 1
        BY <2>1
      <3> QED BY <2>1, <3>1
    <2> HIDE DEF new
    <2>3. /\ UNCHANGED <<offset, confirmed, queued>>
          /\ \A d \in Cams : batch'[d] = IF d = c THEN new ELSE batch[d]
      BY <1>0, <1>5 DEF Answer, Typed, new
    <2>4. \A d \in Cams : Expected(d)' = Expected(d)
      BY <2>3 DEF Expected
    <2>5. new[1] <= Expected(c) /\ (offset[c] = 0 => new[1] = Expected(c))
      BY <1>a, <2>2 DEF NoGap, Expected
    <2> QED BY <2>2, <2>3, <2>4, <2>5 DEF NoGap
  <1>6. ASSUME NEW c \in Cams, PassOn(c) PROVE NoGap'
    <2> DEFINE id == batch[c][1]
               rest == Tail(batch[c])
    <2>1. /\ batch[c] # <<>> /\ id \in Nat /\ id <= Expected(c)
          /\ \A i \in DOMAIN rest : i + 1 \in DOMAIN batch[c] /\ rest[i] = batch[c][i + 1]
          /\ rest # <<>> => 1 \in DOMAIN rest
          /\ \A i \in DOMAIN rest : i \in Nat
      <3>1. batch[c] # <<>>
        BY <1>6 DEF PassOn, NextUpdate
      <3>2. rest \in Seq(Nat)
        BY <1>a, <3>1, HeadAndTail
      <3>3. rest # <<>> => 1 \in DOMAIN rest
        BY <3>2, HeadAndTail
      <3>4. 1 \in DOMAIN batch[c] /\ id \in Nat
        BY <1>0, <1>6, PassOnEffect
      <3>5. \A i \in DOMAIN rest : i \in Nat /\ i + 1 \in DOMAIN batch[c] /\ rest[i] = batch[c][i + 1]
        BY <1>a, <3>1, HeadAndTail
      <3>6. id <= Expected(c)
        BY <3>1 DEF NoGap
      <3> HIDE DEF id, rest
      <3> QED BY <3>1, <3>3, <3>4, <3>5, <3>6
    <2>2. \A i \in DOMAIN rest : rest[i] = id + i
      <3>1. \A i \in DOMAIN batch[c] : batch[c][i] = id + i - 1
        BY DEF NoGap
      <3> HIDE DEF id, rest
      <3> QED BY <2>1, <3>1
    <2>3. \A i \in DOMAIN rest : rest[i] = rest[1] + i - 1
      <3> HIDE DEF id, rest
      <3> QED BY <2>1, <2>2
    <2>4. confirmed' = confirmed /\ \A d \in Cams : batch'[d] = IF d = c THEN rest ELSE batch[d]
      <3>1. confirmed' = confirmed /\ batch' = [batch EXCEPT ![c] = rest]
        BY <1>0, <1>6, PassOnEffect
      <3> QED BY <1>0, <3>1 DEF Typed
    <2>5. CASE id < offset[c] /\ UNCHANGED <<offset, queue, queued>>
      <3>1. \A d \in Cams : Expected(d)' = Expected(d)
        BY <2>4, <2>5 DEF Expected
      <3>2. rest # <<>> => rest[1] <= Expected(c)
        <4>1. Expected(c) = offset[c]
          BY <1>a, <2>1, <2>5 DEF Expected
        <4> HIDE DEF id, rest
        <4> QED BY <1>a, <2>1, <2>2, <2>5, <4>1
      <3> HIDE DEF id, rest
      <3>3. offset[c] # 0
        BY <1>a, <2>1, <2>5
      <3> QED BY <2>3, <2>4, <2>5, <3>1, <3>2, <3>3 DEF NoGap
    <2>6. CASE /\ id >= offset[c] /\ offset' = [offset EXCEPT ![c] = id + 1]
               /\ queued' = [queued EXCEPT ![c] = @ \cup {id}]
      <3>1. \A d \in Cams : /\ offset'[d] = IF d = c THEN id + 1 ELSE offset[d]
                            /\ queued'[d] = IF d = c THEN queued[c] \cup {id} ELSE queued[d]
        BY <1>0, <2>6 DEF Typed
      <3> HIDE DEF id, rest
      <3>2. \A d \in Cams : Expected(d)' = IF d = c THEN id + 1 ELSE Expected(d)
        BY <1>a, <2>1, <2>4, <3>1 DEF Expected
      <3>3. confirmed[c] < id + 1
        <4>1. CASE offset[c] = 0
          <5>1. id = confirmed[c] + 1
            BY <2>1, <4>1 DEF Expected, NoGap, id
          <5> QED BY <1>a, <5>1
        <4>2. CASE offset[c] # 0
          BY <1>a, <2>1, <2>6, <4>2 DEF Expected, NoGap
        <4> QED BY <4>1, <4>2
      <3>4. rest # <<>> => rest[1] <= id + 1
        BY <2>1, <2>2
      <3>5. \A m \in Nat : 0 < m /\ m < id + 1 => m \in queued'[c]
        BY <1>a, <2>1, <3>1 DEF NoGap
      <3>6. id + 1 # 0
        BY <2>1
      <3> QED BY <2>3, <2>4, <3>1, <3>2, <3>3, <3>4, <3>5, <3>6 DEF NoGap
    <2> QED BY <1>0, <1>6, <2>5, <2>6, PassOnEffect
  <1> QED
    BY <1>0, <1>1, <1>2, <1>3, <1>4, <1>5, <1>6, StepCases

\* Telegram forgets no update that was not queued, by this process or an earlier
\* one, for all constants: the offset it is asked for is that of a goroutine whose
\* batches leave no gap (NoGap), however often it asks, fails and is restarted.
THEOREM NothingForgottenUnqueued == Spec => []NoneForgottenUnqueued
  <1>1. Init => TypeInv /\ NoGap
    <2> SUFFICES ASSUME Init PROVE NoGap
      BY TypedInit
    <2>1. \A c \in Cams : offset[c] = 0 /\ confirmed[c] = 0 /\ batch[c] = <<>> /\ Expected(c) = 1
      BY DEF Init, Expected
    <2> QED BY <2>1 DEF NoGap
  <1>2. TypeInv /\ NoGap /\ [Next]_vars => TypeInv' /\ NoGap'
    BY TypedStep, KnownStep, NoGapStep DEF TypeInv
  <1>3. TypeInv /\ NoGap => NoneForgottenUnqueued
    <2> SUFFICES ASSUME TypeInv, NoGap, NEW c \in Cams, NEW id \in 1 .. confirmed[c]
                 PROVE  id \in queued[c]
      BY DEF NoneForgottenUnqueued
    <2>1. confirmed[c] \in Nat /\ offset[c] \in Nat
      BY DEF TypeInv, Typed
    <2>2. confirmed[c] < Expected(c) /\ Expected(c) \in Nat
      BY <2>1 DEF NoGap, Expected
    <2> QED BY <2>1, <2>2 DEF NoGap
  <1> QED
    BY <1>1, <1>2, <1>3, PTL DEF Spec

-----------------------------------------------------------------------------
(* The order in which commands run.                                         *)

\* An update in the queue, or the one the listener is busy with.
Waits(c, id) == doing = <<c, id>> \/ \E i \in DOMAIN queue : queue[i] = <<c, id>>

LastRun(c) == ran[c][Len(ran[c])]

Reached(c, id) == Waits(c, id) \/ (ran[c] # <<>> /\ id = LastRun(c))

\* What waits follows, without a gap, on what has been run, up to the offset.
Gapless ==
    \A c \in Cams, id \in Nat :
        /\ Reached(c, id) => id < offset[c]
        /\ Waits(c, id) /\ ran[c] # <<>> => LastRun(c) < id
        /\ Reached(c, id) => \A m \in Nat : id < m /\ m < offset[c] => Waits(c, m)

\* A camera's updates wait in the order of their numbers.
Sorted ==
    /\ \A i, j \in DOMAIN queue :
        i < j /\ queue[i][1] = queue[j][1] => queue[i][2] < queue[j][2]
    /\ doing # <<>> => \A i \in DOMAIN queue : queue[i][1] = doing[1] => doing[2] < queue[i][2]

OrderInv == Gapless /\ Sorted /\ RunInOrder

\* The head of the queue becomes the command in hand: the same updates wait.
LEMMA TakeWaits ==
  ASSUME Typed, Take
  PROVE  /\ \A c \in Cams, id \in Nat : Waits(c, id)' <=> Waits(c, id)
         /\ UNCHANGED <<offset, ran>> /\ doing' = queue[1] /\ 1 \in DOMAIN queue
         /\ \A i \in DOMAIN queue' : i \in Nat \ {0} /\ i + 1 \in DOMAIN queue /\ queue'[i] = queue[i + 1]
  <1>1. /\ queue \in Seq(Cams \X Nat) /\ queue # <<>> /\ queue' = Tail(queue) /\ doing' = queue[1]
        /\ doing = <<>> /\ offset' = offset /\ ran' = ran
    BY HeadAndTail DEF Take, Typed, pollVars
  <1>2. /\ \A i \in DOMAIN queue' : i \in Nat \ {0} /\ i + 1 \in DOMAIN queue /\ queue'[i] = queue[i + 1]
        /\ \A i \in DOMAIN queue : i = 1 \/ (i - 1 \in DOMAIN queue' /\ queue'[i - 1] = queue[i])
        /\ 1 \in DOMAIN queue
    BY <1>1, HeadAndTail
  <1>3. \A c \in Cams, id \in Nat : doing # <<c, id>>
    BY <1>1, PairParts
  <1>4. \A c \in Cams, id \in Nat : Waits(c, id)' <=> Waits(c, id)
    BY <1>1, <1>2, <1>3 DEF Waits
  <1> QED BY <1>1, <1>2, <1>4

LEMMA TakeOrder == ASSUME Typed, OrderInv, Take PROVE OrderInv'
  <1>1. Gapless'
    BY TakeWaits DEF OrderInv, Gapless, Reached, LastRun
  <1>2. Sorted'
    BY TakeWaits DEF OrderInv, Sorted
  <1> QED BY <1>1, <1>2, TakeWaits DEF OrderInv, RunInOrder

\* The command in hand is the least of its camera that waits, and the one that
\* waits no more when handleIncomingCmd has returned.
LEMMA ReturnWaits ==
  ASSUME Typed, OrderInv, Returns
  PROVE  \E c \in Cams, id \in Nat :
            /\ doing = <<c, id>> /\ doing[1] = c /\ doing[2] = id /\ Waits(c, id)
            /\ \A m \in Nat : Waits(c, m) => m = id \/ id < m
            /\ \A d \in Cams, m \in Nat : Waits(d, m)' <=> Waits(d, m) /\ ~(d = c /\ m = id)
  <1>0. PICK c \in Cams, id \in Nat : doing = <<c, id>>
    BY DEF Typed, Returns
  <1>1. doing = <<c, id>> /\ c \in Cams /\ id \in Nat /\ doing # <<>> /\ doing[1] = c /\ doing[2] = id
    BY <1>0 DEF Returns
  <1>2. /\ queue' = queue /\ doing' = <<>> /\ offset' = offset
        /\ ran' = [ran EXCEPT ![c] = Append(@, id)]
    BY <1>1 DEF Returns, Return, pollVars
  <1>3. \A m \in Nat : Waits(c, m) => m = id \/ id < m
    <2> SUFFICES ASSUME NEW m \in Nat, Waits(c, m), m # id PROVE id < m
      OBVIOUS
    <2>1. doing # <<c, m>>
      BY <1>1
    <2>2. PICK i \in DOMAIN queue : queue[i] = <<c, m>>
      BY <2>1 DEF Waits
    <2> QED BY <1>1, <2>2 DEF OrderInv, Sorted
  <1>4. \A d \in Cams, m \in Nat : Waits(d, m)' <=> Waits(d, m) /\ ~(d = c /\ m = id)
    <2>1. ASSUME NEW i \in DOMAIN queue PROVE queue[i] # <<c, id>>
      <3>1. queue[i] = <<c, id>> => id < id
        BY <1>1 DEF OrderInv, Sorted
      <3> QED BY <1>1, <3>1
    <2>2. ASSUME NEW d \in Cams, NEW m \in Nat PROVE <<>> # <<d, m>>
      <3>1. <<d, m>> \in Cams \X Nat
        OBVIOUS
      <3> QED BY <3>1, PairParts
    <2> QED BY <1>1, <1>2, <2>1, <2>2 DEF Waits
  <1>5. Waits(c, id)
    BY <1>1 DEF Waits
  <1> QED BY <1>1, <1>3, <1>4, <1>5

\* What was in hand is the one after the last.
LEMMA ReturnOrder == ASSUME Typed, OrderInv, Returns PROVE OrderInv'
  <1>0. PICK c \in Cams, id \in Nat :
            /\ doing = <<c, id>> /\ doing[1] = c /\ doing[2] = id /\ Waits(c, id)
            /\ \A m \in Nat : Waits(c, m) => m = id \/ id < m
            /\ \A d \in Cams, m \in Nat : Waits(d, m)' <=> Waits(d, m) /\ ~(d = c /\ m = id)
    BY ReturnWaits
  <1>1. doing = <<c, id>> /\ c \in Cams /\ id \in Nat /\ doing # <<>> /\ doing[1] = c /\ doing[2] = id
    BY <1>0 DEF Returns
  <1>2. /\ queue' = queue /\ doing' = <<>> /\ offset' = offset
        /\ ran' = [ran EXCEPT ![c] = Append(@, id)]
    BY <1>1 DEF Returns, Return, pollVars
  <1>3. \A d \in Cams : ran[d] \in Seq(Nat) /\ ran'[d] = IF d = c THEN Append(ran[c], id) ELSE ran[d]
    BY <1>1, <1>2 DEF Typed
  <1>4. /\ ran'[c] # <<>> /\ LastRun(c)' = id /\ Len(ran'[c]) = Len(ran[c]) + 1
        /\ \A i \in 1 .. Len(ran[c]) : ran'[c][i] = ran[c][i]
    <2>1. ran[c] \in Seq(Nat) /\ ran'[c] = Append(ran[c], id)
      BY <1>1, <1>3
    <2>2. /\ Len(ran'[c]) = Len(ran[c]) + 1 /\ ran'[c][Len(ran[c]) + 1] = id
          /\ \A i \in DOMAIN ran[c] : ran'[c][i] = ran[c][i]
      BY <1>1, <2>1, AtTheEnd
    <2>3. Len(ran[c]) \in Nat /\ DOMAIN ran[c] = 1 .. Len(ran[c])
      BY <2>1
    <2>4. ran'[c] # <<>>
      BY <2>1, <2>2, <2>3
    <2> QED BY <2>2, <2>3, <2>4 DEF LastRun
  <1>5. \A m \in Nat : Waits(c, m) => m = id \/ id < m
    BY <1>0
  <1>6. \A d \in Cams, m \in Nat : Waits(d, m)' <=> Waits(d, m) /\ ~(d = c /\ m = id)
    BY <1>0
  <1>7. Waits(c, id)
    BY <1>0
  <1>8. ran[c] # <<>> => LastRun(c) \in Nat /\ LastRun(c) + 1 = id
    <2> SUFFICES ASSUME ran[c] # <<>> PROVE LastRun(c) \in Nat /\ LastRun(c) + 1 = id
      OBVIOUS
    <2>1. LastRun(c) \in Nat
      BY <1>1, <1>3 DEF LastRun
    <2>2. LastRun(c) < id /\ id < offset[c] /\ offset[c] \in Nat
      BY <1>1, <1>7, <2>1 DEF OrderInv, Gapless, Reached, Typed
    <2>3. LastRun(c) + 1 # id => Waits(c, LastRun(c) + 1)
      BY <1>1, <2>1, <2>2 DEF OrderInv, Gapless, Reached
    <2> QED BY <1>1, <1>5, <2>1, <2>2, <2>3
  <1>9. Gapless'
    <2> SUFFICES ASSUME NEW d \in Cams, NEW n \in Nat
                 PROVE  /\ Reached(d, n)' => n < offset[d]
                        /\ Waits(d, n)' /\ ran'[d] # <<>> => LastRun(d)' < n
                        /\ Reached(d, n)' => \A m \in Nat : n < m /\ m < offset[d] => Waits(d, m)'
      BY <1>2 DEF Gapless
    <2>1. CASE d # c
      BY <1>2, <1>3, <1>6, <2>1 DEF OrderInv, Gapless, Reached, LastRun
    <2>2. CASE d = c
      <3>1. Reached(c, n)' <=> Waits(c, n)
        BY <1>1, <1>4, <1>6, <1>7, <2>2 DEF Reached
      <3>2. Waits(c, n) => \A m \in Nat : n < m /\ m < offset[c] => Waits(c, m)
        BY <1>1 DEF OrderInv, Gapless, Reached
      <3>3. Waits(c, n) => \A m \in Nat : n < m => m # id
        BY <1>1, <1>5
      <3>4. Waits(c, n) => n < offset[c]
        BY <1>1 DEF OrderInv, Gapless, Reached
      <3>5. Waits(c, n)' => id < n
        BY <1>1, <1>5, <1>6
      <3> QED BY <1>1, <1>4, <1>6, <2>2, <3>1, <3>2, <3>3, <3>4, <3>5
    <2> QED BY <2>1, <2>2
  <1>10. Sorted'
    BY <1>2 DEF OrderInv, Sorted
  <1>11. RunInOrder'
    <2> SUFFICES ASSUME NEW d \in Cams, NEW i \in 2 .. Len(ran'[d])
                 PROVE  ran'[d][i] = ran'[d][i - 1] + 1
      BY DEF RunInOrder
    <2>1. CASE d # c
      BY <1>3, <2>1 DEF OrderInv, RunInOrder
    <2>2. CASE d = c /\ i \in 2 .. Len(ran[c])
      <3>1. Len(ran[c]) \in Nat
        BY <1>1, <1>3
      <3>2. i \in 1 .. Len(ran[c]) /\ i - 1 \in 1 .. Len(ran[c])
        BY <2>2, <3>1
      <3>3. ran[c][i] = ran[c][i - 1] + 1
        BY <2>2 DEF OrderInv, RunInOrder
      <3> QED BY <1>4, <2>2, <3>2, <3>3
    <2>3. CASE d = c /\ i = Len(ran[c]) + 1
      <3>1. ran[c] \in Seq(Nat) /\ ran[c] # <<>> /\ ran'[c][i] = id /\ ran'[c][i - 1] = LastRun(c)
        <4>1. ran[c] \in Seq(Nat) /\ Len(ran[c]) \in Nat /\ ran'[c][Len(ran'[c])] = id
          BY <1>1, <1>3, <1>4 DEF LastRun
        <4>2. Len(ran[c]) \in 1 .. Len(ran[c]) /\ i - 1 = Len(ran[c])
          BY <2>3, <4>1
        <4>3. ran[c] # <<>>
          BY <4>1, <4>2
        <4> QED BY <1>4, <2>3, <4>1, <4>2, <4>3 DEF LastRun
      <3> QED BY <1>1, <1>8, <2>3, <3>1
    <2>4. Len(ran[c]) \in Nat
      BY <1>1, <1>3
    <2> QED BY <1>4, <2>1, <2>2, <2>3, <2>4
  <1> QED BY <1>9, <1>10, <1>11 DEF OrderInv

\* An update that is queued is the expected one, and waits then.
LEMMA PassOnWaits ==
  ASSUME TypeInv, NoGap, NEW c \in Cams, PassOn(c), ~ UNCHANGED <<offset, queue>>
  PROVE  \E id \in Nat :
            /\ id >= offset[c] /\ id = Expected(c) /\ id \in Updates(c)
            /\ offset' = [offset EXCEPT ![c] = id + 1]
            /\ queue' = Append(queue, <<c, id>>) /\ doing' = doing /\ ran' = ran
            /\ \A d \in Cams, m \in Nat : Waits(d, m)' <=> Waits(d, m) \/ (d = c /\ m = id)
  <1>0. Typed
    BY DEF TypeInv
  <1>1. PICK id \in Nat : id = batch[c][1]
    BY <1>0, PassOnEffect
  <1>2. /\ id >= offset[c] /\ offset' = [offset EXCEPT ![c] = id + 1]
        /\ queue' = Append(queue, <<c, id>>) /\ doing' = doing /\ ran' = ran
    BY <1>0, <1>1, PassOnEffect
  <1>3. id = Expected(c)
    <2>1. offset[c] \in Nat /\ confirmed[c] \in Nat
      BY <1>0 DEF Typed
    <2>2. id <= Expected(c) /\ (offset[c] = 0 => id = Expected(c))
      BY <1>0, <1>1, PassOnEffect DEF NoGap, PassOn
    <2> QED BY <1>2, <2>1, <2>2 DEF Expected
  <1>4. id \in Updates(c)
    BY <1>0, <1>1, PassOnEffect DEF TypeInv, Known
  <1>5. queue \in Seq(Cams \X Nat) /\ <<c, id>> \in Cams \X Nat
    BY <1>0 DEF Typed
  <1>6. \A d \in Cams, m \in Nat : Waits(d, m)' <=> Waits(d, m) \/ (d = c /\ m = id)
    <2>1. /\ \A i \in DOMAIN queue : i \in DOMAIN queue' /\ queue'[i] = queue[i]
          /\ Len(queue) + 1 \in DOMAIN queue' /\ queue'[Len(queue) + 1] = <<c, id>>
          /\ \A i \in DOMAIN queue' : i \in DOMAIN queue \/ i = Len(queue) + 1
      BY <1>2, <1>5, AtTheEnd
    <2> QED BY <1>2, <2>1 DEF Waits
  <1> QED BY <1>2, <1>3, <1>4, <1>6

LEMMA PassOnOrder ==
  ASSUME TypeInv, NoGap, OrderInv, NEW c \in Cams, PassOn(c) PROVE OrderInv'
  <1>0. Typed
    BY DEF TypeInv
  <1>1. CASE UNCHANGED <<offset, queue>>
    <2>1. UNCHANGED <<offset, queue, doing, ran>>
      BY <1>0, <1>1, PassOnEffect
    <2> QED BY <2>1 DEF OrderInv, Gapless, Reached, Waits, LastRun, Sorted, RunInOrder
  <1>2. CASE ~ UNCHANGED <<offset, queue>>
    <2>1. PICK id \in Nat :
            /\ id >= offset[c] /\ id = Expected(c)
            /\ offset' = [offset EXCEPT ![c] = id + 1]
            /\ queue' = Append(queue, <<c, id>>) /\ doing' = doing /\ ran' = ran
            /\ \A d \in Cams, m \in Nat : Waits(d, m)' <=> Waits(d, m) \/ (d = c /\ m = id)
      BY <1>2, PassOnWaits
    <2>2. /\ id >= offset[c] /\ offset' = [offset EXCEPT ![c] = id + 1]
          /\ queue' = Append(queue, <<c, id>>) /\ doing' = doing /\ ran' = ran
      BY <2>1
    <2>3. \A d \in Cams : offset[d] \in Nat /\ offset'[d] = IF d = c THEN id + 1 ELSE offset[d]
      BY <1>0, <2>2 DEF Typed
    <2>4. queue \in Seq(Cams \X Nat) /\ <<c, id>> \in Cams \X Nat
      BY <1>0 DEF Typed
    <2>5. /\ \A i \in DOMAIN queue : i \in DOMAIN queue' /\ queue'[i] = queue[i] /\ i \in Nat /\ i < Len(queue) + 1
          /\ Len(queue) + 1 \in DOMAIN queue' /\ queue'[Len(queue) + 1] = <<c, id>>
          /\ \A i \in DOMAIN queue' : i \in DOMAIN queue \/ i = Len(queue) + 1
      BY <2>2, <2>4, AtTheEnd
    <2>6. \A d \in Cams, m \in Nat : Waits(d, m)' <=> Waits(d, m) \/ (d = c /\ m = id)
      BY <2>1
    <2>7. \A d \in Cams, m \in Nat : Reached(d, m)' <=> Reached(d, m) \/ (d = c /\ m = id)
      BY <2>2, <2>6 DEF Reached, LastRun
    <2>8. \A m \in Nat : Reached(c, m) => m < offset[c]
      BY DEF OrderInv, Gapless
    <2>9. offset[c] # 0 => offset[c] = id
      BY <2>1 DEF Expected
    <2>10. ran[c] # <<>> => LastRun(c) \in Nat
      BY <1>0 DEF LastRun, Typed
    <2>11. Gapless'
      <3> SUFFICES ASSUME NEW d \in Cams, NEW n \in Nat
                   PROVE  /\ Reached(d, n)' => n < offset'[d]
                          /\ Waits(d, n)' /\ ran'[d] # <<>> => LastRun(d)' < n
                          /\ Reached(d, n)' => \A m \in Nat : n < m /\ m < offset'[d] => Waits(d, m)'
        BY DEF Gapless
      <3>1. CASE d # c
        BY <2>2, <2>3, <2>6, <2>7, <3>1 DEF OrderInv, Gapless, LastRun
      <3>2. CASE d = c
        <4>1. Reached(c, n)' => n < id + 1
          BY <2>2, <2>3, <2>7, <2>8
        <4>2. Waits(c, n)' /\ ran[c] # <<>> => LastRun(c) < n
          <5>1. ran[c] # <<>> => LastRun(c) < offset[c]
            BY <2>8, <2>10 DEF Reached
          <5> QED BY <2>2, <2>3, <2>6, <2>10, <5>1 DEF OrderInv, Gapless
        <4>3. ASSUME Reached(c, n)', NEW m \in Nat, n < m, m < id + 1 PROVE Waits(c, m)'
          <5>1. CASE m = id
            BY <2>6, <5>1
          <5>2. CASE m # id
            <6>1. Reached(c, n)
              BY <2>7, <4>3, <5>2
            <6>2. m < offset[c]
              BY <2>3, <2>8, <2>9, <4>3, <5>2, <6>1
            <6> QED BY <2>6, <4>3, <6>1, <6>2 DEF OrderInv, Gapless
          <5> QED BY <5>1, <5>2
        <4>4. LastRun(c)' = LastRun(c)
          BY <2>2 DEF LastRun
        <4> QED BY <2>2, <2>3, <3>2, <4>1, <4>2, <4>3, <4>4
      <3> QED BY <3>1, <3>2
    <2>12. Sorted'
      <3>1. ASSUME NEW i \in DOMAIN queue, queue[i][1] = c PROVE queue[i][2] < id
        <4>1. queue[i] \in Cams \X Nat
          BY <2>4
        <4>2. queue[i] = <<c, queue[i][2]>> /\ queue[i][2] \in Nat
          BY <3>1, <4>1, PairParts
        <4>3. Reached(c, queue[i][2])
          BY <4>2 DEF Reached, Waits
        <4> QED BY <2>2, <2>3, <2>8, <4>2, <4>3
      <3>2. doing # <<>> /\ doing[1] = c => doing[2] < id
        <4>1. ASSUME doing # <<>>, doing[1] = c PROVE doing = <<c, doing[2]>> /\ doing[2] \in Nat
          BY <1>0, <4>1, PairParts DEF Typed
        <4>2. doing # <<>> /\ doing[1] = c => Reached(c, doing[2])
          BY <4>1 DEF Reached, Waits
        <4> QED BY <2>2, <2>3, <2>8, <4>1, <4>2
      <3>3. Len(queue) \in Nat
        BY <2>4
      <3> QED BY <2>2, <2>5, <3>1, <3>2, <3>3 DEF OrderInv, Sorted
    <2> QED BY <2>2, <2>11, <2>12 DEF OrderInv, RunInOrder
  <1> QED BY <1>1, <1>2

IInv == TypeInv /\ NoGap /\ OrderInv

LEMMA IInvInvariant == Spec => []IInv
  <1>1. Init => IInv
    <2> SUFFICES ASSUME Init PROVE IInv
      OBVIOUS
    <2>1. queue = <<>> /\ doing = <<>> /\ \A c \in Cams : ran[c] = <<>>
      BY DEF Init
    <2>2. \A c \in Cams, id \in Nat : <<>> # <<c, id>>
      <3>1. \A c \in Cams, id \in Nat : <<c, id>> \in Cams \X Nat
        OBVIOUS
      <3> QED BY <3>1, PairParts
    <2>3. \A c \in Cams, id \in Nat : ~Waits(c, id) /\ ~Reached(c, id)
      BY <2>1, <2>2 DEF Waits, Reached
    <2>4. OrderInv
      BY <2>1, <2>3 DEF OrderInv, Gapless, Sorted, RunInOrder
    <2>5. \A c \in Cams : offset[c] = 0 /\ confirmed[c] = 0 /\ batch[c] = <<>> /\ Expected(c) = 1
      BY DEF Init, Expected
    <2>6. NoGap
      BY <2>5 DEF NoGap
    <2> QED BY <2>4, <2>6, TypedInit DEF IInv
  <1>2. IInv /\ [Next]_vars => IInv'
    <2> SUFFICES ASSUME TypeInv, NoGap, OrderInv, [Next]_vars PROVE IInv'
      BY DEF IInv
    <2>1. TypeInv' /\ NoGap' /\ Typed
      BY TypedStep, KnownStep, NoGapStep DEF TypeInv
    <2>2. ASSUME UNCHANGED data PROVE OrderInv'
      BY <2>2 DEF data, OrderInv, Gapless, Reached, Waits, LastRun, Sorted, RunInOrder
    <2>3. ASSUME Exit PROVE OrderInv'
      <3>1. queue' = <<>> /\ doing' = <<>> /\ \A c \in Cams : ran'[c] = <<>>
        BY <2>3 DEF Exit
      <3>2. \A c \in Cams, id \in Nat : <<>> # <<c, id>>
        <4>1. \A c \in Cams, id \in Nat : <<c, id>> \in Cams \X Nat
          OBVIOUS
        <4> QED BY <4>1, PairParts
      <3>3. \A c \in Cams, id \in Nat : ~Waits(c, id)' /\ ~Reached(c, id)'
        BY <3>1, <3>2 DEF Waits, Reached
      <3> QED BY <3>1, <3>3 DEF OrderInv, Gapless, Sorted, RunInOrder
    <2>4. ASSUME NEW c \in Cams, Ask(c) \/ Answer(c) \/ \E kind \in Kind : Post(c, kind)
          PROVE  OrderInv'
      <3>1. UNCHANGED <<offset, queue, doing, ran>>
        BY <2>4 DEF Ask, Answer, Post, pollVars, listenVars
      <3> QED BY <3>1 DEF OrderInv, Gapless, Reached, Waits, LastRun, Sorted, RunInOrder
    <2>5. OrderInv'
      BY <2>1, <2>2, <2>3, <2>4, TakeOrder, ReturnOrder, PassOnOrder, StepCases
    <2> QED BY <2>1, <2>5 DEF IInv
  <1> QED
    BY <1>1, <1>2, PTL DEF Spec

\* A process runs the commands of a camera in the order they were typed, none
\* twice and none left out, for every set of cameras and every capacity: what waits
\* follows without a gap on what was run, up to the goroutine's offset (Gapless).
THEOREM CommandsRunInOrder == Spec => []RunInOrder
  <1>1. IInv => RunInOrder
    BY DEF IInv, OrderInv
  <1> QED
    BY IInvInvariant, <1>1, PTL

-----------------------------------------------------------------------------
(* What the groups are promised: every step maps to a step of Inbox.        *)

\* What the refinement mapping shows is what the invariants speak of.
Mapped ==
    \A c \in Cams :
        /\ Taken(c) \in Nat /\ Taken(c) + 1 = Expected(c) /\ InHand(c) \subseteq Nat
        /\ \A id \in Nat : id \in InHand(c) <=> Waits(c, id)

LEMMA MappedNow == TypeInv /\ NoGap => Mapped
  <1> SUFFICES ASSUME TypeInv, NoGap, NEW c \in Cams
               PROVE  /\ Taken(c) \in Nat /\ Taken(c) + 1 = Expected(c) /\ InHand(c) \subseteq Nat
                      /\ \A id \in Nat : id \in InHand(c) <=> Waits(c, id)
    BY DEF Mapped
  <1>1. Typed /\ Known /\ offset[c] \in Nat /\ confirmed[c] \in Nat
    BY DEF TypeInv, Typed
  <1>2. Taken(c) \in Nat /\ Taken(c) + 1 = Expected(c)
    BY <1>1 DEF Taken, Expected
  <1>3. InHand(c) \subseteq Nat
    BY DEF InHand, Updates
  <1>4. ASSUME NEW id \in Nat PROVE id \in InHand(c) <=> Waits(c, id)
    <2>1. <<c, id>> \in ToSet(queue) <=> \E i \in DOMAIN queue : queue[i] = <<c, id>>
      BY DEF ToSet
    <2>2. doing = <<c, id>> => id \in Updates(c)
      <3>1. doing = <<c, id>> => doing # <<>> /\ doing[1] = c /\ doing[2] = id
        <4>1. <<c, id>> \in Cams \X Nat
          OBVIOUS
        <4> QED BY <4>1, PairParts
      <3> QED BY <1>1, <3>1 DEF Known
    <2>3. ASSUME NEW i \in DOMAIN queue, queue[i] = <<c, id>> PROVE id \in Updates(c)
      BY <1>1, <2>3 DEF Known
    <2> QED BY <2>1, <2>2, <2>3 DEF InHand, Waits
  <1> QED BY <1>2, <1>3, <1>4

LEMMA MappedNext == TypeInv' /\ NoGap' => Mapped'
  BY MappedNow, PTL

\* Steps no group sees: what waits for it and what was taken stay as they are.
LEMMA Unseen ==
  ASSUME UNCHANGED <<posted, confirmed, up, offset>>,
         \A c \in Cams, id \in Nat : Waits(c, id)' <=> Waits(c, id), Mapped, Mapped'
  PROVE  UNCHANGED Group!vars
  <1>1. \A c \in Cams : Taken(c)' = Taken(c)
    BY DEF Taken
  <1>2. \A c \in Cams : InHand(c)' = InHand(c)
    BY DEF Mapped
  <1> QED BY <1>1, <1>2 DEF Group!vars

LEMMA InitInbox == Init => Group!Init
  <1> SUFFICES ASSUME Init PROVE Group!Init
    OBVIOUS
  <1>1. posted = [c \in Cams |-> <<>>] /\ confirmed = [c \in Cams |-> 0] /\ up = FALSE
    BY DEF Init
  <1>2. \A c \in Cams : Taken(c) = 0
    BY DEF Init, Taken
  <1>3. \A c \in Cams : InHand(c) = {}
    <2>1. Len(<<>>) = 0
      OBVIOUS
    <2> QED BY <1>1, <2>1 DEF InHand, Updates
  <1> QED BY <1>1, <1>2, <1>3 DEF Group!Init

\* A post adds to what the group has typed, and to nothing in hand.
LEMMA PostInbox ==
  ASSUME Mapped, Mapped', NEW c \in Cams, NEW kind \in Kind, Post(c, kind)
  PROVE  Group!Post(c)
  <1>1. /\ posted' = [posted EXCEPT ![c] = Append(@, kind)]
        /\ UNCHANGED <<confirmed, up, offset, queue, doing>>
    BY DEF Post, pollVars, listenVars
  <1>2. \A d \in Cams : Taken(d)' = Taken(d)
    BY <1>1 DEF Taken
  <1>3. \A d \in Cams, id \in Nat : Waits(d, id)' <=> Waits(d, id)
    BY <1>1 DEF Waits
  <1>4. \A d \in Cams : InHand(d)' = InHand(d)
    BY <1>3 DEF Mapped
  <1> QED BY <1>1, <1>2, <1>4 DEF Group!Post

\* With a poll Telegram forgets what the goroutine has passed on.
LEMMA AskInbox ==
  ASSUME TypeInv, NoGap, Mapped, Mapped', NEW c \in Cams, Ask(c)
  PROVE  Group!Forget(c)
  <1>1. /\ up /\ confirmed' = [confirmed EXCEPT ![c] = Confirmed(c)]
        /\ UNCHANGED <<posted, up, offset, queue, doing>>
    BY DEF Ask, PollGoes, listenVars
  <1>2. \A d \in Cams : confirmed[d] \in Nat /\ offset[d] \in Nat /\ confirmed[d] < Expected(d)
    BY DEF TypeInv, Typed, NoGap
  <1>3. Confirmed(c) = Taken(c)
    BY <1>2 DEF Confirmed, Taken, Expected
  <1>4. \A d \in Cams : confirmed'[d] = IF d = c THEN Taken(c) ELSE confirmed[d]
    BY <1>1, <1>3 DEF TypeInv, Typed
  <1>5. \A d \in Cams : Taken(d)' = Taken(d)
    BY <1>1, <1>3, <1>4 DEF Taken
  <1>6. \A d \in Cams, id \in Nat : Waits(d, id)' <=> Waits(d, id)
    BY <1>1 DEF Waits
  <1>7. \A d \in Cams : InHand(d)' = InHand(d)
    BY <1>6 DEF Mapped
  <1> QED BY <1>1, <1>3, <1>5, <1>7 DEF Group!Forget

\* An update is passed on once: its second copy moves nothing.
LEMMA PassOnInbox ==
  ASSUME TypeInv, NoGap, Mapped, Mapped', NEW c \in Cams, PassOn(c)
  PROVE  Group!Take(c) \/ UNCHANGED Group!vars
  <1>1. Typed /\ UNCHANGED <<posted, confirmed, up, doing>> /\ up
    BY DEF PassOn, NextUpdate, TypeInv, listenVars
  <1>2. CASE UNCHANGED <<offset, queue>>
    BY <1>1, <1>2, Unseen DEF Waits
  <1>3. CASE ~ UNCHANGED <<offset, queue>>
    <2>1. PICK id \in Nat :
            /\ id = Expected(c) /\ id \in Updates(c) /\ offset' = [offset EXCEPT ![c] = id + 1]
            /\ \A d \in Cams, m \in Nat : Waits(d, m)' <=> Waits(d, m) \/ (d = c /\ m = id)
      BY <1>3, PassOnWaits
    <2>2. \A d \in Cams : /\ offset[d] \in Nat /\ confirmed[d] \in Nat /\ Len(posted[d]) \in Nat
                          /\ offset'[d] = IF d = c THEN id + 1 ELSE offset[d]
      BY <1>1, <2>1 DEF Typed
    <2>3. id = Taken(c) + 1 /\ Taken(c) \in Nat /\ Taken(c) < Len(posted[c])
      <3>1. id <= Len(posted[c])
        BY <2>1, <2>2 DEF Updates
      <3> QED BY <2>1, <2>2, <3>1 DEF Mapped
    <2>4. \A d \in Cams : Taken(d)' = IF d = c THEN Taken(c) + 1 ELSE Taken(d)
      BY <1>1, <2>2, <2>3 DEF Taken
    <2>5. \A d \in Cams : InHand(d)' = IF d = c THEN InHand(c) \cup {Taken(c) + 1} ELSE InHand(d)
      BY <2>1, <2>3 DEF Mapped
    <2>6. Group!Take(c)
      BY <1>1, <2>3, <2>4, <2>5 DEF Group!Take
    <2> QED BY <2>6
  <1> QED BY <1>2, <1>3

\* What the listener is done with is the first of what its group has in hand.
LEMMA ReturnInbox ==
  ASSUME Typed, OrderInv, Mapped, Mapped', up, Returns
  PROVE  \E c \in Cams : Group!Run(c)
  <1>1. PICK c \in Cams, id \in Nat :
            /\ Waits(c, id)
            /\ \A m \in Nat : Waits(c, m) => m = id \/ id < m
            /\ \A d \in Cams, m \in Nat : Waits(d, m)' <=> Waits(d, m) /\ ~(d = c /\ m = id)
    BY ReturnWaits
  <1>2. UNCHANGED <<posted, confirmed, up, offset>>
    BY DEF Returns, Return, pollVars
  <1>3. \A d \in Cams : Taken(d)' = Taken(d)
    BY <1>2 DEF Taken
  <1>4. id \in InHand(c) /\ \A m \in InHand(c) : id <= m
    BY <1>1 DEF Mapped
  <1>5. \A d \in Cams : InHand(d)' = IF d = c THEN InHand(c) \ {id} ELSE InHand(d)
    BY <1>1 DEF Mapped
  <1>6. Group!Run(c)
    BY <1>2, <1>3, <1>4, <1>5 DEF Group!Run
  <1> QED BY <1>6

\* With the process end the offsets and all that waits.
LEMMA ExitInbox == ASSUME Typed, Mapped, Exit PROVE Group!End
  <1>1. /\ up /\ up' = FALSE /\ queue' = <<>> /\ doing' = <<>> /\ UNCHANGED <<posted, confirmed>>
        /\ \A c \in Cams : offset'[c] = 0
    BY DEF Exit
  <1>2. \A c \in Cams : Taken(c)' = confirmed[c]
    BY <1>1 DEF Taken
  <1>3. \A c \in Cams : InHand(c)' = {}
    <2>1. ASSUME NEW c \in Cams, NEW id PROVE <<>> # <<c, id>>
      <3>1. Len(<<c, id>>) = 2 /\ Len(<<>>) = 0
        OBVIOUS
      <3> QED BY <3>1
    <2>2. ToSet(queue') = {}
      BY <1>1 DEF ToSet
    <2> QED BY <1>1, <2>1, <2>2 DEF InHand
  <1>4. confirmed = [c \in Cams |-> confirmed[c]]
    BY DEF Typed
  <1> QED BY <1>1, <1>2, <1>3, <1>4 DEF Group!End

LEMMA StepInbox ==
  ASSUME IInv, IInv', [Next]_vars PROVE Group!Next \/ UNCHANGED Group!vars
  <1>0. TypeInv /\ NoGap /\ OrderInv /\ Typed /\ Mapped /\ Mapped'
    BY MappedNow, MappedNext DEF IInv, TypeInv
  <1>1. CASE Start
    <2>1. UNCHANGED <<posted, confirmed, offset, queue, doing>> /\ ~up /\ up' = TRUE
      BY <1>1 DEF Start, pollVars, listenVars
    <2>2. \A c \in Cams : Taken(c)' = Taken(c) /\ InHand(c)' = InHand(c)
      BY <2>1 DEF Taken, InHand, Updates
    <2> QED BY <2>1, <2>2 DEF Group!Next, Group!Start
  <1>2. CASE \/ Shutdown \/ Serve \/ MainHangs \/ OtherHangs \/ ListenerStops \/ UNCHANGED vars
             \/ \E c \in Cams : PollFails(c) \/ PollHangs(c) \/ AskAgain(c) \/ Answer(c)
    <2>1. UNCHANGED <<posted, confirmed, up, offset, queue, doing>>
      BY <1>2 DEF Shutdown, Serve, MainHangs, OtherHangs, ListenerStops, vars, PollFails, PollHangs,
                  AskAgain, Answer, pollVars, listenVars
    <2> QED BY <1>0, <2>1, Unseen DEF Waits
  <1>3. CASE EndAfterCancel \/ Crash
    BY <1>0, <1>3, ExitInbox DEF EndAfterCancel, Crash, Group!Next
  <1>4. CASE Take
    <2>1. UNCHANGED <<posted, confirmed, up, offset>>
      BY <1>4 DEF Take, pollVars
    <2> QED BY <1>0, <1>4, <2>1, TakeWaits, Unseen
  <1>5. CASE Other \/ Restart \/ Snap
    <2>1. Returns /\ up
      BY <1>0, <1>5 DEF Other, Restart, Snap, Returns, Typed
    <2> QED BY <1>0, <2>1, ReturnInbox DEF Group!Next
  <1>6. ASSUME NEW c \in Cams, NEW kind \in Kind, Post(c, kind) PROVE Group!Next
    BY <1>0, <1>6, PostInbox DEF Group!Next
  <1>7. ASSUME NEW c \in Cams, Ask(c) PROVE Group!Next
    BY <1>0, <1>7, AskInbox DEF Group!Next
  <1>8. ASSUME NEW c \in Cams, PassOn(c) PROVE Group!Next \/ UNCHANGED Group!vars
    BY <1>0, <1>8, PassOnInbox DEF Group!Next
  <1> QED
    BY <1>1, <1>2, <1>3, <1>4, <1>5, <1>6, <1>7, <1>8 DEF Next, Listener, Poller

\* Polls with their offsets, batches, one queue for all cameras and one listener
\* come to what Inbox says of each group, through lost requests and answers, updates
\* given twice and the end of the process at any point: nothing taken twice or out of
\* order by one process, nothing dropped but what waits when it ends.
THEOREM CommandsImplementInbox == Spec => InboxSpec
  <1>1. IInv /\ IInv' /\ [Next]_vars => [Group!Next]_(Group!vars)
    BY StepInbox
  <1> QED
    BY InitInbox, <1>1, IInvInvariant, PTL DEF Spec, InboxSpec, Group!Spec

=============================================================================
