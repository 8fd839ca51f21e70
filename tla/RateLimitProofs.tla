-------------------------- MODULE RateLimitProofs --------------------------
(***************************************************************************)
(* Proofs about RateLimit for all buckets, every gap and every number of   *)
(* boxes: types, the distance of two overviews, the limits, and that the   *)
(* buckets implement TokenBucket.                                          *)
(***************************************************************************)
EXTENDS RateLimit, TLAPS

Images == [kind : Kind, at : [Bucket -> Nat]]
SentImages == Seq(Images)

\* The attempt under way: it has the tokens of the buckets before the one it asks.
AttemptTyped ==
    /\ trying \in Kind \cup {"none"}
    /\ DOMAIN got \in {{}, {"frame"}, {"frame", "burst"}}
    /\ got = [b \in DOMAIN got |-> got[b]]
    /\ \A b \in DOMAIN got : got[b] \in Nat /\ got[b] <= now
    /\ trying = "none" => got = NoTokens

\* TypeOK, and every token is from the past.
Typed ==
    /\ now \in Nat
    /\ tokens \in [Bucket -> Nat] /\ \A b \in Bucket : tokens[b] <= Capacity[b]
    /\ tick \in [Bucket -> Nat] /\ \A b \in Bucket : tick[b] <= CurrentTick(b)
    /\ lastOverview \in Int
    /\ boxes \in Nat
    /\ AttemptTyped
    /\ sent \in SentImages
    /\ \A i \in DOMAIN sent : \A b \in Bucket : sent[i].at[b] <= now

-----------------------------------------------------------------------------
(* Fills, and what is in a bucket.                                          *)

\* The interval that n falls into, and the one of the next second.
LEMMA FillsAreNat == ASSUME NEW n \in Nat, NEW d \in Nat \ {0} PROVE n \div d \in Nat
  BY SMT

LEMMA NextFill ==
  ASSUME NEW n \in Nat, NEW d \in Nat \ {0}
  PROVE  (n + 1) \div d = IF (n + 1) % d = 0 THEN n \div d + 1 ELSE n \div d
  BY SMT

LEMMA TicksGrow ==
  ASSUME NEW n \in Nat, NEW m \in Nat, n <= m, NEW d \in Nat \ {0}
  PROVE  n \div d <= m \div d
  BY SMT

LEMMA BucketTypes ==
  ASSUME NEW b \in Bucket
  PROVE  Interval[b] \in Nat \ {0} /\ Capacity[b] \in Nat \ {0} /\ Quantum[b] \in Nat \ {0}
  BY BucketAssumption

\* A look finds no more than the bucket holds.
LEMMA AvailableBound ==
  ASSUME Typed, NEW b \in Bucket
  PROVE  Available(b) \in Nat /\ Available(b) <= Capacity[b] /\ CurrentTick(b) \in Nat
  <1>1. CurrentTick(b) \in Nat
    BY BucketTypes, FillsAreNat DEF Typed, CurrentTick
  <1>2. (CurrentTick(b) - tick[b]) * Quantum[b] \in Nat
    <2>1. CurrentTick(b) - tick[b] \in Nat /\ Quantum[b] \in Nat
      BY <1>1, BucketTypes DEF Typed
    <2> QED BY <2>1
  <1> QED
    BY <1>1, <1>2, BucketTypes DEF Typed, Available

\* After a call a look finds one token less if there was one, and as many as before
\* elsewhere: to fill a bucket is not to change what it holds.
LEMMA TakeEffect ==
  ASSUME Typed, NEW a \in Bucket, TakeAvailable(a), now' = now, NEW b \in Bucket
  PROVE  /\ Available(b)' = IF b = a THEN Taken(b) ELSE Available(b)
         /\ tokens'[b] \in Nat /\ tokens'[b] <= Capacity[b]
         /\ tick'[b] \in Nat /\ tick'[b] <= CurrentTick(b)' /\ CurrentTick(b)' = CurrentTick(b)
  <1>1. CurrentTick(b)' = CurrentTick(b)
    BY DEF CurrentTick
  <1>2. Available(b) \in Nat /\ Available(b) <= Capacity[b] /\ CurrentTick(b) \in Nat
    BY AvailableBound
  <1>3. CASE b = a
    <2>1. tokens'[b] = Taken(b) /\ tick'[b] = CurrentTick(b)
      BY <1>3 DEF TakeAvailable, Typed
    <2>2. Taken(b) \in Nat /\ Taken(b) <= Capacity[b]
      BY <1>2, BucketTypes DEF Taken
    <2>3. (CurrentTick(b)' - tick'[b]) * Quantum[b] = 0
      BY <1>1, <1>2, <2>1, BucketTypes
    <2>4. Available(b)' = Taken(b)
      BY <2>1, <2>2, <2>3, BucketTypes DEF Available
    <2> QED BY <1>1, <1>2, <1>3, <2>1, <2>2, <2>4
  <1>4. CASE b # a
    <2>1. tokens'[b] = tokens[b] /\ tick'[b] = tick[b]
      BY <1>4 DEF TakeAvailable, Typed
    <2> QED BY <1>1, <1>4, <2>1 DEF Typed, Available
  <1> QED BY <1>3, <1>4

\* The tokens command changes nothing that a look could find.
LEMMA ShowEffect ==
  ASSUME Typed, NEW a \in Bucket, ShowTokens(a), NEW b \in Bucket
  PROVE  /\ Available(b)' = Available(b)
         /\ tokens'[b] \in Nat /\ tokens'[b] <= Capacity[b]
         /\ tick'[b] \in Nat /\ tick'[b] <= CurrentTick(b)' /\ CurrentTick(b)' = CurrentTick(b)
  <1>1. CurrentTick(b)' = CurrentTick(b)
    BY DEF CurrentTick, ShowTokens
  <1>2. Available(b) \in Nat /\ Available(b) <= Capacity[b] /\ CurrentTick(b) \in Nat
    BY AvailableBound
  <1>3. CASE b = a
    <2>1. tokens'[b] = Available(b) /\ tick'[b] = CurrentTick(b)
      BY <1>3 DEF ShowTokens, Typed
    <2>2. (CurrentTick(b)' - tick'[b]) * Quantum[b] = 0
      BY <1>1, <1>2, <2>1, BucketTypes
    <2>3. Available(b)' = Available(b)
      BY <1>2, <2>1, <2>2, BucketTypes DEF Available
    <2> QED BY <1>1, <1>2, <2>1, <2>3
  <1>4. CASE b # a
    <2>1. tokens'[b] = tokens[b] /\ tick'[b] = tick[b]
      BY <1>4 DEF ShowTokens, Typed
    <2> QED BY <1>1, <1>4, <2>1 DEF Typed, Available
  <1> QED BY <1>3, <1>4

\* A second adds a fill at every multiple of Interval and nothing in between.
LEMMA PassEffect ==
  ASSUME Typed, Pass, NEW b \in Bucket
  PROVE  /\ CurrentTick(b)' = CurrentTick(b) + IF now' % Interval[b] = 0 THEN 1 ELSE 0
         /\ Available(b)' = IF now' % Interval[b] # 0 THEN Available(b)
                            ELSE IF Available(b) + Quantum[b] < Capacity[b]
                                 THEN Available(b) + Quantum[b] ELSE Capacity[b]
  <1>1. now' = now + 1 /\ tokens' = tokens /\ tick' = tick /\ now \in Nat
    BY DEF Pass, Typed
  <1>2. CurrentTick(b)' = CurrentTick(b) + IF now' % Interval[b] = 0 THEN 1 ELSE 0
    <2>1. CurrentTick(b)' = (now + 1) \div Interval[b] /\ CurrentTick(b) = now \div Interval[b]
      BY <1>1 DEF CurrentTick
    <2>2. now \div Interval[b] \in Nat
      BY <1>1, FillsAreNat, BucketTypes
    <2>3. (now + 1) \div Interval[b]
              = IF (now + 1) % Interval[b] = 0 THEN now \div Interval[b] + 1 ELSE now \div Interval[b]
      BY <1>1, NextFill, BucketTypes
    <2> QED BY <1>1, <2>1, <2>2, <2>3
  <1>3. CurrentTick(b) - tick[b] \in Nat /\ Quantum[b] \in Nat \ {0} /\ tokens[b] \in Nat
    BY AvailableBound, BucketTypes DEF Typed
  <1>4. CASE now' % Interval[b] # 0
    BY <1>1, <1>2, <1>4, AvailableBound DEF Available
  <1>5. CASE now' % Interval[b] = 0
    <2> DEFINE k == CurrentTick(b) - tick[b]
               q == Quantum[b]
    <2>1. CurrentTick(b)' - tick'[b] = k + 1
      BY <1>1, <1>2, <1>5, AvailableBound, <1>3 DEF Typed
    <2>2. (k + 1) * q = k * q + q /\ k * q \in Nat
      BY <1>3
    <2> HIDE DEF k, q
    <2>3. Available(b)' = IF tokens[b] + k * q + q < Capacity[b]
                          THEN tokens[b] + k * q + q ELSE Capacity[b]
      BY <1>1, <1>3, <2>1, <2>2, BucketTypes DEF Available, q
    <2>4. Available(b) = IF tokens[b] + k * q < Capacity[b] THEN tokens[b] + k * q ELSE Capacity[b]
      BY DEF Available, k, q
    <2>5. q \in Nat \ {0} /\ Capacity[b] \in Nat
      BY BucketTypes DEF q
    <2>6. Available(b)' = IF Available(b) + q < Capacity[b] THEN Available(b) + q ELSE Capacity[b]
      BY <1>3, <2>2, <2>3, <2>4, <2>5
    <2> QED BY <1>2, <1>5, <2>6 DEF q
  <1> QED BY <1>2, <1>4, <1>5

-----------------------------------------------------------------------------
(* Types.                                                                   *)

\* The bucket an attempt has come to, and its tokens with that bucket's.
LEMMA AskedNext ==
  ASSUME Typed
  PROVE  /\ Asked \in Bucket /\ Asked \notin DOMAIN got
         /\ Asked = "pace" => DOMAIN got \cup {Asked} = Bucket
         /\ Asked # "pace" => DOMAIN got \cup {Asked} \in {{"frame"}, {"frame", "burst"}}
  BY DEF Typed, AttemptTyped, Asked, Bucket

LEMMA WithTokenIs ==
  ASSUME Typed
  PROVE  /\ DOMAIN WithToken = DOMAIN got \cup {Asked}
         /\ WithToken = [b \in DOMAIN WithToken |-> WithToken[b]]
         /\ WithToken[Asked] = now
         /\ \A b \in DOMAIN got : WithToken[b] = got[b]
         /\ \A b \in DOMAIN WithToken : WithToken[b] \in Nat /\ WithToken[b] <= now
  <1>1. now \in Nat /\ \A b \in DOMAIN got : got[b] \in Nat /\ got[b] <= now
    BY DEF Typed, AttemptTyped
  <1>2. Asked \notin DOMAIN got
    BY AskedNext
  <1> QED BY <1>1, <1>2 DEF WithToken

\* The image that is granted.
LEMMA GrantedImage ==
  ASSUME Typed, Granted
  PROVE  /\ [kind |-> trying, at |-> WithToken] \in Images
         /\ trying \in Kind /\ WithToken["pace"] = now
  <1>1. WithToken \in [Bucket -> Nat]
    <2>1. DOMAIN WithToken = Bucket
      BY AskedNext, WithTokenIs DEF Granted
    <2> QED BY <2>1, WithTokenIs
  <1>2. trying \in Kind
    BY DEF Granted, Typed, AttemptTyped
  <1> QED BY <1>1, <1>2, WithTokenIs DEF Granted, Images

\* What appending an image does to the images there.
LEMMA AppendImage ==
  ASSUME sent \in SentImages, NEW image \in Images, sent' = Append(sent, image)
  PROVE  /\ sent' \in SentImages
         /\ Len(sent) \in Nat /\ Len(sent') = Len(sent) + 1
         /\ \A i \in DOMAIN sent : i \in Nat \ {0} /\ i \in DOMAIN sent' /\ i < Len(sent) + 1 /\ sent'[i] = sent[i]
         /\ sent'[Len(sent) + 1] = image
         /\ \A i \in DOMAIN sent' : i \in DOMAIN sent \/ i = Len(sent) + 1
  BY DEF SentImages

LEMMA TokenTimes ==
  ASSUME Typed, NEW i \in DOMAIN sent, NEW b \in Bucket
  PROVE  /\ sent[i].at[b] \in Nat /\ sent[i].at[b] <= now
         /\ i \in Nat \ {0} /\ i <= Len(sent) /\ Len(sent) \in Nat
  <1>1. sent[i] \in Images
    BY DEF Typed, SentImages
  <1> QED BY <1>1 DEF Images, Typed, SentImages

\* A step that leaves buckets, time and images alone.
TakesNothing ==
    /\ boxes' \in Nat /\ trying' \in Kind \cup {"none"} /\ (trying' = "none" => got = NoTokens)
    /\ trying' = "overview" => trying = "overview" \/ OverviewDue
    /\ UNCHANGED <<now, tokens, tick, lastOverview, got, sent>>

LEMMA StepCases ==
  ASSUME Typed, [Next]_vars
  PROVE  TakesNothing \/ Refused \/ GoesOn \/ Granted \/ Pass \/ \E b \in Bucket : ShowTokens(b)
  <1>1. CASE UNCHANGED vars
    BY <1>1 DEF vars, TakesNothing, Typed, AttemptTyped
  <1>2. ASSUME NEW n \in 1 .. MaxBoxes, Hit(n) PROVE TakesNothing
    BY <1>2, BoundAssumption DEF Hit, TakesNothing, Typed, AttemptTyped, Kind
  <1>3. CASE Box
    BY <1>3 DEF Box, TakesNothing, Typed, Kind
  <1> QED
    BY <1>1, <1>2, <1>3 DEF Next, TakeFrameBuckets

\* What every call of TakeAvailable leaves of the types.
LEMMA TypedBuckets ==
  ASSUME Typed, NEW a \in Bucket, TakeAvailable(a), now' = now
  PROVE  /\ tokens' \in [Bucket -> Nat] /\ \A b \in Bucket : tokens'[b] <= Capacity[b]
         /\ tick' \in [Bucket -> Nat] /\ \A b \in Bucket : tick'[b] <= CurrentTick(b)'
  <1>1. tokens' = [b \in Bucket |-> tokens'[b]] /\ tick' = [b \in Bucket |-> tick'[b]]
    BY DEF TakeAvailable, Typed
  <1> QED BY <1>1, TakeEffect

LEMMA TypedStep == ASSUME Typed, [Next]_vars PROVE Typed'
  <1>0. DOMAIN NoTokens = {} /\ NoTokens = [b \in DOMAIN NoTokens |-> NoTokens[b]]
    BY DEF NoTokens
  <1>1. CASE TakesNothing
    BY <1>1 DEF TakesNothing, Typed, AttemptTyped, CurrentTick, NoTokens
  <1>2. CASE Refused
    <2>1. TakeAvailable(Asked) /\ now' = now /\ trying' = "none" /\ got' = NoTokens
          /\ UNCHANGED <<lastOverview, boxes, sent>>
      BY <1>2 DEF Refused
    <2>2. AttemptTyped'
      BY <1>0, <2>1 DEF AttemptTyped, NoTokens
    <2> QED BY <2>1, <2>2, TypedBuckets, AskedNext DEF Typed
  <1>3. CASE GoesOn
    <2>1. TakeAvailable(Asked) /\ Asked # "pace" /\ got' = WithToken /\ trying # "none"
          /\ UNCHANGED <<now, lastOverview, boxes, trying, sent>>
      BY <1>3 DEF GoesOn
    <2>2. AttemptTyped'
      <3>1. DOMAIN got' \in {{"frame"}, {"frame", "burst"}}
        BY <2>1, AskedNext, WithTokenIs
      <3>2. trying \in Kind \cup {"none"}
        BY DEF Typed, AttemptTyped
      <3> QED BY <2>1, <3>1, <3>2, WithTokenIs DEF AttemptTyped
    <2> QED BY <2>1, <2>2, TypedBuckets, AskedNext DEF Typed
  <1>4. CASE Granted
    <2>1. TakeAvailable(Asked) /\ now' = now /\ trying' = "none" /\ got' = NoTokens /\ boxes' = boxes
          /\ sent' = Append(sent, [kind |-> trying, at |-> WithToken]) /\ lastOverview' \in Int
      BY <1>4 DEF Granted, Typed
    <2>2. AttemptTyped'
      BY <1>0, <2>1 DEF AttemptTyped, NoTokens
    <2>3. sent' \in SentImages /\ \A i \in DOMAIN sent' : \A b \in Bucket : sent'[i].at[b] <= now
      <3> DEFINE image == [kind |-> trying, at |-> WithToken]
      <3>1. image \in Images /\ image.at = WithToken
        BY <1>4, GrantedImage
      <3>2. \A b \in Bucket : image.at[b] <= now
        BY <1>4, <3>1, AskedNext, WithTokenIs DEF Granted
      <3>3. sent' = Append(sent, image) /\ sent \in SentImages
        BY <2>1 DEF Typed
      <3> HIDE DEF image
      <3> QED BY <3>1, <3>2, <3>3, AppendImage, TokenTimes
    <2> QED BY <2>1, <2>2, <2>3, TypedBuckets, AskedNext DEF Typed
  <1>5. ASSUME NEW a \in Bucket, ShowTokens(a) PROVE Typed'
    <2>1. tokens' = [b \in Bucket |-> tokens'[b]] /\ tick' = [b \in Bucket |-> tick'[b]]
      BY <1>5 DEF ShowTokens, Typed
    <2> QED
      BY <1>5, <2>1, ShowEffect DEF ShowTokens, Typed, AttemptTyped
  <1>6. CASE Pass
    <2>1. now' = now + 1 /\ UNCHANGED <<tokens, tick, lastOverview, boxes, trying, got, sent>> /\ now \in Nat
      BY <1>6 DEF Pass, Typed
    <2>2. \A b \in Bucket : tick[b] <= CurrentTick(b)'
      BY <1>6, PassEffect, AvailableBound DEF Typed
    <2>3. AttemptTyped'
      BY <2>1 DEF Typed, AttemptTyped
    <2>4. \A i \in DOMAIN sent : \A b \in Bucket : sent[i].at[b] <= now + 1
      BY <2>1, TokenTimes
    <2> QED
      BY <2>1, <2>2, <2>3, <2>4 DEF Typed
  <1> QED
    BY <1>1, <1>2, <1>3, <1>4, <1>5, <1>6, StepCases

LEMMA TypedInit == Init => Typed
  <1> SUFFICES ASSUME Init PROVE Typed
    OBVIOUS
  <1>1. \A b \in Bucket : CurrentTick(b) \in Nat
    BY FillsAreNat, BucketTypes DEF Init, CurrentTick
  <1>2. AttemptTyped
    BY DEF Init, AttemptTyped, NoTokens
  <1> QED
    BY <1>1, <1>2, BucketAssumption, GapAssumption DEF Init, Typed, SentImages

\* The types, for all constants: no bucket is overfilled or overdrawn and no fill
\* is noted before its time, with TakeAvailable and TokensRemaining both filling, and
\* an attempt holds the tokens of the buckets it has been through.
THEOREM TypeCorrect == Spec => []TypeOK
  <1>1. Typed => TypeOK
    <2> SUFFICES ASSUME Typed PROVE TypeOK
      OBVIOUS
    <2>1. got \in [DOMAIN got -> 0 .. now]
      BY DEF Typed, AttemptTyped
    <2>2. DOMAIN got \in {{}, {"frame"}, {"frame", "burst"}}
      BY DEF Typed, AttemptTyped
    <2>3. got \in UNION {[B -> 0 .. now] : B \in {{}, {"frame"}, {"frame", "burst"}}}
      BY <2>1, <2>2
    <2> QED BY <2>3 DEF Typed, AttemptTyped, TypeOK, SentImages, Images
  <1> QED
    BY <1>1, TypedInit, TypedStep, PTL DEF Spec

-----------------------------------------------------------------------------
(* The overviews.                                                           *)

\* LastOverviewSent is not before any overview that was sent.
LastIsLatest ==
    \A i \in DOMAIN sent : sent[i].kind = "overview" => SentAt(i) <= lastOverview

\* An overview that was due when its attempt began stays due until it ends.
StaysDue == trying = "overview" => now - lastOverview >= Gap

GapInv == LastIsLatest /\ StaysDue /\ OverviewsApart

\* An overview that is sent is Gap later than LastOverviewSent, and becomes it; a box
\* says nothing of the overviews.
LEMMA GrantedGap == ASSUME Typed, GapInv, Granted PROVE GapInv'
  <1> DEFINE image == [kind |-> trying, at |-> WithToken]
             n == Len(sent) + 1
  <1>1. /\ sent' = Append(sent, image) /\ now' = now /\ trying' = "none"
        /\ lastOverview' = IF trying = "overview" THEN now ELSE lastOverview
    BY DEF Granted
  <1>2. image \in Images /\ image.kind = trying /\ image.at["pace"] = now
    BY GrantedImage
  <1>3. sent \in SentImages /\ now \in Nat /\ lastOverview \in Int /\ Gap \in Nat
    BY GapAssumption DEF Typed
  <1> HIDE DEF image
  <1>4. /\ \A i \in DOMAIN sent' : i \in DOMAIN sent \/ i = n
        /\ \A i \in DOMAIN sent : sent'[i] = sent[i] /\ i < n
        /\ sent'[n] = image /\ n \in Nat
    BY <1>1, <1>2, <1>3, AppendImage
  <1>5. \A i \in DOMAIN sent : SentAt(i) \in Nat /\ SentAt(i) <= now /\ SentAt(i)' = SentAt(i)
    BY <1>4, TokenTimes DEF SentAt, Bucket
  <1>6. \A i : SentAt(i)' = sent'[i].at["pace"]
    BY DEF SentAt
  <1>9. sent'[n].at["pace"] = now /\ sent'[n].kind = trying
    BY <1>2, <1>4
  <1>7. LastIsLatest'
    <2>1. ASSUME NEW i \in DOMAIN sent', sent'[i].kind = "overview" PROVE SentAt(i)' <= lastOverview'
      <3>1. CASE i = n
        <4>1. SentAt(i)' = now /\ sent'[i].kind = trying
          BY <1>6, <1>9, <3>1
        <4> QED BY <1>1, <1>3, <2>1, <4>1
      <3>2. CASE i \in DOMAIN sent
        BY <1>1, <1>3, <1>4, <1>5, <2>1, <3>2 DEF GapInv, LastIsLatest
      <3> QED BY <1>4, <3>1, <3>2
    <2> QED BY <2>1 DEF LastIsLatest
  <1>8. ASSUME NEW i \in DOMAIN sent', NEW j \in DOMAIN sent', i < j,
               sent'[i].kind = "overview", sent'[j].kind = "overview"
        PROVE  SentAt(j)' - SentAt(i)' >= Gap
    <2>1. i \in DOMAIN sent
      <3>1. j <= n
        BY <1>1, <1>2, <1>3, <1>4, AppendImage DEF SentImages
      <3>2. j \in Nat /\ i \in Nat
        BY <1>1, <1>2, <1>3, AppendImage DEF SentImages
      <3> QED BY <1>4, <1>8, <3>1, <3>2
    <2>2. CASE j \in DOMAIN sent
      BY <1>4, <1>5, <1>8, <2>1, <2>2 DEF GapInv, OverviewsApart
    <2>3. CASE j = n
      <3>1. SentAt(j)' = now /\ sent'[j].kind = trying
        BY <1>6, <1>9, <2>3
      <3>2. now - lastOverview >= Gap
        BY <1>8, <3>1 DEF GapInv, StaysDue
      <3>3. SentAt(i) <= lastOverview
        BY <1>4, <1>8, <2>1 DEF GapInv, LastIsLatest
      <3>4. SentAt(i)' = SentAt(i) /\ SentAt(i) \in Nat
        BY <1>5, <2>1
      <3> QED BY <1>3, <3>1, <3>2, <3>3, <3>4
    <2> QED BY <1>4, <2>2, <2>3
  <1> QED
    BY <1>1, <1>7, <1>8 DEF GapInv, StaysDue, OverviewsApart

\* Overviews are Gap apart, for every choice of buckets, gap and boxes: a hit
\* that is refused a token leaves LastOverviewSent alone, a box that is sent in
\* between does not count, and an overview due when its attempt began is due at its end.
THEOREM OverviewsAreApart == Spec => []OverviewsApart
  <1>1. Init => GapInv
    BY DEF Init, GapInv, LastIsLatest, StaysDue, OverviewsApart
  <1>2. Typed /\ GapInv /\ [Next]_vars => GapInv'
    <2> SUFFICES ASSUME Typed, GapInv, [Next]_vars PROVE GapInv'
      OBVIOUS
    <2> USE DEF GapInv, LastIsLatest, StaysDue, OverviewsApart, SentAt
    <2>1. CASE TakesNothing BY <2>1 DEF TakesNothing, OverviewDue
    <2>2. CASE Refused BY <2>2 DEF Refused
    <2>3. CASE GoesOn BY <2>3 DEF GoesOn
    <2>4. CASE Granted BY <2>4, GrantedGap
    <2>5. CASE \E b \in Bucket : ShowTokens(b) BY <2>5 DEF ShowTokens
    <2>6. CASE Pass
      <3>1. now \in Nat /\ lastOverview \in Int /\ Gap \in Nat
        BY GapAssumption DEF Typed
      <3> QED BY <2>6, <3>1 DEF Pass
    <2> QED
      BY <2>1, <2>2, <2>3, <2>4, <2>5, <2>6, StepCases
  <1>3. GapInv => OverviewsApart
    BY DEF GapInv
  <1> QED
    BY <1>1, <1>2, <1>3, TypedInit, TypedStep, PTL DEF Spec

-----------------------------------------------------------------------------
(* The limits.                                                              *)

\* The tokens bucket b has given to the images s and to the attempt that has those of
\* g, as the fills after which it gave them.
Count(s, g, b) == Len(s) + IF b \in DOMAIN g THEN 1 ELSE 0

FillOf(s, g, b) ==
    [i \in 1 .. Count(s, g, b) |-> (IF i <= Len(s) THEN s[i].at[b] ELSE g[b]) \div Interval[b]]

\* Of n tokens taken after the fills T, no stretch is more than the bucket held and was
\* given meanwhile, nor is one up to now, with fill k, and the level that is left.
Budget(T, n, c, q, k, level) ==
    /\ \A i, j \in 1 .. n : i <= j => j - i + 1 <= c + q * (T[j] - T[i])
    /\ \A i \in 1 .. n : n - i + 1 + level <= c + q * (k - T[i])

BudgetOf(b) ==
    Budget(FillOf(sent, got, b), Count(sent, got, b),
           Capacity[b], Quantum[b], CurrentTick(b), Available(b))

LimitInv == Typed /\ \A b \in Bucket : BudgetOf(b)

\* A token is taken, if there is one.
LEMMA BudgetTake ==
  ASSUME NEW n \in Nat, NEW c \in Nat, NEW q \in Nat, NEW k \in Nat, NEW level \in Nat,
         NEW T \in [1 .. n -> Nat], NEW U \in [1 .. n + 1 -> Nat],
         Budget(T, n, c, q, k, level), 0 < level, level <= c,
         \A i \in 1 .. n : U[i] = T[i], U[n + 1] = k
  PROVE  Budget(U, n + 1, c, q, k, level - 1)
  <1>1. ASSUME NEW i \in 1 .. n + 1
        PROVE  n + 1 - i + 1 + (level - 1) <= c + q * (k - U[i])
    <2>1. CASE i \in 1 .. n
      <3> DEFINE right == c + q * (k - T[i])
      <3>1. right \in Int
        BY <2>1
      <3>2. n - i + 1 + level <= right
        BY <2>1 DEF Budget
      <3> HIDE DEF right
      <3>3. n + 1 - i + 1 + (level - 1) <= right
        BY <3>1, <3>2
      <3> QED BY <2>1, <3>3 DEF right
    <2>2. CASE i = n + 1
      <3>1. q * (k - U[i]) = 0
        BY <2>2
      <3> QED BY <2>2, <3>1
    <2> QED BY <2>1, <2>2
  <1>2. ASSUME NEW i \in 1 .. n + 1, NEW j \in 1 .. n + 1, i <= j
        PROVE  j - i + 1 <= c + q * (U[j] - U[i])
    <2>1. CASE j \in 1 .. n
      <3>1. i \in 1 .. n
        BY <1>2, <2>1
      <3> QED BY <1>2, <2>1, <3>1 DEF Budget
    <2>2. CASE j = n + 1
      <3> DEFINE right == c + q * (k - U[i])
      <3>1. n + 1 - i + 1 + (level - 1) <= right
        BY <1>1
      <3>2. right \in Int
        OBVIOUS
      <3> HIDE DEF right
      <3>3. j - i + 1 <= right
        BY <2>2, <3>1, <3>2
      <3> QED BY <2>2, <3>3 DEF right
    <2> QED BY <2>1, <2>2
  <1> QED BY <1>1, <1>2 DEF Budget

\* The last tokens were taken for nothing, or fewer are left.
LEMMA BudgetLess ==
  ASSUME NEW n \in Nat, NEW c \in Nat, NEW q \in Nat, NEW k \in Nat, NEW level \in Nat,
         NEW T \in [1 .. n -> Nat], Budget(T, n, c, q, k, level),
         NEW m \in Nat, m <= n, NEW less \in Nat, less <= level,
         NEW U \in [1 .. m -> Nat], \A i \in 1 .. m : U[i] = T[i]
  PROVE  Budget(U, m, c, q, k, less)
  <1>1. ASSUME NEW i \in 1 .. m
        PROVE  m - i + 1 + less <= c + q * (k - U[i])
    <2> DEFINE right == c + q * (k - T[i])
    <2>1. i \in 1 .. n /\ U[i] = T[i]
      OBVIOUS
    <2>2. right \in Int /\ n - i + 1 + level <= right
      BY <2>1 DEF Budget
    <2> HIDE DEF right
    <2>3. m - i + 1 + less <= right
      BY <2>2
    <2> QED BY <2>1, <2>3 DEF right
  <1>2. \A i \in 1 .. m : i \in 1 .. n
    OBVIOUS
  <1> QED BY <1>1, <1>2 DEF Budget

\* The bucket is filled, and the tokens taken are then one fill further back.
LEMMA BudgetFill ==
  ASSUME NEW n \in Nat, NEW c \in Nat, NEW q \in Nat, NEW k \in Nat, NEW level \in Nat,
         NEW T \in [1 .. n -> Nat], Budget(T, n, c, q, k, level),
         NEW more \in Nat, more <= level + q
  PROVE  Budget(T, n, c, q, k + 1, more)
  <1>1. ASSUME NEW i \in 1 .. n
        PROVE  n - i + 1 + more <= c + q * (k + 1 - T[i])
    <2> DEFINE right == c + q * (k - T[i])
    <2>1. right \in Int /\ n - i + 1 + level <= right
      BY DEF Budget
    <2>2. c + q * (k + 1 - T[i]) = right + q
      <3>1. \A d \in Int : q * (d + 1) = q * d + q
        OBVIOUS
      <3>2. k - T[i] \in Int /\ k + 1 - T[i] = (k - T[i]) + 1
        OBVIOUS
      <3>3. q * (k + 1 - T[i]) = q * (k - T[i]) + q
        BY <3>1, <3>2
      <3>4. q * (k - T[i]) \in Int
        BY <3>2
      <3> QED BY <3>3, <3>4
    <2> HIDE DEF right
    <2>3. n - i + 1 + more <= right + q
      BY <2>1
    <2> QED BY <2>2, <2>3
  <1> QED BY <1>1 DEF Budget

-----------------------------------------------------------------------------
\* The tokens of a bucket are counted, the image's before the attempt's.
LEMMA FillTypes ==
  ASSUME NEW s \in SentImages, NEW g, \A b \in DOMAIN g : g[b] \in Nat, NEW b \in Bucket
  PROVE  /\ Count(s, g, b) \in Nat /\ Len(s) \in Nat
         /\ Count(s, g, b) = IF b \in DOMAIN g THEN Len(s) + 1 ELSE Len(s)
         /\ FillOf(s, g, b) \in [1 .. Count(s, g, b) -> Nat]
         /\ \A i \in 1 .. Len(s) : FillOf(s, g, b)[i] = s[i].at[b] \div Interval[b]
         /\ b \in DOMAIN g => FillOf(s, g, b)[Len(s) + 1] = g[b] \div Interval[b]
  <1>1. Len(s) \in Nat /\ \A i \in 1 .. Len(s) : s[i] \in Images
    BY DEF SentImages
  <1>2. /\ Count(s, g, b) \in Nat
        /\ Count(s, g, b) = IF b \in DOMAIN g THEN Len(s) + 1 ELSE Len(s)
    BY <1>1 DEF Count
  <1>3. ASSUME NEW i \in 1 .. Count(s, g, b)
        PROVE  (IF i <= Len(s) THEN s[i].at[b] ELSE g[b]) \div Interval[b] \in Nat
    <2>1. CASE i <= Len(s)
      <3>1. s[i].at[b] \in Nat
        BY <1>1, <1>2, <1>3, <2>1 DEF Images
      <3> QED BY <2>1, <3>1, FillsAreNat, BucketTypes
    <2>2. CASE ~(i <= Len(s))
      <3>1. b \in DOMAIN g
        BY <1>1, <1>2, <1>3, <2>2
      <3> QED BY <2>2, <3>1, FillsAreNat, BucketTypes
    <2> QED BY <2>1, <2>2
  <1>4. FillOf(s, g, b) \in [1 .. Count(s, g, b) -> Nat]
    BY <1>3 DEF FillOf
  <1>5. ASSUME NEW i \in 1 .. Len(s) PROVE FillOf(s, g, b)[i] = s[i].at[b] \div Interval[b]
    <2>1. i \in 1 .. Count(s, g, b) /\ i <= Len(s)
      BY <1>1, <1>2
    <2> QED BY <2>1 DEF FillOf
  <1>6. ASSUME b \in DOMAIN g PROVE FillOf(s, g, b)[Len(s) + 1] = g[b] \div Interval[b]
    <2>1. Len(s) + 1 \in 1 .. Count(s, g, b) /\ ~(Len(s) + 1 <= Len(s))
      BY <1>1, <1>2, <1>6
    <2> QED BY <2>1 DEF FillOf
  <1> QED BY <1>1, <1>2, <1>4, <1>5, <1>6

\* The numbers of a bucket.
LEMMA BudgetTypes ==
  ASSUME Typed, NEW b \in Bucket
  PROVE  /\ Capacity[b] \in Nat /\ Quantum[b] \in Nat /\ CurrentTick(b) \in Nat
         /\ Available(b) \in Nat /\ Available(b) <= Capacity[b]
         /\ sent \in SentImages /\ \A a \in DOMAIN got : got[a] \in Nat
         /\ Count(sent, got, b) \in Nat
         /\ FillOf(sent, got, b) \in [1 .. Count(sent, got, b) -> Nat]
  <1>1. sent \in SentImages /\ \A a \in DOMAIN got : got[a] \in Nat
    BY DEF Typed, AttemptTyped
  <1> QED BY <1>1, AvailableBound, BucketTypes, FillTypes

\* A step that changes neither the tokens given nor what is found in a bucket.
LEMMA SameBudget ==
  ASSUME NEW b, BudgetOf(b), sent' = sent, got' = got,
         CurrentTick(b)' = CurrentTick(b), Available(b)' = Available(b)
  PROVE  BudgetOf(b)'
  BY DEF BudgetOf

\* An attempt that ends with no image: its tokens are gone.
LEMMA RefusedBudget == ASSUME Typed, Refused, NEW b \in Bucket, BudgetOf(b) PROVE BudgetOf(b)'
  <1> DEFINE T == FillOf(sent, got, b)
             U == FillOf(sent, NoTokens, b)
             n == Count(sent, got, b)
             m == Count(sent, NoTokens, b)
  <1>1. /\ TakeAvailable(Asked) /\ sent' = sent /\ now' = now /\ got' = NoTokens
        /\ Asked \in Bucket /\ DOMAIN NoTokens = {}
    BY AskedNext DEF Refused, NoTokens
  <1>2. Available(b)' \in Nat /\ Available(b)' <= Available(b) /\ CurrentTick(b)' = CurrentTick(b)
    BY <1>1, TakeEffect, AvailableBound DEF Taken
  <1>3. m \in Nat /\ m = Len(sent) /\ U \in [1 .. m -> Nat]
        /\ \A i \in 1 .. m : U[i] = sent[i].at[b] \div Interval[b]
    <2>1. sent \in SentImages /\ (\A a \in DOMAIN NoTokens : NoTokens[a] \in Nat) /\ b \notin DOMAIN NoTokens
      BY <1>1, BudgetTypes
    <2> QED BY <2>1, FillTypes
  <1>4. n \in Nat /\ m <= n /\ T \in [1 .. n -> Nat] /\ \A i \in 1 .. m : U[i] = T[i]
    <2>1. sent \in SentImages /\ (\A a \in DOMAIN got : got[a] \in Nat)
      BY BudgetTypes
    <2>2. /\ Len(sent) \in Nat /\ T \in [1 .. n -> Nat]
          /\ n = IF b \in DOMAIN got THEN Len(sent) + 1 ELSE Len(sent)
          /\ \A i \in 1 .. Len(sent) : T[i] = sent[i].at[b] \div Interval[b]
      BY <2>1, FillTypes
    <2> HIDE DEF T, U, n, m
    <2> QED BY <1>3, <2>2
  <1>5. Budget(T, n, Capacity[b], Quantum[b], CurrentTick(b), Available(b))
    BY DEF BudgetOf
  <1> HIDE DEF T, U, n, m
  <1>6. Budget(U, m, Capacity[b], Quantum[b], CurrentTick(b), Available(b)')
    BY <1>2, <1>3, <1>4, <1>5, BudgetTypes, BudgetLess
  <1> QED
    BY <1>1, <1>2, <1>6 DEF BudgetOf, U, m

\* A token for the attempt that goes on.
LEMMA GoesOnBudget == ASSUME Typed, GoesOn, NEW b \in Bucket, BudgetOf(b) PROVE BudgetOf(b)'
  <1> DEFINE T == FillOf(sent, got, b)
             U == FillOf(sent, WithToken, b)
             n == Count(sent, got, b)
             m == Count(sent, WithToken, b)
  <1>1. /\ TakeAvailable(Asked) /\ sent' = sent /\ now' = now /\ got' = WithToken
        /\ Asked \in Bucket /\ Asked \notin DOMAIN got /\ Available(Asked) # 0
    BY AskedNext DEF GoesOn, Empty
  <1>2. /\ Available(b)' = IF b = Asked THEN Available(b) - 1 ELSE Available(b)
        /\ CurrentTick(b)' = CurrentTick(b) /\ Available(Asked) > 0
    BY <1>1, TakeEffect, AvailableBound DEF Taken
  <1>3. /\ DOMAIN WithToken = DOMAIN got \cup {Asked} /\ WithToken[Asked] = now
        /\ \A a \in DOMAIN got : WithToken[a] = got[a]
        /\ \A a \in DOMAIN WithToken : WithToken[a] \in Nat
    BY WithTokenIs
  <1>4. /\ Len(sent) \in Nat /\ T \in [1 .. n -> Nat] /\ U \in [1 .. m -> Nat]
        /\ n = IF b \in DOMAIN got THEN Len(sent) + 1 ELSE Len(sent)
        /\ m = IF b \in DOMAIN WithToken THEN Len(sent) + 1 ELSE Len(sent)
        /\ \A i \in 1 .. Len(sent) : U[i] = T[i]
        /\ b \in DOMAIN got => T[Len(sent) + 1] = got[b] \div Interval[b]
        /\ b \in DOMAIN WithToken => U[Len(sent) + 1] = WithToken[b] \div Interval[b]
    <2>1. sent \in SentImages /\ (\A a \in DOMAIN got : got[a] \in Nat)
      BY BudgetTypes
    <2>2. /\ Len(sent) \in Nat /\ T \in [1 .. n -> Nat]
          /\ n = IF b \in DOMAIN got THEN Len(sent) + 1 ELSE Len(sent)
          /\ \A i \in 1 .. Len(sent) : T[i] = sent[i].at[b] \div Interval[b]
          /\ b \in DOMAIN got => T[Len(sent) + 1] = got[b] \div Interval[b]
      BY <2>1, FillTypes
    <2>3. \A a \in DOMAIN WithToken : WithToken[a] \in Nat
      BY <1>3
    <2>4. /\ U \in [1 .. m -> Nat]
          /\ m = IF b \in DOMAIN WithToken THEN Len(sent) + 1 ELSE Len(sent)
          /\ \A i \in 1 .. Len(sent) : U[i] = sent[i].at[b] \div Interval[b]
          /\ b \in DOMAIN WithToken => U[Len(sent) + 1] = WithToken[b] \div Interval[b]
      BY <2>1, <2>3, FillTypes
    <2> HIDE DEF T, U, n, m
    <2> QED BY <2>2, <2>4
  <1>5. Budget(T, n, Capacity[b], Quantum[b], CurrentTick(b), Available(b))
    BY DEF BudgetOf
  <1> HIDE DEF T, U, n, m
  <1>6. Budget(U, m, Capacity[b], Quantum[b], CurrentTick(b), Available(b)')
    <2>1. CASE b = Asked
      <3>1. n = Len(sent) /\ m = n + 1 /\ U[n + 1] = CurrentTick(b)
        BY <1>1, <1>3, <1>4, <2>1 DEF CurrentTick
      <3>2. /\ n \in Nat /\ T \in [1 .. n -> Nat] /\ U \in [1 .. n + 1 -> Nat]
            /\ \A i \in 1 .. n : U[i] = T[i]
        BY <1>4, <3>1
      <3>3. 0 < Available(b) /\ Available(b)' = Available(b) - 1
        BY <1>2, <2>1
      <3>4. Budget(U, n + 1, Capacity[b], Quantum[b], CurrentTick(b), Available(b) - 1)
        BY <1>5, <3>1, <3>2, <3>3, BudgetTypes, BudgetTake
      <3> QED BY <3>1, <3>3, <3>4
    <2>2. CASE b # Asked
      <3>1. m = n /\ \A i \in 1 .. m : U[i] = T[i]
        <4>1. b \in DOMAIN got <=> b \in DOMAIN WithToken
          BY <1>3, <2>2
        <4>2. b \in DOMAIN got => U[Len(sent) + 1] = T[Len(sent) + 1]
          BY <1>3, <1>4, <4>1
        <4>3. m = n /\ n \in {Len(sent), Len(sent) + 1} /\ (n = Len(sent) + 1 => b \in DOMAIN got)
          BY <1>4, <4>1
        <4> QED BY <1>4, <4>2, <4>3
      <3>2. n \in Nat /\ n <= n /\ T \in [1 .. n -> Nat] /\ U \in [1 .. n -> Nat]
        BY <1>4, <3>1
      <3>3. Available(b)' = Available(b) /\ Available(b) <= Available(b)
        BY <1>2, <2>2, BudgetTypes
      <3>4. Budget(U, n, Capacity[b], Quantum[b], CurrentTick(b), Available(b))
        BY <1>5, <3>1, <3>2, <3>3, BudgetTypes, BudgetLess
      <3> QED BY <3>1, <3>3, <3>4
    <2> QED BY <2>1, <2>2
  <1> QED
    BY <1>1, <1>2, <1>6 DEF BudgetOf, U, m

\* The last token, and the image: the attempt's tokens become the image's.
LEMMA GrantedBudget == ASSUME Typed, Granted, NEW b \in Bucket, BudgetOf(b) PROVE BudgetOf(b)'
  <1> DEFINE image == [kind |-> trying, at |-> WithToken]
             T == FillOf(sent, got, b)
             U == FillOf(sent', NoTokens, b)
             n == Count(sent, got, b)
             m == Count(sent', NoTokens, b)
  <1>1. /\ TakeAvailable(Asked) /\ sent' = Append(sent, image) /\ now' = now /\ got' = NoTokens
        /\ Asked \in Bucket /\ Asked \notin DOMAIN got /\ Available(Asked) # 0 /\ Asked = "pace"
        /\ DOMAIN NoTokens = {}
    BY AskedNext DEF Granted, Empty, NoTokens
  <1>2. /\ Available(b)' = IF b = Asked THEN Available(b) - 1 ELSE Available(b)
        /\ CurrentTick(b)' = CurrentTick(b) /\ Available(Asked) > 0
    BY <1>1, TakeEffect, AvailableBound DEF Taken
  <1>3. /\ DOMAIN got \cup {Asked} = Bucket /\ WithToken[Asked] = now
        /\ \A a \in DOMAIN got : WithToken[a] = got[a]
    BY <1>1, WithTokenIs, AskedNext
  <1>4. image \in Images /\ image.at = WithToken
    BY GrantedImage
  <1> HIDE DEF image
  <1>5. /\ sent \in SentImages /\ sent' \in SentImages /\ Len(sent) \in Nat /\ Len(sent') = Len(sent) + 1
        /\ \A i \in 1 .. Len(sent) : sent'[i] = sent[i]
        /\ sent'[Len(sent) + 1] = image
    BY <1>1, <1>4, BudgetTypes, AppendImage DEF SentImages
  <1>6. /\ n = IF b \in DOMAIN got THEN Len(sent) + 1 ELSE Len(sent)
        /\ \A i \in 1 .. Len(sent) : T[i] = sent[i].at[b] \div Interval[b]
        /\ b \in DOMAIN got => T[Len(sent) + 1] = got[b] \div Interval[b]
        /\ T \in [1 .. n -> Nat]
    <2>1. sent \in SentImages /\ (\A a \in DOMAIN got : got[a] \in Nat)
      BY BudgetTypes
    <2> QED BY <2>1, FillTypes
  <1>7. /\ m = Len(sent) + 1 /\ U \in [1 .. m -> Nat]
        /\ \A i \in 1 .. m : U[i] = sent'[i].at[b] \div Interval[b]
    <2>1. sent' \in SentImages /\ (\A a \in DOMAIN NoTokens : NoTokens[a] \in Nat) /\ b \notin DOMAIN NoTokens
      BY <1>1, <1>5
    <2>2. /\ m = Len(sent') /\ U \in [1 .. m -> Nat]
          /\ \A i \in 1 .. Len(sent') : U[i] = sent'[i].at[b] \div Interval[b]
      BY <2>1, FillTypes
    <2> HIDE DEF U, m
    <2> QED BY <1>5, <2>2
  <1>8. Budget(T, n, Capacity[b], Quantum[b], CurrentTick(b), Available(b))
    BY DEF BudgetOf
  <1> HIDE DEF T, U, n, m
  <1>9. U[Len(sent) + 1] = WithToken[b] \div Interval[b]
        /\ \A i \in 1 .. Len(sent) : U[i] = T[i]
    <2>1. U[Len(sent) + 1] = sent'[Len(sent) + 1].at[b] \div Interval[b]
      BY <1>5, <1>7
    <2>2. \A i \in 1 .. Len(sent) : U[i] = sent'[i].at[b] \div Interval[b]
      BY <1>5, <1>7
    <2> QED BY <1>4, <1>5, <1>6, <2>1, <2>2
  <1>10. Budget(U, m, Capacity[b], Quantum[b], CurrentTick(b), Available(b)')
    <2>1. CASE b = Asked
      <3>1. n = Len(sent) /\ m = n + 1 /\ U[n + 1] = CurrentTick(b)
        BY <1>1, <1>3, <1>6, <1>7, <1>9, <2>1 DEF CurrentTick
      <3>2. \A i \in 1 .. n : U[i] = T[i]
        BY <1>9, <3>1
      <3>3. n \in Nat /\ T \in [1 .. n -> Nat] /\ U \in [1 .. n + 1 -> Nat]
        BY <1>5, <1>6, <1>7, <3>1
      <3>4. 0 < Available(b) /\ Available(b)' = Available(b) - 1
        BY <1>2, <2>1
      <3>5. Budget(U, n + 1, Capacity[b], Quantum[b], CurrentTick(b), Available(b) - 1)
        BY <1>8, <3>1, <3>2, <3>3, <3>4, BudgetTypes, BudgetTake
      <3> QED BY <3>1, <3>4, <3>5
    <2>2. CASE b # Asked
      <3>1. b \in DOMAIN got
        BY <1>3, <2>2
      <3>2. m = n /\ n \in Nat /\ U[Len(sent) + 1] = T[Len(sent) + 1]
        BY <1>3, <1>5, <1>6, <1>7, <1>9, <3>1
      <3>3. /\ \A i \in 1 .. n : U[i] = T[i]
            /\ n <= n /\ T \in [1 .. n -> Nat] /\ U \in [1 .. n -> Nat]
        BY <1>5, <1>6, <1>7, <1>9, <3>2
      <3>4. Available(b)' = Available(b) /\ Available(b) <= Available(b)
        BY <1>2, <2>2, BudgetTypes
      <3>5. Budget(U, n, Capacity[b], Quantum[b], CurrentTick(b), Available(b))
        BY <1>8, <3>2, <3>3, <3>4, BudgetTypes, BudgetLess
      <3> QED BY <3>2, <3>4, <3>5
    <2> QED BY <2>1, <2>2
  <1> QED
    BY <1>1, <1>2, <1>10 DEF BudgetOf, U, m

\* A fill adds at most Quantum.
LEMMA PassBudget == ASSUME Typed, Pass, NEW b \in Bucket, BudgetOf(b) PROVE BudgetOf(b)'
  <1>1. sent' = sent /\ got' = got
    BY DEF Pass
  <1>2. CASE now' % Interval[b] # 0
    <2>1. Available(b)' = Available(b) /\ CurrentTick(b)' = CurrentTick(b)
      BY <1>2, PassEffect, BudgetTypes
    <2> QED BY <1>1, <2>1, SameBudget
  <1>3. CASE now' % Interval[b] = 0
    <2>1. /\ Available(b)' \in Nat /\ Available(b)' <= Available(b) + Quantum[b]
          /\ CurrentTick(b)' = CurrentTick(b) + 1
      BY <1>3, PassEffect, BudgetTypes
    <2>2. Budget(FillOf(sent, got, b), Count(sent, got, b),
                 Capacity[b], Quantum[b], CurrentTick(b), Available(b))
      BY DEF BudgetOf
    <2>3. Budget(FillOf(sent, got, b), Count(sent, got, b),
                 Capacity[b], Quantum[b], CurrentTick(b) + 1, Available(b)')
      BY <2>1, <2>2, BudgetTypes, BudgetFill
    <2> QED BY <1>1, <2>1, <2>3 DEF BudgetOf
  <1> QED BY <1>2, <1>3

\* camera.New's limits hold for all intervals, capacities and quanta.  They say
\* nothing of the tokens that are left, of an attempt that has some, or of one that was
\* refused and had some: Budget says of every token taken for an image or the attempt under
\* way, with those left, what WithinEveryLimit says of the images alone.
THEOREM LimitsHold == Spec => []WithinEveryLimit
  <1>1. Init => LimitInv
    <2> SUFFICES ASSUME Init PROVE LimitInv
      OBVIOUS
    <2>1. sent = <<>> /\ DOMAIN got = {}
      BY DEF Init, NoTokens
    <2>2. \A b : Count(sent, got, b) = 0
      BY <2>1 DEF Count
    <2> QED
      BY <2>2, TypedInit DEF LimitInv, BudgetOf, Budget
  <1>2. LimitInv /\ [Next]_vars => LimitInv'
    <2> SUFFICES ASSUME LimitInv, [Next]_vars PROVE LimitInv'
      OBVIOUS
    <2>1. Typed /\ Typed'
      BY TypedStep DEF LimitInv
    <2>2. ASSUME NEW b \in Bucket PROVE BudgetOf(b)'
      <3>1. BudgetOf(b)
        BY DEF LimitInv
      <3>2. CASE TakesNothing
        BY <3>1, <3>2, SameBudget DEF TakesNothing, Available, CurrentTick
      <3>3. CASE Refused BY <2>1, <3>1, <3>3, RefusedBudget
      <3>4. CASE GoesOn BY <2>1, <3>1, <3>4, GoesOnBudget
      <3>5. CASE Granted BY <2>1, <3>1, <3>5, GrantedBudget
      <3>6. CASE Pass BY <2>1, <3>1, <3>6, PassBudget
      <3>7. CASE \E a \in Bucket : ShowTokens(a)
        <4>1. sent' = sent /\ got' = got
          BY <3>7 DEF ShowTokens
        <4> QED BY <2>1, <3>1, <3>7, <4>1, ShowEffect, SameBudget
      <3> QED BY <2>1, <3>2, <3>3, <3>4, <3>5, <3>6, <3>7, StepCases
    <2> QED BY <2>1, <2>2 DEF LimitInv
  <1>3. LimitInv => WithinEveryLimit
    <2> SUFFICES ASSUME LimitInv, NEW b \in Bucket, NEW i \in DOMAIN sent, NEW j \in DOMAIN sent, i <= j
                 PROVE  j - i + 1 <= Capacity[b]
                            + Quantum[b] * (sent[j].at[b] \div Interval[b] - sent[i].at[b] \div Interval[b])
      BY DEF WithinEveryLimit
    <2>1. Typed /\ BudgetOf(b)
      BY DEF LimitInv
    <2>2. sent \in SentImages /\ (\A a \in DOMAIN got : got[a] \in Nat)
      BY <2>1, BudgetTypes
    <2>3. Len(sent) \in Nat /\ i \in 1 .. Len(sent) /\ j \in 1 .. Len(sent)
      BY <2>2 DEF SentImages
    <2>4. /\ i \in 1 .. Count(sent, got, b) /\ j \in 1 .. Count(sent, got, b)
          /\ FillOf(sent, got, b)[i] = sent[i].at[b] \div Interval[b]
          /\ FillOf(sent, got, b)[j] = sent[j].at[b] \div Interval[b]
      <3>1. /\ Len(sent) \in Nat /\ FillOf(sent, got, b) \in [1 .. Count(sent, got, b) -> Nat]
            /\ Count(sent, got, b) = IF b \in DOMAIN got THEN Len(sent) + 1 ELSE Len(sent)
            /\ \A l \in 1 .. Len(sent) : FillOf(sent, got, b)[l] = sent[l].at[b] \div Interval[b]
        BY <2>2, FillTypes
      <3> QED BY <2>3, <3>1
    <2> QED BY <2>1, <2>4 DEF BudgetOf, Budget
  <1> QED
    BY <1>1, <1>2, <1>3, PTL DEF Spec

\* The pace bucket as camera.New makes it: NewBucketWithQuantum(15*time.Second, 6, 6).
PaceOfCameraNew == Interval["pace"] = 15 /\ Capacity["pace"] = 6 /\ Quantum["pace"] = 6

AtMostThirty ==
    PaceOfCameraNew =>
        \A i, j \in DOMAIN sent : i <= j /\ SentAt(j) - SentAt(i) < 60 => j - i + 1 <= 30

\* What does hold of any minute, where camera.go says twenty: with the pace bucket of
\* camera.New at most thirty images are sent within sixty seconds, wherever they begin,
\* since no more than four fills of six fall between two of them.  Thirty can be sent.
THEOREM ThirtyAMinute == Spec => []AtMostThirty
  <1>1. Typed /\ WithinEveryLimit => AtMostThirty
    <2> SUFFICES ASSUME Typed, WithinEveryLimit, PaceOfCameraNew,
                        NEW i \in DOMAIN sent, NEW j \in DOMAIN sent,
                        i <= j, SentAt(j) - SentAt(i) < 60
                 PROVE  j - i + 1 <= 30
      BY DEF AtMostThirty
    <2>1. SentAt(i) \in Nat /\ SentAt(j) \in Nat /\ i \in Nat /\ j \in Nat
      BY TokenTimes DEF SentAt, Bucket
    <2>2. j - i + 1 <= 6 + 6 * (SentAt(j) \div 15 - SentAt(i) \div 15)
      BY DEF WithinEveryLimit, PaceOfCameraNew, Bucket, SentAt
    <2>3. \A a, b \in Nat : b - a < 60 => b \div 15 - a \div 15 <= 4
      OBVIOUS
    <2>4. \A a \in Nat : a \div 15 \in Nat
      OBVIOUS
    <2> QED BY <2>1, <2>2, <2>3, <2>4
  <1> QED
    BY <1>1, TypedInit, TypedStep, LimitsHold, PTL DEF Spec

-----------------------------------------------------------------------------
(* Each bucket implements TokenBucket.                                      *)

\* A step is a step or a stutter of the bucket that fills itself.
LEMMA IdealStep ==
  ASSUME Typed, [Next]_vars, NEW b \in Bucket
  PROVE  [Ideal(b)!Next]_(Ideal(b)!vars)
  <1>1. ASSUME NEW a \in Bucket, TakeAvailable(a), now' = now
        PROVE  [Ideal(b)!Next]_(Ideal(b)!vars)
    BY <1>1, TakeEffect, AvailableBound DEF Taken, Ideal!Next, Ideal!Take, Ideal!vars
  <1>2. CASE TakesNothing
    BY <1>2 DEF TakesNothing, Ideal!vars, Available, CurrentTick
  <1>3. CASE Refused \/ GoesOn \/ Granted
    BY <1>1, <1>3, AskedNext DEF Refused, GoesOn, Granted
  <1>4. CASE \E a \in Bucket : ShowTokens(a)
    BY <1>4, ShowEffect DEF ShowTokens, Ideal!vars
  <1>5. CASE Pass
    BY <1>5, PassEffect DEF Pass, Ideal!Next, Ideal!Pass, Ideal!AtMost
  <1> QED BY <1>2, <1>3, <1>4, <1>5, StepCases

LEMMA IdealInit == ASSUME Init, NEW b \in Bucket PROVE Ideal(b)!Init
  <1>1. CurrentTick(b) = 0
    BY BucketTypes DEF Init, CurrentTick
  <1> QED
    BY <1>1, BucketTypes DEF Init, Available, Ideal!Init

\* juju/ratelimit's lazy bucket, looked at only by the attempts that reach it and
\* by the tokens command, implements the one that fills itself on time, for all
\* constants.
THEOREM BucketsFillThemselves == Spec => BucketsAreIdeal
  <1>1. Init => \A b \in Bucket : Ideal(b)!Init
    BY IdealInit
  <1>2. Typed /\ [Next]_vars => [\A b \in Bucket : [Ideal(b)!Next]_(Ideal(b)!vars)]_vars
    BY IdealStep
  <1> QED
    BY <1>1, <1>2, TypedInit, TypedStep, PTL DEF Spec, BucketsAreIdeal

=============================================================================
