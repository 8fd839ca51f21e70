----------------------------- MODULE StoreProofs -----------------------------
(***************************************************************************)
(* Schedule implements Store, for every week, every number of hours and    *)
(* every set of commands: what statements under a lock do one by one is,   *)
(* seen from outside, done at once.                                        *)
(*                                                                         *)
(* ScheduleOpProofs says what an operation has not done.  Here it is what  *)
(* it has: every slot it names is as asked or still in front of it (Owed). *)
(***************************************************************************)
EXTENDS ScheduleOpProofs

\* The slots g has still to come to.
Ahead(g) == {todo[g][i].slot : i \in 1 .. Len(todo[g])}

Owed(g) ==
    /\ Doing(g).name \in {"activate", "init"} => Named(Doing(g)) \subseteq rows \cup Ahead(g)
    /\ Doing(g).name = "deactivate" =>
         IF Doing(g).obj.hour < HourLimit THEN Named(Doing(g)) \cap rows \subseteq Ahead(g)
         ELSE todo[g] = <<>> /\ rows = base[g]
    /\ Doing(g).name = "setmode" => Len(todo[g]) <= 1

OwedInv == OpInv /\ \A g \in Goroutine : Inside(g) => Owed(g)

-----------------------------------------------------------------------------
(* The slots an object names.                                               *)

Hours == 0 .. HourLimit - 1

\* ActivateAll comes to every hour of every day.
LEMMA AllSlotsAreTheWeek == ToSet(AllSlots) = ToSet(Weekdays) \X Hours
  <1> DEFINE L == Len(Weekdays)
             Slot(i) == <<Weekdays[((i - 1) \div HourLimit) + 1], (i - 1) % HourLimit>>
  <1>1. L \in Nat /\ HourLimit \in Nat \ {0}
    BY WeekdaysAssumption, LenProperties, HourAssumption
  <1>2. ToSet(AllSlots) = {Slot(i) : i \in 1 .. L * HourLimit}
    BY DEF ToSet, AllSlots
  <1>3. ToSet(Weekdays) = {Weekdays[d] : d \in 1 .. L}
    BY WeekdaysAssumption DEF ToSet
  <1>4. ASSUME NEW i \in 1 .. L * HourLimit PROVE Slot(i) \in ToSet(Weekdays) \X Hours
    <2> DEFINE d == (i - 1) \div HourLimit
               h == (i - 1) % HourLimit
    <2>1. L # 0 /\ i - 1 \in 0 .. (HourLimit * L) - 1
      <3> HIDE DEF L
      <3>1. L = 0 => L * HourLimit = 0
        BY <1>1
      <3>2. L * HourLimit = HourLimit * L /\ HourLimit * L \in Nat
        BY <1>1
      <3> QED BY <1>4, <3>1, <3>2
    <2>2. d \in 0 .. L - 1 /\ h \in 0 .. HourLimit - 1
      <3> HIDE DEF L
      <3> QED BY <1>1, <2>1, Cells
    <2> HIDE DEF d, h
    <2>3. d + 1 \in 1 .. L
      BY <1>1, <2>2
    <2>4. <<Weekdays[d + 1], h>> \in ToSet(Weekdays) \X Hours
      BY <1>3, <2>2, <2>3 DEF Hours
    <2> QED BY <2>4 DEF d, h
  <1>5. ASSUME NEW w \in ToSet(Weekdays), NEW h \in Hours PROVE \E i \in 1 .. L * HourLimit : Slot(i) = <<w, h>>
    <2>1. PICK e \in 1 .. L : w = Weekdays[e]
      BY <1>3
    <2> DEFINE k == e - 1
               i == k * HourLimit + h + 1
    <2> HIDE DEF L
    <2>2. L \in Nat \ {0} /\ k \in 0 .. L - 1 /\ h \in 0 .. HourLimit - 1
      BY <1>1, <2>1 DEF Hours
    <2> HIDE DEF k
    <2>3. i \in 1 .. HourLimit * L
      BY <1>1, <2>2, CellIndex
    <2>4. i - 1 = k * HourLimit + h /\ L * HourLimit = HourLimit * L
      BY <1>1, <2>2
    <2>5. (i - 1) \div HourLimit = k /\ (i - 1) % HourLimit = h
      BY <1>1, <2>2, <2>4, DivMod
    <2> HIDE DEF i
    <2>6. Slot(i) = <<Weekdays[k + 1], h>>
      BY <2>5
    <2>7. k + 1 = e
      BY <2>1 DEF k
    <2> QED BY <2>1, <2>3, <2>4, <2>6, <2>7
  <1> HIDE DEF L, Slot
  <1>6. ToSet(AllSlots) \subseteq ToSet(Weekdays) \X Hours
    BY <1>2, <1>4
  <1>7. ASSUME NEW s \in ToSet(Weekdays) \X Hours PROVE s \in ToSet(AllSlots)
    <2>1. PICK w \in ToSet(Weekdays), h \in Hours : s = <<w, h>>
      OBVIOUS
    <2> QED BY <1>2, <1>5, <2>1
  <1> QED BY <1>6, <1>7

\* An object names the slots that Store says it names.
LEMMA SlotsOfAreNamed == ASSUME NEW o \in Objs PROVE ToSet(SlotsOf(o)) = Outside!Named(o)
  <1>1. o.day \in ToSet(Weekdays) \cup {"any"} /\ (o.hour \in Nat \/ (o.hour = -1 /\ o.day # "any"))
    BY ObjsAssumption
  <1>2. HourLimit \in Nat \ {0}
    BY HourAssumption
  <1>3. CASE o.hour = -1
    <2>1. ToSet(DayHours(o.day)) = {<<o.day, i - 1>> : i \in 1 .. HourLimit}
      BY DEF ToSet, DayHours
    <2>2. {<<o.day, i - 1>> : i \in 1 .. HourLimit} = {o.day} \X Hours
      <3>1. ASSUME NEW h \in Hours PROVE h + 1 \in 1 .. HourLimit /\ (h + 1) - 1 = h
        BY <1>2 DEF Hours
      <3>2. ASSUME NEW i \in 1 .. HourLimit PROVE i - 1 \in Hours
        BY <1>2 DEF Hours
      <3> QED BY <3>1, <3>2
    <2>3. Outside!Named(o) = {o.day} \X Hours
      BY <1>1, <1>3 DEF Outside!Named, Hours
    <2> QED BY <1>3, <2>1, <2>2, <2>3 DEF SlotsOf
  <1>4. CASE o.hour # -1 /\ o.day = "any"
    <2>1. Len(Weekdays) \in Nat /\ ToSet(Weekdays) = {Weekdays[i] : i \in 1 .. Len(Weekdays)}
      BY WeekdaysAssumption, LenProperties DEF ToSet
    <2>2. ToSet(WeekOf(o.hour)) = {<<Weekdays[i], o.hour>> : i \in 1 .. Len(Weekdays)}
      BY DEF ToSet, WeekOf
    <2>3. {<<Weekdays[i], o.hour>> : i \in 1 .. Len(Weekdays)} = ToSet(Weekdays) \X {o.hour}
      BY <2>1
    <2>4. Outside!Named(o) = ToSet(Weekdays) \X {o.hour}
      BY <1>4 DEF Outside!Named
    <2> QED BY <1>4, <2>2, <2>3, <2>4 DEF SlotsOf
  <1>5. CASE o.hour # -1 /\ o.day # "any"
    <2>1. ToSet(SlotsOf(o)) = {<<o.day, o.hour>>}
      BY <1>5 DEF SlotsOf, ToSet
    <2>2. Outside!Named(o) = {o.day} \X {o.hour}
      BY <1>5 DEF Outside!Named
    <2> QED BY <2>1, <2>2
  <1> QED BY <1>3, <1>4, <1>5

-----------------------------------------------------------------------------
(* What an operation has still to do is in front of it.                     *)

\* A statement executed is no longer ahead; all others are.
LEMMA AheadStep ==
  ASSUME ModeInv, NEW g \in Goroutine, todo[g] # <<>>, todo'[g] = Tail(todo[g])
  PROVE  Ahead(g) = {Stmt(g).slot} \cup Ahead(g)' /\ Len(todo'[g]) = Len(todo[g]) - 1
  <1>1. /\ Stmt(g) = todo[g][1] /\ Len(todo[g]) \in Nat \ {0} /\ Len(todo'[g]) = Len(todo[g]) - 1
        /\ \A i \in 1 .. Len(todo'[g]) : i + 1 \in 1 .. Len(todo[g]) /\ todo'[g][i] = todo[g][i + 1]
    BY TailFacts
  <1>2. ASSUME NEW i \in 1 .. Len(todo[g])
        PROVE  i = 1 \/ (i - 1 \in 1 .. Len(todo'[g]) /\ todo'[g][i - 1] = todo[g][i])
    <2>1. CASE i = 1
      BY <2>1
    <2>2. CASE i # 1
      <3>1. i - 1 \in 1 .. Len(todo'[g]) /\ (i - 1) + 1 = i
        BY <1>1, <1>2, <2>2
      <3> QED BY <1>1, <3>1
    <2> QED BY <2>1, <2>2
  <1>3. Ahead(g)' = {todo'[g][i].slot : i \in 1 .. Len(todo'[g])}
    BY DEF Ahead
  <1>4. Ahead(g)' \subseteq Ahead(g)
    BY <1>1, <1>3 DEF Ahead
  <1>5. Stmt(g).slot \in Ahead(g)
    BY <1>1 DEF Ahead
  <1>6. Ahead(g) \subseteq {Stmt(g).slot} \cup Ahead(g)'
    BY <1>1, <1>2, <1>3 DEF Ahead
  <1> QED BY <1>1, <1>4, <1>5, <1>6

LEMMA LockOwed == ASSUME OpInv, NEW g \in Goroutine, Lock(g) PROVE Owed(g)'
  <1> DEFINE op == Head(plan[g])
  <1>1. op \in AnyOp
    BY DEF Lock, OpInv, ModeInv, Shape
  <1>2. /\ Doing(g)' = op /\ rows' = rows /\ base'[g] = rows /\ todo'[g] = Statements(op)
    BY DEF Lock, OpInv, ModeInv, Shape, Typed, Doing
  <1>3. Ahead(g)' = {Statements(op)[i].slot : i \in 1 .. Len(Statements(op))}
    BY <1>2 DEF Ahead
  <1> HIDE DEF op
  <1>4. ASSUME NEW kind, NEW slots \in Seq(AnySlot), Statements(op) = EachSlot(kind, slots)
        PROVE  Ahead(g)' = ToSet(slots)
    <2>1. ToSet(slots) = {slots[i] : i \in 1 .. Len(slots)}
      BY DEF ToSet
    <2>2. \A i \in 1 .. Len(slots) : EachSlot(kind, slots)[i].slot = slots[i]
      BY EachSlotFacts, StatementFields
    <2>3. Len(EachSlot(kind, slots)) = Len(slots)
      BY EachSlotFacts
    <2> QED BY <1>3, <1>4, <2>1, <2>2, <2>3
  <1>5. CASE op.name \in {"activate", "init"}
    <2> DEFINE slots == IF op.name = "init" THEN AllSlots ELSE SlotsOf(op.obj)
    <2>1. slots \in Seq(AnySlot) /\ Named(op) = ToSet(slots)
      BY <1>1, <1>5, OpNames, SlotSeqs DEF Named
    <2>2. Statements(op) = EachSlot("insert", slots)
      BY <1>5 DEF Statements
    <2>3. Ahead(g)' = Named(op)
      <3> HIDE DEF slots
      <3> QED BY <1>4, <2>1, <2>2
    <2> QED BY <1>2, <1>5, <2>3 DEF Owed, Named
  <1>6. CASE op.name = "deactivate"
    <2>1. SlotsOf(op.obj) \in Seq(AnySlot) /\ Named(op) = ToSet(SlotsOf(op.obj))
      BY <1>1, <1>6, OpNames, SlotSeqs DEF Named
    <2>2. CASE op.obj.hour < HourLimit
      <3>1. Statements(op) = EachSlot("delete", SlotsOf(op.obj))
        BY <1>6, <2>2 DEF Statements
      <3>2. Ahead(g)' = Named(op)
        BY <1>4, <2>1, <3>1
      <3> QED BY <1>2, <1>6, <2>2, <3>2 DEF Owed, Named
    <2>3. CASE ~(op.obj.hour < HourLimit)
      <3>1. Statements(op) = <<>>
        BY <1>6, <2>3 DEF Statements
      <3> QED BY <1>2, <1>6, <2>3, <3>1 DEF Owed
    <2> QED BY <2>2, <2>3
  <1>7. CASE op.name = "setmode"
    <2>1. Len(Statements(op)) = 1
      BY <1>7 DEF Statements
    <2> QED BY <1>2, <1>7, <2>1 DEF Owed
  <1>8. CASE op.name \in {"table", "activenow", "getmode"}
    BY <1>2, <1>8 DEF Owed
  <1> QED BY <1>1, <1>5, <1>6, <1>7, <1>8, OpNames

LEMMA ExecuteOwed ==
  ASSUME OpInv, NEW g \in Goroutine, Owed(g), Execute(g) PROVE Owed(g)'
  <1>1. /\ Inside(g) /\ todo[g] # <<>> /\ UNCHANGED <<clock, lock, plan, base>>
        /\ Doing(g)' = Doing(g)
    BY ExecuteFrame DEF OpInv, Doing
  <1>2. CASE Insert(g)
    <2>1. /\ Doing(g).name \in {"activate", "init"} /\ rows' = rows \cup {Stmt(g).slot}
          /\ todo'[g] = Tail(todo[g])
      BY <1>1, <1>2, KindTells DEF Insert, Running, Advance, OpInv, ModeInv, Shape
    <2>2. Ahead(g) = {Stmt(g).slot} \cup Ahead(g)'
      BY <1>1, <2>1, AheadStep DEF OpInv
    <2> QED BY <1>1, <2>1, <2>2 DEF Owed, Named
  <1>3. CASE Delete(g)
    <2>1. /\ Doing(g).name = "deactivate" /\ rows' = rows \ {Stmt(g).slot}
          /\ todo'[g] = Tail(todo[g])
      BY <1>1, <1>3, KindTells DEF Delete, Running, Advance, OpInv, ModeInv, Shape
    <2>2. Ahead(g) = {Stmt(g).slot} \cup Ahead(g)'
      BY <1>1, <2>1, AheadStep DEF OpInv
    <2>3. Doing(g).obj.hour < HourLimit
      BY <1>1, <2>1 DEF Owed
    <2> QED BY <1>1, <2>1, <2>2, <2>3 DEF Owed, Named
  <1>4. CASE WriteMode(g)
    <2>1. Doing(g).name = "setmode" /\ todo'[g] = Tail(todo[g])
      BY <1>1, <1>4, KindTells DEF WriteMode, Running, Advance, OpInv, ModeInv, Shape
    <2>2. Len(todo'[g]) = Len(todo[g]) - 1 /\ Len(todo[g]) \in Nat
      BY <1>1, <2>1, AheadStep, TailFacts DEF OpInv
    <2> QED BY <1>1, <2>1, <2>2 DEF Owed
  <1>5. CASE ~(Insert(g) \/ Delete(g) \/ WriteMode(g))
    <2>1. Stmt(g).kind \in {"cell", "mode", "default", "count"}
      BY <1>5 DEF Execute, Cell, ReadMode, ReadNoMode, WriteDefault, Count, Running
    <2>2. Doing(g).name \in {"table", "getmode", "activenow"}
      BY <1>1, <2>1, KindTells
    <2> QED BY <1>1, <2>2 DEF Owed
  <1> QED BY <1>2, <1>3, <1>4, <1>5

LEMMA InitOwed == Init => OwedInv
  BY InitOp DEF Init, OwedInv, Inside

LEMMA NextOwed == OwedInv /\ [Next]_vars => OwedInv'
  <1> SUFFICES ASSUME OwedInv, [Next]_vars, NEW h \in Goroutine, Inside(h)' PROVE Owed(h)'
    BY NextOp DEF OwedInv
  <1>1. OpInv /\ OneHolder /\ \A g \in Goroutine : Inside(g) => plan[g] # <<>> /\ Owed(g)
    BY DEF OwedInv, OpInv, ModeInv, HolderIsBusy, Inside
  <1>2. ASSUME NEW g \in Goroutine, Lock(g) PROVE Owed(h)'
    <2>1. h = g
      BY <1>2 DEF Lock, LockFree, Inside
    <2> QED BY <1>1, <1>2, <2>1, LockOwed
  <1>3. ASSUME NEW g \in Goroutine, Execute(g) PROVE Owed(h)'
    <2>1. Inside(g) /\ lock' = lock
      BY <1>1, <1>3, ExecuteFrame DEF OpInv
    <2>2. h = g
      BY <1>1, <2>1 DEF OneHolder, Inside
    <2> QED BY <1>1, <1>3, <2>1, <2>2, ExecuteOwed
  <1>4. ASSUME NEW g \in Goroutine, Finish(g) \/ Fail(g) PROVE FALSE
    BY <1>1, <1>4 DEF Finish, Fail, Done, Return, OneHolder, Inside
  <1>5. ~Crash
    BY DEF Crash, Inside
  <1>6. ASSUME (\E g \in Goroutine : Begin(g)) \/ TimePasses \/ UNCHANGED vars PROVE Owed(h)'
    <2>1. UNCHANGED <<rows, lock, todo, base>>
      BY <1>6 DEF Begin, TimePasses, vars
    <2>2. Inside(h) /\ plan[h] # <<>> /\ Owed(h)
      BY <1>1, <2>1 DEF Inside
    <2>3. plan'[h] = plan[h]
      <3>1. ASSUME NEW g \in Goroutine, Begin(g) PROVE plan'[h] = plan[h]
        BY <2>2, <3>1 DEF Begin
      <3>2. TimePasses \/ UNCHANGED vars => plan' = plan
        BY DEF TimePasses, vars
      <3> QED BY <1>6, <3>1, <3>2
    <2> QED BY <2>1, <2>2, <2>3 DEF Owed, Ahead, Doing, Named
  <1> QED BY <1>2, <1>3, <1>4, <1>5, <1>6 DEF Next, Step

-----------------------------------------------------------------------------
(* What is seen from outside.                                               *)

LEMMA SeenFree == lock = {} => RowsOutside = rows /\ AnswerOutside = {}
  BY DEF RowsOutside, AnswerOutside, Unfinished, Done, Inside

LEMMA SeenAtWork ==
  ASSUME OneHolder, NEW g \in Goroutine, Inside(g), todo[g] # <<>>
  PROVE  RowsOutside = base[g] /\ AnswerOutside = {}
  <1>1. \A h \in Goroutine : Inside(h) => h = g
    BY DEF OneHolder, Inside
  <1>2. Unfinished = {g} /\ \A h \in Goroutine : ~Done(h)
    BY <1>1 DEF Unfinished, Done
  <1> QED BY <1>2 DEF RowsOutside, AnswerOutside

LEMMA SeenDone ==
  ASSUME OneHolder, NEW g \in Goroutine, Inside(g), todo[g] = <<>>
  PROVE  RowsOutside = rows /\ AnswerOutside = {Answer(g)}
  <1>1. \A h \in Goroutine : Inside(h) => h = g
    BY DEF OneHolder, Inside
  <1>2. Unfinished = {} /\ {h \in Goroutine : Done(h)} = {g}
    BY <1>1 DEF Unfinished, Done
  <1> QED BY <1>2 DEF RowsOutside, AnswerOutside

\* The same after a step.
LEMMA SeenNext ==
  ASSUME OneHolder'
  PROVE  /\ lock' = {} => RowsOutside' = rows' /\ AnswerOutside' = {}
         /\ \A g \in Goroutine : Inside(g)' /\ todo'[g] # <<>> =>
              RowsOutside' = base'[g] /\ AnswerOutside' = {}
         /\ \A g \in Goroutine : Inside(g)' /\ todo'[g] = <<>> =>
              RowsOutside' = rows' /\ AnswerOutside' = {Answer(g)'}
  <1>1. lock' = {} => RowsOutside' = rows' /\ AnswerOutside' = {}
    BY DEF RowsOutside, AnswerOutside, Unfinished, Done, Inside
  <1>2. ASSUME NEW g \in Goroutine, Inside(g)', todo'[g] # <<>>
        PROVE  RowsOutside' = base'[g] /\ AnswerOutside' = {}
    <2>1. \A h \in Goroutine : Inside(h)' => h = g
      BY <1>2 DEF OneHolder, Inside
    <2>2. Unfinished' = {g} /\ \A h \in Goroutine : ~Done(h)'
      BY <1>2, <2>1 DEF Unfinished, Done
    <2> QED BY <2>2 DEF RowsOutside, AnswerOutside
  <1>3. ASSUME NEW g \in Goroutine, Inside(g)', todo'[g] = <<>>
        PROVE  RowsOutside' = rows' /\ AnswerOutside' = {Answer(g)'}
    <2>1. \A h \in Goroutine : Inside(h)' => h = g
      BY <1>3 DEF OneHolder, Inside
    <2>2. Unfinished' = {} /\ {h \in Goroutine : Done(h)'} = {g}
      BY <1>3, <2>1 DEF Unfinished, Done
    <2> QED BY <2>2 DEF RowsOutside, AnswerOutside
  <1> QED BY <1>1, <1>2, <1>3

-----------------------------------------------------------------------------
(* What an operation has done that has no statement left.                   *)

Effect(g) ==
    CASE Doing(g).name = "init" -> base[g] \cup Outside!Week
      [] Doing(g).name = "activate" -> base[g] \cup Outside!Named(Doing(g).obj)
      [] Doing(g).name = "deactivate" ->
           base[g] \ IF Outside!Refused(Doing(g).obj) THEN {} ELSE Outside!Named(Doing(g).obj)
      [] OTHER -> base[g]

WorkDone == \A g \in Goroutine : Done(g) => rows = Effect(g)

LEMMA DoneIsAll == OwedInv => WorkDone
  <1> SUFFICES ASSUME OwedInv, NEW g \in Goroutine, Done(g) PROVE rows = Effect(g)
    BY DEF WorkDone
  <1>1. Stage(g) /\ Owed(g) /\ todo[g] = <<>> /\ Doing(g) \in AnyOp
    BY DoingOp DEF OwedInv, OpInv, StageInv, Done
  <1>2. Ahead(g) = {}
    BY <1>1 DEF Ahead
  <1>3. /\ Doing(g).name \in {"activate", "deactivate"} =>
             Doing(g).obj \in Objs /\ Named(Doing(g)) = Outside!Named(Doing(g).obj)
        /\ Doing(g).name = "init" => Named(Doing(g)) = Outside!Week
    BY <1>1, OpNames, SlotsOfAreNamed, AllSlotsAreTheWeek DEF Named, Outside!Week, Hours
  <1>4. Doing(g).name = "deactivate" =>
          (Outside!Refused(Doing(g).obj) <=> ~(Doing(g).obj.hour < HourLimit))
    BY <1>3, ObjsAssumption, HourAssumption DEF Outside!Refused
  <1>5. CASE Doing(g).name \in {"activate", "init"}
    BY <1>1, <1>2, <1>3, <1>5 DEF Effect, Stage, Adding, Owed
  <1>6. CASE Doing(g).name = "deactivate"
    BY <1>1, <1>2, <1>3, <1>4, <1>6 DEF Effect, Stage, Removing, Owed
  <1>7. CASE Doing(g).name \in {"table", "activenow", "setmode", "getmode"}
    BY <1>1, <1>7 DEF Effect, Stage, Drawing, Asking, Moding
  <1> QED BY <1>1, <1>5, <1>6, <1>7, OpNames

\* The same after a step.
LEMMA DoneIsAllNext == OwedInv' => WorkDone'
  BY DoneIsAll, PTL

\* An operation cut short has done some of it.
LEMMA CutIsSome ==
  ASSUME OwedInv, NEW g \in Goroutine, Inside(g), todo[g] # <<>>,
         RowsOutside' = rows, AnswerOutside' = {}, UNCHANGED <<mode, clock>>
  PROVE  Outside!Cut
  <1>1. RowsOutside = base[g] /\ AnswerOutside = {} /\ Stage(g) /\ Doing(g) \in AnyOp
    BY SeenAtWork, DoingOp DEF OwedInv, OpInv, ModeInv, StageInv
  <1>2. \E slots \in {Outside!Week} \cup {Outside!Named(o) : o \in Objs} : \E some \in SUBSET slots :
          rows = base[g] \cup some \/ rows = base[g] \ some
    <2>1. CASE Doing(g).name \in {"activate", "init"}
      <3>1. base[g] \subseteq rows /\ rows \ base[g] \subseteq Named(Doing(g))
        BY <1>1, <2>1 DEF Stage, Adding
      <3>2. rows = base[g] \cup (rows \ base[g])
        BY <3>1
      <3>3. Named(Doing(g)) \in {Outside!Week} \cup {Outside!Named(o) : o \in Objs}
        BY <1>1, <2>1, OpNames, SlotsOfAreNamed, AllSlotsAreTheWeek DEF Named, Outside!Week, Hours
      <3> QED BY <3>1, <3>2, <3>3
    <2>2. CASE Doing(g).name = "deactivate"
      <3>1. rows \subseteq base[g] /\ base[g] \ rows \subseteq Named(Doing(g))
        BY <1>1, <2>2 DEF Stage, Removing
      <3>2. rows = base[g] \ (base[g] \ rows)
        BY <3>1
      <3>3. Named(Doing(g)) \in {Outside!Week} \cup {Outside!Named(o) : o \in Objs}
        BY <1>1, <2>2, OpNames, SlotsOfAreNamed DEF Named
      <3> QED BY <3>1, <3>2, <3>3
    <2>3. CASE Doing(g).name \in {"table", "activenow", "setmode", "getmode"}
      <3>1. rows = base[g]
        BY <1>1, <2>3 DEF Stage, Drawing, Asking, Moding
      <3> QED BY <3>1
    <2> QED BY <1>1, <2>1, <2>2, <2>3, OpNames
  <1> QED BY <1>1, <1>2 DEF Outside!Cut

\* The table is whole when it is done.
TableIsWhole ==
    \A g \in Goroutine :
        Done(g) /\ Doing(g).name = "table" => result[g].shown = rows \cap Outside!Week

LEMMA TableDone == OwedInv => TableIsWhole
  <1> SUFFICES ASSUME OwedInv, NEW g \in Goroutine, Done(g), Doing(g).name = "table"
               PROVE  result[g].shown = rows \cap Outside!Week
    BY DEF TableIsWhole
  <1>1. Drawing(g) /\ Len(todo[g]) = 0 /\ Len(TableSlots) \in Nat
    BY SlotSeqs DEF Done, OwedInv, OpInv, StageInv, Stage
  <1>2. Drawn(g) = Len(TableSlots)
    BY <1>1 DEF Drawn
  <1>3. {TableSlots[i] : i \in 1 .. Len(TableSlots)} = Outside!Week
    <2>1. {TableSlots[i] : i \in 1 .. Len(TableSlots)} = ToSet(TableSlots)
      BY SlotSeqs DEF ToSet
    <2> QED BY <2>1, SameCells, AllSlotsAreTheWeek DEF Outside!Week, Hours
  <1> QED BY <1>1, <1>2, <1>3 DEF Drawing

LEMMA TableDoneNext == OwedInv' => TableIsWhole'
  BY TableDone, PTL

-----------------------------------------------------------------------------
(* Every step is a step of Store or is not seen.                            *)

LEMMA MapInit == Init => Outside!Init
  BY SeenFree, AllSlotsAreTheWeek DEF Init, Outside!Init, Outside!Week, Hours

\* An operation on the schedule comes to its end.
LEMMA RowsCommit ==
  ASSUME OwedInv', NEW g \in Goroutine, Done(g)', UNCHANGED <<mode, clock>>,
         RowsOutside = base'[g], AnswerOutside = {},
         Doing(g)'.name \in {"activate", "deactivate", "init", "table"}
  PROVE  Outside!Next
  <1> DEFINE op == Doing(g)'
  <1>1. op = Head(plan'[g]) /\ op \in AnyOp
    <2>1. ModeInv' /\ g \in lock'
      BY DEF OwedInv, OpInv, Done, Inside
    <2> QED BY <2>1 DEF ModeInv, Shape, HolderIsBusy, Doing
  <1>2. RowsOutside' = rows' /\ AnswerOutside' = {Answer(g)'}
    BY SeenNext DEF OwedInv, OpInv, ModeInv, Done
  <1>3. rows' = Effect(g)' /\ Answer(g)' = IF op.name = "table" THEN <<"table", result'[g].shown>> ELSE <<"done">>
    BY <1>1, DoneIsAllNext DEF WorkDone, Answer
  <1> HIDE DEF op
  <1>4. CASE op.name = "init"
    <2>1. rows' = base'[g] \cup Outside!Week
      BY <1>3, <1>4 DEF Effect, op, Outside!Week
    <2>2. Outside!TurnOn(Outside!Week)
      BY <1>2, <1>3, <1>4, <2>1 DEF Outside!TurnOn, Outside!Answers
    <2> QED BY <2>2 DEF Outside!Next
  <1>5. CASE op.name = "activate"
    <2>1. rows' = base'[g] \cup Outside!Named(op.obj)
      BY <1>3, <1>5 DEF Effect, op, Outside!Named
    <2>2. Outside!TurnOn(Outside!Named(op.obj))
      BY <1>2, <1>3, <1>5, <2>1 DEF Outside!TurnOn, Outside!Answers
    <2> QED BY <1>1, <1>5, <2>2, OpNames DEF Outside!Next
  <1>6. CASE op.name = "deactivate"
    <2> DEFINE slots == IF Outside!Refused(op.obj) THEN {} ELSE Outside!Named(op.obj)
    <2>1. rows' = base'[g] \ slots
      BY <1>3, <1>6 DEF Effect, op, Outside!Named, Outside!Refused
    <2>2. Outside!TurnOff(slots)
      BY <1>2, <1>3, <1>6, <2>1 DEF Outside!TurnOff, Outside!Answers
    <2> QED BY <1>1, <1>6, <2>2, OpNames DEF Outside!Next
  <1>7. CASE op.name = "table"
    <2>1. rows' = base'[g] /\ result'[g].shown = rows' \cap Outside!Week
      BY <1>3, <1>7, TableDoneNext DEF Effect, op, TableIsWhole, Outside!Week
    <2>2. Outside!GetTable
      BY <1>2, <1>3, <1>7, <2>1 DEF Outside!GetTable, Outside!Answers
    <2> QED BY <2>2 DEF Outside!Next
  <1> QED BY <1>4, <1>5, <1>6, <1>7 DEF op

\* Only an operation with nothing to do is through at once.
LEMMA MapLock ==
  ASSUME OwedInv, OwedInv', NEW g \in Goroutine, Lock(g) PROVE [Outside!Next]_(Outside!vars)
  <1>1. /\ lock = {} /\ Inside(g)' /\ plan[g] # <<>> /\ UNCHANGED <<rows, mode, clock, plan>>
        /\ base'[g] = rows /\ todo'[g] = Statements(Head(plan[g]))
    BY DEF Lock, LockFree, Inside, OwedInv, OpInv, ModeInv, Shape, Typed
  <1>2. RowsOutside = rows /\ AnswerOutside = {}
    BY <1>1, SeenFree
  <1>3. CASE todo'[g] # <<>>
    <2>1. RowsOutside' = base'[g] /\ AnswerOutside' = {}
      BY <1>1, <1>3, SeenNext DEF OwedInv, OpInv, ModeInv
    <2> QED BY <1>1, <1>2, <2>1 DEF Outside!vars
  <1>4. CASE todo'[g] = <<>>
    <2>1. Doing(g)' = Head(plan[g]) /\ Head(plan[g]) \in AnyOp
      BY <1>1 DEF Doing, OwedInv, OpInv, ModeInv, Shape
    <2>2. \A x, y : <<x>> # <<>> /\ <<x, y>> # <<>>
      OBVIOUS
    <2>3. Head(plan[g]).name \notin {"setmode", "getmode", "activenow"}
      BY <1>1, <1>4, <2>2 DEF Statements
    <2>4. Doing(g)'.name \in {"activate", "deactivate", "init", "table"}
      BY <2>1, <2>3, OpNames
    <2> QED BY <1>1, <1>2, <1>4, <2>4, RowsCommit DEF Done
  <1> QED BY <1>3, <1>4

\* The last statement is the operation; those before it are not seen, except the
\* one that writes the default mode.
LEMMA MapExecute ==
  ASSUME OwedInv, OwedInv', NEW g \in Goroutine, Execute(g) PROVE [Outside!Next]_(Outside!vars)
  <1>1. /\ Inside(g) /\ todo[g] # <<>> /\ UNCHANGED <<clock, lock, plan, base>>
        /\ Inside(g)' /\ Doing(g)' = Doing(g) /\ Doing(g) = Head(plan[g])
    BY ExecuteFrame DEF OwedInv, OpInv, Doing, Inside
  <1>2. RowsOutside = base[g] /\ AnswerOutside = {}
    BY <1>1, SeenAtWork DEF OwedInv, OpInv, ModeInv
  <1>3. /\ todo'[g] # <<>> => RowsOutside' = base[g] /\ AnswerOutside' = {}
        /\ todo'[g] = <<>> => RowsOutside' = rows' /\ AnswerOutside' = {Answer(g)'}
    BY <1>1, SeenNext DEF OwedInv, OpInv, ModeInv
  <1>4. CASE todo'[g] # <<>> /\ mode' = mode
    BY <1>1, <1>2, <1>3, <1>4 DEF Outside!vars
  <1>5. CASE Insert(g) \/ Delete(g) \/ Cell(g)
    <2>1. mode' = mode /\ Stmt(g).kind \in {"insert", "delete", "cell"}
      BY <1>5 DEF Insert, Delete, Cell, Running
    <2>2. Doing(g)'.name \in {"activate", "deactivate", "init", "table"}
      BY <1>1, <2>1, KindTells DEF OwedInv
    <2>3. CASE todo'[g] = <<>>
      BY <1>1, <1>2, <2>1, <2>2, <2>3, RowsCommit DEF Done
    <2> QED BY <1>4, <2>1, <2>3
  <1>6. CASE WriteMode(g)
    <2>1. Doing(g).name = "setmode" /\ mode' = Doing(g).mode /\ todo'[g] = Tail(todo[g]) /\ rows' = rows
      BY <1>1, <1>6, KindTells
         DEF WriteMode, Running, Advance, OwedInv, OpInv, ModeInv, Shape
    <2>2. Len(todo'[g]) = Len(todo[g]) - 1 /\ Len(todo[g]) \in Nat \ {0} /\ Len(todo[g]) <= 1
      <3>1. ModeInv /\ Owed(g)
        BY <1>1 DEF OwedInv, OpInv
      <3> QED BY <1>1, <2>1, <3>1, AheadStep, TailFacts DEF Owed
    <2>3. todo'[g] = <<>>
      <3>1. todo'[g] \in Seq(AnyStatement)
        BY DEF OwedInv, OpInv, ModeInv, Shape
      <3> QED BY <2>2, <3>1
    <2>4. rows = base[g] /\ Doing(g).mode \in Mode
      BY <1>1, <2>1, DoingOp, OpNames DEF OwedInv, OpInv, StageInv, Stage, Moding
    <2>5. Answer(g)' = <<"done">>
      BY <1>1, <2>1 DEF Answer
    <2>6. Outside!SetMode(Doing(g).mode)
      BY <1>1, <1>2, <1>3, <2>1, <2>3, <2>4, <2>5 DEF Outside!SetMode, Outside!Answers
    <2> QED BY <2>4, <2>6 DEF Outside!Next
  <1>7. CASE ReadNoMode(g)
    <2>1. todo'[g] = <<Statement("default", NoSlot)>> \o Tail(todo[g]) /\ mode' = mode
      BY <1>7 DEF ReadNoMode, OwedInv, OpInv, ModeInv, Shape
    <2>2. Tail(todo[g]) \in Seq(AnyStatement) /\ Statement("default", NoSlot) \in AnyStatement
      BY <1>1, RestFacts, PlainStatement DEF OwedInv, OpInv, StatementKind
    <2>3. todo'[g] # <<>>
      BY <2>1, <2>2
    <2> QED BY <1>4, <2>1, <2>3
  <1>8. CASE ReadMode(g) \/ WriteDefault(g)
    <2>1. Stmt(g).kind \in {"mode", "default"} /\ rows' = rows /\ mode' \in Mode
          /\ SeeMode(g, mode', Tail(todo[g]))
      BY <1>8 DEF ReadMode, WriteDefault, Running, OwedInv, OpInv, Typed, Mode
    <2>2. /\ todo'[g] = IF mode' = "Sched" THEN Tail(todo[g]) ELSE <<>>
          /\ result'[g].active = (mode' = "On") /\ result'[g].mode = mode'
      BY <2>1 DEF SeeMode, OwedInv, OpInv, ModeInv, Shape, Typed, Result
    <2>3. mode' = Outside!KnownMode
      <3>1. CASE ReadMode(g)
        BY <3>1 DEF ReadMode, Outside!KnownMode
      <3>2. CASE WriteDefault(g)
        <4>1. 1 \in 1 .. Len(todo[g]) /\ todo[g][1].kind = "default"
          BY <1>1, <3>2, TailFacts DEF WriteDefault, Running, OwedInv, OpInv
        <4>2. mode = "none" /\ mode' = "Sched"
          BY <3>2, <4>1 DEF WriteDefault, OwedInv, OpInv, ModeInv, DefaultIsSafe
        <4> QED BY <4>2 DEF Outside!KnownMode
      <3> QED BY <1>8, <3>1, <3>2
    <2>4. CASE todo'[g] # <<>> /\ mode' # mode
      <3>1. Outside!Default
        BY <1>1, <1>2, <1>3, <2>2, <2>3, <2>4 DEF Outside!Default, Outside!KnownMode
      <3> QED BY <3>1 DEF Outside!Next
    <2>5. CASE todo'[g] = <<>> /\ Doing(g).name = "getmode"
      <3>1. rows = base[g] /\ Answer(g)' = <<"mode", mode'>>
        BY <1>1, <2>1, <2>2, <2>5, ModeStatement DEF OwedInv, Answer
      <3>2. Outside!GetMode
        BY <1>1, <1>2, <1>3, <2>1, <2>3, <2>5, <3>1
           DEF Outside!GetMode, Outside!Answers, Outside!KnownMode
      <3> QED BY <3>2 DEF Outside!Next
    <2>6. CASE todo'[g] = <<>> /\ Doing(g).name = "activenow"
      <3>1. rows = base[g] /\ Tail(todo[g]) = <<Statement("count", NoSlot)>>
        BY <1>1, <2>1, <2>6, ModeStatement DEF OwedInv
      <3>2. mode' # "Sched"
        <4>1. \A x : <<x>> # <<>>
          OBVIOUS
        <4> QED BY <2>2, <2>6, <3>1, <4>1
      <3>3. Answer(g)' = <<"active", mode' = "On">>
        BY <1>1, <2>2, <2>6 DEF Answer
      <3>4. (mode' = "On") = (Outside!KnownMode = "On" \/ (Outside!KnownMode = "Sched" /\ clock \in RowsOutside))
        BY <2>3, <3>2
      <3>5. Outside!ActiveNow
        BY <1>1, <1>2, <1>3, <2>1, <2>3, <2>6, <3>1, <3>3, <3>4
           DEF Outside!ActiveNow, Outside!Answers, Outside!KnownMode
      <3> QED BY <3>5 DEF Outside!Next
    <2>7. Doing(g).name \in {"getmode", "activenow"}
      BY <1>1, <2>1, KindTells DEF OwedInv
    <2> QED BY <1>4, <2>4, <2>5, <2>6, <2>7
  <1>9. CASE Count(g)
    <2>1. /\ Stmt(g).kind = "count" /\ UNCHANGED <<rows, mode>> /\ todo'[g] = Tail(todo[g])
          /\ result'[g].active = (clock \in rows)
      BY <1>9 DEF Count, Running, Advance, OwedInv, OpInv, ModeInv, Shape, Typed, Result
    <2>2. Doing(g).name = "activenow"
      BY <1>1, <2>1, KindTells DEF OwedInv
    <2>3. rows = base[g] /\ Asking(g)
      BY <1>1, <2>2 DEF OwedInv, OpInv, StageInv, Stage, Asking
    <2>4. todo[g] = <<Statement("count", NoSlot)>> /\ mode = "Sched"
      <3>1. ASSUME NEW kind \in {"mode", "default"},
                   todo[g] = <<Statement(kind, NoSlot), Statement("count", NoSlot)>>
            PROVE  FALSE
        <4>1. Stmt(g) = Statement(kind, NoSlot)
          BY <3>1 DEF Stmt
        <4> QED BY <2>1, <4>1 DEF Statement
      <3> QED BY <1>1, <2>2, <2>3, <3>1 DEF Asking
    <2>5. todo'[g] = <<>>
      BY <2>1, <2>4
    <2>6. Answer(g)' = <<"active", clock \in rows>>
      BY <1>1, <2>1, <2>2 DEF Answer
    <2>7. Outside!KnownMode = "Sched"
      BY <2>4 DEF Outside!KnownMode
    <2>8. (clock \in rows) = (Outside!KnownMode = "On" \/ (Outside!KnownMode = "Sched" /\ clock \in RowsOutside))
      BY <1>2, <2>3, <2>7
    <2>9. Outside!ActiveNow
      BY <1>1, <1>2, <1>3, <2>1, <2>3, <2>4, <2>5, <2>6, <2>7, <2>8
         DEF Outside!ActiveNow, Outside!Answers, Outside!KnownMode
    <2> QED BY <2>9 DEF Outside!Next
  <1> QED BY <1>5, <1>6, <1>7, <1>8, <1>9 DEF Execute

\* Whoever gives up the lock has been answered, or cut short.
LEMMA MapEnd ==
  ASSUME OwedInv, OwedInv', NEW g \in Goroutine, Finish(g) \/ Fail(g)
  PROVE  Outside!Next
  <1>1. /\ Inside(g) /\ lock' = lock \ {g} /\ UNCHANGED <<rows, mode, clock>>
    BY DEF Finish, Fail, Done, Return
  <1>2. lock' = {}
    BY <1>1 DEF OwedInv, OpInv, ModeInv, OneHolder, Inside
  <1>3. RowsOutside' = rows /\ AnswerOutside' = {}
    BY <1>1, <1>2, SeenNext DEF OwedInv, OpInv, ModeInv
  <1>4. CASE todo[g] = <<>>
    <2>1. RowsOutside = rows /\ AnswerOutside = {Answer(g)}
      BY <1>1, <1>4, SeenDone DEF OwedInv, OpInv, ModeInv
    <2>2. Outside!Answered
      BY <1>1, <1>3, <2>1 DEF Outside!Answered
    <2> QED BY <2>2 DEF Outside!Next
  <1>5. CASE todo[g] # <<>>
    BY <1>1, <1>3, <1>5, CutIsSome DEF Outside!Next
  <1> QED BY <1>4, <1>5

LEMMA MapCrash == ASSUME OwedInv, OwedInv', Crash PROVE [Outside!Next]_(Outside!vars)
  <1>1. lock' = {} /\ UNCHANGED <<rows, mode, clock>>
    BY DEF Crash
  <1>2. RowsOutside' = rows /\ AnswerOutside' = {}
    BY <1>1, SeenNext DEF OwedInv, OpInv, ModeInv
  <1>3. CASE lock = {}
    BY <1>1, <1>2, <1>3, SeenFree DEF Outside!vars
  <1>4. ASSUME NEW g \in Goroutine, Inside(g) PROVE Outside!Next
    <2>1. CASE todo[g] = <<>>
      <3>1. RowsOutside = rows /\ AnswerOutside = {Answer(g)}
        BY <1>4, <2>1, SeenDone DEF OwedInv, OpInv, ModeInv
      <3>2. Outside!Answered
        BY <1>1, <1>2, <3>1 DEF Outside!Answered
      <3> QED BY <3>2 DEF Outside!Next
    <2>2. CASE todo[g] # <<>>
      BY <1>1, <1>2, <1>4, <2>2, CutIsSome DEF Outside!Next
    <2> QED BY <2>1, <2>2
  <1>5. lock \subseteq Goroutine
    BY DEF OwedInv, OpInv, ModeInv, Shape
  <1> QED BY <1>3, <1>4, <1>5 DEF Inside

\* A command that arrives is not seen, the time is.
LEMMA MapIdle ==
  ASSUME OwedInv, OwedInv', (\E g \in Goroutine : Begin(g)) \/ TimePasses \/ UNCHANGED vars
  PROVE  [Outside!Next]_(Outside!vars)
  <1>1. UNCHANGED <<rows, mode, lock, todo, result, base>>
    BY DEF Begin, TimePasses, vars
  <1>2. RowsOutside' = RowsOutside
    BY <1>1 DEF RowsOutside, Unfinished, Inside
  <1>3. AnswerOutside' = AnswerOutside
    <2>1. ASSUME NEW h \in Goroutine, Inside(h) PROVE plan'[h] = plan[h]
      <3>1. plan[h] # <<>>
        BY <2>1 DEF OwedInv, OpInv, ModeInv, HolderIsBusy, Inside
      <3>2. ASSUME NEW g \in Goroutine, Begin(g) PROVE plan'[h] = plan[h]
        BY <3>1, <3>2 DEF Begin
      <3>3. TimePasses \/ UNCHANGED vars => plan' = plan
        BY DEF TimePasses, vars
      <3> QED BY <3>2, <3>3
    <2>2. \A h \in Goroutine : Done(h)' <=> Done(h)
      BY <1>1 DEF Done, Inside
    <2>3. \A h \in Goroutine : Done(h) => Answer(h)' = Answer(h)
      BY <1>1, <2>1 DEF Answer, Done
    <2>4. AnswerOutside' = {Answer(h)' : h \in {k \in Goroutine : Done(k)'}}
      BY DEF AnswerOutside
    <2> QED BY <2>2, <2>3, <2>4 DEF AnswerOutside
  <1>4. clock' = clock \/ clock' \in Outside!Week
    BY AllSlotsAreTheWeek DEF Begin, TimePasses, vars, Outside!Week, Hours
  <1>5. CASE clock' = clock
    BY <1>1, <1>2, <1>3, <1>5 DEF Outside!vars
  <1>6. CASE clock' \in Outside!Week
    <2>1. Outside!TimePasses
      BY <1>1, <1>2, <1>3, <1>6 DEF Outside!TimePasses
    <2> QED BY <2>1 DEF Outside!Next
  <1> QED BY <1>4, <1>5, <1>6

\* Store.lock and the operations under it (datastore.go, schedule.go): seen from
\* outside, an operation of many statements is one, all of it, and what it answers
\* is true of the moment at which it is; one that fails or is cut short has done a
\* part of what it was asked and nothing else.
THEOREM OperationsAreAtomic == Spec => StoreSpec
  <1>1. OwedInv /\ OwedInv' /\ [Next]_vars => [Outside!Next]_(Outside!vars)
    <2> SUFFICES ASSUME OwedInv, OwedInv', [Next]_vars PROVE [Outside!Next]_(Outside!vars)
      OBVIOUS
    <2> QED
      BY MapLock, MapExecute, MapEnd, MapCrash, MapIdle DEF Next, Step
  <1> QED
    BY InitOwed, NextOwed, MapInit, <1>1, PTL DEF Spec, StoreSpec, Outside!Spec

=============================================================================
