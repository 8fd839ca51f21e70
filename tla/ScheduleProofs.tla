-------------------------- MODULE ScheduleProofs ---------------------------
(***************************************************************************)
(* Proofs about Schedule for every week, every number of hours and every   *)
(* set of commands: the mode a command has written is kept.                *)
(*                                                                         *)
(* The danger is GetMode, which writes the default mode one statement      *)
(* after it has found no row.  ModeKept is not inductive: it needs that a  *)
(* default still to be written is one of the goroutine under the lock and  *)
(* that there is no mode yet (DefaultIsSafe), and that the lock has one    *)
(* holder (OneHolder).                                                     *)
(***************************************************************************)
EXTENDS Schedule, SequenceTheorems, TLAPS

AnySlot ==
    ToSet(AllSlots) \cup ToSet(TableSlots) \cup {NoSlot}
        \cup UNION {ToSet(SlotsOf(o)) : o \in Objs}
StatementKind == {"insert", "delete", "cell", "write", "mode", "default", "count"}
AnyStatement == [kind : StatementKind, slot : AnySlot]

AnyOp ==
    {Op(name) : name \in {"init", "table", "getmode", "activenow"}}
        \cup {ObjOp(name, o) : name \in {"activate", "deactivate"}, o \in Objs}
        \cup {ModeOp(m) : m \in Mode}

Shape ==
    /\ todo \in [Goroutine -> Seq(AnyStatement)]
    /\ plan \in [Goroutine -> Seq(AnyOp)]
    /\ lock \subseteq Goroutine

OneHolder == \A g, h \in lock : g = h

\* Only the first statement of the lock's holder may write the default mode, and
\* only while there is none.
DefaultIsSafe ==
    \A g \in Goroutine : \A i \in 1 .. Len(todo[g]) :
        todo[g][i].kind = "default" => i = 1 /\ g \in lock /\ mode = "none"

\* Whoever is inside an operation has it to do.
HolderIsBusy == \A g \in lock : plan[g] # <<>>

ModeInv == Shape /\ OneHolder /\ HolderIsBusy /\ DefaultIsSafe /\ ModeKept

-----------------------------------------------------------------------------
(* Operations and their statements.                                         *)

LEMMA SeqOfItsElements ==
  ASSUME NEW f, NEW n \in Nat, DOMAIN f = 1 .. n, f = [i \in DOMAIN f |-> f[i]]
  PROVE  f \in Seq(ToSet(f))
  <1>1. \A i \in 1 .. n : f[i] \in ToSet(f)
    BY DEF ToSet
  <1> QED
    BY <1>1

LEMMA SlotSeqs ==
    /\ AllSlots \in Seq(AnySlot)
    /\ TableSlots \in Seq(AnySlot)
    /\ \A o \in Objs : SlotsOf(o) \in Seq(AnySlot)
  <1>1. Len(Weekdays) \in Nat /\ HourLimit \in Nat /\ Len(Weekdays) * HourLimit \in Nat
    <2>1. Len(Weekdays) \in Nat
      BY WeekdaysAssumption, LenProperties
    <2>2. \A m, n \in Nat : m * n \in Nat
      OBVIOUS
    <2> QED
      BY <2>1, <2>2, HourAssumption
  <1>2. AllSlots \in Seq(ToSet(AllSlots))
    BY <1>1, SeqOfItsElements DEF AllSlots
  <1>3. TableSlots \in Seq(ToSet(TableSlots))
    BY <1>1, SeqOfItsElements DEF TableSlots
  <1>4. ASSUME NEW o \in Objs PROVE SlotsOf(o) \in Seq(ToSet(SlotsOf(o)))
    <2>1. DayHours(o.day) \in Seq(ToSet(DayHours(o.day)))
      BY <1>1, SeqOfItsElements DEF DayHours
    <2>2. WeekOf(o.hour) \in Seq(ToSet(WeekOf(o.hour)))
      BY <1>1, SeqOfItsElements DEF WeekOf
    <2>3. << <<o.day, o.hour>> >> \in Seq(ToSet(<< <<o.day, o.hour>> >>))
      BY DEF ToSet
    <2> QED
      BY <2>1, <2>2, <2>3 DEF SlotsOf
  <1>5. ASSUME NEW o \in Objs PROVE SlotsOf(o) \in Seq(AnySlot)
    <2>1. ToSet(SlotsOf(o)) \subseteq AnySlot
      BY DEF AnySlot
    <2> QED
      BY <1>4, <2>1
  <1>6. ToSet(AllSlots) \subseteq AnySlot /\ ToSet(TableSlots) \subseteq AnySlot
    BY DEF AnySlot
  <1> QED
    BY <1>2, <1>3, <1>5, <1>6

LEMMA StatementSeqs ==
  ASSUME NEW kind \in StatementKind, NEW slots \in Seq(AnySlot)
  PROVE  /\ EachSlot(kind, slots) \in Seq(AnyStatement)
         /\ \A i \in 1 .. Len(EachSlot(kind, slots)) : EachSlot(kind, slots)[i].kind = kind
  <1>1. \A i \in 1 .. Len(slots) : Statement(kind, slots[i]) \in AnyStatement
    BY DEF Statement, AnyStatement
  <1> QED
    BY <1>1 DEF EachSlot, Statement

LEMMA PlainStatement ==
  ASSUME NEW kind \in StatementKind PROVE Statement(kind, NoSlot) \in AnyStatement
  BY DEF Statement, AnyStatement, AnySlot

LEMMA OneStatement ==
  ASSUME NEW kind \in {"write", "mode"}, NEW s, s = <<Statement(kind, NoSlot)>>
  PROVE  s \in Seq(AnyStatement) /\ \A i \in 1 .. Len(s) : s[i].kind # "default"
  <1>1. Statement(kind, NoSlot) \in AnyStatement /\ Statement(kind, NoSlot).kind = kind
    BY PlainStatement DEF Statement, StatementKind
  <1> QED
    BY <1>1

\* No operation starts out with a default to write.
LEMMA OpStatements ==
  ASSUME NEW op \in AnyOp
  PROVE  /\ Statements(op) \in Seq(AnyStatement)
         /\ \A i \in 1 .. Len(Statements(op)) : Statements(op)[i].kind # "default"
  <1> DEFINE Harmless(s) ==
        s \in Seq(AnyStatement) /\ \A i \in 1 .. Len(s) : s[i].kind # "default"
  <1>1. ASSUME NEW kind \in {"insert", "delete", "cell"}, NEW slots \in Seq(AnySlot)
        PROVE  Harmless(EachSlot(kind, slots))
    <2>1. kind \in StatementKind /\ kind # "default"
      BY DEF StatementKind
    <2> QED
      BY <2>1, StatementSeqs
  <1>2. CASE op \in {ObjOp(name, o) : name \in {"activate", "deactivate"}, o \in Objs}
    <2>1. PICK name \in {"activate", "deactivate"}, o \in Objs : op = ObjOp(name, o)
      BY <1>2
    <2>2. op.name \in {"activate", "deactivate"} /\ op.obj = o
      BY <2>1 DEF ObjOp
    <2>3. \/ Statements(op) = EachSlot("insert", SlotsOf(o))
          \/ Statements(op) = EachSlot("delete", SlotsOf(o))
          \/ Statements(op) = <<>>
      BY <2>2 DEF Statements
    <2>4. Harmless(EachSlot("insert", SlotsOf(o))) /\ Harmless(EachSlot("delete", SlotsOf(o)))
      BY <1>1, SlotSeqs
    <2>5. Harmless(<<>>)
      OBVIOUS
    <2> HIDE DEF Harmless
    <2>6. Harmless(Statements(op))
      BY <2>3, <2>4, <2>5
    <2> QED
      BY <2>6 DEF Harmless
  <1>3. CASE op \in {ModeOp(m) : m \in Mode}
    <2>1. op.name = "setmode"
      BY <1>3 DEF ModeOp
    <2>2. Statements(op) = <<Statement("write", NoSlot)>>
      BY <2>1 DEF Statements
    <2> QED
      BY <2>2, OneStatement
  <1>4. CASE op = Op("init")
    <2>1. op.name = "init"
      BY <1>4 DEF Op
    <2>2. Statements(op) = EachSlot("insert", AllSlots)
      BY <2>1 DEF Statements
    <2>3. Harmless(EachSlot("insert", AllSlots))
      BY <1>1, SlotSeqs
    <2> QED
      BY <2>2, <2>3
  <1>5. CASE op = Op("table")
    <2>1. op.name = "table"
      BY <1>5 DEF Op
    <2>2. Statements(op) = EachSlot("cell", TableSlots)
      BY <2>1 DEF Statements
    <2>3. Harmless(EachSlot("cell", TableSlots))
      BY <1>1, SlotSeqs
    <2> QED
      BY <2>2, <2>3
  <1>6. CASE op = Op("getmode")
    <2>1. op.name = "getmode"
      BY <1>6 DEF Op
    <2>2. Statements(op) = <<Statement("mode", NoSlot)>>
      BY <2>1 DEF Statements
    <2> QED
      BY <2>2, OneStatement
  <1>7. CASE op = Op("activenow")
    <2>1. op.name = "activenow"
      BY <1>7 DEF Op
    <2>2. Statements(op) = <<Statement("mode", NoSlot), Statement("count", NoSlot)>>
      BY <2>1 DEF Statements
    <2>3. /\ Statement("mode", NoSlot) \in AnyStatement
          /\ Statement("count", NoSlot) \in AnyStatement
      BY PlainStatement DEF StatementKind
    <2>4. Statement("mode", NoSlot).kind = "mode" /\ Statement("count", NoSlot).kind = "count"
      BY DEF Statement
    <2> QED
      BY <2>2, <2>3, <2>4
  <1> QED
    BY <1>2, <1>3, <1>4, <1>5, <1>6, <1>7 DEF AnyOp

\* What a goroutine may begin is a sequence of operations.
LEMMA PlanSeqs == ASSUME NEW g \in Goroutine, NEW p \in PlansOf(g) PROVE p \in Seq(AnyOp)
  <1>1. \A m \in Mode : SetModeCmd(m) \in Seq(AnyOp)
    BY DEF SetModeCmd, AnyOp
  <1>2. \A name \in {"table", "getmode", "activenow"} : <<Op(name)>> \in Seq(AnyOp)
    BY DEF AnyOp
  <1>3. <<Op("init"), Op("table")>> \in Seq(AnyOp)
    BY DEF AnyOp
  <1>4. ASSUME NEW name \in {"activate", "deactivate"}, NEW list \in ObjLists
        PROVE  SchedCmd(name, list) \in Seq(AnyOp)
    <2>1. Len(list) \in Nat /\ \A i \in 1 .. Len(list) : list[i] \in Objs
      BY ListsAssumption DEF Objs, ToSet
    <2>2. \A i \in 1 .. Len(list) : ObjOp(name, list[i]) \in AnyOp
      BY <2>1 DEF AnyOp
    <2>3. [i \in 1 .. Len(list) |-> ObjOp(name, list[i])] \in Seq(AnyOp)
      BY <2>1, <2>2
    <2> QED
      BY <2>3, <1>2 DEF SchedCmd
  <1>5. Commands \subseteq Seq(AnyOp)
    <2> DEFINE SchedPlans ==
          {SchedCmd(name, list) : name \in {"activate", "deactivate"}, list \in ObjLists}
        ModePlans == {SetModeCmd(m) : m \in ModesAccepted}
        PlainPlans ==
          {<<Op("init"), Op("table")>>, <<Op("table")>>, <<Op("getmode")>>, <<Op("activenow")>>}
    <2>1. SchedPlans \subseteq Seq(AnyOp)
      BY <1>4
    <2>2. ModePlans \subseteq Seq(AnyOp)
      BY <1>1 DEF ModesAccepted
    <2>3. <<Op("table")>> \in Seq(AnyOp) /\ <<Op("getmode")>> \in Seq(AnyOp)
            /\ <<Op("activenow")>> \in Seq(AnyOp)
      BY <1>2
    <2>4. PlainPlans \subseteq Seq(AnyOp)
      BY <1>3, <2>3
    <2>5. Commands = SchedPlans \cup ModePlans \cup PlainPlans
      BY DEF Commands
    <2> HIDE DEF SchedPlans, ModePlans, PlainPlans
    <2> QED
      BY <2>1, <2>2, <2>4, <2>5
  <1> QED
    BY <1>1, <1>2, <1>5 DEF PlansOf, Goroutine, Mode

-----------------------------------------------------------------------------
(* The steps.                                                               *)

LEMMA InitMode == Init => ModeInv
  BY DEF Init, ModeInv, Shape, OneHolder, HolderIsBusy, DefaultIsSafe, ModeKept

LEMMA BeginMode == ASSUME ModeInv, NEW g \in Goroutine, Begin(g) PROVE ModeInv'
  <1>1. PICK p \in PlansOf(g) : plan' = [plan EXCEPT ![g] = p]
    BY DEF Begin
  <1>2. plan' \in [Goroutine -> Seq(AnyOp)]
    BY <1>1, PlanSeqs DEF ModeInv, Shape
  <1> QED
    BY <1>2 DEF Begin, ModeInv, Shape, OneHolder, HolderIsBusy, DefaultIsSafe, ModeKept

LEMMA LockMode == ASSUME ModeInv, NEW g \in Goroutine, Lock(g) PROVE ModeInv'
  <1>1. Head(plan[g]) \in AnyOp
    BY DEF Lock, ModeInv, Shape
  <1>2. /\ Statements(Head(plan[g])) \in Seq(AnyStatement)
        /\ \A i \in 1 .. Len(Statements(Head(plan[g]))) :
             Statements(Head(plan[g]))[i].kind # "default"
    BY <1>1, OpStatements
  <1>3. lock = {} /\ lock' = {g} /\ UNCHANGED <<mode, plan, lastSet>>
    BY DEF Lock, LockFree
  <1>4. todo' = [todo EXCEPT ![g] = Statements(Head(plan[g]))]
    BY DEF Lock
  <1>5. Shape' /\ OneHolder' /\ HolderIsBusy'
    BY <1>2, <1>3, <1>4 DEF ModeInv, Shape, OneHolder, HolderIsBusy, Lock
  <1>6. DefaultIsSafe'
    BY <1>2, <1>3, <1>4 DEF ModeInv, Shape, DefaultIsSafe
  <1> QED
    BY <1>3, <1>5, <1>6 DEF ModeInv, ModeKept

\* A goroutine inside goes on without a default left to write: whatever it did to
\* the mode, no other one has a default to write either.
LEMMA GoesOn ==
  ASSUME ModeInv, NEW g \in Goroutine, Inside(g),
         NEW rest \in Seq(AnyStatement),
         \A i \in 1 .. Len(rest) : rest[i].kind # "default",
         todo' = [todo EXCEPT ![g] = rest],
         UNCHANGED <<lock, plan>>, ModeKept'
  PROVE  ModeInv'
  <1>1. Shape' /\ OneHolder' /\ HolderIsBusy'
    BY DEF ModeInv, Shape, OneHolder, HolderIsBusy
  <1>2. ASSUME NEW h \in Goroutine, NEW i \in 1 .. Len(todo'[h])
        PROVE  todo'[h][i].kind # "default"
    <2>1. CASE h = g
      BY <2>1, <1>2 DEF ModeInv, Shape
    <2>2. CASE h # g
      <3>1. todo'[h] = todo[h] /\ h \notin lock
        BY <2>2 DEF ModeInv, Shape, OneHolder, Inside
      <3> QED
        BY <3>1, <1>2 DEF ModeInv, DefaultIsSafe
    <2> QED
      BY <2>1, <2>2
  <1>3. DefaultIsSafe'
    BY <1>2 DEF DefaultIsSafe
  <1> QED
    BY <1>1, <1>3 DEF ModeInv

\* The statements behind the first one do not write the default.
LEMMA RestFacts ==
  ASSUME ModeInv, NEW g \in Goroutine, todo[g] # <<>>
  PROVE  /\ Tail(todo[g]) \in Seq(AnyStatement)
         /\ \A i \in 1 .. Len(Tail(todo[g])) : Tail(todo[g])[i].kind # "default"
  <1>1. todo[g] \in Seq(AnyStatement)
    BY DEF ModeInv, Shape
  <1>2. \A i \in 1 .. Len(Tail(todo[g])) :
          i + 1 \in 1 .. Len(todo[g]) /\ i + 1 # 1 /\ Tail(todo[g])[i] = todo[g][i + 1]
    BY <1>1
  <1> QED
    BY <1>1, <1>2 DEF ModeInv, DefaultIsSafe

\* A statement that leaves the mode alone, or writes it for a command.
LEMMA ExecuteMode ==
  ASSUME ModeInv, NEW g \in Goroutine,
         Insert(g) \/ Delete(g) \/ Cell(g) \/ Count(g) \/ WriteMode(g)
  PROVE  ModeInv'
  <1>1. Inside(g) /\ todo[g] # <<>> /\ todo' = [todo EXCEPT ![g] = Tail(todo[g])]
    BY DEF Insert, Delete, Cell, Count, WriteMode, Running, Advance
  <1>2. UNCHANGED <<lock, plan>>
    BY DEF Insert, Delete, Cell, Count, WriteMode
  <1>3. UNCHANGED <<mode, lastSet>> \/ mode' = lastSet'
    BY DEF Insert, Delete, Cell, Count, WriteMode
  <1>4. ModeKept'
    BY <1>3 DEF ModeInv, ModeKept
  <1> QED
    BY <1>1, <1>2, <1>4, RestFacts, GoesOn

\* What SeeMode leaves to do holds no default.
LEMMA SeeModeFacts ==
  ASSUME ModeInv, NEW g \in Goroutine, todo[g] # <<>>, NEW m, SeeMode(g, m, Tail(todo[g]))
  PROVE  \E rest \in Seq(AnyStatement) :
           /\ \A i \in 1 .. Len(rest) : rest[i].kind # "default"
           /\ todo' = [todo EXCEPT ![g] = rest]
  <1>1. CASE m = "Sched"
    BY <1>1, RestFacts DEF SeeMode
  <1>2. CASE m # "Sched"
    <2>1. todo' = [todo EXCEPT ![g] = <<>>]
      BY <1>2 DEF SeeMode
    <2>2. <<>> \in Seq(AnyStatement) /\ \A i \in 1 .. Len(<<>>) : <<>>[i].kind # "default"
      OBVIOUS
    <2> WITNESS <<>> \in Seq(AnyStatement)
    <2> QED
      BY <2>1, <2>2
  <1> QED
    BY <1>1, <1>2

LEMMA ReadMode_Mode == ASSUME ModeInv, NEW g \in Goroutine, ReadMode(g) PROVE ModeInv'
  <1>1. Inside(g) /\ todo[g] # <<>> /\ UNCHANGED <<mode, lock, plan, lastSet>>
    BY DEF ReadMode, Running
  <1>2. PICK rest \in Seq(AnyStatement) :
          /\ \A i \in 1 .. Len(rest) : rest[i].kind # "default"
          /\ todo' = [todo EXCEPT ![g] = rest]
    BY <1>1, SeeModeFacts DEF ReadMode
  <1>3. ModeKept'
    BY <1>1 DEF ModeInv, ModeKept
  <1> QED
    BY <1>1, <1>2, <1>3, GoesOn

\* The default is written over no mode at all.
LEMMA WriteDefaultMode == ASSUME ModeInv, NEW g \in Goroutine, WriteDefault(g) PROVE ModeInv'
  <1>1. /\ Inside(g) /\ todo[g] # <<>> /\ todo[g][1].kind = "default"
        /\ UNCHANGED <<lock, plan, lastSet>>
    BY DEF WriteDefault, Running, Stmt, ModeInv, Shape
  <1>2. PICK rest \in Seq(AnyStatement) :
          /\ \A i \in 1 .. Len(rest) : rest[i].kind # "default"
          /\ todo' = [todo EXCEPT ![g] = rest]
    BY <1>1, SeeModeFacts DEF WriteDefault
  <1>3. 1 \in 1 .. Len(todo[g])
    BY <1>1 DEF ModeInv, Shape
  <1>4. mode = "none"
    BY <1>1, <1>3 DEF ModeInv, DefaultIsSafe
  <1>5. lastSet = "none"
    BY <1>4 DEF ModeInv, ModeKept
  <1>6. ModeKept'
    BY <1>1, <1>5 DEF ModeKept
  <1> QED
    BY <1>1, <1>2, <1>6, GoesOn

\* GetMode has found no mode, under the lock: the default is safe to write.
LEMMA ReadNoModeMode == ASSUME ModeInv, NEW g \in Goroutine, ReadNoMode(g) PROVE ModeInv'
  <1> DEFINE new == <<Statement("default", NoSlot)>> \o Tail(todo[g])
  <1>1. /\ g \in lock /\ mode = "none" /\ todo[g] # <<>>
        /\ todo' = [todo EXCEPT ![g] = new]
        /\ UNCHANGED <<mode, lock, plan, lastSet>>
    BY DEF ReadNoMode, Running, Inside
  <1>2. Statement("default", NoSlot) \in AnyStatement
    BY PlainStatement DEF StatementKind
  <1>3. /\ new \in Seq(AnyStatement)
        /\ \A i \in 1 .. Len(new) : i # 1 => new[i].kind # "default"
    <2>1. /\ Tail(todo[g]) \in Seq(AnyStatement)
          /\ \A i \in 1 .. Len(Tail(todo[g])) : Tail(todo[g])[i].kind # "default"
      BY <1>1, RestFacts
    <2>2. new \in Seq(AnyStatement) /\ Len(new) = Len(Tail(todo[g])) + 1
      BY <1>2, <2>1
    <2>3. \A i \in 1 .. Len(new) :
            i # 1 => i - 1 \in 1 .. Len(Tail(todo[g])) /\ new[i] = Tail(todo[g])[i - 1]
      BY <1>2, <2>1, <2>2
    <2> QED
      BY <2>1, <2>2, <2>3
  <1> HIDE DEF new
  <1>4. Shape' /\ OneHolder' /\ HolderIsBusy' /\ ModeKept'
    BY <1>1, <1>3 DEF ModeInv, Shape, OneHolder, HolderIsBusy, ModeKept
  <1>5. DefaultIsSafe'
    BY <1>1, <1>3 DEF ModeInv, Shape, DefaultIsSafe
  <1> QED
    BY <1>4, <1>5 DEF ModeInv

\* However an operation ends, nothing of it is left to do.
LEMMA ReturnMode ==
  ASSUME ModeInv, NEW g \in Goroutine, NEW rest \in Seq(AnyOp), Return(g, rest)
  PROVE  ModeInv'
  <1>1. Shape' /\ OneHolder' /\ HolderIsBusy' /\ ModeKept'
    BY DEF Return, ModeInv, Shape, OneHolder, HolderIsBusy, ModeKept
  <1>2. DefaultIsSafe'
    <2> SUFFICES ASSUME NEW h \in Goroutine, NEW i \in 1 .. Len(todo'[h]),
                        todo'[h][i].kind = "default"
                 PROVE  i = 1 /\ h \in lock' /\ mode' = "none"
      BY DEF DefaultIsSafe
    <2>1. h # g
      BY DEF Return, ModeInv, Shape
    <2> QED
      BY <2>1 DEF Return, ModeInv, Shape, DefaultIsSafe
  <1> QED
    BY <1>1, <1>2 DEF ModeInv

LEMMA EndMode == ASSUME ModeInv, NEW g \in Goroutine, Finish(g) \/ Fail(g) PROVE ModeInv'
  <1>1. plan[g] # <<>>
    BY DEF Finish, Fail, Done, Inside, ModeInv, HolderIsBusy
  <1>2. Tail(plan[g]) \in Seq(AnyOp) /\ <<>> \in Seq(AnyOp)
    BY <1>1 DEF ModeInv, Shape
  <1>3. Return(g, Tail(plan[g])) \/ Return(g, <<>>)
    BY DEF Finish, Fail
  <1> QED
    BY <1>2, <1>3, ReturnMode

\* After a crash nobody is left with a default to write.
LEMMA CrashMode == ASSUME ModeInv, Crash PROVE ModeInv'
  <1>1. /\ lock' = {} /\ UNCHANGED <<mode, lastSet>>
        /\ plan' = [g \in Goroutine |-> <<>>] /\ todo' = [g \in Goroutine |-> <<>>]
    BY DEF Crash
  <1>2. \A g \in Goroutine : Len(todo'[g]) = 0
    BY <1>1
  <1>3. DefaultIsSafe'
    BY <1>2 DEF DefaultIsSafe
  <1> QED
    BY <1>1, <1>3 DEF ModeInv, Shape, OneHolder, HolderIsBusy, ModeKept

LEMMA IdleMode == ASSUME ModeInv, TimePasses \/ UNCHANGED vars PROVE ModeInv'
  <1>1. UNCHANGED <<mode, lock, plan, todo, lastSet>>
    BY DEF TimePasses, vars
  <1> QED
    BY <1>1 DEF ModeInv, Shape, OneHolder, HolderIsBusy, DefaultIsSafe, ModeKept

LEMMA NextMode == ModeInv /\ [Next]_vars => ModeInv'
  <1> SUFFICES ASSUME ModeInv, [Next]_vars PROVE ModeInv'
    OBVIOUS
  <1>1. ASSUME NEW g \in Goroutine, Begin(g) PROVE ModeInv'
    BY <1>1, BeginMode
  <1>2. ASSUME NEW g \in Goroutine, Lock(g) PROVE ModeInv'
    BY <1>2, LockMode
  <1>3. ASSUME NEW g \in Goroutine, Execute(g) PROVE ModeInv'
    BY <1>3, ExecuteMode, ReadMode_Mode, ReadNoModeMode, WriteDefaultMode DEF Execute
  <1>4. ASSUME NEW g \in Goroutine, Finish(g) \/ Fail(g) PROVE ModeInv'
    BY <1>4, EndMode
  <1>5. CASE Crash
    BY <1>5, CrashMode
  <1>6. CASE TimePasses \/ UNCHANGED vars
    BY <1>6, IdleMode
  <1> QED
    BY <1>1, <1>2, <1>3, <1>4, <1>5, <1>6 DEF Next, Step

-----------------------------------------------------------------------------
\* SetMode against GetMode's default (datastore.go, schedule.go): whatever the
\* goroutines interleave, whichever statements fail and wherever the process
\* ends, the mode a command has written stays until a command writes another.
THEOREM ModeIsKept == Spec => []ModeKept
  <1>1. ModeInv => ModeKept
    BY DEF ModeInv
  <1> QED
    BY InitMode, NextMode, <1>1, PTL DEF Spec

=============================================================================
