----------------------------- MODULE Schedule ------------------------------
(***************************************************************************)
(* One camera's store: the weekly schedule and the mode, in SQLite.        *)
(*                                                                         *)
(* Three goroutines use it: the supervisor asks whether the camera should  *)
(* be active, and the Telegram and the PubSub handlers run the commands    *)
(* "sched" and "mode".  A command is one or more store operations; an      *)
(* operation holds Store.lock and runs its SQL statements one by one, each *)
(* committed on its own.  Any statement may fail, which ends its operation *)
(* and leaves what the earlier ones did, and the process may end between   *)
(* any two: only the tables survive.                                       *)
(***************************************************************************)
EXTENDS Integers, Sequences, SequencesExt

CONSTANTS
    Weekdays,   \* the days of the week, in order
    HourLimit,  \* hours in a day (24)
    ObjLists    \* the lists of objects typed after "sched on" and "sched off"

Objs == UNION {ToSet(list) : list \in ObjLists}

(* An object is [day, hour]: a day and an hour, a whole day (hour -1), or an *)
(* hour of every day (day "any").  ParseDayHour yields no other, since a     *)
(* minus sign splits what is typed; it does not look at how big an hour is.  *)
ASSUME ObjsAssumption ==
    \A o \in Objs :
        /\ o.day \in ToSet(Weekdays) \cup {"any"}
        /\ o.hour \in Nat \/ (o.hour = -1 /\ o.day # "any")
ASSUME HourAssumption == HourLimit \in Nat \ {0}

ASSUME WeekdaysAssumption == Weekdays \in Seq(STRING)
ASSUME ListsAssumption == ObjLists \subseteq Seq([day : STRING, hour : Int])

Goroutine == {"telegram", "pubsub", "supervisor"}
Mode == {"Sched", "On", "Off"}

VARIABLES
    rows,       \* table upload_sched: the slots <<day, hour>> that are on
    mode,       \* table sched_mode: the mode, "none" before there is a row
    clock,      \* the slot of the time of day
    lock,       \* the goroutines inside a store operation, under Store.lock
    plan,       \* plan[g]: the store operations g has still to do
    todo,       \* todo[g]: the statements left of the operation under the lock
    result,     \* result[g]: what that operation has found out so far
    base,       \* history: base[g]: rows when g took the lock
    lastSet     \* history: the mode last written for a command

vars == <<rows, mode, clock, lock, plan, todo, result, base, lastSet>>

-----------------------------------------------------------------------------
(* Slots.                                                                   *)

DayHours(d) == [i \in 1 .. HourLimit |-> <<d, i - 1>>]
WeekOf(h) == [i \in 1 .. Len(Weekdays) |-> <<Weekdays[i], h>>]

\* The order of ActivateAll.
AllSlots ==
    [i \in 1 .. Len(Weekdays) * HourLimit |->
        <<Weekdays[((i - 1) \div HourLimit) + 1], (i - 1) % HourLimit>>]

\* The order of GetTable.
TableCell(i) == <<Weekdays[((i - 1) % Len(Weekdays)) + 1], (i - 1) \div Len(Weekdays)>>

TableSlots_LastHourMissing == [i \in 1 .. Len(Weekdays) * (HourLimit - 1) |-> TableCell(i)]

TableSlots == [i \in 1 .. Len(Weekdays) * HourLimit |-> TableCell(i)]

\* The slots an object names, in the order Activate and Deactivate take them.
SlotsOf(o) ==
    IF o.hour = -1 THEN DayHours(o.day)
    ELSE IF o.day = "any" THEN WeekOf(o.hour)
    ELSE << <<o.day, o.hour>> >>

-----------------------------------------------------------------------------
(* Statements and operations.                                               *)

Statement(kind, slot) == [kind |-> kind, slot |-> slot]
EachSlot(kind, slots) == [i \in 1 .. Len(slots) |-> Statement(kind, slots[i])]
NoSlot == <<"any", -1>>

Op(name) == [name |-> name]
ObjOp(name, o) == [name |-> name, obj |-> o]
ModeOp(m) == [name |-> "setmode", mode |-> m]

\* The statements of an operation.  Deactivate refuses an hour out of range
\* before the first one; Activate does not.
Statements(op) ==
    CASE op.name = "activate"   -> EachSlot("insert", SlotsOf(op.obj))
      [] op.name = "deactivate" -> IF op.obj.hour < HourLimit
                                   THEN EachSlot("delete", SlotsOf(op.obj)) ELSE <<>>
      [] op.name = "init"       -> EachSlot("insert", AllSlots)
      [] op.name = "table"      -> EachSlot("cell", TableSlots)
      [] op.name = "setmode"    -> <<Statement("write", NoSlot)>>
      [] op.name = "getmode"    -> <<Statement("mode", NoSlot)>>
      [] op.name = "activenow"  -> <<Statement("mode", NoSlot), Statement("count", NoSlot)>>

\* handleIncomingCmd refuses a mode it does not know.
ModesAccepted_Any == Mode \cup {"invalid"}

ModesAccepted == Mode

\* The operations of a command (handleIncomingCmd).
SchedCmd(name, list) == [i \in 1 .. Len(list) |-> ObjOp(name, list[i])] \o <<Op("table")>>
SetModeCmd(m) == <<ModeOp(m), Op("getmode")>>
Commands ==
    {SchedCmd(name, list) : name \in {"activate", "deactivate"}, list \in ObjLists}
        \cup {SetModeCmd(m) : m \in ModesAccepted}
        \cup {<<Op("init"), Op("table")>>, <<Op("table")>>, <<Op("getmode")>>, <<Op("activenow")>>}

\* Telegram brings any command, the house alarm on PubSub switches the mode off
\* and on, the supervisor asks.
PlansOf(g) ==
    CASE g = "telegram"   -> Commands
      [] g = "pubsub"     -> {SetModeCmd("Off"), SetModeCmd("On")}
      [] g = "supervisor" -> {<<Op("activenow")>>}

\* Nothing found out yet.
NoResult == [mode |-> "none", shown |-> {}, active |-> FALSE, at |-> NoSlot]

Init ==
    /\ rows = {} /\ mode = "none"
    /\ clock \in ToSet(AllSlots)
    /\ lock = {}
    /\ plan = [g \in Goroutine |-> <<>>]
    /\ todo = [g \in Goroutine |-> <<>>]
    /\ result = [g \in Goroutine |-> NoResult]
    /\ base = [g \in Goroutine |-> {}] /\ lastSet = "none"

-----------------------------------------------------------------------------
(* Goroutines.                                                              *)

\* A command arrives, or the supervisor's ticker.
Begin(g) ==
    /\ plan[g] = <<>>
    /\ \E p \in PlansOf(g) : plan' = [plan EXCEPT ![g] = p]
    /\ UNCHANGED <<rows, mode, clock, lock, todo, result, base, lastSet>>

\* Store.lock.Lock() can return.
LockFree_NoLock == TRUE

LockFree == lock = {}

\* g is inside a store operation.
Inside(g) == g \in lock

Lock(g) ==
    /\ plan[g] # <<>> /\ LockFree /\ ~Inside(g)
    /\ lock' = lock \cup {g}
    /\ todo' = [todo EXCEPT ![g] = Statements(Head(plan[g]))]
    /\ base' = [base EXCEPT ![g] = rows]
    /\ UNCHANGED <<rows, mode, clock, plan, result, lastSet>>

\* The statement g executes next.
Stmt(g) == Head(todo[g])
Running(g, kind) == Inside(g) /\ todo[g] # <<>> /\ Stmt(g).kind = kind
Advance(g) == todo' = [todo EXCEPT ![g] = Tail(@)]

\* SetActive: insert or replace.
Insert(g) ==
    /\ Running(g, "insert") /\ Advance(g)
    /\ rows' = rows \cup {Stmt(g).slot}
    /\ UNCHANGED <<mode, clock, lock, plan, result, base, lastSet>>

\* SetDeactive.
Delete_NoWhere(g) ==
    /\ Running(g, "delete") /\ Advance(g)
    /\ rows' = {}
    /\ UNCHANGED <<mode, clock, lock, plan, result, base, lastSet>>

Delete(g) ==
    /\ Running(g, "delete") /\ Advance(g)
    /\ rows' = rows \ {Stmt(g).slot}
    /\ UNCHANGED <<mode, clock, lock, plan, result, base, lastSet>>

\* IsActiveDayHour for one cell of GetTable.
Cell(g) ==
    /\ Running(g, "cell") /\ Advance(g)
    /\ result' = [result EXCEPT ![g].shown = @ \cup ({Stmt(g).slot} \cap rows)]
    /\ UNCHANGED <<rows, mode, clock, lock, plan, base, lastSet>>

\* SetMode for the command "mode set".
WriteMode(g) ==
    /\ Running(g, "write") /\ Advance(g)
    /\ mode' = Head(plan[g]).mode
    /\ lastSet' = Head(plan[g]).mode
    /\ UNCHANGED <<rows, clock, lock, plan, result, base>>

\* The mode as GetMode or IsActiveNow goes on with it: a mode of On or Off
\* answers IsActiveNow without a look at the schedule.
SeeMode(g, m, rest) ==
    /\ result' = [result EXCEPT ![g].mode = m, ![g].active = (m = "On")]
    /\ todo' = [todo EXCEPT ![g] = IF m = "Sched" THEN rest ELSE <<>>]

\* GetMode finds a row.
ReadMode(g) ==
    /\ Running(g, "mode") /\ mode # "none"
    /\ SeeMode(g, mode, Tail(todo[g]))
    /\ UNCHANGED <<rows, mode, clock, lock, plan, base, lastSet>>

\* GetMode finds none, and has still to write the default.
ReadNoMode(g) ==
    /\ Running(g, "mode") /\ mode = "none"
    /\ todo' = [todo EXCEPT ![g] = <<Statement("default", NoSlot)>> \o Tail(@)]
    /\ UNCHANGED <<rows, mode, clock, lock, plan, result, base, lastSet>>

WriteDefault(g) ==
    /\ Running(g, "default")
    /\ mode' = "Sched"
    /\ SeeMode(g, "Sched", Tail(todo[g]))
    /\ UNCHANGED <<rows, clock, lock, plan, base, lastSet>>

\* IsActiveTime(time.Now()).
Count(g) ==
    /\ Running(g, "count") /\ Advance(g)
    /\ result' = [result EXCEPT ![g].active = clock \in rows, ![g].at = clock]
    /\ UNCHANGED <<rows, mode, clock, lock, plan, base, lastSet>>

\* The operation returns and the deferred Unlock runs; rest is left to do.
Return(g, rest) ==
    /\ lock' = lock \ {g}
    /\ plan' = [plan EXCEPT ![g] = rest]
    /\ todo' = [todo EXCEPT ![g] = <<>>]
    /\ result' = [result EXCEPT ![g] = NoResult]
    /\ base' = [base EXCEPT ![g] = {}]
    /\ UNCHANGED <<rows, mode, clock, lastSet>>

Done(g) == Inside(g) /\ todo[g] = <<>>
Finish(g) == Done(g) /\ Return(g, Tail(plan[g]))

\* A statement fails: the operation returns the error.  "mode set" then stops,
\* the other commands log it and go on to the table.
Fail_KeepsLock(g) ==
    /\ Inside(g) /\ todo[g] # <<>>
    /\ lock' = {"nobody"}
    /\ plan' = [plan EXCEPT ![g] = Tail(@)]
    /\ todo' = [todo EXCEPT ![g] = <<>>]
    /\ UNCHANGED <<rows, mode, clock, result, base, lastSet>>

Fail(g) ==
    /\ Inside(g) /\ todo[g] # <<>>
    /\ Return(g, IF Head(plan[g]).name = "setmode" THEN <<>> ELSE Tail(plan[g]))

Execute(g) ==
    \/ Insert(g) \/ Delete(g) \/ Cell(g) \/ WriteMode(g)
    \/ ReadMode(g) \/ ReadNoMode(g) \/ WriteDefault(g) \/ Count(g)

Step(g) == Lock(g) \/ Execute(g) \/ Finish(g) \/ Fail(g)

\* The process ends and starts again: the tables are all that is left.
Crash ==
    /\ \E g \in Goroutine : plan[g] # <<>>
    /\ lock' = {}
    /\ plan' = [g \in Goroutine |-> <<>>]
    /\ todo' = [g \in Goroutine |-> <<>>]
    /\ result' = [g \in Goroutine |-> NoResult]
    /\ base' = [g \in Goroutine |-> {}]
    /\ UNCHANGED <<rows, mode, clock, lastSet>>

TimePasses ==
    /\ clock' \in ToSet(AllSlots) \ {clock}
    /\ UNCHANGED <<rows, mode, lock, plan, todo, result, base, lastSet>>

Next == (\E g \in Goroutine : Begin(g) \/ Step(g)) \/ Crash \/ TimePasses

Spec == Init /\ [][Next]_vars

\* A goroutine goes on, and does not wait for ever for a mutex others release.
Fairness == \A g \in Goroutine : WF_vars(Execute(g) \/ Finish(g) \/ Fail(g)) /\ SF_vars(Lock(g))

FairSpec == Spec /\ Fairness

-----------------------------------------------------------------------------
(* What holds.                                                              *)

Slots == ToSet(AllSlots) \cup UNION {ToSet(SlotsOf(o)) : o \in Objs}

TypeOK ==
    /\ rows \subseteq Slots
    /\ mode \in Mode \cup {"none"}
    /\ clock \in ToSet(AllSlots)
    /\ lock \subseteq Goroutine
    /\ \A g \in Goroutine :
        /\ \E p \in PlansOf(g) : IsSuffix(plan[g], p)
        /\ base[g] \subseteq Slots
        /\ result[g].mode \in Mode \cup {"none"} /\ result[g].shown \subseteq Slots
        /\ result[g].active \in BOOLEAN /\ result[g].at \in ToSet(AllSlots) \cup {NoSlot}
    /\ lastSet \in Mode \cup {"none"}

\* SetMode against GetMode's default: the mode a command has written stays until
\* another command writes one, although everybody who finds no mode writes the
\* default a statement later, and through crashes.
ModeKept == lastSet # "none" => mode = lastSet

\* SchedActiveNow: the answer, put together from two or three statements, is what
\* mode and schedule say together when it is given.
ActiveAt(slot) == mode = "On" \/ (mode = "Sched" /\ slot \in rows)
AnswerIsCurrent ==
    \A g \in Goroutine :
        (Done(g) /\ Head(plan[g]).name = "activenow") => result[g].active = ActiveAt(result[g].at)

\* SchedGetTable: the table drawn from one statement per cell is the schedule at
\* one moment, never a mixture of two.
TableIsSnapshot ==
    \A g \in Goroutine :
        (Done(g) /\ Head(plan[g]).name = "table") => result[g].shown = rows \cap ToSet(AllSlots)

\* Activate, Deactivate, ActivateAll: while and after an operation that fails or
\* is cut short, only slots it names have changed, and only the way it asked.
Named(op) == IF op.name = "init" THEN ToSet(AllSlots) ELSE ToSet(SlotsOf(op.obj))
ChangesOnlyNamed ==
    \A g \in Goroutine : Inside(g) =>
        LET op == Head(plan[g])
        IN  CASE op.name \in {"activate", "init"} -> base[g] \subseteq rows /\ rows \ base[g] \subseteq Named(op)
              [] op.name = "deactivate" -> rows \subseteq base[g] /\ base[g] \ rows \subseteq Named(op)
              [] OTHER -> rows = base[g]

\* Store.lock makes of the statements operations: seen from outside, each takes
\* effect when its last statement does, all of it, and answers from that moment; one
\* that fails or is cut short has done a part (Store).
Unfinished == {g \in Goroutine : Inside(g) /\ todo[g] # <<>>}
RowsOutside == IF Unfinished = {} THEN rows ELSE UNION {base[g] : g \in Unfinished}

Answer(g) ==
    LET name == Head(plan[g]).name
    IN  CASE name = "table"     -> <<"table", result[g].shown>>
          [] name = "getmode"   -> <<"mode", result[g].mode>>
          [] name = "activenow" -> <<"active", result[g].active>>
          [] OTHER              -> <<"done">>
AnswerOutside == {Answer(g) : g \in {h \in Goroutine : Done(h)}}

Outside ==
    INSTANCE Store WITH
        Days <- ToSet(Weekdays), Hours <- 0 .. HourLimit - 1,
        on <- RowsOutside, answer <- AnswerOutside
StoreSpec == Outside!Spec

\* Every command comes to its end, failing statements or not: no error path
\* keeps the lock.
CommandsEnd == \A g \in Goroutine : plan[g] # <<>> ~> plan[g] = <<>>

-----------------------------------------------------------------------------
\* "mon-0 to mon-23", and "Invalid hour, only 0-23 allowed": every row of the
\* schedule is an hour of a day.
RowsAreHours == rows \subseteq ToSet(AllSlots)

=============================================================================
