-------------------------- MODULE ScheduleOpProofs --------------------------
(***************************************************************************)
(* Proofs about the operations of Schedule, for every week, every number   *)
(* of hours and every set of commands: what an operation of several        *)
(* statements has done, shown or answered when its goroutine gives up the  *)
(* lock.                                                                   *)
(*                                                                         *)
(* None of the properties is inductive: each speaks of the end of an       *)
(* operation.  The inductive invariant, Stage, says how far an operation   *)
(* under the lock has come, in terms of the statements it has left.        *)
(***************************************************************************)
EXTENDS ScheduleProofs

\* The operation g is inside of.
Doing(g) == Head(plan[g])

\* What is left to do is of this kind, and on slots the operation names.
Left(g, kind) ==
    \A i \in 1 .. Len(todo[g]) : todo[g][i].kind = kind /\ todo[g][i].slot \in Named(Doing(g))

Adding(g) ==
    Doing(g).name \in {"activate", "init"} =>
        Left(g, "insert") /\ base[g] \subseteq rows /\ rows \ base[g] \subseteq Named(Doing(g))

Removing(g) ==
    Doing(g).name = "deactivate" =>
        Left(g, "delete") /\ rows \subseteq base[g] /\ base[g] \ rows \subseteq Named(Doing(g))

\* The cells drawn so far are those in front of the cells left.
Drawn(g) == Len(TableSlots) - Len(todo[g])
Drawing(g) ==
    Doing(g).name = "table" =>
        /\ rows = base[g]
        /\ Drawn(g) \in 0 .. Len(TableSlots)
        /\ \A i \in 1 .. Len(todo[g]) : todo[g][i] = Statement("cell", TableSlots[Drawn(g) + i])
        /\ result[g].shown = rows \cap {TableSlots[i] : i \in 1 .. Drawn(g)}

\* IsActiveNow: before the mode is known, after it is known to be Sched, and at the end.
Asking(g) ==
    Doing(g).name = "activenow" =>
        /\ rows = base[g]
        /\ \/ \E kind \in {"mode", "default"} :
                todo[g] = <<Statement(kind, NoSlot), Statement("count", NoSlot)>>
           \/ todo[g] = <<Statement("count", NoSlot)>> /\ mode = "Sched"
           \/ todo[g] = <<>> /\ result[g].active = ActiveAt(result[g].at)

Moding(g) ==
    Doing(g).name \in {"setmode", "getmode"} =>
        /\ rows = base[g]
        /\ \A i \in 1 .. Len(todo[g]) :
             todo[g][i].kind \in (IF Doing(g).name = "setmode" THEN {"write"} ELSE {"mode", "default"})

Stage(g) == Adding(g) /\ Removing(g) /\ Drawing(g) /\ Asking(g) /\ Moding(g)

\* Under the lock an operation is as far as its statements left say; outside there
\* is none.
StageInv ==
    \A g \in Goroutine :
        IF Inside(g) THEN Stage(g) ELSE todo[g] = <<>> /\ result[g] = NoResult

Result ==
    [mode : Mode \cup {"none"}, shown : SUBSET Slots, active : BOOLEAN,
     at : ToSet(AllSlots) \cup {NoSlot}]

Planned == \A g \in Goroutine : \E p \in PlansOf(g) : IsSuffix(plan[g], p)

Typed ==
    /\ rows \subseteq Slots /\ mode \in Mode \cup {"none"} /\ lastSet \in Mode \cup {"none"}
    /\ clock \in ToSet(AllSlots)
    /\ result \in [Goroutine -> Result] /\ base \in [Goroutine -> SUBSET Slots]

OpInv == ModeInv /\ Typed /\ Planned /\ StageInv

-----------------------------------------------------------------------------
(* Suffixes of a plan.                                                      *)

LEMMA SuffixFacts ==
  ASSUME NEW p \in Seq(AnyOp)
  PROVE  /\ IsSuffix(p, p)
         /\ IsSuffix(<<>>, p)
         /\ \A q \in Seq(AnyOp) : q # <<>> /\ IsSuffix(q, p) => IsSuffix(Tail(q), p)
  <1> DEFINE Ends(q) == Len(q) <= Len(p) /\ \A i \in 1 .. Len(q) : q[Len(q) - i + 1] = p[Len(p) - i + 1]
  <1>1. ASSUME NEW q \in Seq(AnyOp) PROVE IsSuffix(q, p) <=> Ends(q)
    <2>1. /\ Reverse(q) \in Seq(AnyOp) /\ Len(Reverse(q)) = Len(q)
          /\ \A i \in 1 .. Len(q) : Reverse(q)[i] = q[Len(q) - i + 1]
      BY DEF Reverse
    <2>2. /\ Reverse(p) \in Seq(AnyOp) /\ Len(Reverse(p)) = Len(p)
          /\ \A i \in 1 .. Len(p) : Reverse(p)[i] = p[Len(p) - i + 1]
      BY DEF Reverse
    <2>3. CASE Len(q) <= Len(p)
      <3>1. IsSuffix(q, p) <=> SubSeq(Reverse(q), 1, Len(q)) = SubSeq(Reverse(p), 1, Len(q))
        BY <2>1, <2>2, <2>3 DEF IsSuffix, IsPrefix
      <3>2. /\ Len(SubSeq(Reverse(q), 1, Len(q))) = Len(q)
            /\ Len(SubSeq(Reverse(p), 1, Len(q))) = Len(q)
            /\ SubSeq(Reverse(q), 1, Len(q)) \in Seq(AnyOp)
            /\ SubSeq(Reverse(p), 1, Len(q)) \in Seq(AnyOp)
            /\ \A i \in 1 .. Len(q) :
                 /\ SubSeq(Reverse(q), 1, Len(q))[i] = q[Len(q) - i + 1]
                 /\ SubSeq(Reverse(p), 1, Len(q))[i] = p[Len(p) - i + 1]
        BY <2>1, <2>2, <2>3
      <3> QED
        BY <2>3, <3>1, <3>2
    <2>4. CASE ~(Len(q) <= Len(p))
      BY <2>1, <2>2, <2>4 DEF IsSuffix, IsPrefix
    <2> QED
      BY <2>3, <2>4
  <1>2. Ends(p) /\ Ends(<<>>)
    OBVIOUS
  <1>3. ASSUME NEW q \in Seq(AnyOp), q # <<>>, Ends(q) PROVE Ends(Tail(q))
    <2>1. Len(Tail(q)) = Len(q) - 1 /\ \A i \in 1 .. Len(q) - 1 : Tail(q)[i] = q[i + 1]
      BY <1>3
    <2>2. \A i \in 1 .. Len(q) - 1 : Tail(q)[(Len(q) - 1) - i + 1] = q[Len(q) - i + 1]
      BY <2>1
    <2> QED
      BY <1>3, <2>1, <2>2
  <1>4. p \in Seq(AnyOp) /\ <<>> \in Seq(AnyOp)
            /\ \A q \in Seq(AnyOp) : q # <<>> => Tail(q) \in Seq(AnyOp)
    OBVIOUS
  <1> HIDE DEF Ends
  <1> QED
    BY <1>1, <1>2, <1>3, <1>4

-----------------------------------------------------------------------------
(* Operations.                                                              *)

LEMMA OpNames ==
  ASSUME NEW op \in AnyOp
  PROVE  /\ op.name \in {"activate", "deactivate", "init", "table", "setmode", "getmode", "activenow"}
         /\ op.name \in {"activate", "deactivate"} => op.obj \in Objs
         /\ op.name = "setmode" => op.mode \in Mode
  <1>1. CASE op \in {Op(name) : name \in {"init", "table", "getmode", "activenow"}}
    BY <1>1 DEF Op
  <1>2. CASE op \in {ObjOp(name, o) : name \in {"activate", "deactivate"}, o \in Objs}
    BY <1>2 DEF ObjOp
  <1>3. CASE op \in {ModeOp(m) : m \in Mode}
    BY <1>3 DEF ModeOp
  <1> QED
    BY <1>1, <1>2, <1>3 DEF AnyOp

LEMMA NamedSlots ==
  ASSUME NEW op \in AnyOp, op.name \in {"activate", "deactivate", "init"}
  PROVE  Named(op) \subseteq Slots
  BY OpNames DEF Named, Slots

\* Whoever is inside has an operation to do.
LEMMA DoingOp == ASSUME ModeInv, NEW g \in Goroutine, Inside(g) PROVE Doing(g) \in AnyOp
  BY DEF ModeInv, Shape, HolderIsBusy, Inside, Doing

\* The statement to execute tells which operation it belongs to.
LEMMA KindTells ==
  ASSUME OpInv, NEW g \in Goroutine, Inside(g), todo[g] # <<>>
  PROVE  /\ Stmt(g) \in AnyStatement
         /\ Stmt(g).kind = "insert" => Doing(g).name \in {"activate", "init"}
         /\ Stmt(g).kind = "delete" => Doing(g).name = "deactivate"
         /\ Stmt(g).kind \in {"insert", "delete"} => Stmt(g).slot \in Named(Doing(g))
         /\ Stmt(g).kind = "cell" => Doing(g).name = "table"
         /\ Stmt(g).kind = "write" => Doing(g).name = "setmode"
         /\ Stmt(g).kind \in {"mode", "default"} => Doing(g).name \in {"getmode", "activenow"}
         /\ Stmt(g).kind = "count" => Doing(g).name = "activenow"
  <1>1. /\ todo[g] \in Seq(AnyStatement) /\ 1 \in 1 .. Len(todo[g]) /\ Stmt(g) = todo[g][1]
        /\ Stmt(g) \in AnyStatement
    BY DEF OpInv, ModeInv, Shape, Stmt
  <1>2. Stage(g)
    BY DEF OpInv, StageInv
  <1>3. Doing(g) \in AnyOp
    BY DoingOp DEF OpInv
  <1>4. CASE Doing(g).name \in {"activate", "init"}
    <2>1. Stmt(g).kind = "insert" /\ Stmt(g).slot \in Named(Doing(g))
      BY <1>1, <1>2, <1>4 DEF Stage, Adding, Left
    <2> QED
      BY <1>1, <1>4, <2>1
  <1>5. CASE Doing(g).name = "deactivate"
    <2>1. Stmt(g).kind = "delete" /\ Stmt(g).slot \in Named(Doing(g))
      BY <1>1, <1>2, <1>5 DEF Stage, Removing, Left
    <2> QED
      BY <1>1, <1>5, <2>1
  <1>6. CASE Doing(g).name = "table"
    <2>1. todo[g][1] = Statement("cell", TableSlots[Drawn(g) + 1])
      BY <1>1, <1>2, <1>6 DEF Stage, Drawing
    <2>2. Stmt(g).kind = "cell"
      BY <1>1, <2>1 DEF Statement
    <2> QED
      BY <1>1, <1>6, <2>2
  <1>7. CASE Doing(g).name = "activenow"
    <2>1. Stmt(g).kind \in {"mode", "default", "count"}
      BY <1>1, <1>2, <1>7 DEF Stage, Asking, Statement
    <2> QED
      BY <1>1, <1>7, <2>1
  <1>8. CASE Doing(g).name \in {"setmode", "getmode"}
    <2>1. Stmt(g).kind \in (IF Doing(g).name = "setmode" THEN {"write"} ELSE {"mode", "default"})
      BY <1>1, <1>2, <1>8 DEF Stage, Moding
    <2> QED
      BY <1>1, <1>8, <2>1
  <1> QED
    BY <1>3, <1>4, <1>5, <1>6, <1>7, <1>8, OpNames

-----------------------------------------------------------------------------
(* The operation under the lock.                                            *)

\* Nobody else is inside: what the holder does has to be right for the holder.
LEMMA Alone ==
  ASSUME OpInv, NEW g \in Goroutine, Inside(g), lock' = lock,
         \A h \in Goroutine \ {g} : todo'[h] = todo[h] /\ result'[h] = result[h],
         Stage(g)'
  PROVE  StageInv'
  <1> SUFFICES ASSUME NEW h \in Goroutine, h # g
               PROVE  IF Inside(h)' THEN Stage(h)' ELSE todo'[h] = <<>> /\ result'[h] = NoResult
    BY DEF StageInv, Inside
  <1>1. ~Inside(h) /\ ~Inside(h)'
    BY DEF OpInv, ModeInv, OneHolder, Inside
  <1>2. todo[h] = <<>> /\ result[h] = NoResult
    BY <1>1 DEF OpInv, StageInv
  <1> QED
    BY <1>1, <1>2

\* The statement executed and those behind it.
LEMMA TailFacts ==
  ASSUME ModeInv, NEW g \in Goroutine, todo[g] # <<>>
  PROVE  /\ Stmt(g) = todo[g][1] /\ Len(todo[g]) \in Nat /\ 1 \in 1 .. Len(todo[g])
         /\ Len(Tail(todo[g])) = Len(todo[g]) - 1
         /\ \A i \in 1 .. Len(Tail(todo[g])) :
              i + 1 \in 1 .. Len(todo[g]) /\ Tail(todo[g])[i] = todo[g][i + 1]
  BY DEF ModeInv, Shape, Stmt

\* What Execute leaves alone.
LEMMA ExecuteFrame ==
  ASSUME ModeInv, NEW g \in Goroutine, Execute(g)
  PROVE  /\ Inside(g) /\ todo[g] # <<>> /\ UNCHANGED <<clock, lock, plan, base>>
         /\ \A h \in Goroutine \ {g} : todo'[h] = todo[h]
  <1>1. Inside(g) /\ todo[g] # <<>> /\ UNCHANGED <<clock, lock, plan, base>>
    BY DEF Execute, Insert, Delete, Cell, WriteMode, ReadMode, ReadNoMode, WriteDefault,
           Count, Running
  <1>2. \E rest : todo' = [todo EXCEPT ![g] = rest]
    BY DEF Execute, Insert, Delete, Cell, WriteMode, ReadMode, ReadNoMode, WriteDefault,
           Count, Advance, SeeMode
  <1> QED
    BY <1>1, <1>2

LEMMA InsertStage == ASSUME OpInv, NEW g \in Goroutine, Insert(g) PROVE Stage(g)'
  <1>1. /\ Inside(g) /\ todo[g] # <<>> /\ Stmt(g).kind = "insert"
        /\ UNCHANGED <<plan, base>> /\ rows' = rows \cup {Stmt(g).slot}
        /\ todo'[g] = Tail(todo[g])
    BY DEF Insert, Running, Advance, OpInv, ModeInv, Shape
  <1>2. /\ Doing(g).name \in {"activate", "init"} /\ Stmt(g).slot \in Named(Doing(g))
    BY <1>1, KindTells
  <1>3. Doing(g)' = Doing(g)
    BY <1>1 DEF Doing
  <1>4. Adding(g)
    BY <1>1 DEF OpInv, StageInv, Stage
  <1>5. Left(g, "insert")'
    BY <1>1, <1>2, <1>3, <1>4, TailFacts DEF Adding, Left, OpInv, Named
  <1>6. Adding(g)'
    BY <1>1, <1>2, <1>3, <1>4, <1>5 DEF Adding, Named
  <1> QED
    BY <1>2, <1>3, <1>6 DEF Stage, Removing, Drawing, Asking, Moding

LEMMA DeleteStage == ASSUME OpInv, NEW g \in Goroutine, Delete(g) PROVE Stage(g)'
  <1>1. /\ Inside(g) /\ todo[g] # <<>> /\ Stmt(g).kind = "delete"
        /\ UNCHANGED <<plan, base>> /\ rows' = rows \ {Stmt(g).slot}
        /\ todo'[g] = Tail(todo[g])
    BY DEF Delete, Running, Advance, OpInv, ModeInv, Shape
  <1>2. /\ Doing(g).name = "deactivate" /\ Stmt(g).slot \in Named(Doing(g))
    BY <1>1, KindTells
  <1>3. Doing(g)' = Doing(g)
    BY <1>1 DEF Doing
  <1>4. Removing(g)
    BY <1>1 DEF OpInv, StageInv, Stage
  <1>5. Left(g, "delete")'
    BY <1>1, <1>2, <1>3, <1>4, TailFacts DEF Removing, Left, OpInv, Named
  <1>6. Removing(g)'
    BY <1>1, <1>2, <1>3, <1>4, <1>5 DEF Removing, Named
  <1> QED
    BY <1>2, <1>3, <1>6 DEF Stage, Adding, Drawing, Asking, Moding

LEMMA WriteModeStage == ASSUME OpInv, NEW g \in Goroutine, WriteMode(g) PROVE Stage(g)'
  <1>1. /\ Inside(g) /\ todo[g] # <<>> /\ Stmt(g).kind = "write"
        /\ UNCHANGED <<plan, base, rows>> /\ todo'[g] = Tail(todo[g])
    BY DEF WriteMode, Running, Advance, OpInv, ModeInv, Shape
  <1>2. Doing(g).name = "setmode" /\ Doing(g)' = Doing(g)
    BY <1>1, KindTells DEF Doing
  <1>3. Moding(g)
    BY <1>1 DEF OpInv, StageInv, Stage
  <1>4. \A i \in 1 .. Len(todo'[g]) : todo'[g][i].kind = "write"
    BY <1>1, <1>2, <1>3, TailFacts DEF Moding, OpInv
  <1> QED
    BY <1>1, <1>2, <1>3, <1>4 DEF Stage, Adding, Removing, Drawing, Asking, Moding

LEMMA CellStage == ASSUME OpInv, NEW g \in Goroutine, Cell(g) PROVE Stage(g)'
  <1>1. /\ Inside(g) /\ todo[g] # <<>> /\ Stmt(g).kind = "cell"
        /\ UNCHANGED <<plan, base, rows>> /\ todo'[g] = Tail(todo[g])
    BY DEF Cell, Running, Advance, OpInv, ModeInv, Shape
  <1>2. Doing(g).name = "table" /\ Doing(g)' = Doing(g)
    BY <1>1, KindTells DEF Doing
  <1>3. Drawing(g)
    BY <1>1 DEF OpInv, StageInv, Stage
  <1>4. Len(TableSlots) \in Nat /\ Len(todo[g]) \in Nat
    BY SlotSeqs DEF OpInv, ModeInv, Shape
  <1>5. Drawn(g)' = Drawn(g) + 1 /\ Drawn(g) \in 0 .. Len(TableSlots) /\ Drawn(g)' \in 0 .. Len(TableSlots)
    <2>1. Drawn(g) \in 0 .. Len(TableSlots)
      BY <1>2, <1>3 DEF Drawing
    <2>2. Len(todo'[g]) = Len(todo[g]) - 1 /\ Len(todo[g]) # 0
      BY <1>1, <1>4, TailFacts DEF OpInv
    <2>3. Drawn(g)' = Len(TableSlots) - Len(todo'[g])
      BY DEF Drawn
    <2> QED
      BY <1>4, <2>1, <2>2, <2>3 DEF Drawn
  <1>6. \A i \in 1 .. Len(todo'[g]) : todo'[g][i] = Statement("cell", TableSlots[Drawn(g)' + i])
    <2> SUFFICES ASSUME NEW i \in 1 .. Len(todo'[g])
                 PROVE  todo'[g][i] = Statement("cell", TableSlots[Drawn(g)' + i])
      OBVIOUS
    <2>1. i + 1 \in 1 .. Len(todo[g]) /\ todo'[g][i] = todo[g][i + 1]
      BY <1>1, TailFacts DEF OpInv
    <2>2. todo[g][i + 1] = Statement("cell", TableSlots[Drawn(g) + (i + 1)])
      BY <1>2, <1>3, <2>1 DEF Drawing
    <2>3. Drawn(g) + (i + 1) = Drawn(g)' + i
      BY <1>4, <1>5
    <2> QED
      BY <2>1, <2>2, <2>3
  <1>7. Stmt(g).slot = TableSlots[Drawn(g)']
    <2>1. ModeInv /\ 1 \in 1 .. Len(todo[g]) /\ Stmt(g) = todo[g][1]
      BY <1>1, TailFacts DEF OpInv
    <2>2. todo[g][1] = Statement("cell", TableSlots[Drawn(g) + 1])
      BY <1>2, <1>3, <2>1 DEF Drawing
    <2> QED
      BY <1>5, <2>1, <2>2 DEF Statement
  <1>8. result'[g].shown = result[g].shown \cup ({Stmt(g).slot} \cap rows)
    BY DEF Cell, OpInv, Typed, Result
  <1>9. {TableSlots[i] : i \in 1 .. Drawn(g)'} = {TableSlots[i] : i \in 1 .. Drawn(g)} \cup {TableSlots[Drawn(g)']}
    <2>1. 1 .. Drawn(g)' = (1 .. Drawn(g)) \cup {Drawn(g)'}
      BY <1>4, <1>5
    <2> QED
      BY <2>1
  <1>10. result'[g].shown = rows' \cap {TableSlots[i] : i \in 1 .. Drawn(g)'}
    BY <1>1, <1>2, <1>3, <1>7, <1>8, <1>9 DEF Drawing
  <1>11. Drawing(g)'
    BY <1>1, <1>2, <1>3, <1>5, <1>6, <1>10 DEF Drawing, TableSlots, TableCell
  <1> QED
    BY <1>2, <1>11 DEF Stage, Adding, Removing, Asking, Moding

LEMMA CountStage == ASSUME OpInv, NEW g \in Goroutine, Count(g) PROVE Stage(g)'
  <1>1. /\ Inside(g) /\ todo[g] # <<>> /\ Stmt(g).kind = "count"
        /\ UNCHANGED <<plan, base, rows, mode>> /\ todo'[g] = Tail(todo[g])
    BY DEF Count, Running, Advance, OpInv, ModeInv, Shape
  <1>2. Doing(g).name = "activenow" /\ Doing(g)' = Doing(g)
    BY <1>1, KindTells DEF Doing
  <1>3. Asking(g)
    BY <1>1 DEF OpInv, StageInv, Stage
  <1>4. todo[g] = <<Statement("count", NoSlot)>> /\ mode = "Sched"
    <2>1. ASSUME NEW kind \in {"mode", "default"},
                 todo[g] = <<Statement(kind, NoSlot), Statement("count", NoSlot)>>
          PROVE  FALSE
      <3>1. Stmt(g) = Statement(kind, NoSlot)
        BY <2>1 DEF Stmt
      <3> QED
        BY <1>1, <3>1 DEF Statement
    <2> QED
      BY <1>1, <1>2, <1>3, <2>1 DEF Asking
  <1>5. todo'[g] = <<>>
    BY <1>1, <1>4
  <1>6. result'[g].active = (clock \in rows) /\ result'[g].at = clock
    BY DEF Count, OpInv, Typed, Result
  <1>7. result'[g].active = ActiveAt(result[g].at)'
    BY <1>1, <1>4, <1>6 DEF ActiveAt
  <1>8. Asking(g)'
    BY <1>1, <1>2, <1>3, <1>5, <1>7 DEF Asking
  <1> QED
    BY <1>2, <1>8 DEF Stage, Adding, Removing, Drawing, Moding

\* The statement on the mode is the first of IsActiveNow, or all of GetMode.
LEMMA ModeStatement ==
  ASSUME OpInv, NEW g \in Goroutine, Inside(g), todo[g] # <<>>,
         Stmt(g).kind \in {"mode", "default"}
  PROVE  \/ /\ Doing(g).name = "activenow" /\ rows = base[g]
            /\ Tail(todo[g]) = <<Statement("count", NoSlot)>>
         \/ /\ Doing(g).name = "getmode" /\ rows = base[g]
            /\ \A i \in 1 .. Len(Tail(todo[g])) : Tail(todo[g])[i].kind \in {"mode", "default"}
  <1>1. Doing(g).name \in {"getmode", "activenow"} /\ Asking(g) /\ Moding(g)
    BY KindTells DEF OpInv, StageInv, Stage
  <1>2. CASE Doing(g).name = "activenow"
    <2>1. todo[g] # <<Statement("count", NoSlot)>>
      <3>1. ASSUME todo[g] = <<Statement("count", NoSlot)>> PROVE Stmt(g) = Statement("count", NoSlot)
        BY <3>1 DEF Stmt
      <3> QED
        BY <3>1 DEF Statement
    <2>2. PICK kind \in {"mode", "default"} :
            todo[g] = <<Statement(kind, NoSlot), Statement("count", NoSlot)>>
      BY <1>1, <1>2, <2>1 DEF Asking
    <2>3. Tail(todo[g]) = <<Statement("count", NoSlot)>>
      BY <2>2
    <2> QED
      BY <1>1, <1>2, <2>3 DEF Asking
  <1>3. CASE Doing(g).name = "getmode"
    <2>1. \A i \in 1 .. Len(todo[g]) : todo[g][i].kind \in {"mode", "default"}
      BY <1>1, <1>3 DEF Moding
    <2>2. \A i \in 1 .. Len(Tail(todo[g])) : Tail(todo[g])[i].kind \in {"mode", "default"}
      BY <2>1, TailFacts DEF OpInv
    <2> QED
      BY <1>1, <1>3, <2>2 DEF Moding
  <1> QED
    BY <1>1, <1>2, <1>3

\* Once the mode is known, IsActiveNow goes on to the schedule or has its answer.
LEMMA SeenStage ==
  ASSUME OpInv, NEW g \in Goroutine, ReadMode(g) \/ WriteDefault(g)
  PROVE  Stage(g)'
  <1>1. /\ Inside(g) /\ todo[g] # <<>> /\ Stmt(g).kind \in {"mode", "default"}
        /\ UNCHANGED <<plan, base, rows>>
    BY DEF ReadMode, WriteDefault, Running
  <1>2. mode' \in Mode /\ SeeMode(g, mode', Tail(todo[g]))
    BY DEF ReadMode, WriteDefault, OpInv, Typed, Mode
  <1>3. /\ todo'[g] = IF mode' = "Sched" THEN Tail(todo[g]) ELSE <<>>
        /\ result'[g].active = (mode' = "On")
    BY <1>2 DEF SeeMode, OpInv, ModeInv, Shape, Typed, Result
  <1>4. Doing(g)' = Doing(g)
    BY <1>1 DEF Doing
  <1>5. CASE Doing(g).name = "activenow"
    <2>1. rows = base[g] /\ Tail(todo[g]) = <<Statement("count", NoSlot)>>
      BY <1>1, <1>5, ModeStatement
    <2>2. mode' # "Sched" => todo'[g] = <<>> /\ result'[g].active = ActiveAt(result[g].at)'
      BY <1>3 DEF ActiveAt
    <2>3. mode' = "Sched" => todo'[g] = <<Statement("count", NoSlot)>>
      BY <1>3, <2>1
    <2>4. Asking(g)'
      BY <1>1, <1>4, <2>1, <2>2, <2>3 DEF Asking
    <2> QED
      BY <1>4, <1>5, <2>4 DEF Stage, Adding, Removing, Drawing, Moding
  <1>6. CASE Doing(g).name = "getmode"
    <2>1. /\ rows = base[g]
          /\ \A i \in 1 .. Len(Tail(todo[g])) : Tail(todo[g])[i].kind \in {"mode", "default"}
      BY <1>1, <1>6, ModeStatement
    <2>2. \A i \in 1 .. Len(todo'[g]) : todo'[g][i].kind \in {"mode", "default"}
      BY <1>3, <2>1
    <2>3. Moding(g)'
      BY <1>1, <1>4, <1>6, <2>1, <2>2 DEF Moding
    <2> QED
      BY <1>4, <1>6, <2>3 DEF Stage, Adding, Removing, Drawing, Asking
  <1> QED
    BY <1>1, <1>5, <1>6, ModeStatement

LEMMA ReadNoModeStage == ASSUME OpInv, NEW g \in Goroutine, ReadNoMode(g) PROVE Stage(g)'
  <1> DEFINE new == <<Statement("default", NoSlot)>> \o Tail(todo[g])
  <1>1. /\ Inside(g) /\ todo[g] # <<>> /\ Stmt(g).kind = "mode"
        /\ UNCHANGED <<plan, base, rows>> /\ todo'[g] = new
    BY DEF ReadNoMode, Running, OpInv, ModeInv, Shape
  <1>2. Doing(g)' = Doing(g)
    BY <1>1 DEF Doing
  <1>3. CASE Doing(g).name = "activenow"
    <2>1. rows = base[g] /\ Tail(todo[g]) = <<Statement("count", NoSlot)>>
      BY <1>1, <1>3, ModeStatement
    <2>2. todo'[g] = <<Statement("default", NoSlot), Statement("count", NoSlot)>>
      <3>1. todo'[g] = <<Statement("default", NoSlot)>> \o <<Statement("count", NoSlot)>>
        BY <1>1, <2>1
      <3>2. ASSUME NEW x \in AnyStatement, NEW y \in AnyStatement
            PROVE  <<x>> \o <<y>> = <<x, y>>
        <4> DEFINE z == <<x>> \o <<y>>
        <4>1. z \in Seq(AnyStatement) /\ Len(z) = 2 /\ z[1] = x /\ z[2] = y
          BY ConcatProperties
        <4>2. <<x, y>> \in Seq(AnyStatement) /\ Len(<<x, y>>) = 2
          OBVIOUS
        <4> HIDE DEF z
        <4>3. z = <<x, y>>
          BY <4>1, <4>2
        <4> QED
          BY <4>3 DEF z
      <3> QED
        BY <3>1, <3>2, PlainStatement DEF StatementKind
    <2>3. Asking(g)'
      BY <1>1, <1>2, <2>1, <2>2 DEF Asking
    <2> QED
      BY <1>2, <1>3, <2>3 DEF Stage, Adding, Removing, Drawing, Moding
  <1>4. CASE Doing(g).name = "getmode"
    <2>1. /\ rows = base[g]
          /\ \A i \in 1 .. Len(Tail(todo[g])) : Tail(todo[g])[i].kind \in {"mode", "default"}
      BY <1>1, <1>4, ModeStatement
    <2>2. Tail(todo[g]) \in Seq(AnyStatement)
      BY <1>1, RestFacts DEF OpInv
    <2>3. Statement("default", NoSlot) \in AnyStatement /\ Statement("default", NoSlot).kind = "default"
      BY PlainStatement DEF StatementKind, Statement
    <2>4. \A i \in 1 .. Len(new) :
            new[i] = Statement("default", NoSlot)
              \/ (i - 1 \in 1 .. Len(Tail(todo[g])) /\ new[i] = Tail(todo[g])[i - 1])
      BY <2>2, <2>3
    <2>5. \A i \in 1 .. Len(new) : new[i].kind \in {"mode", "default"}
      BY <2>1, <2>3, <2>4
    <2>6. Moding(g)'
      BY <1>1, <1>2, <1>4, <2>1, <2>5 DEF Moding
    <2> QED
      BY <1>2, <1>4, <2>6 DEF Stage, Adding, Removing, Drawing, Asking
  <1> QED
    BY <1>1, <1>3, <1>4, ModeStatement

-----------------------------------------------------------------------------
(* The first statements of an operation.                                    *)

LEMMA StatementFields ==
  \A kind, slot : Statement(kind, slot).kind = kind /\ Statement(kind, slot).slot = slot
  BY DEF Statement

LEMMA EachSlotFacts ==
  ASSUME NEW kind, NEW slots \in Seq(AnySlot)
  PROVE  /\ Len(EachSlot(kind, slots)) = Len(slots) /\ Len(slots) \in Nat
         /\ \A i \in 1 .. Len(EachSlot(kind, slots)) :
              /\ EachSlot(kind, slots)[i] = Statement(kind, slots[i])
              /\ slots[i] \in ToSet(slots)
  BY DEF EachSlot, ToSet

LEMMA LockStage == ASSUME OpInv, NEW g \in Goroutine, Lock(g) PROVE Stage(g)'
  <1> DEFINE op == Head(plan[g])
  <1>1. op \in AnyOp
    BY DEF Lock, OpInv, ModeInv, Shape
  <1>2. /\ Doing(g)' = op /\ rows' = rows /\ base'[g] = rows
        /\ todo'[g] = Statements(op) /\ result'[g] = NoResult
    <2>1. ~Inside(g) /\ UNCHANGED <<rows, plan, result>>
      BY DEF Lock
    <2>2. result[g] = NoResult
      BY <2>1 DEF OpInv, StageInv
    <2>3. base'[g] = rows /\ todo'[g] = Statements(op)
      BY DEF Lock, OpInv, ModeInv, Shape, Typed
    <2> QED
      BY <2>1, <2>2, <2>3 DEF Doing
  <1> HIDE DEF op
  <1>3. CASE op.name \in {"activate", "init"}
    <2> DEFINE slots == IF op.name = "init" THEN AllSlots ELSE SlotsOf(op.obj)
    <2>1. slots \in Seq(AnySlot) /\ Named(op) = ToSet(slots)
      BY <1>1, <1>3, OpNames, SlotSeqs DEF Named
    <2>2. Statements(op) = EachSlot("insert", slots)
      BY <1>3 DEF Statements
    <2>3. \A i \in 1 .. Len(Statements(op)) :
            Statements(op)[i].kind = "insert" /\ Statements(op)[i].slot \in Named(op)
      <3> HIDE DEF slots
      <3>1. \A i \in 1 .. Len(Statements(op)) :
              Statements(op)[i] = Statement("insert", slots[i]) /\ slots[i] \in ToSet(slots)
        BY <2>1, <2>2, EachSlotFacts
      <3> QED
        BY <2>1, <3>1, StatementFields
    <2>4. Left(g, "insert")'
      BY <1>2, <2>3 DEF Left, Named
    <2>5. Adding(g)'
      BY <1>2, <2>4 DEF Adding, Named
    <2> QED
      BY <1>2, <1>3, <2>5 DEF Stage, Removing, Drawing, Asking, Moding
  <1>4. CASE op.name = "deactivate"
    <2>1. SlotsOf(op.obj) \in Seq(AnySlot) /\ Named(op) = ToSet(SlotsOf(op.obj))
      BY <1>1, <1>4, OpNames, SlotSeqs DEF Named
    <2>2. Statements(op) \in {EachSlot("delete", SlotsOf(op.obj)), <<>>}
      BY <1>4 DEF Statements
    <2>3. \A i \in 1 .. Len(Statements(op)) :
            Statements(op)[i].kind = "delete" /\ Statements(op)[i].slot \in Named(op)
      <3>1. CASE Statements(op) = EachSlot("delete", SlotsOf(op.obj))
        <4>1. \A i \in 1 .. Len(Statements(op)) :
                /\ Statements(op)[i] = Statement("delete", SlotsOf(op.obj)[i])
                /\ SlotsOf(op.obj)[i] \in ToSet(SlotsOf(op.obj))
          BY <2>1, <3>1, EachSlotFacts
        <4> QED
          BY <2>1, <4>1, StatementFields
      <3>2. CASE Statements(op) = <<>>
        BY <3>2
      <3> QED
        BY <2>2, <3>1, <3>2
    <2>4. Left(g, "delete")'
      BY <1>2, <2>3 DEF Left, Named
    <2>5. Removing(g)'
      BY <1>2, <2>4 DEF Removing, Named
    <2> QED
      BY <1>2, <1>4, <2>5 DEF Stage, Adding, Drawing, Asking, Moding
  <1>5. CASE op.name = "table"
    <2>1. Statements(op) = EachSlot("cell", TableSlots)
      BY <1>5 DEF Statements
    <2>2. /\ Len(todo'[g]) = Len(TableSlots) /\ Len(TableSlots) \in Nat
          /\ \A i \in 1 .. Len(todo'[g]) : todo'[g][i] = Statement("cell", TableSlots[i])
      BY <1>2, <2>1, SlotSeqs, EachSlotFacts
    <2>3. Drawn(g)' = 0
      <3>1. Drawn(g)' = Len(TableSlots) - Len(todo'[g])
        BY DEF Drawn
      <3> QED
        BY <2>2, <3>1
    <2>4. Drawn(g)' \in 0 .. Len(TableSlots)
      BY <2>2, <2>3
    <2>5. \A i \in 1 .. Len(todo'[g]) : todo'[g][i] = Statement("cell", TableSlots[Drawn(g)' + i])
      BY <2>2, <2>3
    <2>6. result'[g].shown = rows' \cap {TableSlots[i] : i \in 1 .. Drawn(g)'}
      BY <1>2, <2>3 DEF NoResult
    <2>7. Drawing(g)'
      BY <1>2, <2>4, <2>5, <2>6 DEF Drawing, TableSlots, TableCell
    <2> QED
      BY <1>2, <1>5, <2>7 DEF Stage, Adding, Removing, Asking, Moding
  <1>6. CASE op.name = "activenow"
    <2>1. todo'[g] = <<Statement("mode", NoSlot), Statement("count", NoSlot)>>
      BY <1>2, <1>6 DEF Statements
    <2>2. Asking(g)'
      BY <1>2, <2>1 DEF Asking
    <2> QED
      BY <1>2, <1>6, <2>2 DEF Stage, Adding, Removing, Drawing, Moding
  <1>7. CASE op.name \in {"setmode", "getmode"}
    <2>1. todo'[g] = IF op.name = "setmode" THEN <<Statement("write", NoSlot)>>
                                           ELSE <<Statement("mode", NoSlot)>>
      BY <1>2, <1>7 DEF Statements
    <2>2. \A i \in 1 .. Len(todo'[g]) : todo'[g][i].kind = IF op.name = "setmode" THEN "write" ELSE "mode"
      BY <2>1 DEF Statement
    <2>3. Moding(g)'
      BY <1>2, <2>2 DEF Moding
    <2> QED
      BY <1>2, <1>7, <2>3 DEF Stage, Adding, Removing, Drawing, Asking
  <1> QED
    BY <1>1, <1>3, <1>4, <1>5, <1>6, <1>7, OpNames

-----------------------------------------------------------------------------
(* StageInv, step by step.                                                  *)

LEMMA LockStages == ASSUME OpInv, NEW g \in Goroutine, Lock(g) PROVE StageInv'
  <1>1. Stage(g)'
    BY LockStage
  <1>2. lock = {} /\ lock' = {g} /\ result' = result
    BY DEF Lock, LockFree
  <1>3. \A h \in Goroutine \ {g} : todo'[h] = todo[h]
    BY DEF Lock
  <1>4. \A h \in Goroutine \ {g} : todo[h] = <<>> /\ result[h] = NoResult
    BY <1>2 DEF OpInv, StageInv, Inside
  <1> QED
    BY <1>1, <1>2, <1>3, <1>4 DEF StageInv, Inside

LEMMA ExecuteStages == ASSUME OpInv, NEW g \in Goroutine, Execute(g) PROVE StageInv'
  <1>1. Inside(g) /\ lock' = lock /\ \A h \in Goroutine \ {g} : todo'[h] = todo[h]
    BY ExecuteFrame DEF OpInv
  <1>2. ASSUME NEW h \in Goroutine \ {g} PROVE result'[h] = result[h]
    <2>1. CASE Insert(g) \/ Delete(g) \/ WriteMode(g) \/ ReadNoMode(g)
      BY <2>1 DEF Insert, Delete, WriteMode, ReadNoMode
    <2>2. CASE Cell(g)
      BY <2>2 DEF Cell
    <2>3. CASE Count(g)
      BY <2>3 DEF Count, OpInv, Typed, Result
    <2>4. CASE ReadMode(g) \/ WriteDefault(g)
      BY <2>4 DEF ReadMode, WriteDefault, SeeMode, OpInv, Typed, Result
    <2> QED
      BY <2>1, <2>2, <2>3, <2>4 DEF Execute
  <1>3. Stage(g)'
    BY InsertStage, DeleteStage, CellStage, WriteModeStage, SeenStage, ReadNoModeStage, CountStage
       DEF Execute
  <1> QED
    BY <1>1, <1>2, <1>3, Alone

LEMMA ReturnStages ==
  ASSUME OpInv, NEW g \in Goroutine, Inside(g), NEW rest, Return(g, rest) PROVE StageInv'
  <1> SUFFICES ASSUME NEW h \in Goroutine PROVE ~Inside(h)' /\ todo'[h] = <<>> /\ result'[h] = NoResult
    BY DEF StageInv
  <1>1. ~Inside(h)'
    BY DEF Return, OpInv, ModeInv, OneHolder, Inside
  <1>2. CASE h = g
    BY <1>1, <1>2 DEF Return, OpInv, ModeInv, Shape, Typed
  <1>3. CASE h # g
    <2>1. ~Inside(h)
      BY <1>3 DEF OpInv, ModeInv, OneHolder, Inside
    <2>2. todo[h] = <<>> /\ result[h] = NoResult
      BY <2>1 DEF OpInv, StageInv
    <2> QED
      BY <1>1, <1>3, <2>2 DEF Return
  <1> QED
    BY <1>2, <1>3

\* A command arrives at a goroutine that is outside, and the time does not matter.
LEMMA IdleStages ==
  ASSUME OpInv, (\E g \in Goroutine : Begin(g)) \/ TimePasses \/ UNCHANGED vars
  PROVE  StageInv'
  <1>1. UNCHANGED <<rows, mode, lock, todo, result, base>>
    BY DEF Begin, TimePasses, vars
  <1>2. ASSUME NEW h \in Goroutine, Inside(h) PROVE plan'[h] = plan[h]
    <2>1. plan[h] # <<>>
      BY <1>2 DEF OpInv, ModeInv, HolderIsBusy, Inside
    <2>2. ASSUME NEW g \in Goroutine, Begin(g) PROVE plan'[h] = plan[h]
      BY <2>1, <2>2 DEF Begin
    <2>3. TimePasses \/ UNCHANGED vars => plan' = plan
      BY DEF TimePasses, vars
    <2> QED
      BY <2>2, <2>3
  <1> SUFFICES ASSUME NEW h \in Goroutine
               PROVE  IF Inside(h)' THEN Stage(h)' ELSE todo'[h] = <<>> /\ result'[h] = NoResult
    BY DEF StageInv
  <1>3. Inside(h)' <=> Inside(h)
    BY <1>1 DEF Inside
  <1>4. CASE Inside(h)
    <2>1. Doing(h)' = Doing(h) /\ Stage(h)
      BY <1>2, <1>4 DEF Doing, OpInv, StageInv
    <2>2. Adding(h)' /\ Removing(h)'
      BY <1>1, <2>1 DEF Stage, Adding, Removing, Left, Named
    <2>3. Drawing(h)'
      BY <1>1, <2>1 DEF Stage, Drawing, Drawn, TableSlots, TableCell
    <2>4. Asking(h)'
      BY <1>1, <2>1 DEF Stage, Asking, ActiveAt
    <2>5. Moding(h)'
      BY <1>1, <2>1 DEF Stage, Moding
    <2> QED
      BY <1>3, <1>4, <2>2, <2>3, <2>4, <2>5 DEF Stage
  <1>5. CASE ~Inside(h)
    BY <1>1, <1>3, <1>5 DEF OpInv, StageInv
  <1> QED
    BY <1>4, <1>5

LEMMA CrashStages == ASSUME OpInv, Crash PROVE StageInv'
  BY DEF Crash, StageInv, Inside

-----------------------------------------------------------------------------
(* Typed and Planned, step by step.                                         *)

LEMMA InitOp == Init => OpInv
  <1> SUFFICES ASSUME Init PROVE OpInv
    OBVIOUS
  <1>1. NoResult \in Result
    BY DEF NoResult, Result
  <1>2. Typed
    BY <1>1 DEF Init, Typed
  <1>3. StageInv
    BY DEF Init, StageInv, Inside
  <1>4. Planned
    <2>1. ASSUME NEW g \in Goroutine PROVE \E p \in PlansOf(g) : TRUE
      <3>1. <<Op("table")>> \in Commands
        BY DEF Commands
      <3>2. CASE g = "telegram"
        BY <3>1, <3>2 DEF PlansOf
      <3>3. CASE g = "pubsub"
        BY <3>3 DEF PlansOf
      <3>4. CASE g = "supervisor"
        BY <3>4 DEF PlansOf
      <3> QED
        BY <3>2, <3>3, <3>4 DEF Goroutine
    <2>2. ASSUME NEW g \in Goroutine, NEW p \in PlansOf(g) PROVE IsSuffix(<<>>, p)
      BY PlanSeqs, SuffixFacts
    <2> QED
      BY <2>1, <2>2 DEF Init, Planned
  <1> QED
    BY <1>2, <1>3, <1>4, InitMode DEF OpInv

LEMMA ExecuteTyped == ASSUME OpInv, NEW g \in Goroutine, Execute(g) PROVE Typed'
  <1>1. Inside(g) /\ todo[g] # <<>> /\ UNCHANGED <<clock, base>>
    BY ExecuteFrame DEF OpInv
  <1>2. CASE Insert(g)
    <2>1. Doing(g).name \in {"activate", "init"} /\ Stmt(g).slot \in Named(Doing(g))
      BY <1>1, <1>2, KindTells DEF Insert, Running
    <2>2. Stmt(g).slot \in Slots
      BY <1>1, <2>1, DoingOp, NamedSlots DEF OpInv
    <2> QED
      BY <1>2, <2>2 DEF Insert, OpInv, Typed
  <1>3. CASE WriteMode(g)
    <2>1. Doing(g).name = "setmode"
      BY <1>1, <1>3, KindTells DEF WriteMode, Running
    <2>2. Doing(g).mode \in Mode
      BY <1>1, <2>1, DoingOp, OpNames DEF OpInv
    <2> QED
      BY <1>3, <2>2 DEF WriteMode, Doing, OpInv, Typed
  <1>4. CASE Delete(g) \/ ReadNoMode(g)
    BY <1>4 DEF Delete, ReadNoMode, OpInv, Typed
  <1>5. CASE Cell(g)
    <2>1. result[g].shown \cup ({Stmt(g).slot} \cap rows) \in SUBSET Slots
      BY DEF OpInv, Typed, Result
    <2>2. result' \in [Goroutine -> Result]
      BY <1>5, <2>1 DEF Cell, OpInv, Typed, Result
    <2> QED
      BY <1>5, <2>2 DEF Cell, OpInv, Typed
  <1>6. CASE Count(g)
    <2>1. (clock \in rows) \in BOOLEAN /\ clock \in ToSet(AllSlots)
      BY DEF OpInv, Typed
    <2>2. result' \in [Goroutine -> Result]
      BY <1>6, <2>1 DEF Count, OpInv, Typed, Result
    <2> QED
      BY <1>6, <2>2 DEF Count, OpInv, Typed
  <1>7. CASE ReadMode(g) \/ WriteDefault(g)
    <2>1. mode' \in Mode /\ SeeMode(g, mode', Tail(todo[g])) /\ UNCHANGED <<rows, lastSet>>
      BY <1>7 DEF ReadMode, WriteDefault, OpInv, Typed, Mode
    <2>2. (mode' = "On") \in BOOLEAN
      OBVIOUS
    <2>3. result' \in [Goroutine -> Result]
      BY <2>1, <2>2 DEF SeeMode, OpInv, Typed, Result
    <2> QED
      BY <1>1, <2>1, <2>3 DEF OpInv, Typed
  <1> QED
    BY <1>2, <1>3, <1>4, <1>5, <1>6, <1>7 DEF Execute

LEMMA OtherTyped ==
  ASSUME OpInv, NEW g \in Goroutine,
         \/ Begin(g) \/ Lock(g) \/ (\E rest : Return(g, rest)) \/ Crash \/ TimePasses
         \/ UNCHANGED vars
  PROVE  Typed'
  <1>1. UNCHANGED <<rows, mode, lastSet>> /\ clock' \in ToSet(AllSlots)
    BY DEF Begin, Lock, Return, Crash, TimePasses, vars, OpInv, Typed
  <1>2. NoResult \in Result /\ rows \in SUBSET Slots /\ {} \in SUBSET Slots
    BY DEF NoResult, Result, OpInv, Typed
  <1>3. result' \in [Goroutine -> Result] /\ base' \in [Goroutine -> SUBSET Slots]
    BY <1>2 DEF Begin, Lock, Return, Crash, TimePasses, vars, OpInv, Typed
  <1> QED
    BY <1>1, <1>3 DEF OpInv, Typed

LEMMA ReturnPlanned ==
  ASSUME OpInv, NEW g \in Goroutine, plan[g] # <<>>,
         NEW rest \in {<<>>, Tail(plan[g])}, plan' = [plan EXCEPT ![g] = rest]
  PROVE  Planned'
  <1>1. PICK p \in PlansOf(g) : IsSuffix(plan[g], p)
    BY DEF OpInv, Planned
  <1>2. p \in Seq(AnyOp) /\ plan[g] \in Seq(AnyOp)
    BY PlanSeqs DEF OpInv, ModeInv, Shape
  <1>3. IsSuffix(rest, p)
    BY <1>1, <1>2, SuffixFacts
  <1>4. plan'[g] = rest /\ \A h \in Goroutine \ {g} : plan'[h] = plan[h]
    BY DEF OpInv, ModeInv, Shape
  <1>5. ASSUME NEW h \in Goroutine PROVE \E q \in PlansOf(h) : IsSuffix(plan'[h], q)
    <2>1. CASE h = g
      BY <1>3, <1>4, <2>1
    <2>2. CASE h # g
      BY <1>4, <2>2 DEF OpInv, Planned
    <2> QED
      BY <2>1, <2>2
  <1> QED
    BY <1>5 DEF Planned

LEMMA CrashPlanned == ASSUME OpInv, Crash PROVE Planned'
  <1> SUFFICES ASSUME NEW g \in Goroutine PROVE \E p \in PlansOf(g) : IsSuffix(plan'[g], p)
    BY DEF Planned
  <1>1. PICK p \in PlansOf(g) : IsSuffix(plan[g], p)
    BY DEF OpInv, Planned
  <1>2. IsSuffix(<<>>, p)
    BY PlanSeqs, SuffixFacts
  <1> QED
    BY <1>2 DEF Crash

LEMMA BeginPlanned == ASSUME OpInv, NEW g \in Goroutine, Begin(g) PROVE Planned'
  <1>1. PICK p \in PlansOf(g) : plan' = [plan EXCEPT ![g] = p]
    BY DEF Begin
  <1>2. IsSuffix(p, p)
    BY PlanSeqs, SuffixFacts
  <1>3. plan'[g] = p /\ \A h \in Goroutine \ {g} : plan'[h] = plan[h]
    BY <1>1 DEF OpInv, ModeInv, Shape
  <1> QED
    BY <1>2, <1>3 DEF Planned, OpInv

LEMMA NextOp == OpInv /\ [Next]_vars => OpInv'
  <1> SUFFICES ASSUME OpInv, [Next]_vars PROVE OpInv'
    OBVIOUS
  <1>1. ModeInv'
    BY NextMode DEF OpInv
  <1>2. ASSUME NEW g \in Goroutine, Begin(g) PROVE OpInv'
    BY <1>1, <1>2, OtherTyped, BeginPlanned, IdleStages DEF OpInv
  <1>3. ASSUME NEW g \in Goroutine, Lock(g) PROVE OpInv'
    <2>1. Planned'
      BY <1>3 DEF Lock, OpInv, Planned
    <2> QED
      BY <1>1, <1>3, <2>1, OtherTyped, LockStages DEF OpInv
  <1>4. ASSUME NEW g \in Goroutine, Execute(g) PROVE OpInv'
    <2>1. plan' = plan
      BY <1>4, ExecuteFrame DEF OpInv
    <2>2. Planned'
      BY <2>1 DEF OpInv, Planned
    <2> QED
      BY <1>1, <1>4, <2>2, ExecuteTyped, ExecuteStages DEF OpInv
  <1>5. ASSUME NEW g \in Goroutine, Finish(g) \/ Fail(g) PROVE OpInv'
    <2>1. PICK rest \in {<<>>, Tail(plan[g])} : Return(g, rest)
      BY <1>5 DEF Finish, Fail
    <2>2. Inside(g) /\ plan[g] # <<>>
      BY <1>5 DEF Finish, Fail, Done, Inside, OpInv, ModeInv, HolderIsBusy
    <2>3. Planned'
      BY <2>1, <2>2, ReturnPlanned DEF Return
    <2> QED
      BY <1>1, <2>1, <2>2, <2>3, OtherTyped, ReturnStages DEF OpInv
  <1>6. CASE Crash
    <2>1. PICK g \in Goroutine : TRUE
      BY DEF Goroutine
    <2> QED
      BY <1>1, <1>6, <2>1, OtherTyped, CrashPlanned, CrashStages DEF OpInv
  <1>7. CASE TimePasses \/ UNCHANGED vars
    <2>1. PICK g \in Goroutine : TRUE
      BY DEF Goroutine
    <2>2. plan' = plan
      BY <1>7 DEF TimePasses, vars
    <2>3. Planned'
      BY <2>2 DEF OpInv, Planned
    <2> QED
      BY <1>1, <1>7, <2>1, <2>3, OtherTyped, IdleStages DEF OpInv
  <1> QED
    BY <1>2, <1>3, <1>4, <1>5, <1>6, <1>7 DEF Next, Step

LEMMA OpInvHolds == Spec => []OpInv
  BY InitOp, NextOp, PTL DEF Spec

-----------------------------------------------------------------------------
(* Every hour of the week is a cell of the table, once GetTable is through. *)

\* The i-th of n numbers k * n + b with b < n.
LEMMA DivMod ==
  ASSUME NEW n \in Nat \ {0}, NEW k \in Nat, NEW b \in 0 .. n - 1
  PROVE  k * n + b \in Nat /\ (k * n + b) \div n = k /\ (k * n + b) % n = b
  OBVIOUS

\* Row times column is at most all.
LEMMA Cells ==
  ASSUME NEW n \in Nat \ {0}, NEW m \in Nat \ {0}, NEW i \in 0 .. (n * m) - 1
  PROVE  i \div n \in 0 .. m - 1 /\ i % n \in 0 .. n - 1 /\ i = (i \div n) * n + (i % n)
  <1>1. i \in Nat /\ i < n * m
    OBVIOUS
  <1>2. i \div n \in Nat /\ i % n \in 0 .. n - 1 /\ i = (i \div n) * n + (i % n)
    BY <1>1
  <1>3. i \div n < m
    <2> DEFINE q == i \div n
    <2>1. q \in Nat /\ q * n <= i
      BY <1>1, <1>2
    <2>2. q * n < n * m
      BY <1>1, <2>1
    <2> HIDE DEF q
    <2>3. ~(q >= m)
      BY <2>1, <2>2
    <2> QED
      BY <2>1, <2>3 DEF q
  <1> QED
    BY <1>2, <1>3

LEMMA CellIndex ==
  ASSUME NEW n \in Nat \ {0}, NEW m \in Nat \ {0}, NEW k \in 0 .. m - 1, NEW b \in 0 .. n - 1
  PROVE  k * n + b + 1 \in 1 .. n * m
  OBVIOUS

LEMMA SameCells == ToSet(TableSlots) = ToSet(AllSlots)
  <1> DEFINE L == Len(Weekdays)
  <1>1. L \in Nat /\ HourLimit \in Nat \ {0} /\ L * HourLimit \in Nat
    <2>1. L \in Nat
      BY WeekdaysAssumption, LenProperties
    <2>2. \A m, n \in Nat : m * n \in Nat
      OBVIOUS
    <2> QED
      BY <2>1, <2>2, HourAssumption
  <1>2. ToSet(TableSlots) = {TableCell(i) : i \in 1 .. L * HourLimit}
    BY DEF ToSet, TableSlots
  <1>3. ToSet(AllSlots) = {<<Weekdays[((i - 1) \div HourLimit) + 1], (i - 1) % HourLimit>> :
                             i \in 1 .. L * HourLimit}
    BY DEF ToSet, AllSlots
  <1> HIDE DEF L
  <1> DEFINE OfDay(i) == <<Weekdays[((i - 1) \div HourLimit) + 1], (i - 1) % HourLimit>>
  <1>4. CASE L = 0
    <2>1. 1 .. L * HourLimit = {}
      BY <1>1, <1>4
    <2> QED
      BY <1>2, <1>3, <2>1
  <1>5. CASE L # 0
    <2>0. L \in Nat \ {0} /\ L * HourLimit = HourLimit * L
      BY <1>1, <1>5
    <2>1. ASSUME NEW i \in 1 .. L * HourLimit
          PROVE  \E j \in 1 .. L * HourLimit : TableCell(i) = OfDay(j)
      <3> DEFINE h == (i - 1) \div L
                 d == (i - 1) % L
                 j == d * HourLimit + h + 1
      <3>1. h \in 0 .. HourLimit - 1 /\ d \in 0 .. L - 1
        <4>1. i - 1 \in 0 .. (L * HourLimit) - 1
          BY <1>1, <2>1
        <4> QED
          BY <1>1, <2>0, <4>1, Cells
      <3> HIDE DEF h, d
      <3>2. j \in 1 .. L * HourLimit
        BY <1>1, <2>0, <3>1, CellIndex
      <3>3. j - 1 = d * HourLimit + h
        BY <1>1, <3>1
      <3>4. (j - 1) \div HourLimit = d /\ (j - 1) % HourLimit = h
        BY <1>1, <3>1, <3>3, DivMod
      <3>5. TableCell(i) = <<Weekdays[d + 1], h>>
        BY DEF TableCell, h, d, L
      <3> HIDE DEF j
      <3>6. OfDay(j) = <<Weekdays[d + 1], h>>
        BY <3>4
      <3> QED
        BY <3>2, <3>5, <3>6
    <2>2. ASSUME NEW j \in 1 .. L * HourLimit
          PROVE  \E i \in 1 .. L * HourLimit : OfDay(j) = TableCell(i)
      <3> DEFINE d == (j - 1) \div HourLimit
                 h == (j - 1) % HourLimit
                 i == h * L + d + 1
      <3>1. d \in 0 .. L - 1 /\ h \in 0 .. HourLimit - 1
        <4>1. j - 1 \in 0 .. (HourLimit * L) - 1
          BY <1>1, <2>0, <2>2
        <4> QED
          BY <1>1, <2>0, <4>1, Cells
      <3>2. OfDay(j) = <<Weekdays[d + 1], h>>
        OBVIOUS
      <3> HIDE DEF h, d, OfDay
      <3>3. i \in 1 .. L * HourLimit
        BY <1>1, <2>0, <3>1, CellIndex
      <3>4. i - 1 = h * L + d
        BY <1>1, <2>0, <3>1
      <3>5. (i - 1) \div L = h /\ (i - 1) % L = d
        <4>1. L \in Nat \ {0} /\ h \in Nat /\ d \in 0 .. L - 1
          BY <2>0, <3>1
        <4>2. (h * L + d) \div L = h /\ (h * L + d) % L = d
          BY <4>1, DivMod
        <4> QED
          BY <3>4, <4>2
      <3> HIDE DEF i
      <3>6. TableCell(i) = <<Weekdays[d + 1], h>>
        BY <3>5 DEF TableCell, L
      <3> QED
        BY <3>2, <3>3, <3>6
    <2> QED
      BY <1>2, <1>3, <2>1, <2>2
  <1> QED
    BY <1>4, <1>5

-----------------------------------------------------------------------------
\* What a camera's store and the operations on it hold (datastore.go, schedule.go):
\* rows are slots some command names, a mode is one of the three, and what a
\* goroutine has still to do is the end of a command.
THEOREM TypeCorrect == Spec => []TypeOK
  <1>1. OpInv => TypeOK
    BY DEF OpInv, ModeInv, Shape, Typed, Planned, TypeOK, Result
  <1> QED
    BY <1>1, OpInvHolds, PTL

\* SchedActiveNow (schedule.go): the answer put together from two or three
\* statements is what mode and schedule say together when it is given.
THEOREM AnswersAreCurrent == Spec => []AnswerIsCurrent
  <1>1. OpInv => AnswerIsCurrent
    <2> SUFFICES ASSUME OpInv, NEW g \in Goroutine, Done(g), Doing(g).name = "activenow"
                 PROVE  result[g].active = ActiveAt(result[g].at)
      BY DEF AnswerIsCurrent, Doing
    <2>1. Asking(g) /\ todo[g] = <<>>
      BY DEF Done, OpInv, StageInv, Stage
    <2>2. \A x, y : <<x>> # <<>> /\ <<x, y>> # <<>>
      OBVIOUS
    <2> QED
      BY <2>1, <2>2 DEF Asking
  <1> QED
    BY <1>1, OpInvHolds, PTL

\* SchedGetTable (schedule.go): the table drawn from one statement per cell is the
\* schedule at one moment, with every hour of the week.
THEOREM TablesAreSnapshots == Spec => []TableIsSnapshot
  <1>1. OpInv => TableIsSnapshot
    <2> SUFFICES ASSUME OpInv, NEW g \in Goroutine, Done(g), Doing(g).name = "table"
                 PROVE  result[g].shown = rows \cap ToSet(AllSlots)
      BY DEF TableIsSnapshot, Doing
    <2>1. Drawing(g) /\ Len(todo[g]) = 0 /\ Len(TableSlots) \in Nat
      BY SlotSeqs DEF Done, OpInv, StageInv, Stage
    <2>2. Drawn(g) = Len(TableSlots)
      BY <2>1 DEF Drawn
    <2>3. {TableSlots[i] : i \in 1 .. Len(TableSlots)} = ToSet(TableSlots)
      BY SlotSeqs DEF ToSet
    <2> QED
      BY <2>1, <2>2, <2>3, SameCells DEF Drawing
  <1> QED
    BY <1>1, OpInvHolds, PTL

\* Activate, Deactivate, ActivateAll (schedule.go): however far an operation has
\* come when a statement fails or the process ends, only slots it names have
\* changed, and only the way it asked.
THEOREM OnlyNamedChange == Spec => []ChangesOnlyNamed
  <1>1. OpInv => ChangesOnlyNamed
    <2> SUFFICES ASSUME OpInv, NEW g \in Goroutine, Inside(g)
                 PROVE  CASE Doing(g).name \in {"activate", "init"} ->
                               base[g] \subseteq rows /\ rows \ base[g] \subseteq Named(Doing(g))
                          [] Doing(g).name = "deactivate" ->
                               rows \subseteq base[g] /\ base[g] \ rows \subseteq Named(Doing(g))
                          [] OTHER -> rows = base[g]
      BY DEF ChangesOnlyNamed, Doing
    <2>1. Stage(g) /\ Doing(g) \in AnyOp
      BY DoingOp DEF OpInv, StageInv
    <2>2. CASE Doing(g).name \in {"activate", "init"}
      BY <2>1, <2>2 DEF Stage, Adding
    <2>3. CASE Doing(g).name = "deactivate"
      BY <2>1, <2>3 DEF Stage, Removing
    <2>4. CASE Doing(g).name \in {"table", "activenow", "setmode", "getmode"}
      BY <2>1, <2>4 DEF Stage, Drawing, Asking, Moding
    <2> QED
      BY <2>1, <2>2, <2>3, <2>4, OpNames
  <1> QED
    BY <1>1, OpInvHolds, PTL

=============================================================================
