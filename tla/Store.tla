-------------------------------- MODULE Store --------------------------------
(***************************************************************************)
(* What a camera's store promises, whatever locks, statements and tables   *)
(* provide it: an operation takes effect at one moment, and what it        *)
(* answers is true of that moment; the next takes effect when the answer   *)
(* has been given.  One that is cut short, because the database fails or   *)
(* the process ends, has done some of what it was asked and nothing else.  *)
(***************************************************************************)
EXTENDS Integers

CONSTANTS Days, Hours, Objs, Mode

VARIABLES
    on,     \* the slots that are on
    mode,   \* "none" until somebody sets or asks for it
    clock,  \* the slot of the time of day
    answer  \* the answer being given: at most one

vars == <<on, mode, clock, answer>>

Week == Days \X Hours

\* The slots an object names: day "any" is every day, hour -1 every hour.
Named(o) ==
    (IF o.day = "any" THEN Days ELSE {o.day}) \X (IF o.hour = -1 THEN Hours ELSE {o.hour})

\* An hour that no day has can be turned on, and not off again.
Refused(o) == o.hour # -1 /\ o.hour \notin Hours

Init == on = {} /\ mode = "none" /\ clock \in Week /\ answer = {}

\* An operation takes effect and has its answer.
Answers(a) == answer = {} /\ answer' = {a}

TurnOn(slots) ==
    Answers(<<"done">>) /\ on' = on \cup slots /\ UNCHANGED <<mode, clock>>
TurnOff(slots) ==
    Answers(<<"done">>) /\ on' = on \ slots /\ UNCHANGED <<mode, clock>>
SetMode(m) ==
    Answers(<<"done">>) /\ mode' = m /\ UNCHANGED <<on, clock>>

\* Who asks for the mode, and finds none, sets it.
KnownMode == IF mode = "none" THEN "Sched" ELSE mode

GetMode ==
    Answers(<<"mode", KnownMode>>) /\ mode' = KnownMode /\ UNCHANGED <<on, clock>>
ActiveNow ==
    /\ Answers(<<"active", KnownMode = "On" \/ (KnownMode = "Sched" /\ clock \in on)>>)
    /\ mode' = KnownMode /\ UNCHANGED <<on, clock>>
GetTable ==
    Answers(<<"table", on \cap Week>>) /\ UNCHANGED <<on, mode, clock>>

Answered == answer # {} /\ answer' = {} /\ UNCHANGED <<on, mode, clock>>

\* Some of the slots, and no answer.
Cut ==
    /\ answer = {} /\ UNCHANGED <<mode, clock, answer>>
    /\ \E slots \in {Week} \cup {Named(o) : o \in Objs} : \E some \in SUBSET slots :
        on' = on \cup some \/ on' = on \ some

\* What asking for a mode does first, whether or not the rest of it follows.
Default ==
    /\ answer = {} /\ mode = "none" /\ mode' = "Sched"
    /\ UNCHANGED <<on, clock, answer>>

TimePasses == clock' \in Week /\ UNCHANGED <<on, mode, answer>>

Next ==
    \/ TurnOn(Week) \/ GetMode \/ ActiveNow \/ GetTable
    \/ Answered \/ Cut \/ Default \/ TimePasses
    \/ \E o \in Objs : TurnOn(Named(o)) \/ TurnOff(IF Refused(o) THEN {} ELSE Named(o))
    \/ \E m \in Mode : SetMode(m)

Spec == Init /\ [][Next]_vars

=============================================================================
