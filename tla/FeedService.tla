---------------------------- MODULE FeedService ----------------------------
(***************************************************************************)
(* What the capture feeds promise, whatever goroutines, locks and loops    *)
(* provide them: a feed is opened only for a camera whose flag is on; it   *)
(* is released only when the flag is off or the service is closing, and    *)
(* never under a reader; only an open feed is read; one reader at a time;  *)
(* nothing is left open when the service is down.                          *)
(***************************************************************************)
EXTENDS Naturals

CONSTANT NumCams

Cam == 0 .. NumCams - 1

VARIABLES
    phase,  \* "down", "up" or "closing"
    flag,   \* flag[c]: camera c should be active
    feeds,  \* the cameras whose feed is open
    reader  \* the cameras being read: at most one

vars == <<phase, flag, feeds, reader>>

Init ==
    /\ phase = "down"
    /\ flag = [c \in Cam |-> FALSE]
    /\ feeds = {} /\ reader = {}

Start == phase = "down" /\ phase' = "up" /\ UNCHANGED <<flag, feeds, reader>>

\* From here on feeds are released whatever their flags, and none is read.
Close == phase = "up" /\ reader = {} /\ phase' = "closing" /\ UNCHANGED <<flag, feeds, reader>>

Down ==
    /\ phase # "down" /\ phase' = "down"
    /\ flag' = [c \in Cam |-> FALSE]
    /\ feeds' = {} /\ reader' = {}

SetFlag(c) ==
    /\ phase # "down"
    /\ flag' = [flag EXCEPT ![c] = ~@]
    /\ UNCHANGED <<phase, feeds, reader>>

Open(c) ==
    /\ phase # "down"
    /\ flag[c] /\ c \notin feeds
    /\ feeds' = feeds \cup {c}
    /\ UNCHANGED <<phase, flag, reader>>

Release(c) ==
    /\ phase # "down"
    /\ c \in feeds \ reader
    /\ ~flag[c] \/ phase = "closing"
    /\ feeds' = feeds \ {c}
    /\ UNCHANGED <<phase, flag, reader>>

BeginRead(c) ==
    /\ phase = "up"
    /\ c \in feeds /\ reader = {}
    /\ reader' = {c}
    /\ UNCHANGED <<phase, flag, feeds>>

EndRead == reader # {} /\ reader' = {} /\ UNCHANGED <<phase, flag, feeds>>

Next ==
    \/ Start \/ Close \/ Down \/ EndRead
    \/ \E c \in Cam : SetFlag(c) \/ Open(c) \/ Release(c) \/ BeginRead(c)

Spec == Init /\ [][Next]_vars

=============================================================================
