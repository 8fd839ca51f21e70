------------------------------- MODULE Inbox --------------------------------
(***************************************************************************)
(* What the bots and the listener promise the group of each camera, with   *)
(* no polls, offsets, batches, queues and channels in it: a process takes  *)
(* a group's updates one by one, in their order and none twice, and runs   *)
(* them in the order in which it has taken them.  Telegram forgets an      *)
(* update only after it was taken.  The end of the process drops what it   *)
(* has in hand; the next one starts behind what Telegram has forgotten.    *)
(***************************************************************************)
EXTENDS Naturals, Sequences

CONSTANTS Cams, Kind

VARIABLES
    posted,     \* posted[c]: the updates of the group of c, as their kinds
    forgotten,  \* forgotten[c]: Telegram has forgotten the updates up to this one
    up,         \* there is a process
    taken,      \* taken[c]: the process has taken the updates up to this one
    inHand      \* inHand[c]: those of them it has still to run

vars == <<posted, forgotten, up, taken, inHand>>

Init ==
    /\ posted = [c \in Cams |-> <<>>] /\ up = FALSE
    /\ forgotten = [c \in Cams |-> 0] /\ taken = [c \in Cams |-> 0]
    /\ inHand = [c \in Cams |-> {}]

Post(c) ==
    /\ \E kind \in Kind : posted' = [posted EXCEPT ![c] = Append(@, kind)]
    /\ UNCHANGED <<forgotten, up, taken, inHand>>

Start == ~up /\ up' = TRUE /\ UNCHANGED <<posted, forgotten, taken, inHand>>

Take(c) ==
    /\ up /\ taken[c] < Len(posted[c])
    /\ taken' = [taken EXCEPT ![c] = @ + 1]
    /\ inHand' = [inHand EXCEPT ![c] = @ \cup {taken[c] + 1}]
    /\ UNCHANGED <<posted, forgotten, up>>

\* The first of those in hand.
Run(c) ==
    /\ up
    /\ \E id \in inHand[c] :
        /\ \A other \in inHand[c] : id <= other
        /\ inHand' = [inHand EXCEPT ![c] = @ \ {id}]
    /\ UNCHANGED <<posted, forgotten, up, taken>>

Forget(c) ==
    /\ up /\ forgotten' = [forgotten EXCEPT ![c] = taken[c]]
    /\ UNCHANGED <<posted, up, taken, inHand>>

End ==
    /\ up /\ up' = FALSE
    /\ taken' = forgotten /\ inHand' = [c \in Cams |-> {}]
    /\ UNCHANGED <<posted, forgotten>>

Next == Start \/ End \/ \E c \in Cams : Post(c) \/ Take(c) \/ Run(c) \/ Forget(c)

Spec == Init /\ [][Next]_vars

=============================================================================
