------------------------------- MODULE House --------------------------------
(***************************************************************************)
(* What the program promises about the house alarm, with no subscription,  *)
(* callbacks, acknowledgements and channels in it: each controlled camera  *)
(* is due to follow every alarm message, in any order and perhaps more     *)
(* than once, and no message is forgotten before each camera was asked to  *)
(* follow it.  The end of the process costs one message at most, unless it *)
(* is an orderly end, which may give up all of them.                       *)
(***************************************************************************)
EXTENDS Naturals, Sequences

CONSTANTS Controlled, Kind

VARIABLES
    posted,  \* the kinds of the messages published, in order
    up,      \* there is a process
    ending,  \* it is on its way to an orderly end
    due,     \* due[c]: the messages that c will be asked to follow
    tried    \* tried[c]: those it was asked to follow by this process

vars == <<posted, up, ending, due, tried>>

Init ==
    /\ posted = <<>> /\ up = FALSE /\ ending = FALSE
    /\ due = [c \in Controlled |-> {}] /\ tried = [c \in Controlled |-> {}]

\* Everybody is to hear of an alarm, or nobody: there may be no subscription.
Publish ==
    /\ \E kind \in Kind : posted' = Append(posted, kind)
    /\ \/ UNCHANGED due
       \/ due' = [c \in Controlled |-> due[c] \cup {Len(posted) + 1}]
    /\ UNCHANGED <<up, ending, tried>>

Start == ~up /\ up' = TRUE /\ UNCHANGED <<posted, ending, due, tried>>

Cancel == up /\ ~ending /\ ending' = TRUE /\ UNCHANGED <<posted, up, due, tried>>

\* c is asked to follow a message, which may be given again.
Ask(c) ==
    /\ up
    /\ \E m \in due[c] :
        /\ posted[m] \in {"opening", "close"}
        /\ tried' = [tried EXCEPT ![c] = @ \cup {m}]
        /\ due' \in {due, [due EXCEPT ![c] = @ \ {m}]}
    /\ UNCHANGED <<posted, up, ending>>

\* A message is forgotten by the cameras that were asked to follow it.
Forget ==
    /\ up
    /\ DOMAIN due' = Controlled
    /\ \A c \in Controlled : due'[c] \subseteq due[c] /\ due[c] \ due'[c] \subseteq tried[c]
    /\ UNCHANGED <<posted, up, ending, tried>>

\* One message at most is given up for those it has not reached yet.
End ==
    /\ up /\ up' = FALSE /\ ending' = FALSE
    /\ tried' = [c \in Controlled |-> {}]
    /\ \/ UNCHANGED due
       \/ \E m \in DOMAIN posted : due' = [c \in Controlled |-> due[c] \ {m}]
    /\ UNCHANGED posted

\* On its way to an orderly end the process gives up what it is not handling.
GiveUp ==
    /\ up /\ ending
    /\ DOMAIN due' = Controlled
    /\ \A c \in Controlled : due'[c] \subseteq due[c]
    /\ UNCHANGED <<posted, up, ending, tried>>

Next ==
    \/ Publish \/ Start \/ Cancel \/ Forget \/ End \/ GiveUp
    \/ \E c \in Controlled : Ask(c)

Spec == Init /\ [][Next]_vars

=============================================================================
