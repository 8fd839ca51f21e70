----------------------------- MODULE MCSchedule ----------------------------
(* A week of two days, of two hours or of one.                              *)
EXTENDS Schedule

TwoDays == <<"mon", "tue">>

\* A slot, a day, an hour of every day, and an hour that no day has.
FourLists ==
    {<<[day |-> "mon", hour |-> 0]>>, <<[day |-> "tue", hour |-> -1]>>,
     <<[day |-> "any", hour |-> 1]>>, <<[day |-> "mon", hour |-> 2]>>}

\* A day and then a slot of another; an hour of every day.
TwoLists ==
    {<<[day |-> "mon", hour |-> -1], [day |-> "tue", hour |-> 0]>>, <<[day |-> "any", hour |-> 0]>>}

=============================================================================
