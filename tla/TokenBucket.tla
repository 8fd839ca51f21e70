---------------------------- MODULE TokenBucket ----------------------------
(***************************************************************************)
(* What a rate-limit bucket promises: it starts full; at every multiple of *)
(* Interval the level rises by Quantum, up to Capacity, whether or not     *)
(* anybody asks; a taker gets a token while there is one.                  *)
(***************************************************************************)
EXTENDS Naturals

CONSTANTS Interval, Capacity, Quantum

VARIABLES now, level

vars == <<now, level>>

AtMost(n, m) == IF n < m THEN n ELSE m

Init == now = 0 /\ level = Capacity

Pass ==
    /\ now' = now + 1
    /\ level' = IF now' % Interval = 0 THEN AtMost(level + Quantum, Capacity) ELSE level

Take == level > 0 /\ level' = level - 1 /\ UNCHANGED now

Next == Pass \/ Take

Spec == Init /\ [][Next]_vars

=============================================================================
