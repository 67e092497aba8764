------------------------------- MODULE Credit -------------------------------
(***************************************************************************)
(* What a send window promises its callers: a number of credits that is    *)
(* taken from and added to in one step each, and a flag that closes it for *)
(* good.                                                                   *)
(***************************************************************************)
EXTENDS Integers

CONSTANTS Initial, MaxCredit, MaxDesired, MaxDelta

VARIABLES credit, closed

Smaller(a, b) == IF a <= b THEN a ELSE b

Init == credit = Initial /\ closed = FALSE

\* As much as is asked for, or what is there.
Acquire(n) ==
    /\ credit > 0
    /\ credit' = credit - Smaller(credit, n)
    /\ UNCHANGED closed

\* Added in full, up to the limit.
Grant(d) ==
    /\ credit' = Smaller(credit + d, MaxCredit)
    /\ UNCHANGED closed

Close ==
    /\ closed' = TRUE
    /\ UNCHANGED credit

Next ==
    \/ \E n \in 1..MaxDesired : Acquire(n)
    \/ \E d \in 1..MaxDelta : Grant(d)
    \/ Close

Spec == Init /\ [][Next]_<<credit, closed>>
=============================================================================
