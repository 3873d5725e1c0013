------------------------------- MODULE MCRefunds -------------------------------
(* The model-checking instances of Refunds. *)
EXTENDS Refunds, TLC

CONSTANTS agent, manager, admin, p1, c1, c2

MCAmount == [p \in Payments |-> 2]
Slots == Permutations(Calls)

\* Where every user may approve, the users are interchangeable too.
SlotsAndUsers == Slots \cup Permutations(Users)
================================================================================
