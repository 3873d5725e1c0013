-------------------------- MODULE MCCashfreePayments --------------------------
(* Instances of CashfreePayments for TLC. *)
EXTENDS CashfreePayments, TLC

CONSTANTS u1, u2, h1, s1

OneUser == {u1}
TwoUsers == {u1, u2}
OneHook == {h1}
OneSweeper == {s1}
None == {}
Symmetry == Permutations(TwoUsers)
================================================================================
