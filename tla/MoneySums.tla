------------------------------- MODULE MoneySums -------------------------------
(***************************************************************************)
(* Sums of money over numbered rows.  The services add amounts with         *)
(* Array.reduce over the rows a query returns; here the rows of a table are *)
(* numbered 1..n in the order they were inserted, a row that the query's    *)
(* WHERE clause leaves out counts 0, and the sum is taken over all rows.    *)
(***************************************************************************)
EXTENDS Integers

\* The total of f over the rows 1..n.
Sum(f, n) == LET partial[i \in 0..n] == IF i = 0 THEN 0 ELSE partial[i - 1] + f[i]
             IN  partial[n]
================================================================================
