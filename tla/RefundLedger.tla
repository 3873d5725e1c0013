----------------------------- MODULE RefundLedger ------------------------------
(***************************************************************************)
(* What the refund services promise, without handlers, locks, retries or    *)
(* lost answers: the money collected on a payment is claimed by requests, a *)
(* claim that is refused gives its amount back, and Cashfree pays each      *)
(* approved claim at most once, for the amount that was claimed.  Refunds   *)
(* is shown to implement this module.                                       *)
(***************************************************************************)
EXTENDS Integers

CONSTANTS
    Payments,       \* the payments
    Amount,         \* what was collected on each of them
    RequestAmounts, \* the amounts a request may ask for
    MaxRequests     \* bound: requests ever raised

VARIABLES
    claim,    \* the requests: how far each one is, its payment and amount
    free,     \* what of each payment no request has claimed
    paid,     \* Cashfree's record of the refund of each request
    refunded  \* what the CRM has booked as refunded on each payment

vars == <<claim, free, paid, refunded>>
Claims == 1..MaxRequests
None == [stage |-> "none"]

Init ==
    /\ claim = [r \in Claims |-> None]
    /\ free = Amount
    /\ paid = [r \in Claims |-> "none"]
    /\ refunded = [p \in Payments |-> 0]

Advance(r, from, to) ==
    /\ claim[r].stage = from
    /\ claim' = [claim EXCEPT ![r] = [stage |-> to, payment |-> @.payment, amount |-> @.amount]]

\* A request claims part of what nobody has claimed yet.
Ask(r, p, a) ==
    /\ claim[r] = None
    /\ a <= free[p]
    /\ claim' = [claim EXCEPT ![r] = [stage |-> "asked", payment |-> p, amount |-> a]]
    /\ free' = [free EXCEPT ![p] = @ - a]
    /\ UNCHANGED <<paid, refunded>>

\* Refused: the claim is given back, for good.
Refuse(r) ==
    /\ Advance(r, "asked", "refused")
    /\ free' = [free EXCEPT ![claim[r].payment] = @ + claim[r].amount]
    /\ UNCHANGED <<paid, refunded>>

Approve(r) == Advance(r, "asked", "approved") /\ UNCHANGED <<free, paid, refunded>>

\* From here on Cashfree may be asked to pay, any number of times.
Send(r) == Advance(r, "approved", "sent") /\ UNCHANGED <<free, paid, refunded>>

\* Cashfree accepts a refund that was sent, and pays it or cancels it.
Pay(r) ==
    /\ claim[r].stage = "sent"
    /\ \/ paid[r] = "none" /\ \E s \in {"PENDING", "SUCCESS"} : paid' = [paid EXCEPT ![r] = s]
       \/ paid[r] = "PENDING" /\ \E s \in {"SUCCESS", "CANCELLED"} : paid' = [paid EXCEPT ![r] = s]
    /\ UNCHANGED <<claim, free, refunded>>

\* A refund that Cashfree has paid is booked, once.
Book(r) ==
    /\ paid[r] = "SUCCESS"
    /\ Advance(r, "sent", "booked")
    /\ refunded' = [refunded EXCEPT ![claim[r].payment] = @ + claim[r].amount]
    /\ UNCHANGED <<free, paid>>

Next ==
    \/ \E r \in Claims, p \in Payments, a \in RequestAmounts : Ask(r, p, a)
    \/ \E r \in Claims : Refuse(r) \/ Approve(r) \/ Send(r) \/ Pay(r) \/ Book(r)

Spec == Init /\ [][Next]_vars
================================================================================
