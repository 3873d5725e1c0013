-------------------------------- MODULE Refunds --------------------------------
(***************************************************************************)
(* Refunds of the payments of ONE order: request, approval (which cancels   *)
(* the order first), rejection, execution at Cashfree, status refresh and   *)
(* the refund webhook.                                                      *)
(*                                                                          *)
(* Every database transaction of these services takes the order's advisory  *)
(* lock, so it is one atomic action here.  A call to Cashfree or Shopify is *)
(* made with no transaction open: a handler is a job that passes through    *)
(* the phases between its transactions, and everything else may happen in   *)
(* between.  cancelOrder and revertCancellation do NOT take the lock: their *)
(* reads, their conditional writes of the status and their writes of the    *)
(* whole metadata, as they read it before, are separate actions.            *)
(*                                                                          *)
(* The payments are the order's Cashfree payments created in the CRM        *)
(* (externalSource CASHFREE, both Cashfree ids recorded, not COD); the      *)
(* order has no open payment link and no Shiprocket order.                  *)
(***************************************************************************)
EXTENDS Integers, FiniteSets, MoneySums

CONSTANTS
    Users,          \* logged-in users; each of them may raise a request
    Approvers,      \* those with the role MANAGER or ADMIN
    Payments,       \* the order's payments
    Amount,         \* what was collected on each of them, in the smallest unit
    RequestAmounts, \* the amounts a request may ask for
    Keys,           \* submission keys the browser sends with a request
    NoKey,          \* a request sent without a submission key
    Calls,          \* HTTP requests the server handles at the same time
    Workers,        \* webhook deliveries it processes at the same time
    ShopifyLinked,  \* whether the order is linked to a Shopify order
    GraceCoversCalls, \* no execution is still under way when its grace period ends
    MaxRequests,    \* bound: refund requests ever raised
    MaxAttempts     \* bound: executions of one request

ASSUME UsersAssumption == Approvers \subseteq Users
ASSUME AmountAssumption == Amount \in [Payments -> Nat \ {0}]
ASSUME RequestAmountsAssumption == RequestAmounts \subseteq Nat \ {0}
ASSUME KeysAssumption == NoKey \notin Keys
ASSUME ShopifyAssumption == ShopifyLinked \in BOOLEAN
ASSUME GraceAssumption == GraceCoversCalls \in BOOLEAN
ASSUME BoundsAssumption == MaxRequests \in Nat /\ MaxAttempts \in Nat
ASSUME JobsAssumption == Calls \cap Workers = {}

Requests == 1..MaxRequests
Jobs == Calls \cup Workers

VARIABLES
    order,    \* the Order row: its status and metadata
    payment,  \* the Payment rows: status and refundedAmount
    req,      \* the RefundRequest rows; an unused row has status "none"
    job,      \* what each handler or worker is doing
    refund,   \* Cashfree's own record of the refund with the request's refund_id
    late,     \* create calls that were given up on but may still reach Cashfree
    graced,   \* the last execution of the request that is older than the grace period
    events,   \* stored refund webhooks that still have to be processed
    hasty     \* (history) requests given up on an answer that the end of the grace period overtook

vars == <<order, payment, req, job, refund, late, graced, events, hasty>>
ledger == <<payment, req>>

--------------------------------------------------------------------------------
(* Rows *)

\* A RefundRequest row.  manualCheck: its failureReason asks for a manual check.
Request == [status : {"PENDING", "APPROVED", "REJECTED"}, payment : Payments,
            amount : RequestAmounts, by : Users, key : Keys \cup {NoKey},
            exec : {"null", "PROCESSING", "FAILED", "COMPLETED"},
            attempts : 0..MaxAttempts, cfRefundId : BOOLEAN, manualCheck : BOOLEAN]
Unused == [status |-> "none"]

RefundStatus == {"none", "PENDING", "SUCCESS", "CANCELLED"}

\* What a handler knows of the refund when it records the outcome: "failure" is
\* a refusal, "none" an unknown outcome; a SUCCESS whose amount is missing, or is
\* not the one requested, is "SUCCESS_OTHER".
Answers == {"none", "failure", "PENDING", "SUCCESS", "SUCCESS_OTHER", "CANCELLED"}

\* Order.metadata: how the cancellation went in Shopify (shopifyCancellation), and
\* whether the status before it is recorded (preCancelStatus).
Metadata == [shopify : {"none", "failed", "cancelled"}, before : BOOLEAN]
NoMetadata == [shopify |-> "none", before |-> FALSE]

\* meta: the metadata a job read and is going to write back.
Idle == [op |-> "idle"]
CancelJob == [op : {"cancel"}, at : {"read", "write", "remember", "shopify", "retry"}, meta : Metadata]
ApproveJob == [op : {"approve"}, at : {"read", "write", "remember", "shopify", "retry", "decide"},
               meta : Metadata, req : Requests, user : Approvers]
RevertJob == [op : {"revert"}, at : {"write", "record"}, meta : Metadata]
ExecuteJob == [op : {"execute"}, at : {"sent", "recover", "record"}, req : Requests,
               got : Answers, readBack : BOOLEAN]
\* early: Cashfree answered, within the grace period, that it has no such refund.
RefreshJob == [op : {"refresh"}, at : {"read", "judge", "record"}, req : Requests,
               attempt : 0..MaxAttempts, known : BOOLEAN, early : BOOLEAN, got : Answers]
WebhookJob == [op : {"webhook"}, at : {"read", "record"}, req : Requests, got : Answers]
Job == {Idle} \cup CancelJob \cup ApproveJob \cup RevertJob \cup ExecuteJob
              \cup RefreshJob \cup WebhookJob

TypeOK ==
    /\ order \in [status : {"ACTIVE", "CANCELLED"}, meta : Metadata]
    /\ payment \in [Payments -> [status : {"SUCCESS", "PARTIALLY_REFUNDED", "REFUNDED"},
                                 refunded : Nat]]
    /\ req \in [Requests -> Request \cup {Unused}]
    /\ job \in [Jobs -> Job]
    /\ refund \in [Requests -> RefundStatus]
    /\ late \subseteq Requests
    /\ graced \in [Requests -> 0..MaxAttempts]
    /\ events \subseteq Requests
    /\ hasty \subseteq Requests

--------------------------------------------------------------------------------
(* The balance of a payment *)

\* Requests that hold their amount or have spent it, those that still hold it
\* (OPEN_RESERVATION), and those that have spent it.
Live == {r \in Requests : req[r].status \in {"PENDING", "APPROVED"}}

\* Faults: an execution releases the reservation; a request reserves once it is approved.
OpenUntilExecuted == {r \in Live : req[r].exec = "null"}
OpenOnceApproved == {r \in Live : req[r].status = "APPROVED" /\ req[r].exec # "COMPLETED"}
Open == {r \in Live : req[r].exec # "COMPLETED"}
Completed == {r \in Requests : req[r] # Unused /\ req[r].exec = "COMPLETED"}

\* The sum of the amounts of the payment's requests that are in S.
Rows(p, S) == [r \in Requests |-> IF r \in S /\ req[r].payment = p THEN req[r].amount ELSE 0]
Total(p, S) == Sum(Rows(p, S), MaxRequests)

\* What can still be asked for, request r not counted: amount - refunded - reserved.
RefundableWithout(p, r) == Amount[p] - payment[p].refunded - Total(p, Open \ {r})
Refundable(p) == Amount[p] - payment[p].refunded - Total(p, Open)

\* refundIneligibleReason is null: a paid Cashfree payment, not yet fully refunded.
Eligible(p) == payment[p].status \in {"SUCCESS", "PARTIALLY_REFUNDED"}

Init ==
    /\ order = [status |-> "ACTIVE", meta |-> NoMetadata]
    /\ payment = [p \in Payments |-> [status |-> "SUCCESS", refunded |-> 0]]
    /\ req = [r \in Requests |-> Unused]
    /\ job = [j \in Jobs |-> Idle]
    /\ refund = [r \in Requests |-> "none"]
    /\ late = {}
    /\ graced = [r \in Requests |-> 0]
    /\ events = {}
    /\ hasty = {}

--------------------------------------------------------------------------------
(* Jobs *)

Begin(j, what) == job[j] = Idle /\ job' = [job EXCEPT ![j] = what]
End(j) == job' = [job EXCEPT ![j] = Idle]
At(j, op, phase) == job[j].op = op /\ job[j].at = phase
Goto(j, phase) == job' = [job EXCEPT ![j].at = phase]
GotWith(j, phase, answer) == job' = [job EXCEPT ![j].at = phase, ![j].got = answer]

--------------------------------------------------------------------------------
(* Request, approval, rejection *)

\* A request of this user under this key exists; the lookup, the checks and the insert are
\* one transaction under the order's lock.
Submitted(u, k) ==
    k # NoKey /\ \E r \in Requests : req[r] # Unused /\ req[r].by = u /\ req[r].key = k

\* createRequest.  The same submission sent again finds its row and changes nothing.
CreateRequest(u, p, a, k) ==
    /\ ~Submitted(u, k)
    /\ Eligible(p)
    /\ a <= Refundable(p)
    /\ \E r \in Requests :
        /\ req[r] = Unused
        /\ \A s \in Requests : s < r => req[s] # Unused
        /\ req' = [req EXCEPT ![r] =
               [status |-> "PENDING", payment |-> p, amount |-> a, by |-> u, key |-> k,
                exec |-> "null", attempts |-> 0, cfRefundId |-> FALSE, manualCheck |-> FALSE]]
    /\ UNCHANGED <<order, payment, job, refund, late, graced, events, hasty>>

\* The order is not cancelled yet, or Shopify refused to cancel it.
CancelOutstanding == order.status # "CANCELLED" \/ order.meta.shopify = "failed"

\* approve, first part: the read-only checks decide whether the order is still to be cancelled.
ApproveStart(j, u, r) ==
    /\ req[r].status = "PENDING"
    /\ req[r].by # u
    /\ Eligible(req[r].payment)
    /\ Begin(j, [op |-> "approve", at |-> IF CancelOutstanding THEN "read" ELSE "decide",
                 meta |-> NoMetadata, req |-> r, user |-> u])
    /\ UNCHANGED <<order, ledger, refund, late, graced, events, hasty>>

\* Fault: the status read before the cancellation is not read again under the lock.
DecideUnchecked(j) ==
    /\ At(j, "approve", "decide")
    /\ req' = [req EXCEPT ![job[j].req].status = IF order.status = "CANCELLED" THEN "APPROVED" ELSE @]
    /\ End(j)
    /\ UNCHANGED <<order, payment, refund, late, graced, events, hasty>>

\* decide(APPROVED): only on a cancelled order, only while PENDING, never one's own.
Decide(j) ==
    /\ At(j, "approve", "decide")
    /\ LET r == job[j].req IN
        req' = IF req[r].by # job[j].user /\ order.status = "CANCELLED" /\ req[r].status = "PENDING"
               THEN [req EXCEPT ![r].status = "APPROVED"]
               ELSE req
    /\ End(j)
    /\ UNCHANGED <<order, payment, refund, late, graced, events, hasty>>

\* Fault: a request can be rejected after it was approved.
RejectAnyTime(u, r) ==
    /\ req[r] # Unused /\ req[r].by # u
    /\ req' = [req EXCEPT ![r].status = "REJECTED"]
    /\ UNCHANGED <<order, payment, job, refund, late, graced, events, hasty>>

Reject(u, r) ==
    /\ req[r].status = "PENDING"
    /\ req[r].by # u
    /\ req' = [req EXCEPT ![r].status = "REJECTED"]
    /\ UNCHANGED <<order, payment, job, refund, late, graced, events, hasty>>

--------------------------------------------------------------------------------
(* cancelOrder, called by a user or by approve, and revertCancellation *)

CancelStart(j) ==
    /\ Begin(j, [op |-> "cancel", at |-> "read", meta |-> NoMetadata])
    /\ UNCHANGED <<order, ledger, refund, late, graced, events, hasty>>

Cancelling(j, phases) == job[j].op \in {"cancel", "approve"} /\ job[j].at \in phases
GotoWith(j, phase, meta) == job' = [job EXCEPT ![j].at = phase, ![j].meta = meta]

\* Fault: every cancellation goes on with a decision.
CancelledForgetsCaller(j) == GotoWith(j, "decide", NoMetadata)

\* The caller goes on once the order is cancelled here and in Shopify.
Cancelled(j) == IF job[j].op = "approve" THEN GotoWith(j, "decide", NoMetadata) ELSE End(j)

\* The process runs one retry of a failed Shopify cancellation at a time.
RetryRunning == \E j \in Jobs : Cancelling(j, {"retry"})

\* cancelOrder reads the order: is it still to be cancelled, is Shopify still to be asked
\* again, or is nothing left to do?
CancelRead(j) ==
    LET again == order.status = "CANCELLED" /\ order.meta.shopify = "failed"
        done == order.status = "CANCELLED" /\ order.meta.shopify # "failed"
    IN
    /\ Cancelling(j, {"read"})
    /\ \/ order.status # "CANCELLED" /\ GotoWith(j, "write", order.meta)
       \/ again /\ ~RetryRunning /\ GotoWith(j, "retry", order.meta)
       \/ again /\ RetryRunning /\ End(j)
       \/ done /\ (ShopifyLinked => order.meta.shopify = "cancelled") /\ Cancelled(j)
       \/ done /\ ShopifyLinked /\ order.meta.shopify = "none" /\ End(j)
    /\ UNCHANGED <<order, ledger, refund, late, graced, events, hasty>>

\* The status is written if it is not CANCELLED by now; only the call that wrote it goes
\* on to Shopify.
CancelWrite(j) ==
    /\ Cancelling(j, {"write"})
    /\ IF order.status # "CANCELLED" THEN Goto(j, "remember")
       ELSE IF ShopifyLinked THEN End(j) ELSE Cancelled(j)
    /\ order' = [order EXCEPT !.status = "CANCELLED"]
    /\ UNCHANGED <<ledger, refund, late, graced, events, hasty>>

\* preCancelStatus is written, with the metadata read before.
CancelRemember(j) ==
    LET meta == [job[j].meta EXCEPT !.before = TRUE] IN
    /\ Cancelling(j, {"remember"})
    /\ order' = [order EXCEPT !.meta = meta]
    /\ GotoWith(j, "shopify", meta)
    /\ UNCHANGED <<ledger, refund, late, graced, events, hasty>>

\* Shopify is asked, unless it has no such order or had cancelled it, and its answer is
\* written, with the metadata read before.
CancelShopify(j) ==
    /\ Cancelling(j, {"shopify", "retry"})
    /\ \E answer \in IF ShopifyLinked /\ job[j].meta.shopify # "cancelled"
                     THEN {"cancelled", "failed"} ELSE {job[j].meta.shopify} :
        /\ order' = [order EXCEPT !.meta = [job[j].meta EXCEPT !.shopify = answer]]
        /\ IF answer = "failed" THEN End(j) ELSE Cancelled(j)
    /\ UNCHANGED <<ledger, refund, late, graced, events, hasty>>

\* revertCancellation reads the order and its approved refunds ...
RevertStart(j) ==
    /\ order.status = "CANCELLED" /\ order.meta.before
    /\ \A r \in Requests : req[r].status # "APPROVED"
    /\ Begin(j, [op |-> "revert", at |-> "write", meta |-> order.meta])
    /\ UNCHANGED <<order, ledger, refund, late, graced, events, hasty>>

\* ... restores the status, if the order is still CANCELLED ...
RevertWrite(j) ==
    /\ At(j, "revert", "write")
    /\ IF order.status = "CANCELLED" THEN Goto(j, "record") ELSE End(j)
    /\ order' = [order EXCEPT !.status = "ACTIVE"]
    /\ UNCHANGED <<ledger, refund, late, graced, events, hasty>>

\* ... and writes the metadata it read, without preCancelStatus.
RevertRecord(j) ==
    /\ At(j, "revert", "record")
    /\ order' = [order EXCEPT !.meta = [job[j].meta EXCEPT !.before = FALSE]]
    /\ End(j)
    /\ UNCHANGED <<ledger, refund, late, graced, events, hasty>>

--------------------------------------------------------------------------------
(* The outcome of a refund *)

\* Fault: an outcome that was recorded is recorded again.
UntouchedUnlessApproved(r, onlyIfProcessing) ==
    req[r].status # "APPROVED" \/ (onlyIfProcessing /\ req[r].exec # "PROCESSING")

Untouched(r, onlyIfProcessing) ==
    \/ req[r].status # "APPROVED"
    \/ req[r].exec \in {"null", "COMPLETED"}
    \/ onlyIfProcessing /\ req[r].exec # "PROCESSING"

\* applyRefundOutcome: what the caller knows of refund r, recorded under the lock.
\* Only a SUCCESS read from Cashfree for the requested amount moves money.
ApplyRefundOutcome(r, got, allowComplete, onlyIfProcessing) ==
    LET p == req[r].payment
        refunded == payment[p].refunded + req[r].amount
        confirmed == got \in {"SUCCESS", "SUCCESS_OTHER"} /\ allowComplete
        exact == got = "SUCCESS" /\ refunded <= Amount[p]
    IN  \/ /\ Untouched(r, onlyIfProcessing) \/ got = "none"
           /\ UNCHANGED ledger
        \/ /\ ~Untouched(r, onlyIfProcessing)
           /\ got \in {"failure", "CANCELLED"}
           /\ req' = [req EXCEPT ![r].exec = "FAILED",
                                 ![r].cfRefundId = @ \/ got = "CANCELLED",
                                 ![r].manualCheck = FALSE]
           /\ UNCHANGED payment
        \/ /\ ~Untouched(r, onlyIfProcessing)
           /\ got \in {"PENDING", "SUCCESS", "SUCCESS_OTHER"} /\ ~(confirmed /\ exact)
           /\ req' = [req EXCEPT ![r].cfRefundId = TRUE,
                                 ![r].manualCheck = @ \/ confirmed]
           /\ UNCHANGED payment
        \/ /\ ~Untouched(r, onlyIfProcessing)
           /\ confirmed /\ exact
           /\ payment' = [payment EXCEPT ![p] =
                  [status |-> IF refunded = Amount[p] THEN "REFUNDED" ELSE "PARTIALLY_REFUNDED",
                   refunded |-> refunded]]
           /\ req' = [req EXCEPT ![r].exec = "COMPLETED", ![r].cfRefundId = TRUE,
                                 ![r].manualCheck = FALSE]

\* Fault: a refund that Cashfree still holds is read as paid.
SnapshotOptimistic(r) ==
    CASE refund[r] = "none" -> {"none"}
      [] refund[r] = "CANCELLED" -> {"CANCELLED"}
      [] OTHER -> {"SUCCESS", "SUCCESS_OTHER"}

\* What reading refund r from Cashfree may return, when the lookup succeeds.
Snapshot(r) == CASE refund[r] = "none" -> {"none"}
                 [] refund[r] = "SUCCESS" -> {"SUCCESS", "SUCCESS_OTHER"}
                 [] OTHER -> {refund[r]}

--------------------------------------------------------------------------------
(* Execution *)

\* execute, step 1: everything is checked again and the request marked PROCESSING;
\* the create call leaves after it.
ExecuteStart(j, u, r) ==
    /\ req[r].status = "APPROVED" /\ req[r].exec \in {"null", "FAILED"}
    /\ req[r].by # u
    /\ order.status = "CANCELLED"
    /\ Eligible(req[r].payment)
    /\ req[r].amount <= RefundableWithout(req[r].payment, r)
    /\ req[r].attempts < MaxAttempts
    /\ req' = [req EXCEPT ![r].exec = "PROCESSING", ![r].attempts = @ + 1,
                          ![r].manualCheck = FALSE]
    /\ Begin(j, [op |-> "execute", at |-> "sent", req |-> r, got |-> "none", readBack |-> FALSE])
    /\ UNCHANGED <<order, payment, refund, late, graced, events, hasty>>

\* Step 2: Cashfree creates the refund, or has it already under this refund_id and
\* idempotency key, and answers with it.
CreateAnswered(j) ==
    /\ At(j, "execute", "sent")
    /\ LET r == job[j].req IN
        \E s \in IF refund[r] = "none" THEN {"PENDING", "SUCCESS"} ELSE {refund[r]} :
            /\ refund' = [refund EXCEPT ![r] = s]
            /\ events' = IF refund[r] = "none" /\ s = "SUCCESS" THEN events \cup {r} ELSE events
            /\ GotWith(j, "record", s)
    /\ UNCHANGED <<order, ledger, late, graced, hasty>>

\* Cashfree refuses the call (a 4xx other than 409 and 429).
CreateRejected(j) ==
    /\ At(j, "execute", "sent")
    /\ GotWith(j, "record", "failure")
    /\ UNCHANGED <<order, ledger, refund, late, graced, events, hasty>>

\* 409: the refund_id exists already.
CreateConflict(j) ==
    /\ At(j, "execute", "sent")
    /\ refund[job[j].req] # "none"
    /\ Goto(j, "recover")
    /\ UNCHANGED <<order, ledger, refund, late, graced, events, hasty>>

\* No readable answer: the call may have been lost, or still reach Cashfree.
CreateUnknown(j) ==
    /\ At(j, "execute", "sent")
    /\ late' = late \cup {job[j].req}
    /\ Goto(j, "recover")
    /\ UNCHANGED <<order, ledger, refund, graced, events, hasty>>

\* Step 3, first half: the refund is read back; a failed or empty lookup leaves it unknown.
Recover(j) ==
    /\ At(j, "execute", "recover")
    /\ \E g \in Snapshot(job[j].req) \cup {"none"} :
          job' = [job EXCEPT ![j].at = "record", ![j].got = g, ![j].readBack = (g # "none")]
    /\ UNCHANGED <<order, ledger, refund, late, graced, events, hasty>>

\* Step 3, second half.  The answer of the create call never completes a refund.
ExecuteRecord(j) ==
    /\ At(j, "execute", "record")
    /\ ApplyRefundOutcome(job[j].req, job[j].got, job[j].readBack, FALSE)
    /\ End(j)
    /\ UNCHANGED <<order, refund, late, graced, events, hasty>>

--------------------------------------------------------------------------------
(* Status refresh by a user, and the refund webhook *)

RefreshStart(j, r) ==
    /\ req[r].status = "APPROVED" /\ req[r].exec = "PROCESSING"
    /\ Begin(j, [op |-> "refresh", at |-> "read", req |-> r, attempt |-> req[r].attempts,
                 known |-> req[r].cfRefundId, early |-> FALSE, got |-> "none"])
    /\ UNCHANGED <<order, ledger, refund, late, graced, events, hasty>>

\* getRefund: Cashfree reads the refund; the answer is on its way.
RefreshRead(j) ==
    /\ At(j, "refresh", "read")
    /\ \E g \in Snapshot(job[j].req) :
          job' = [job EXCEPT ![j].at = "judge", ![j].got = g,
                             ![j].early = (g = "none" /\ job[j].attempt > graced[job[j].req])]
    /\ UNCHANGED <<order, ledger, refund, late, graced, events, hasty>>

\* Cashfree has no record of the refund, and the execution, as it was read at the start, is
\* by now older than the grace period.
Unheard(j) == job[j].got = "none" /\ ~job[j].known /\ job[j].attempt <= graced[job[j].req]

\* An answer from within the grace period that arrived after it.
Overtaken(j) == Unheard(j) /\ job[j].early
Judged(j, answer) ==
    /\ At(j, "refresh", "judge")
    /\ GotWith(j, "record", answer)
    /\ hasty' = IF Overtaken(j) THEN hasty \cup {job[j].req} ELSE hasty
    /\ UNCHANGED <<order, ledger, refund, late, graced, events>>

\* Fault: a refund that Cashfree does not know is failed without waiting.
RefreshJudgeAtOnce(j) == Judged(j, IF job[j].got = "none" THEN "failure" ELSE job[j].got)

\* The answer has arrived, and the clock is looked at: such a refund counts as never
\* created, if no id of it was recorded.
RefreshJudge(j) == Judged(j, IF Unheard(j) THEN "failure" ELSE job[j].got)

RefreshRecord(j) ==
    /\ At(j, "refresh", "record")
    /\ ApplyRefundOutcome(job[j].req, job[j].got, TRUE, FALSE)
    /\ End(j)
    /\ UNCHANGED <<order, refund, late, graced, events, hasty>>

\* processRefundEvent: a delivery about a refund that is not PROCESSING is ignored ...
WebhookTake(w, r) ==
    /\ r \in events
    /\ IF req[r].status = "APPROVED" /\ req[r].exec = "PROCESSING"
       THEN /\ Begin(w, [op |-> "webhook", at |-> "read", req |-> r, got |-> "none"])
            /\ UNCHANGED events
       ELSE /\ job[w] = Idle
            /\ events' = events \ {r}
            /\ UNCHANGED job
    /\ UNCHANGED <<order, ledger, refund, late, graced, hasty>>

\* ... any other one is applied as Cashfree itself reports the refund.  A lookup that
\* fails ends the job (Stop) and the delivery is processed again.
WebhookRead(w) ==
    /\ At(w, "webhook", "read")
    /\ \E g \in Snapshot(job[w].req) : GotWith(w, "record", g)
    /\ UNCHANGED <<order, ledger, refund, late, graced, events, hasty>>

\* Fault: the webhook may not complete a refund.
WebhookRecordPending(w) ==
    /\ At(w, "webhook", "record")
    /\ ApplyRefundOutcome(job[w].req, job[w].got, FALSE, TRUE)
    /\ events' = events \ {job[w].req}
    /\ End(w)
    /\ UNCHANGED <<order, refund, late, graced, hasty>>

WebhookRecord(w) ==
    /\ At(w, "webhook", "record")
    /\ ApplyRefundOutcome(job[w].req, job[w].got, TRUE, TRUE)
    /\ events' = events \ {job[w].req}
    /\ End(w)
    /\ UNCHANGED <<order, refund, late, graced, hasty>>

--------------------------------------------------------------------------------
(* Failures and Cashfree *)

\* The handler stops between two of its steps: the process restarts, or a call to a
\* provider fails.  A create call it had sent may still arrive.
Stop(j) ==
    /\ job[j] # Idle
    /\ late' = IF At(j, "execute", "sent") THEN late \cup {job[j].req} ELSE late
    /\ End(j)
    /\ UNCHANGED <<order, ledger, refund, graced, events, hasty>>

\* The outstanding create call reaches Cashfree, or is lost.
LateCreate(r) ==
    /\ r \in late
    /\ late' = late \ {r}
    /\ refund' = [refund EXCEPT ![r] = IF @ = "none" THEN "PENDING" ELSE @]
    /\ UNCHANGED <<order, ledger, job, graced, events, hasty>>

LateLost(r) ==
    /\ r \in late
    /\ late' = late \ {r}
    /\ UNCHANGED <<order, ledger, job, refund, graced, events, hasty>>

\* Cashfree pays the refund out or cancels it, and announces it.
Settle(r) ==
    /\ refund[r] = "PENDING"
    /\ \E s \in {"SUCCESS", "CANCELLED"} : refund' = [refund EXCEPT ![r] = s]
    /\ events' = events \cup {r}
    /\ UNCHANGED <<order, ledger, job, late, graced, hasty>>

\* UNKNOWN_REFUND_GRACE_MS after an execution started.
GracePasses(r) ==
    /\ req[r] # Unused
    /\ graced[r] < req[r].attempts
    /\ GraceCoversCalls => /\ r \notin late
                           /\ \A j \in Jobs : job[j].op = "execute" => job[j].req # r
    /\ graced' = [graced EXCEPT ![r] = @ + 1]
    /\ UNCHANGED <<order, ledger, job, refund, late, events, hasty>>

--------------------------------------------------------------------------------
Execution(j) == \/ CreateAnswered(j) \/ CreateRejected(j) \/ CreateConflict(j)
                \/ CreateUnknown(j) \/ Recover(j) \/ ExecuteRecord(j)

OrderStep(j) == \/ CancelRead(j) \/ CancelWrite(j) \/ CancelRemember(j) \/ CancelShopify(j)
                \/ RevertWrite(j) \/ RevertRecord(j)

UserStep ==
    \/ \E u \in Users, p \in Payments, a \in RequestAmounts, k \in Keys \cup {NoKey} :
          CreateRequest(u, p, a, k)
    \/ \E u \in Approvers, r \in Requests : Reject(u, r)
    \/ \E j \in Calls, u \in Approvers, r \in Requests : ApproveStart(j, u, r) \/ ExecuteStart(j, u, r)
    \/ \E j \in Calls, r \in Requests : RefreshStart(j, r)
    \/ \E j \in Calls : CancelStart(j) \/ RevertStart(j)

CallStep(j) ==
    Decide(j) \/ OrderStep(j) \/ Execution(j) \/ RefreshRead(j) \/ RefreshJudge(j) \/ RefreshRecord(j)

WorkerStep(w) == WebhookRead(w) \/ WebhookRecord(w) \/ \E r \in Requests : WebhookTake(w, r)

Next ==
    \/ UserStep
    \/ \E j \in Calls : CallStep(j)
    \/ \E w \in Workers : WorkerStep(w)
    \/ \E j \in Jobs : Stop(j)
    \/ \E r \in Requests : LateCreate(r) \/ LateLost(r) \/ Settle(r) \/ GracePasses(r)

Spec == Init /\ [][Next]_vars

\* A delivery that fails is processed again, and one of its retries succeeds;
\* Cashfree settles what it accepted.  Nothing is assumed of users and their calls.
Fairness ==
    /\ \A w \in Workers : SF_vars(WebhookRead(w)) /\ SF_vars(WebhookRecord(w))
    /\ \A w \in Workers, r \in Requests : SF_vars(WebhookTake(w, r))
    /\ \A r \in Requests : WF_vars(Settle(r))

FairSpec == Spec /\ Fairness

--------------------------------------------------------------------------------
(* Properties *)

\* What Cashfree pays back for a payment never exceeds what was collected on it,
\* however requests, retries, refreshes, webhooks and late calls interleave (the
\* header of refunds.execution.ts).
PayoutsCovered ==
    \A p \in Payments :
        Total(p, {r \in Requests : req[r] # Unused /\ refund[r] \in {"PENDING", "SUCCESS"}}) <= Amount[p]

\* Refunded money and the reservations of open requests fit in the payment, so the
\* balance checks of execute and applyRefundOutcome never refuse an approved refund
\* and every open request is on a payment that is still refundable.
BalanceHeld ==
    /\ \A p \in Payments : Refundable(p) >= 0
    /\ \A r \in Open : Eligible(req[r].payment) /\ req[r].amount <= RefundableWithout(req[r].payment, r)

\* Payment.refundedAmount is the sum of the completed requests, each counted once,
\* and the payment's status says whether that is none, some or all of it.
AccountedOnce ==
    \A p \in Payments :
        /\ payment[p].refunded = Total(p, Completed)
        /\ payment[p].status = CASE payment[p].refunded = 0 -> "SUCCESS"
                                [] payment[p].refunded = Amount[p] -> "REFUNDED"
                                [] OTHER -> "PARTIALLY_REFUNDED"

\* Cashfree has, or may still receive, a refund only of a request that was approved
\* and sent; a request is COMPLETED only when Cashfree has paid it.
RefundedAsApproved ==
    \A r \in Requests :
        /\ refund[r] # "none" \/ r \in late =>
               req[r].status = "APPROVED" /\ req[r].exec # "null"
        /\ req[r].status = "APPROVED" /\ req[r].exec = "COMPLETED" => refund[r] = "SUCCESS"

\* The first time an execution is given up as FAILED, Cashfree has not paid it and will
\* not, provided the create call is over within the grace period (GraceCoversCalls) and no
\* refresh judged after the end of that period an answer given before it.
FirstFailureWasNotPaid ==
    \A r \in Requests :
        req[r].status = "APPROVED" /\ req[r].exec = "FAILED" /\ req[r].attempts = 1 /\ r \notin hasty
            => refund[r] \in {"none", "CANCELLED"}

\* "Only after a grace period, and only when no provider id was ever recorded, is it
\* safe to call it never created (FAILED, retryable with the SAME refund_id)"
\* (refunds.execution.ts:361-362): a FAILED refund is not one Cashfree holds or paid.
FailedWasNotPaid ==
    \A r \in Requests :
        req[r].status = "APPROVED" /\ req[r].exec = "FAILED" => refund[r] \in {"none", "CANCELLED"}

\* The same, where the answer that there is no such refund was given after the grace
\* period ("before that the create call may still be in flight", refunds.execution.ts:362).
FailedAfterGraceWasNotPaid ==
    \A r \in Requests :
        req[r].status = "APPROVED" /\ req[r].exec = "FAILED" /\ r \notin hasty
            => refund[r] \in {"none", "CANCELLED"}

\* A decision is final, a COMPLETED refund stays so, and what was asked for never
\* changes: the amount Cashfree was sent is the amount that was approved.
DecisionsFinal ==
    [][\A r \in Requests : req[r] # Unused =>
          /\ req'[r] # Unused
          /\ req'[r].amount = req[r].amount /\ req'[r].payment = req[r].payment
          /\ req[r].status # "PENDING" => req'[r].status = req[r].status
          /\ req[r].exec = "COMPLETED" => req'[r] = req[r]]_req

\* "An approved refund always sits on a cancelled order" (refunds.service.ts:330,
\* refunds.execution.ts step 1).
ApprovedOnCancelledOrder ==
    \A r \in Requests : req[r].status = "APPROVED" => order.status = "CANCELLED"

\* "If the cancellation fails - including Shopify refusing to cancel a linked order -
\* the refund is NOT approved" (refunds.service.ts:274-276).
ApprovedMeansShopifyCancelled ==
    ShopifyLinked =>
        \A r \in Requests : req[r].status = "APPROVED" => order.meta.shopify = "cancelled"

\* The webhook alone settles a first execution: a refund Cashfree has accepted does not
\* stay PROCESSING, whatever becomes of the handlers, unless its amount needs a manual
\* check.
Processing(r) == req[r].status = "APPROVED" /\ req[r].exec = "PROCESSING"
FirstExecutionSettles ==
    \A r \in Requests :
        (Processing(r) /\ refund[r] # "none" /\ req[r].attempts = 1)
            ~> (~Processing(r) \/ req[r].manualCheck)

--------------------------------------------------------------------------------
(* What a refund request comes to, seen from outside: its stage in RefundLedger *)

Stage(r) ==
    CASE req[r].status = "PENDING" -> "asked"
      [] req[r].status = "REJECTED" -> "refused"
      [] req[r].status = "APPROVED" /\ req[r].exec = "null" -> "approved"
      [] req[r].status = "APPROVED" /\ req[r].exec = "COMPLETED" -> "booked"
      [] OTHER -> "sent"

ClaimOf(r) == IF req[r] = Unused THEN [stage |-> "none"]
              ELSE [stage |-> Stage(r), payment |-> req[r].payment, amount |-> req[r].amount]

Ledger == INSTANCE RefundLedger WITH
    claim <- [r \in Requests |-> ClaimOf(r)],
    free <- [p \in Payments |-> Amount[p] - Total(p, Live)],
    paid <- refund,
    refunded <- [p \in Payments |-> payment[p].refunded]

\* With all its handlers, repeated and lost calls, stops and webhooks, the code does to
\* the money what RefundLedger says: each step is one of the ledger's, or none.
ImplementsLedger == Ledger!Spec
================================================================================
