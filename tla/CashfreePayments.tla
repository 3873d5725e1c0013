--------------------------- MODULE CashfreePayments ---------------------------
(***************************************************************************)
(* One prepaid order of the CRM and the Cashfree payments asked for it, from *)
(* the first payment link to the confirmed order: each payment may be paid   *)
(* through its link, through its UPI QR, or through both.                    *)
(*                                                                           *)
(* What Cashfree did is learnt from a webhook, from a user's refresh and     *)
(* from the scheduled catch-up; all three end in reconcileCashfreePayment.   *)
(* A payment row is written under the lock of its order, in one step here;   *)
(* every call to Cashfree and every statement outside that lock is a step of *)
(* its own.  The order's metadata is one JSON value: whoever writes it       *)
(* writes back the whole of what it read, unless it reads it in the same     *)
(* step.  Every payment is for the whole order: a result for another amount  *)
(* is never applied, and is left out.  Shopify is only the link of the order *)
(* (OrderSubmission has the push).                                           *)
(***************************************************************************)
EXTENDS Integers, FiniteSets, FiniteSetsExt

CONSTANTS
    NumPayments, \* bound: payments ever asked for the order
    Users,       \* requests of users under way
    Hooks,       \* webhook deliveries being processed
    Sweepers,    \* the scheduled catch-up, one per process that runs it
    Requests,    \* bound: what users ask for
    MaxFaults    \* bound: answers of Cashfree lost or refused without a reason, steps that fail, jobs that stop

ASSUME BoundsAssumption == NumPayments \in Nat /\ MaxFaults \in Nat
ASSUME RequestsAssumption ==
    Requests \subseteq {"create", "cancel link", "refresh", "qr", "mark paid", "cancel", "revert"}
ASSUME JobsAssumption ==
    /\ Users \cap Hooks = {}
    /\ Sweepers \cap (Users \cup Hooks) = {}

Payments == 1..NumPayments \* in the order they are created
Jobs == Users \cup Hooks \cup Sweepers

VARIABLES
    order,    \* Order.status
    meta,     \* what Order.metadata keeps of payments and cancellations
    linked,   \* Order.externalId is set
    pay,      \* the Payment rows of the Cashfree payments
    manual,   \* there is a payment a user verified outside Cashfree
    flagged,  \* exceptions: the audit rows of payments that need a refund
    reported, \* the audit row of an over-collected order exists
    link,     \* the payment links, at Cashfree
    qr,       \* the Cashfree orders behind the UPI QRs
    lapsed,   \* payments whose paymentExpiresAt has come
    inTime,   \* payments whose QR was paid before that
    job,      \* what each job is doing
    faults,   \* faults there have been
    seen      \* (history) money whose SUCCESS, with its Cashfree id, was applied or flagged

rows == <<pay, manual, flagged, reported>>
cashfree == <<link, qr, lapsed, inTime>>
vars == <<order, meta, linked, rows, cashfree, job, faults, seen>>

--------------------------------------------------------------------------------
(* Rows *)

Methods == {"link", "qr"}

\* why is failureReason; url: the link is stored; qr: the UPI QR is stored, closed: it,
\* or the link, was closed after the payment; id tells through which method the stored
\* Cashfree payment was made.
Payment == [status : {"none", "PENDING", "SUCCESS", "FAILED"},
            why : {"null", "expired", "cancelled", "rejected"},
            url : BOOLEAN, qr : BOOLEAN, closed : BOOLEAN, id : Methods \cup {"none"}]
NoPayment == [status |-> "none", why |-> "null", url |-> FALSE, qr |-> FALSE,
              closed |-> FALSE, id |-> "none"]

\* An exception is known by its key: the kind and the Cashfree payment, or the payment
\* row when the Cashfree payment is not known.  orderClosed: as it was on arrival.
Key == [pay : Payments, kind : {"duplicate", "late"}, id : Methods \cup {"none"}]
Exception == [key : Key, via : Methods, orderClosed : BOOLEAN]

\* pre is preCancelStatus; entries are the paymentExceptions, marked NEEDS_REFUND.
Metadata == [pre : {"none", "PENDING_PAYMENT", "CONFIRMED"}, entries : SUBSET Key,
             synced : BOOLEAN, notified : BOOLEAN]
NoMetadata == [pre |-> "none", entries |-> {}, synced |-> FALSE, notified |-> FALSE]

\* What Cashfree said: via and id as far as it was told; paidAt against the expiry.
Update == [to : {"none", "SUCCESS", "FAILED"}, via : Methods, id : Methods \cup {"none"},
           why : {"null", "expired", "cancelled", "rejected"},
           paidAt : {"unknown", "in time", "late"}]
NoUpdate == [to |-> "none", via |-> "link", id |-> "none", why |-> "null", paidAt |-> "unknown"]
Failed(why) == [NoUpdate EXCEPT !.to = "FAILED", !.why = why]
Paid(via, id, paidAt) == [NoUpdate EXCEPT !.to = "SUCCESS", !.via = via, !.id = id, !.paidAt = paidAt]

Phases == {"idle", "create", "reject", "finish", "cancel", "cancelled", "askLink", "askQr",
           "apply", "close", "recover", "confirm", "commit", "sync", "syncWrite", "notify",
           "notifyWrite", "qrCall", "qrStore", "void", "voidMeta", "links", "voidEnd",
           "revert", "revertMeta", "sweep"}

\* then: where a job goes on when it is done with a payment; todo: the payments it has
\* left; qr: the row it read has a QR; held, read: metadata read before.
Job == [at : Phases, pay : Payments \cup {0}, update : Update, qr : BOOLEAN,
        then : {"idle", "links", "sweep"}, todo : SUBSET Payments, notify : BOOLEAN,
        held : Metadata, read : Metadata]
Idle == [at |-> "idle", pay |-> 0, update |-> NoUpdate, qr |-> FALSE, then |-> "idle",
         todo |-> {}, notify |-> FALSE, held |-> NoMetadata, read |-> NoMetadata]

TypeOK ==
    /\ order \in {"PENDING_PAYMENT", "CONFIRMED", "CANCELLED"}
    /\ meta \in Metadata
    /\ linked \in BOOLEAN
    /\ pay \in [Payments -> Payment]
    /\ manual \in BOOLEAN
    /\ flagged \subseteq Exception
    /\ reported \in BOOLEAN
    /\ link \in [Payments -> {"none", "active", "paid", "expired", "cancelled"}]
    /\ qr \in [Payments -> {"none", "active", "paid", "closed"}]
    /\ lapsed \subseteq Payments
    /\ inTime \subseteq Payments
    /\ job \in [Jobs -> Job]
    /\ faults \in 0..MaxFaults
    /\ seen \subseteq (Payments \X Methods)

Init ==
    /\ order = "PENDING_PAYMENT"
    /\ meta = NoMetadata
    /\ linked = FALSE
    /\ pay = [p \in Payments |-> NoPayment]
    /\ manual = FALSE
    /\ flagged = {}
    /\ reported = FALSE
    /\ link = [p \in Payments |-> "none"]
    /\ qr = [p \in Payments |-> "none"]
    /\ lapsed = {}
    /\ inTime = {}
    /\ job = [j \in Jobs |-> Idle]
    /\ faults = 0
    /\ seen = {}

At(j, phase) == job[j].at = phase
Goto(j, phase) == job' = [job EXCEPT ![j].at = phase]
Begin(j, phase, p) == job' = [job EXCEPT ![j] = [Idle EXCEPT !.at = phase, !.pay = p, !.qr = p # 0 /\ pay[p].qr]]
\* A job is done with its payment, or with its order.
Done(j) == job' = [job EXCEPT ![j] = [Idle EXCEPT !.at = job[j].then, !.then = job[j].then,
                                                  !.todo = job[j].todo, !.held = job[j].held]]
Fault == faults < MaxFaults /\ faults' = faults + 1
NoFault == UNCHANGED faults

Open(p) == pay[p].status = "PENDING"
Successful == {p \in Payments : pay[p].status = "SUCCESS"}
PaidTimes == Cardinality(Successful) + IF manual THEN 1 ELSE 0

--------------------------------------------------------------------------------
(* Cashfree and its customer *)

\* A link or a QR is paid once it was handed out.
PayLink(p) ==
    /\ link[p] = "active" /\ pay[p].url
    /\ link' = [link EXCEPT ![p] = "paid"]
    /\ UNCHANGED <<order, meta, linked, rows, qr, lapsed, inTime, job, faults, seen>>

PayQr(p) ==
    /\ qr[p] = "active" /\ pay[p].qr
    /\ qr' = [qr EXCEPT ![p] = "paid"]
    /\ inTime' = IF p \in lapsed THEN inTime ELSE inTime \cup {p}
    /\ UNCHANGED <<order, meta, linked, rows, link, lapsed, job, faults, seen>>

Lapse(p) ==
    /\ pay[p].status # "none" /\ p \notin lapsed
    /\ lapsed' = lapsed \cup {p}
    /\ UNCHANGED <<order, meta, linked, rows, link, qr, inTime, job, faults, seen>>

\* Cashfree ends what has lapsed, a moment later.
ExpireLink(p) ==
    /\ p \in lapsed /\ link[p] = "active"
    /\ link' = [link EXCEPT ![p] = "expired"]
    /\ UNCHANGED <<order, meta, linked, rows, qr, lapsed, inTime, job, faults, seen>>

ExpireQr(p) ==
    /\ p \in lapsed /\ qr[p] = "active"
    /\ qr' = [qr EXCEPT ![p] = "closed"]
    /\ UNCHANGED <<order, meta, linked, rows, link, lapsed, inTime, job, faults, seen>>

--------------------------------------------------------------------------------
(* applyPaymentUpdate, under the order's lock *)

\* A payment row moves forward only.
Moves(p, u) ==
    \/ u.to = "SUCCESS" /\ pay[p].status \in {"PENDING", "FAILED"}
    \/ u.to = "FAILED" /\ pay[p].status = "PENDING"

\* A QR paid after the payment lapsed; a refresh does not say when it was paid, and
\* stands for now.
PaidLate(p, u) == u.via = "qr" /\ (u.paidAt = "late" \/ (u.paidAt = "unknown" /\ p \in lapsed))

\* Fault: a payment that is settled already takes every further success for a repeat.
KindOfRepeat(p, u) ==
    IF /\ u.to = "SUCCESS" /\ pay[p].status = "FAILED"
       /\ order = "CANCELLED" \/ pay[p].why = "cancelled" \/ PaidLate(p, u) THEN "late"
    ELSE "none"

\* recordSuccessException, its judgement.
Kind(p, u) ==
    IF u.to # "SUCCESS" THEN "none"
    ELSE IF /\ pay[p].status = "SUCCESS"
            /\ u.id # "none" /\ pay[p].id # "none" /\ u.id # pay[p].id THEN "duplicate"
    ELSE IF /\ pay[p].status = "FAILED"
            /\ order = "CANCELLED" \/ pay[p].why = "cancelled" \/ PaidLate(p, u) THEN "late"
    ELSE "none"

Exceptional(p, u) == Kind(p, u) # "none"
KeyOf(p, u) == [pay |-> p, kind |-> Kind(p, u), id |-> u.id]
Known(k) == \E x \in flagged : x.key = k

\* Fault: the last Cashfree payment is the one of record.
UpdatedToLast(p, u) ==
    IF Exceptional(p, u) THEN pay[p]
    ELSE LET status == IF Moves(p, u) THEN u.to ELSE pay[p].status IN
        [pay[p] EXCEPT !.status = status, !.why = IF Moves(p, u) THEN u.why ELSE @,
                       !.id = IF status = "SUCCESS" THEN u.id ELSE @]

\* Fault: what is flagged is applied as well.
UpdatedAnyway(p, u) ==
    LET status == IF Moves(p, u) THEN u.to ELSE pay[p].status IN
        [pay[p] EXCEPT !.status = status, !.why = IF Moves(p, u) THEN u.why ELSE @,
                       !.id = IF status = "SUCCESS" /\ @ = "none" THEN u.id ELSE @]

Updated(p, u) ==
    IF Exceptional(p, u) THEN pay[p]
    ELSE LET status == IF Moves(p, u) THEN u.to ELSE pay[p].status IN
        [pay[p] EXCEPT !.status = status, !.why = IF Moves(p, u) THEN u.why ELSE @,
                       !.id = IF status = "SUCCESS" /\ @ = "none" THEN u.id ELSE @]

\* Fault: only the order's Cashfree payments are counted.
OvercollectsByCashfree(p, u) ==
    u.to = "SUCCESS" /\ Moves(p, u) /\ ~Exceptional(p, u) /\ Successful # {}

\* The payment adds to money that was received before.
Overcollects(p, u) == u.to = "SUCCESS" /\ Moves(p, u) /\ ~Exceptional(p, u) /\ PaidTimes > 0

\* The whole of applyPaymentUpdate: the row; once for each key, the audit row of an
\* exception and its entry in the metadata, read in the same transaction; the audit row
\* of an order paid more than once.
ApplyUpdate(p, u) ==
    /\ pay' = [pay EXCEPT ![p] = Updated(p, u)]
    /\ IF Exceptional(p, u) /\ ~Known(KeyOf(p, u))
       THEN /\ flagged' = flagged \cup {[key |-> KeyOf(p, u), via |-> u.via, orderClosed |-> order = "CANCELLED"]}
            /\ meta' = [meta EXCEPT !.entries = @ \cup {KeyOf(p, u)}]
       ELSE UNCHANGED <<flagged, meta>>
    /\ reported' = (reported \/ Overcollects(p, u))
    /\ seen' = IF u.to = "SUCCESS" /\ u.id # "none" THEN seen \cup {<<p, u.via>>} ELSE seen
    /\ UNCHANGED <<order, linked, manual, cashfree>>

--------------------------------------------------------------------------------
(* createPaymentLink *)

\* prepare: what is owed decides whether there is a link to make, lapsed links are
\* closed, an open payment is used again, and else a new one is created.
Prepare(j) ==
    LET stale == {p \in Payments : Open(p) /\ p \in lapsed}
        open == {p \in Payments : Open(p) /\ p \notin lapsed}
        closed == [p \in Payments |-> IF p \in stale THEN Updated(p, Failed("expired")) ELSE pay[p]]
    IN  /\ job[j] = Idle
        /\ order # "CANCELLED"
        /\ PaidTimes = 0
        /\ \/ \E p \in open : /\ pay' = closed
                              /\ IF pay[p].url THEN UNCHANGED job ELSE Begin(j, "create", p)
           \/ \E p \in Payments :
                /\ open = {}
                /\ \A q \in Payments : pay[q].status = "none" <=> q >= p
                /\ pay' = [closed EXCEPT ![p].status = "PENDING"]
                /\ Begin(j, "create", p)
        /\ UNCHANGED <<order, meta, linked, manual, flagged, reported, cashfree, faults, seen>>

\* createOrRecover: the link's id and idempotency key are the payment's, so a repeat
\* gets the link there is.
CreateLink(j) ==
    LET p == job[j].pay
        created == [link EXCEPT ![p] = IF @ = "none" THEN "active" ELSE @]
    IN  /\ At(j, "create")
        /\ \/ link' = created /\ Goto(j, "finish") /\ NoFault
           \/ link' \in {link, created} /\ Done(j) /\ Fault \* no answer
           \/ link' = link /\ Goto(j, "reject") /\ Fault \* a 400, or a 409 whose link is not read
        /\ UNCHANGED <<order, meta, linked, rows, qr, lapsed, inTime, seen>>

\* markCreationFailed
Reject(j) ==
    /\ At(j, "reject")
    /\ ApplyUpdate(job[j].pay, Failed("rejected"))
    /\ Done(j)
    /\ NoFault

\* finish, whatever the payment has become meanwhile.
Finish(j) ==
    /\ At(j, "finish")
    /\ pay' = [pay EXCEPT ![job[j].pay].url = TRUE]
    /\ Done(j)
    /\ UNCHANGED <<order, meta, linked, manual, flagged, reported, cashfree, faults, seen>>

--------------------------------------------------------------------------------
(* cancelPaymentLink, and closeOpenMethods *)

Cancel(j, p) ==
    /\ job[j] = Idle /\ Open(p)
    /\ Begin(j, "cancel", p)
    /\ UNCHANGED <<order, meta, linked, rows, cashfree, faults, seen>>

\* Fault: a refusal is taken for a cancellation.
CancelAnyLink(j) ==
    LET p == job[j].pay
        ended == [link EXCEPT ![p] = IF @ = "active" THEN "cancelled" ELSE @]
    IN  /\ At(j, "cancel")
        /\ \/ link' = ended /\ Goto(j, "cancelled") /\ NoFault
           \/ link' \in {link, ended} /\ Goto(j, "cancelled") /\ Fault
        /\ UNCHANGED <<order, meta, linked, rows, qr, lapsed, inTime, seen>>

\* Cashfree refuses to cancel a link that is not active: the payment is refreshed.
CancelLink(j) ==
    LET p == job[j].pay
        ended == [link EXCEPT ![p] = IF @ = "active" THEN "cancelled" ELSE @]
    IN  /\ At(j, "cancel")
        /\ \/ link[p] = "active" /\ link' = ended /\ Goto(j, "cancelled") /\ NoFault
           \/ /\ link[p] # "active"
              /\ job' = [job EXCEPT ![j].at = "askLink", ![j].qr = pay[p].qr]
              /\ NoFault /\ UNCHANGED link
           \/ link' \in {link, ended} /\ Done(j) /\ Fault \* no answer
        /\ UNCHANGED <<order, meta, linked, rows, qr, lapsed, inTime, seen>>

RecordCancelled(j) ==
    /\ At(j, "cancelled")
    /\ ApplyUpdate(job[j].pay, Failed("cancelled"))
    /\ job' = [job EXCEPT ![j].at = "close", ![j].update = Failed("cancelled")]
    /\ NoFault

\* After a payment settled or failed: the order is confirmed, or nothing is left to do.
AfterClosing(j) ==
    IF job[j].update.to = "SUCCESS"
    THEN job' = [job EXCEPT ![j].at = "confirm", ![j].update = NoUpdate, ![j].notify = TRUE]
    ELSE Done(j)

\* The link of a payment made through its QR, else its QR, is closed at Cashfree.  A
\* refusal, or no answer, is recorded and changes nothing else.
CloseOpenMethods(j) ==
    LET p == job[j].pay
        paidByQr == job[j].update.to = "SUCCESS" /\ job[j].update.via = "qr"
        skipped == ~pay[p].qr \/ (~paidByQr /\ pay[p].closed)
        closable == IF paidByQr THEN link[p] = "active" ELSE qr[p] = "active"
        endLink == IF paidByQr /\ closable THEN [link EXCEPT ![p] = "cancelled"] ELSE link
        endQr == IF ~paidByQr /\ closable THEN [qr EXCEPT ![p] = "closed"] ELSE qr
    IN  /\ At(j, "close")
        /\ \/ skipped /\ NoFault /\ UNCHANGED <<pay, link, qr>>
           \/ /\ ~skipped /\ NoFault
              /\ link' = endLink /\ qr' = endQr
              /\ pay' = [pay EXCEPT ![p].closed = closable]
           \/ /\ ~skipped /\ Fault
              /\ \/ UNCHANGED <<link, qr>>
                 \/ link' = endLink /\ qr' = endQr
              /\ pay' = [pay EXCEPT ![p].closed = FALSE]
        /\ AfterClosing(j)
        /\ UNCHANGED <<order, meta, linked, manual, flagged, reported, lapsed, inTime, seen>>

--------------------------------------------------------------------------------
(* What Cashfree says: a webhook, a refresh, the catch-up *)

Learn(j, p, u) == job' = [job EXCEPT ![j] = [Idle EXCEPT !.at = "apply", !.pay = p, !.update = u]]

\* A delivery of a success, which Cashfree confirms: it may be repeated, late or lost.
\* An event of the link need not say which payment it was.
HookPaid(j, p) ==
    /\ job[j] = Idle
    /\ \/ link[p] = "paid" /\ \E id \in {"link", "none"} : Learn(j, p, Paid("link", id, "unknown"))
       \/ qr[p] = "paid" /\ Learn(j, p, Paid("qr", "qr", IF p \in inTime THEN "in time" ELSE "late"))
    /\ UNCHANGED <<order, meta, linked, rows, cashfree, faults, seen>>

HookEnded(j, p) ==
    /\ job[j] = Idle
    /\ link[p] \in {"expired", "cancelled"}
    /\ Learn(j, p, Failed(link[p]))
    /\ UNCHANGED <<order, meta, linked, rows, cashfree, faults, seen>>

Refresh(j, p) ==
    /\ job[j] = Idle /\ pay[p].status # "none"
    /\ Begin(j, "askLink", p)
    /\ UNCHANGED <<order, meta, linked, rows, cashfree, faults, seen>>

\* Fault: the catch-up passes over what has lapsed.
SweepUnlapsed(j) ==
    LET due == {p \in Payments : \/ Open(p) /\ p \notin lapsed
                                 \/ pay[p].status = "SUCCESS" /\ order = "PENDING_PAYMENT"}
    IN  /\ job[j] = Idle /\ due # {}
        /\ job' = [job EXCEPT ![j] = [Idle EXCEPT !.at = "sweep", !.then = "sweep", !.todo = due]]
        /\ UNCHANGED <<order, meta, linked, rows, cashfree, faults, seen>>

\* A pass of the catch-up reads its batch: open payments, and successful ones of an
\* order still awaiting payment.
Sweep(j) ==
    LET due == {p \in Payments : \/ Open(p)
                                 \/ pay[p].status = "SUCCESS" /\ order = "PENDING_PAYMENT"}
    IN  /\ job[j] = Idle /\ due # {}
        /\ job' = [job EXCEPT ![j] = [Idle EXCEPT !.at = "sweep", !.then = "sweep", !.todo = due]]
        /\ UNCHANGED <<order, meta, linked, rows, cashfree, faults, seen>>

\* reconcileOpenPayment of the next payment of the batch, which is read again.
SweepNext(j) ==
    LET p == Min(job[j].todo) IN
    /\ At(j, "sweep")
    /\ IF job[j].todo = {} THEN job' = [job EXCEPT ![j] = Idle]
       ELSE job' = [job EXCEPT ![j].todo = @ \ {p},
                               ![j].at = IF pay[p].status \in {"PENDING", "SUCCESS"} THEN "askLink" ELSE "sweep",
                               ![j].pay = IF pay[p].status \in {"PENDING", "SUCCESS"} THEN p ELSE 0,
                               ![j].qr = pay[p].status \in {"PENDING", "SUCCESS"} /\ pay[p].qr]
    /\ UNCHANGED <<order, meta, linked, rows, cashfree, faults, seen>>

\* reconcileFromCashfree, the link: a missing one is an error, and of a paid one the
\* Cashfree payment is looked up, which may find none or several.
AskLink(j) ==
    LET p == job[j].pay
        told(u, phase) == job' = [job EXCEPT ![j].at = phase, ![j].update = u, ![j].qr = FALSE]
        other == IF job[j].qr THEN "askQr" ELSE "apply"
    IN  /\ At(j, "askLink")
        /\ \/ link[p] = "none" /\ Done(j) /\ NoFault
           \/ link[p] = "paid" /\ NoFault
              /\ \E id \in {"link", "none"} : told(Paid("link", id, "unknown"), "apply")
           \/ link[p] = "active" /\ told(NoUpdate, other) /\ NoFault
           \/ link[p] \in {"expired", "cancelled"} /\ told(Failed(link[p]), other) /\ NoFault
           \/ Done(j) /\ Fault
        /\ UNCHANGED <<order, meta, linked, rows, cashfree, seen>>

\* The QR's order, when the link is not paid; without an answer the link's stands.
AskQr(j) ==
    /\ At(j, "askQr")
    /\ \/ /\ qr[job[j].pay] = "paid" /\ NoFault
          /\ job' = [job EXCEPT ![j].at = "apply", ![j].update = Paid("qr", "qr", "unknown")]
       \/ qr[job[j].pay] # "paid" /\ Goto(j, "apply") /\ NoFault
       \/ Goto(j, "apply") /\ Fault
    /\ UNCHANGED <<order, meta, linked, rows, cashfree, seen>>

--------------------------------------------------------------------------------
(* reconcileCashfreePayment and confirmAndSyncPaidOrder *)

Apply(j) ==
    LET p == job[j].pay
        u == job[j].update
    IN  /\ At(j, "apply")
        /\ ApplyUpdate(p, u)
        /\ IF Exceptional(p, u) THEN Done(j)
           ELSE IF Moves(p, u) THEN Goto(j, "close")
           ELSE Goto(j, "recover")
        /\ NoFault

\* Fault: only the result that moved the payment confirms the order.
RecoverNothing(j) ==
    /\ At(j, "recover")
    /\ Done(j)
    /\ UNCHANGED <<order, meta, linked, rows, cashfree, faults, seen>>

\* isStuckPaidPrepaidOrder: a result that changed nothing finishes what was interrupted.
Recover(j) ==
    /\ At(j, "recover")
    /\ IF order = "PENDING_PAYMENT" /\ Successful # {}
       THEN job' = [job EXCEPT ![j].at = "confirm", ![j].update = NoUpdate]
       ELSE Done(j)
    /\ UNCHANGED <<order, meta, linked, rows, cashfree, faults, seen>>

\* confirmPaidPrepaidOrder, its reads: the successful payments add up to the total when
\* there is exactly one.
Confirm(j) ==
    /\ At(j, "confirm")
    /\ \/ Goto(j, IF order # "CANCELLED" /\ PaidTimes = 1 THEN "commit" ELSE "sync") /\ NoFault
       \/ Goto(j, "sync") /\ Fault
    /\ UNCHANGED <<order, meta, linked, rows, cashfree, seen>>

\* Fault: the status is not looked at again.
CommitBlindly(j) ==
    /\ At(j, "commit")
    /\ order' = "CONFIRMED"
    /\ linked' \in {linked, TRUE}
    /\ Goto(j, "sync")
    /\ UNCHANGED <<meta, rows, cashfree, faults, seen>>

\* Its conditional write, which holds the order's row until the transaction ends with
\* the push to Shopify.
Commit(j) ==
    /\ At(j, "commit")
    /\ order' = IF order = "PENDING_PAYMENT" THEN "CONFIRMED" ELSE order
    /\ linked' \in {linked, TRUE}
    /\ Goto(j, "sync")
    /\ UNCHANGED <<meta, rows, cashfree, faults, seen>>

AfterSync(j) == IF job[j].notify THEN Goto(j, "notify") ELSE Done(j)

\* syncShopifyPayment: it reads the metadata, talks to Shopify and writes it back.
Sync(j) ==
    /\ At(j, "sync")
    /\ IF ~linked \/ meta.synced THEN AfterSync(j)
       ELSE job' = [job EXCEPT ![j].at = "syncWrite", ![j].read = meta]
    /\ UNCHANGED <<order, meta, linked, rows, cashfree, faults, seen>>

SyncWrite(j) ==
    /\ At(j, "syncWrite")
    /\ \E ok \in BOOLEAN : meta' = [job[j].read EXCEPT !.synced = ok]
    /\ IF job[j].notify THEN job' = [job EXCEPT ![j].at = "notify", ![j].read = NoMetadata] ELSE Done(j)
    /\ UNCHANGED <<order, linked, rows, cashfree, faults, seen>>

\* sendPaymentSuccessNotification: it reads the metadata, sends and writes it back.
Notify(j) ==
    /\ At(j, "notify")
    /\ IF meta.notified THEN Done(j)
       ELSE job' = [job EXCEPT ![j].at = "notifyWrite", ![j].read = meta]
    /\ UNCHANGED <<order, meta, linked, rows, cashfree, faults, seen>>

NotifyWrite(j) ==
    /\ At(j, "notifyWrite")
    /\ meta' = [job[j].read EXCEPT !.notified = TRUE]
    /\ Done(j)
    /\ UNCHANGED <<order, linked, rows, cashfree, faults, seen>>

--------------------------------------------------------------------------------
(* markPrepaidOrderPaid *)

MarkPaid(j) ==
    /\ job[j] = Idle
    /\ PaidTimes = 0 => order # "CANCELLED"
    /\ manual' = (manual \/ PaidTimes = 0)
    /\ Begin(j, "confirm", 0)
    /\ UNCHANGED <<order, meta, linked, pay, flagged, reported, cashfree, faults, seen>>

--------------------------------------------------------------------------------
(* ensureUpiQr, which sendPaymentQr asks for an open payment that has a link *)

WantQr(j, p) ==
    /\ job[j] = Idle
    /\ Open(p) /\ pay[p].url /\ p \notin lapsed /\ order # "CANCELLED" /\ ~pay[p].qr
    /\ Begin(j, "qrCall", p)
    /\ UNCHANGED <<order, meta, linked, rows, cashfree, faults, seen>>

\* The Cashfree order is read or created; one that is not active gives no QR.
CallQr(j) ==
    LET p == job[j].pay
        created == [qr EXCEPT ![p] = IF @ = "none" THEN "active" ELSE @]
    IN  /\ At(j, "qrCall")
        /\ \/ qr[p] \in {"none", "active"} /\ qr' = created /\ Goto(j, "qrStore") /\ NoFault
           \/ qr[p] \in {"paid", "closed"} /\ qr' = qr /\ Done(j) /\ NoFault
           \/ qr' \in {qr, created} /\ Done(j) /\ Fault
        /\ UNCHANGED <<order, meta, linked, rows, link, lapsed, inTime, seen>>

\* Stored, and from then on handed out, whatever the payment has become meanwhile.
StoreQr(j) ==
    /\ At(j, "qrStore")
    /\ pay' = [pay EXCEPT ![job[j].pay].qr = TRUE]
    /\ Done(j)
    /\ UNCHANGED <<order, meta, linked, manual, flagged, reported, cashfree, faults, seen>>

--------------------------------------------------------------------------------
(* cancelOrder and revertCancellation *)

\* cancelOrder reads the order; one that is cancelled already is taken up again when a
\* link is still open.  It keeps preCancelStatus in what it will write.
Void(j) ==
    LET fresh == order # "CANCELLED"
        open == {p \in Payments : Open(p)}
    IN  /\ job[j] = Idle
        /\ fresh \/ open # {}
        /\ job' = [job EXCEPT ![j] = [Idle EXCEPT !.at = IF fresh THEN "void" ELSE "links",
                                                  !.then = "links", !.todo = open,
                                                  !.held = IF fresh THEN [meta EXCEPT !.pre = order] ELSE meta]]
        /\ UNCHANGED <<order, meta, linked, rows, cashfree, faults, seen>>

VoidStatus(j) ==
    /\ At(j, "void")
    /\ IF order = "CANCELLED" THEN job' = [job EXCEPT ![j] = Idle] ELSE Goto(j, "voidMeta")
    /\ order' = "CANCELLED"
    /\ UNCHANGED <<meta, linked, rows, cashfree, faults, seen>>

VoidMeta(j) ==
    /\ At(j, "voidMeta")
    /\ meta' = job[j].held
    /\ Goto(j, "links")
    /\ UNCHANGED <<order, linked, rows, cashfree, faults, seen>>

\* The links that were open when the order was read; one that is not any more is passed
\* over.
VoidLinks(j) ==
    LET p == Min(job[j].todo) IN
    /\ At(j, "links")
    /\ IF job[j].todo = {} THEN Goto(j, "voidEnd")
       ELSE job' = [job EXCEPT ![j].todo = @ \ {p}, ![j].at = IF Open(p) THEN "cancel" ELSE "links",
                               ![j].pay = IF Open(p) THEN p ELSE 0]
    /\ UNCHANGED <<order, meta, linked, rows, cashfree, faults, seen>>

VoidEnd(j) ==
    /\ At(j, "voidEnd")
    /\ meta' = job[j].held
    /\ job' = [job EXCEPT ![j] = Idle]
    /\ UNCHANGED <<order, linked, rows, cashfree, faults, seen>>

\* Fault: it is not checked that preCancelStatus is there.
RevertUnchecked(j) ==
    /\ job[j] = Idle
    /\ order = "CANCELLED"
    /\ job' = [job EXCEPT ![j] = [Idle EXCEPT !.at = "revert", !.held = meta]]
    /\ UNCHANGED <<order, meta, linked, rows, cashfree, faults, seen>>

Revert(j) ==
    /\ job[j] = Idle
    /\ order = "CANCELLED" /\ meta.pre # "none"
    /\ job' = [job EXCEPT ![j] = [Idle EXCEPT !.at = "revert", !.held = meta]]
    /\ UNCHANGED <<order, meta, linked, rows, cashfree, faults, seen>>

RevertStatus(j) ==
    /\ At(j, "revert")
    /\ IF order = "CANCELLED" THEN order' = job[j].held.pre /\ Goto(j, "revertMeta")
       ELSE order' = order /\ job' = [job EXCEPT ![j] = Idle]
    /\ UNCHANGED <<meta, linked, rows, cashfree, faults, seen>>

RevertMeta(j) ==
    /\ At(j, "revertMeta")
    /\ meta' = [job[j].held EXCEPT !.pre = "none"]
    /\ job' = [job EXCEPT ![j] = Idle]
    /\ UNCHANGED <<order, linked, rows, cashfree, faults, seen>>

--------------------------------------------------------------------------------
(* The specification *)

\* A process stops, or a statement fails and the job with it.
Stop(j) ==
    /\ job[j] # Idle
    /\ job' = [job EXCEPT ![j] = Idle]
    /\ Fault
    /\ UNCHANGED <<order, meta, linked, rows, cashfree, seen>>

Customer == \E p \in Payments : PayLink(p) \/ PayQr(p) \/ Lapse(p) \/ ExpireLink(p) \/ ExpireQr(p)

UserStart(j) ==
    \/ "create" \in Requests /\ Prepare(j)
    \/ "cancel link" \in Requests /\ \E p \in Payments : Cancel(j, p)
    \/ "refresh" \in Requests /\ \E p \in Payments : Refresh(j, p)
    \/ "qr" \in Requests /\ \E p \in Payments : WantQr(j, p)
    \/ "mark paid" \in Requests /\ MarkPaid(j)
    \/ "cancel" \in Requests /\ Void(j)
    \/ "revert" \in Requests /\ Revert(j)
HookStart(j) == \E p \in Payments : HookPaid(j, p) \/ HookEnded(j, p)

Step(j) ==
    \/ CreateLink(j) \/ Reject(j) \/ Finish(j)
    \/ CancelLink(j) \/ RecordCancelled(j) \/ CloseOpenMethods(j)
    \/ SweepNext(j) \/ AskLink(j) \/ AskQr(j)
    \/ Apply(j) \/ Recover(j) \/ Confirm(j) \/ Commit(j)
    \/ Sync(j) \/ SyncWrite(j) \/ Notify(j) \/ NotifyWrite(j)
    \/ CallQr(j) \/ StoreQr(j)
    \/ VoidStatus(j) \/ VoidMeta(j) \/ VoidLinks(j) \/ VoidEnd(j)
    \/ RevertStatus(j) \/ RevertMeta(j)

Next ==
    \/ Customer
    \/ \E j \in Users : UserStart(j)
    \/ \E j \in Hooks : HookStart(j)
    \/ \E j \in Sweepers : Sweep(j)
    \/ \E j \in Jobs : Step(j) \/ Stop(j)

Spec == Init /\ [][Next]_vars

\* Jobs go on unless they stop, and the timer of the catch-up ticks.
Fairness ==
    /\ \A j \in Jobs : WF_vars(Step(j))
    /\ \A j \in Sweepers : WF_vars(Sweep(j))

FairSpec == Spec /\ Fairness

--------------------------------------------------------------------------------
(* Properties *)

OfRecord(p, via) == pay[p].status = "SUCCESS" /\ pay[p].id = via

\* Money that Cashfree confirmed and that reached the CRM with its Cashfree id is the
\* payment of record or is listed for a refund: a second payment through the other
\* method, or one for a closed payment, does not vanish (recordSuccessException).
NothingVanishes ==
    \A p \in Payments, via \in Methods :
        <<p, via>> \in seen => OfRecord(p, via) \/ \E x \in flagged : x.key.pay = p /\ x.via = via

\* Money listed for a refund is not the payment of record as well, unless the order was
\* cancelled when it came and the cancellation reverted, or it came late through a QR: a
\* refresh, which does not know when it was paid, took money that came in time for late;
\* or the link was paid as well, its event named no Cashfree payment, and a repeat of the
\* QR's event filled the id in.
OneFate ==
    \A x \in flagged :
        OfRecord(x.key.pay, x.via) =>
            \/ x.orderClosed
            \/ /\ x.via = "qr" /\ x.key.kind = "late"
               /\ x.key.pay \in inTime \/ link[x.key.pay] = "paid"

\* An order that was paid more than once, through Cashfree or otherwise, is reported.
OverCollectionReported == PaidTimes > 1 => reported

\* Two links of the order can both be paid only if the older one lapsed, or its creation
\* was taken for rejected (and the payment then made through its QR after all):
\* createPaymentLink and cancelPaymentLink never leave the customer two of them otherwise.
LinksDoNotCompete ==
    \A p, q \in Payments :
        p < q /\ link[p] = "active" /\ link[q] = "active" =>
            \/ p \in lapsed \/ pay[p].why = "rejected"
            \/ pay[p].status = "SUCCESS" /\ qr[p] = "paid"

\* A successful payment stays so, and the first Cashfree payment known for it stays the
\* one of record, whatever arrives later and in whatever order.
FirstStaysOfRecord ==
    [][\A p \in Payments : pay[p].status = "SUCCESS" =>
          pay'[p].status = "SUCCESS" /\ (pay[p].id # "none" => pay'[p].id = pay[p].id)]_vars

\* A cancelled order is confirmed only by a revert that restores it.
NeverRevived ==
    [][order = "CANCELLED" /\ order' = "CONFIRMED" =>
          \E j \in Users : At(j, "revert") /\ job[j].held.pre = "CONFIRMED"]_vars

\* What the catch-up never asks about again: a payment closed because it had lapsed when
\* a new link was asked for; and one paid through its QR and closed because its link had
\* ended, by an answer older than the QR, or when Cashfree did not answer for the QR.
Overlooked(p, via) ==
    /\ pay[p].status = "FAILED"
    /\ \/ pay[p].why = "expired" /\ p + 1 \in Payments /\ pay[p + 1].status # "none"
       \/ via = "qr"

PaidThrough(p, via) == "paid" = IF via = "qr" THEN qr[p] ELSE link[p]

\* An open payment that was paid is recorded as paid even if no webhook ever comes, but
\* for the cases above.
PaidIsRecorded ==
    \A p \in Payments, via \in Methods :
        Open(p) /\ PaidThrough(p, via) ~> pay[p].status = "SUCCESS" \/ Overlooked(p, via)

\* An order paid once through Cashfree does not stay awaiting payment, wherever its
\* confirmation was interrupted, unless another payment of it was flagged.
PaidOnceIsConfirmed ==
    order = "PENDING_PAYMENT" /\ Successful # {} /\ PaidTimes = 1
        ~> order # "PENDING_PAYMENT" \/ PaidTimes > 1 \/ flagged # {}

\* The same without that exception, as reconcileCashfreePayment states it.
PaidIsConfirmed ==
    order = "PENDING_PAYMENT" /\ Successful # {} /\ PaidTimes = 1
        ~> order # "PENDING_PAYMENT" \/ PaidTimes > 1
================================================================================
