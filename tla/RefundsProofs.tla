----------------------------- MODULE RefundsProofs -----------------------------
(* Theorems about Refunds, for every value of its constants. *)
EXTENDS Refunds, MoneySumsProofs

USE DEF Requests

--------------------------------------------------------------------------------
(* Type correctness *)

\* What a handler is doing says which kind of record its job is.
LEMMA JobKinds ==
    ASSUME TypeOK, NEW j \in Jobs
    PROVE  /\ job[j].op = "cancel" => job[j] \in CancelJob
           /\ job[j].op = "approve" => job[j] \in ApproveJob
           /\ job[j].op = "revert" => job[j] \in RevertJob
           /\ job[j].op = "execute" => job[j] \in ExecuteJob
           /\ job[j].op = "refresh" => job[j] \in RefreshJob
           /\ job[j].op = "webhook" => job[j] \in WebhookJob
BY DEF TypeOK, Job, Idle, CancelJob, ApproveJob, RevertJob, ExecuteJob, RefreshJob, WebhookJob

\* A row that is in use is a RefundRequest.
LEMMA RowKinds ==
    ASSUME TypeOK, NEW r \in Requests
    PROVE  /\ req[r] # Unused => req[r] \in Request
           /\ req[r].status # "none" => req[r] \in Request
BY DEF TypeOK, Unused

\* applyRefundOutcome keeps the rows well formed.
LEMMA OutcomeType ==
    ASSUME TypeOK, NEW r \in Requests, NEW got \in Answers, NEW complete \in BOOLEAN,
           NEW only \in BOOLEAN, ApplyRefundOutcome(r, got, complete, only)
    PROVE  /\ req' \in [Requests -> Request \cup {Unused}]
           /\ payment' \in [Payments -> [status : {"SUCCESS", "PARTIALLY_REFUNDED", "REFUNDED"},
                                         refunded : Nat]]
<1>1. CASE UNCHANGED ledger
  BY <1>1 DEF ledger, TypeOK
<1>2. CASE ~Untouched(r, only)
  <2>1. req[r] \in Request
    BY <1>2, RowKinds DEF Untouched
  <2>2. req[r].payment \in Payments /\ req[r].amount \in Nat
    BY <2>1, RequestAmountsAssumption DEF Request
  <2>3. payment[req[r].payment].refunded + req[r].amount \in Nat
    BY <2>2 DEF TypeOK
  <2>4. ASSUME NEW b \in BOOLEAN, NEW m \in BOOLEAN, NEW e \in {"PROCESSING", "FAILED", "COMPLETED"}
        PROVE  /\ [req[r] EXCEPT !.exec = e, !.cfRefundId = b, !.manualCheck = m] \in Request
               /\ [req[r] EXCEPT !.cfRefundId = b, !.manualCheck = m] \in Request
    BY <2>1 DEF Request
  <2>5. req[r].cfRefundId \in BOOLEAN /\ req[r].manualCheck \in BOOLEAN
    BY <2>1 DEF Request
  <2>6. req' \in [Requests -> Request \cup {Unused}]
    BY <1>2, <2>4, <2>5 DEF ApplyRefundOutcome, TypeOK, ledger
  <2>7. payment' \in [Payments -> [status : {"SUCCESS", "PARTIALLY_REFUNDED", "REFUNDED"}, refunded : Nat]]
    BY <1>2, <2>2, <2>3 DEF ApplyRefundOutcome, TypeOK, ledger
  <2> QED BY <2>6, <2>7
<1> QED BY <1>1, <1>2 DEF ApplyRefundOutcome

\* A step of cancelOrder or revertCancellation changes the order and its own job alone.
LEMMA OrderStepKinds ==
    ASSUME TypeOK, NEW j \in Calls, OrderStep(j)
    PROVE  /\ UNCHANGED <<ledger, refund, late, graced, events, hasty>>
           /\ order' \in [status : {"ACTIVE", "CANCELLED"}, meta : Metadata]
           /\ job' \in [Jobs -> Job]
           /\ job[j].op \in {"cancel", "approve", "revert"}
           /\ job'[j].op \in {"idle", "cancel", "approve", "revert"}
           /\ \A i \in Jobs : i # j => job'[i] = job[i]
<1> DEFINE Orders == [status : {"ACTIVE", "CANCELLED"}, meta : Metadata]
           Result == /\ order' \in Orders
                     /\ job' \in [Jobs -> Job]
                     /\ job'[j].op \in {"idle", "cancel", "approve", "revert"}
                     /\ \A i \in Jobs : i # j => job'[i] = job[i]
<1> SUFFICES Result
  BY DEF OrderStep, CancelRead, CancelWrite, CancelRemember, CancelShopify, RevertWrite, RevertRecord, Cancelling, At
<1>1. order \in Orders /\ order.meta \in Metadata /\ job \in [Jobs -> Job] /\ j \in Jobs /\ Idle \in Job
  BY DEF TypeOK, Jobs, Job
<1>2. ASSUME End(j), order' \in Orders PROVE Result
  BY <1>1, <1>2 DEF End, Idle
<1>3. ASSUME NEW n \in Job, n.op \in {"cancel", "approve", "revert"}, job' = [job EXCEPT ![j] = n], order' \in Orders
      PROVE  Result
  BY <1>1, <1>3
<1>4. ASSUME job[j].op \in {"cancel", "approve"}, NEW m \in Metadata,
             NEW phase \in {"write", "remember", "shopify", "retry"}, GotoWith(j, phase, m), order' \in Orders
      PROVE  Result
  <2>1. [job[j] EXCEPT !.at = phase, !.meta = m] \in Job /\ [job[j] EXCEPT !.at = phase, !.meta = m].op = job[j].op
    BY <1>1, <1>4, JobKinds DEF Job, CancelJob, ApproveJob
  <2>2. job' = [job EXCEPT ![j] = [job[j] EXCEPT !.at = phase, !.meta = m]]
    BY <1>1, <1>4 DEF GotoWith
  <2> QED BY <1>3, <1>4, <2>1, <2>2
<1>5. ASSUME job[j].op \in {"cancel", "approve"}, Cancelled(j), order' \in Orders PROVE Result
  <2>1. CASE job[j].op = "approve"
    <3>1. job[j] \in ApproveJob /\ NoMetadata \in Metadata
      BY <1>1, <2>1, JobKinds DEF NoMetadata, Metadata
    <3>2. [job[j] EXCEPT !.at = "decide", !.meta = NoMetadata] \in Job
          /\ [job[j] EXCEPT !.at = "decide", !.meta = NoMetadata].op = "approve"
      BY <2>1, <3>1 DEF Job, ApproveJob
    <3>3. job' = [job EXCEPT ![j] = [job[j] EXCEPT !.at = "decide", !.meta = NoMetadata]]
      BY <1>1, <1>5, <2>1 DEF Cancelled, GotoWith
    <3> QED BY <1>3, <1>5, <3>2, <3>3
  <2> QED BY <1>2, <1>5, <2>1 DEF Cancelled
<1>6. CASE CancelRead(j)
  BY <1>1, <1>2, <1>4, <1>5, <1>6 DEF CancelRead, Cancelling
<1>7. CASE CancelWrite(j)
  <2>1. order' \in Orders /\ job[j].op \in {"cancel", "approve"}
    BY <1>1, <1>7 DEF CancelWrite, Cancelling
  <2>2. job[j].meta \in Metadata
    BY <1>1, <2>1, JobKinds DEF CancelJob, ApproveJob
  <2>3. Goto(j, "remember") => GotoWith(j, "remember", job[j].meta)
    <3>1. [job[j] EXCEPT !.at = "remember"] = [job[j] EXCEPT !.at = "remember", !.meta = job[j].meta]
      BY <1>1, <2>1, JobKinds DEF CancelJob, ApproveJob
    <3> QED BY <1>1, <3>1 DEF Goto, GotoWith
  <2> QED BY <1>2, <1>4, <1>5, <1>7, <2>1, <2>2, <2>3 DEF CancelWrite
<1>8. CASE CancelRemember(j)
  <2>1. job[j].op \in {"cancel", "approve"}
    BY <1>8 DEF CancelRemember, Cancelling
  <2>2. [job[j].meta EXCEPT !.before = TRUE] \in Metadata
    BY <1>1, <2>1, JobKinds DEF CancelJob, ApproveJob, Metadata
  <2>3. order' \in Orders
    BY <1>1, <1>8, <2>2 DEF CancelRemember
  <2> QED BY <1>4, <1>8, <2>1, <2>2, <2>3 DEF CancelRemember
<1>9. CASE CancelShopify(j)
  <2>1. job[j].op \in {"cancel", "approve"}
    BY <1>9 DEF CancelShopify, Cancelling
  <2>2. job[j].meta \in Metadata
    BY <1>1, <2>1, JobKinds DEF CancelJob, ApproveJob
  <2>3. PICK answer \in {"none", "failed", "cancelled"} :
            /\ order' = [order EXCEPT !.meta = [job[j].meta EXCEPT !.shopify = answer]]
            /\ IF answer = "failed" THEN End(j) ELSE Cancelled(j)
    BY <1>9, <2>2 DEF CancelShopify, Metadata
  <2>4. [job[j].meta EXCEPT !.shopify = answer] \in Metadata
    BY <2>2 DEF Metadata
  <2>5. order' \in Orders
    BY <1>1, <2>3, <2>4
  <2> QED BY <1>2, <1>5, <2>1, <2>3, <2>5
<1>10. CASE RevertWrite(j)
  <2>1. order' \in Orders /\ job[j] \in RevertJob /\ job[j].op = "revert"
    BY <1>1, <1>10, JobKinds DEF RevertWrite, At
  <2>2. [job[j] EXCEPT !.at = "record"] \in Job /\ [job[j] EXCEPT !.at = "record"].op = "revert"
    BY <2>1 DEF Job, RevertJob
  <2>3. Goto(j, "record") => job' = [job EXCEPT ![j] = [job[j] EXCEPT !.at = "record"]]
    BY <1>1 DEF Goto
  <2> QED BY <1>2, <1>3, <1>10, <2>1, <2>2, <2>3 DEF RevertWrite
<1>11. CASE RevertRecord(j)
  <2>1. job[j] \in RevertJob
    BY <1>1, <1>11, JobKinds DEF RevertRecord, At
  <2>2. [job[j].meta EXCEPT !.before = FALSE] \in Metadata
    BY <2>1 DEF RevertJob, Metadata
  <2>3. order' \in Orders
    BY <1>1, <1>11, <2>2 DEF RevertRecord
  <2> QED BY <1>2, <1>11, <2>3 DEF RevertRecord
<1> QED BY <1>6, <1>7, <1>8, <1>9, <1>10, <1>11 DEF OrderStep

LEMMA TypeInit == Init => TypeOK
BY BoundsAssumption DEF Init, TypeOK, Job, RefundStatus, NoMetadata, Metadata

LEMMA TypeStep == TypeOK /\ [Next]_vars => TypeOK'
<1> SUFFICES ASSUME TypeOK, [Next]_vars PROVE TypeOK'
  OBVIOUS
<1> USE BoundsAssumption, UsersAssumption
<1>1. ASSUME NEW u \in Users, NEW p \in Payments, NEW a \in RequestAmounts, NEW k \in Keys \cup {NoKey},
             CreateRequest(u, p, a, k)
      PROVE  TypeOK'
  <2>1. [status |-> "PENDING", payment |-> p, amount |-> a, by |-> u, key |-> k,
         exec |-> "null", attempts |-> 0, cfRefundId |-> FALSE, manualCheck |-> FALSE] \in Request
    BY DEF Request
  <2> QED BY <1>1, <2>1 DEF CreateRequest, TypeOK
<1>2. ASSUME NEW u \in Approvers, NEW r \in Requests, Reject(u, r) PROVE TypeOK'
  <2>1. req[r] \in Request
    BY <1>2, RowKinds DEF Reject
  <2> QED BY <1>2, <2>1 DEF Reject, TypeOK, Request
<1>3. ASSUME NEW j \in Calls, NEW u \in Approvers, NEW r \in Requests, ApproveStart(j, u, r) PROVE TypeOK'
  <2>1. [op |-> "approve", at |-> IF CancelOutstanding THEN "read" ELSE "decide",
         meta |-> NoMetadata, req |-> r, user |-> u] \in Job
    BY DEF Job, ApproveJob, NoMetadata, Metadata
  <2> QED BY <1>3, <2>1 DEF ApproveStart, Begin, TypeOK, Jobs, ledger
<1>4. ASSUME NEW j \in Calls, NEW u \in Approvers, NEW r \in Requests, ExecuteStart(j, u, r) PROVE TypeOK'
  <2>1. req[r] \in Request
    BY <1>4, RowKinds DEF ExecuteStart
  <2>2. [op |-> "execute", at |-> "sent", req |-> r, got |-> "none", readBack |-> FALSE] \in Job
    BY DEF Job, ExecuteJob, Answers
  <2>3. req[r].attempts + 1 \in 0..MaxAttempts
    BY <1>4, <2>1 DEF ExecuteStart, Request
  <2>4. req' \in [Requests -> Request \cup {Unused}]
    BY <1>4, <2>1, <2>3 DEF ExecuteStart, TypeOK, Request
  <2> QED BY <1>4, <2>2, <2>4 DEF ExecuteStart, Begin, TypeOK, Jobs
<1>5. ASSUME NEW j \in Calls, NEW r \in Requests, RefreshStart(j, r) PROVE TypeOK'
  <2>1. req[r] \in Request
    BY <1>5, RowKinds DEF RefreshStart
  <2>2. [op |-> "refresh", at |-> "read", req |-> r, attempt |-> req[r].attempts,
         known |-> req[r].cfRefundId, early |-> FALSE, got |-> "none"] \in Job
    BY <2>1 DEF Job, RefreshJob, Answers, Request
  <2> QED BY <1>5, <2>2 DEF RefreshStart, Begin, TypeOK, Jobs, ledger
<1>6. ASSUME NEW j \in Calls, CancelStart(j) \/ RevertStart(j) PROVE TypeOK'
  <2>1. /\ [op |-> "cancel", at |-> "read", meta |-> NoMetadata] \in Job
        /\ [op |-> "revert", at |-> "write", meta |-> order.meta] \in Job
    BY DEF Job, CancelJob, RevertJob, NoMetadata, Metadata, TypeOK
  <2> QED BY <1>6, <2>1 DEF CancelStart, RevertStart, Begin, TypeOK, Jobs, ledger
<1>7. ASSUME NEW j \in Calls, Decide(j) PROVE TypeOK'
  <2>1. job[j] \in ApproveJob /\ Idle \in Job
    BY <1>7, JobKinds DEF Decide, At, Jobs, Job
  <2>2. job[j].req \in Requests
    BY <2>1 DEF ApproveJob
  <2>3. req' \in [Requests -> Request \cup {Unused}]
    <3>1. CASE req' = req
      BY <3>1 DEF TypeOK
    <3>2. CASE req[job[j].req].status = "PENDING" /\ req' = [req EXCEPT ![job[j].req].status = "APPROVED"]
      <4>1. req[job[j].req] \in Request
        BY <3>2, <2>2, RowKinds
      <4> QED BY <3>2, <2>2, <4>1 DEF TypeOK, Request
    <3> QED BY <1>7, <3>1, <3>2 DEF Decide
  <2> QED BY <1>7, <2>1, <2>3 DEF Decide, End, TypeOK
<1>8. ASSUME NEW j \in Calls, OrderStep(j) PROVE TypeOK'
  BY <1>8, OrderStepKinds DEF TypeOK, ledger
<1>9. ASSUME NEW j \in Calls, Execution(j) PROVE TypeOK'
  <2>1. job[j] \in ExecuteJob /\ job[j].req \in Requests /\ Idle \in Job
    BY <1>9, JobKinds DEF Execution, CreateAnswered, CreateRejected, CreateConflict, CreateUnknown, Recover,
       ExecuteRecord, At, Jobs, Job, ExecuteJob
  <2>2. ASSUME NEW phase \in {"record", "recover"}, NEW g \in Answers, NEW b \in BOOLEAN
        PROVE  /\ [job[j] EXCEPT !.at = phase, !.got = g] \in Job
               /\ [job[j] EXCEPT !.at = phase] \in Job
               /\ [job[j] EXCEPT !.at = phase, !.got = g, !.readBack = b] \in Job
    BY <2>1 DEF ExecuteJob, Job
  <2>3. CASE CreateAnswered(j)
    <3>1. PICK s \in {"PENDING", "SUCCESS", "CANCELLED"} :
              refund' = [refund EXCEPT ![job[j].req] = s] /\ GotWith(j, "record", s)
      BY <2>1, <2>3 DEF CreateAnswered, TypeOK, RefundStatus
    <3>2. refund' \in [Requests -> RefundStatus]
      BY <3>1 DEF TypeOK, RefundStatus
    <3>3. job' \in [Jobs -> Job]
      BY <2>2, <3>1 DEF GotWith, TypeOK, Answers, Jobs
    <3>4. events' \subseteq Requests
      BY <2>1, <2>3 DEF CreateAnswered, TypeOK
    <3> QED BY <2>3, <3>2, <3>3, <3>4 DEF CreateAnswered, TypeOK, ledger
  <2>4. CASE CreateRejected(j) \/ CreateConflict(j) \/ CreateUnknown(j)
    <3>1. job' \in [Jobs -> Job]
      BY <2>2, <2>4 DEF CreateRejected, CreateConflict, CreateUnknown, Goto, GotWith, TypeOK, Answers, Jobs
    <3> QED BY <2>1, <2>4, <3>1 DEF CreateRejected, CreateConflict, CreateUnknown, TypeOK, ledger
  <2>5. CASE Recover(j)
    <3>1. Snapshot(job[j].req) \subseteq Answers /\ "none" \in Answers
      BY <2>1 DEF Snapshot, Answers, TypeOK, RefundStatus
    <3>2. job' \in [Jobs -> Job]
      <4>1. PICK g \in Answers :
                job' = [job EXCEPT ![j].at = "record", ![j].got = g, ![j].readBack = (g # "none")]
        BY <2>5, <3>1 DEF Recover
      <4>2. [job[j] EXCEPT !.at = "record", !.got = g, !.readBack = (g # "none")] \in Job
        <5> DEFINE b == g # "none"
        <5>1. b \in BOOLEAN
          OBVIOUS
        <5> HIDE DEF b
        <5>2. [job[j] EXCEPT !.at = "record", !.got = g, !.readBack = b] \in Job
          BY <2>2, <5>1
        <5> QED BY <5>2 DEF b
      <4> QED BY <4>1, <4>2 DEF TypeOK
    <3> QED BY <2>5, <3>2 DEF Recover, TypeOK, ledger
  <2>6. CASE ExecuteRecord(j)
    <3>1. job[j].got \in Answers /\ job[j].readBack \in BOOLEAN
      BY <2>1 DEF ExecuteJob
    <3>2. ApplyRefundOutcome(job[j].req, job[j].got, job[j].readBack, FALSE)
      BY <2>6 DEF ExecuteRecord
    <3>3. /\ req' \in [Requests -> Request \cup {Unused}]
          /\ payment' \in [Payments -> [status : {"SUCCESS", "PARTIALLY_REFUNDED", "REFUNDED"}, refunded : Nat]]
      BY <2>1, <3>1, <3>2, OutcomeType
    <3> QED BY <2>1, <2>6, <3>3 DEF ExecuteRecord, End, TypeOK
  <2> QED BY <1>9, <2>3, <2>4, <2>5, <2>6 DEF Execution
<1>10. ASSUME NEW j \in Calls, RefreshRead(j) \/ RefreshJudge(j) \/ RefreshRecord(j) PROVE TypeOK'
  <2>1. job[j] \in RefreshJob /\ job[j].req \in Requests /\ job[j].got \in Answers /\ Idle \in Job
    BY <1>10, JobKinds DEF RefreshRead, RefreshJudge, Judged, RefreshRecord, At, Jobs, Job, RefreshJob
  <2>2. CASE RefreshRead(j)
    <3>1. Snapshot(job[j].req) \subseteq Answers
      BY <2>1 DEF Snapshot, Answers, TypeOK, RefundStatus
    <3>2. \A g \in Answers, b \in BOOLEAN : [job[j] EXCEPT !.at = "judge", !.got = g, !.early = b] \in Job
      BY <2>1 DEF RefreshJob, Job
    <3>3. PICK g \in Answers : job' = [job EXCEPT ![j].at = "judge", ![j].got = g,
                                   ![j].early = (g = "none" /\ job[j].attempt > graced[job[j].req])]
      BY <2>2, <3>1 DEF RefreshRead
    <3> DEFINE b == g = "none" /\ job[j].attempt > graced[job[j].req]
    <3>4. b \in BOOLEAN /\ job' = [job EXCEPT ![j].at = "judge", ![j].got = g, ![j].early = b]
      BY <3>3
    <3> HIDE DEF b
    <3>5. job' \in [Jobs -> Job]
      BY <3>2, <3>4 DEF TypeOK
    <3> QED BY <2>2, <3>5 DEF RefreshRead, TypeOK, ledger
  <2>3. CASE RefreshJudge(j)
    <3>1. \A g \in Answers : [job[j] EXCEPT !.at = "record", !.got = g] \in Job
      BY <2>1 DEF RefreshJob, Job
    <3>2. PICK g \in Answers : job' = [job EXCEPT ![j].at = "record", ![j].got = g]
      BY <2>1, <2>3 DEF RefreshJudge, Judged, GotWith, Answers
    <3>3. job' \in [Jobs -> Job]
      BY <3>1, <3>2 DEF TypeOK
    <3>4. hasty' \subseteq Requests
      BY <2>1, <2>3 DEF RefreshJudge, Judged, TypeOK
    <3> QED BY <2>3, <3>3, <3>4 DEF RefreshJudge, Judged, TypeOK, ledger
  <2>4. CASE RefreshRecord(j)
    BY <2>1, <2>4, OutcomeType DEF RefreshRecord, End, TypeOK
  <2> QED BY <1>10, <2>2, <2>3, <2>4
<1>11. ASSUME NEW w \in Workers, WorkerStep(w) PROVE TypeOK'
  <2>1. Idle \in Job
    BY DEF Job
  <2>2. ASSUME NEW r \in Requests, WebhookTake(w, r) PROVE TypeOK'
    <3>1. [op |-> "webhook", at |-> "read", req |-> r, got |-> "none"] \in Job
      BY DEF Job, WebhookJob, Answers
    <3> QED BY <2>2, <3>1 DEF WebhookTake, Begin, TypeOK, Jobs, ledger
  <2>3. CASE WebhookRead(w)
    <3>1. job[w] \in WebhookJob /\ job[w].req \in Requests
      BY <2>3, JobKinds DEF WebhookRead, At, Jobs, WebhookJob
    <3>2. Snapshot(job[w].req) \subseteq Answers
      BY <3>1 DEF Snapshot, Answers, TypeOK, RefundStatus
    <3>3. \A g \in Answers : [job[w] EXCEPT !.at = "record", !.got = g] \in Job
      BY <3>1 DEF WebhookJob, Job
    <3>4. job' \in [Jobs -> Job]
      <4>1. PICK g \in Answers : job' = [job EXCEPT ![w].at = "record", ![w].got = g]
        BY <2>3, <3>2 DEF WebhookRead, GotWith
      <4> QED BY <3>3, <4>1 DEF TypeOK
    <3> QED BY <2>3, <3>4 DEF WebhookRead, TypeOK, ledger
  <2>4. CASE WebhookRecord(w)
    <3>1. job[w] \in WebhookJob /\ job[w].req \in Requests /\ job[w].got \in Answers
      BY <2>4, JobKinds DEF WebhookRecord, At, Jobs, WebhookJob
    <3> QED BY <2>1, <2>4, <3>1, OutcomeType DEF WebhookRecord, End, TypeOK
  <2> QED BY <1>11, <2>2, <2>3, <2>4 DEF WorkerStep
<1>12. ASSUME NEW j \in Jobs, Stop(j) PROVE TypeOK'
  <2>1. Idle \in Job
    BY DEF Job
  <2>2. late' \subseteq Requests
    BY <1>12, JobKinds DEF Stop, At, TypeOK, ExecuteJob
  <2> QED BY <1>12, <2>1, <2>2 DEF Stop, End, TypeOK, ledger
<1>13. ASSUME NEW r \in Requests, LateCreate(r) \/ LateLost(r) \/ Settle(r) PROVE TypeOK'
  BY <1>13 DEF LateCreate, LateLost, Settle, TypeOK, RefundStatus, ledger
<1>14. ASSUME NEW r \in Requests, GracePasses(r) PROVE TypeOK'
  <2>1. req[r].attempts \in 0..MaxAttempts
    BY <1>14, RowKinds DEF GracePasses, Request
  <2>2. graced[r] + 1 \in 0..MaxAttempts
    BY <1>14, <2>1 DEF GracePasses, TypeOK
  <2> QED BY <1>14, <2>2 DEF GracePasses, TypeOK, ledger
<1>15. CASE UNCHANGED vars
  BY <1>15 DEF vars, TypeOK
<1> QED
  BY <1>1, <1>2, <1>3, <1>4, <1>5, <1>6, <1>7, <1>8, <1>9, <1>10, <1>11, <1>12, <1>13, <1>14, <1>15
  DEF Next, UserStep, CallStep

\* Every variable keeps its type, whatever the users, handlers and Cashfree do.
THEOREM TypeCorrect == Spec => []TypeOK
<1>1. Init => TypeOK
  BY TypeInit
<1>2. TypeOK /\ [Next]_vars => TypeOK'
  BY TypeStep
<1> QED BY <1>1, <1>2, PTL DEF Spec

--------------------------------------------------------------------------------
(* What a step does to the ledger (the payments and the requests) *)

\* Row r becomes q: still the same claim, and nothing that was settled changes.
Updates(r, q) ==
    /\ req[r] \in Request /\ q \in Request
    /\ req' = [req EXCEPT ![r] = q]
    /\ q.amount = req[r].amount /\ q.payment = req[r].payment
    /\ q.by = req[r].by /\ q.key = req[r].key
    /\ req[r].status # "PENDING" => q.status = req[r].status
    /\ req[r].exec # "null" => q.exec # "null"
    /\ req[r].exec # "COMPLETED"

\* A decision, or an execution that starts, fails or is still under way.
Marks(r, q) ==
    /\ Updates(r, q)
    /\ q.exec # "COMPLETED"
    /\ q.exec = req[r].exec \/ req[r].status = "APPROVED"
    /\ UNCHANGED payment

\* The refund is confirmed and its amount moves to the payment.
Pays(r, q) ==
    /\ Updates(r, q)
    /\ q.exec = "COMPLETED" /\ req[r].exec # "null" /\ req[r].status = "APPROVED"
    /\ LET refunded == payment[q.payment].refunded + q.amount IN
       payment' = [payment EXCEPT ![q.payment] =
          [status |-> IF refunded = Amount[q.payment] THEN "REFUNDED" ELSE "PARTIALLY_REFUNDED",
           refunded |-> refunded]]

\* A new request takes the next unused row.
Asks(r, q) ==
    /\ req[r] = Unused /\ q \in Request
    /\ q.status = "PENDING" /\ q.exec = "null"
    /\ q.amount <= Refundable(q.payment)
    /\ \A s \in Requests : req[s] # Unused /\ req[s].by = q.by /\ req[s].key = q.key => q.key = NoKey
    /\ req' = [req EXCEPT ![r] = q]
    /\ UNCHANGED payment

LEMMA OutcomeKinds ==
    ASSUME TypeOK, NEW r \in Requests, NEW got \in Answers, NEW complete \in BOOLEAN,
           NEW only \in BOOLEAN, ApplyRefundOutcome(r, got, complete, only)
    PROVE  \/ UNCHANGED ledger
           \/ \E q : Marks(r, q)
           \/ got = "SUCCESS" /\ \E q : Pays(r, q)
<1>1. CASE UNCHANGED ledger
  BY <1>1
<1>2. CASE ~Untouched(r, only) /\ ~UNCHANGED ledger
  <2>1. req[r] \in Request /\ req[r].status = "APPROVED" /\ req[r].exec \in {"PROCESSING", "FAILED"}
    BY <1>2, RowKinds DEF Untouched, Request
  <2>2. req[r].cfRefundId \in BOOLEAN /\ req[r].manualCheck \in BOOLEAN
    BY <2>1 DEF Request
  <2>3. ASSUME NEW b \in BOOLEAN, NEW m \in BOOLEAN, NEW e \in {"PROCESSING", "FAILED", "COMPLETED"}
        PROVE  [req[r] EXCEPT !.exec = e, !.cfRefundId = b, !.manualCheck = m] \in Request
    BY <2>1 DEF Request
  <2>4. CASE got \in {"failure", "CANCELLED"}
    <3> DEFINE q == [req[r] EXCEPT !.exec = "FAILED", !.cfRefundId = @ \/ got = "CANCELLED", !.manualCheck = FALSE]
    <3>1. req' = [req EXCEPT ![r] = q] /\ UNCHANGED payment
      BY <1>2, <2>4 DEF ApplyRefundOutcome, TypeOK
    <3>2. q \in Request
      BY <2>2, <2>3
    <3>3. Updates(r, q)
      BY <2>1, <3>1, <3>2 DEF Updates, Request
    <3>4. Marks(r, q)
      BY <2>1, <3>1, <3>3 DEF Marks, Request
    <3> QED BY <3>4
  <2>5. CASE got \in {"PENDING", "SUCCESS", "SUCCESS_OTHER"} /\ UNCHANGED payment
             /\ \E m \in BOOLEAN : req' = [req EXCEPT ![r].cfRefundId = TRUE, ![r].manualCheck = m]
    <3>1. PICK m \in BOOLEAN : req' = [req EXCEPT ![r].cfRefundId = TRUE, ![r].manualCheck = m]
      BY <2>5
    <3> DEFINE q == [req[r] EXCEPT !.cfRefundId = TRUE, !.manualCheck = m]
    <3>2. req' = [req EXCEPT ![r] = q]
      BY <3>1 DEF TypeOK
    <3>3. q \in Request
      BY <2>1 DEF Request
    <3>4. Updates(r, q)
      BY <2>1, <3>2, <3>3 DEF Updates, Request
    <3>5. Marks(r, q)
      BY <2>1, <2>5, <3>4 DEF Marks, Request
    <3> QED BY <3>5
  <2>6. CASE got = "SUCCESS" /\ payment' # payment
    <3> DEFINE q == [req[r] EXCEPT !.exec = "COMPLETED", !.cfRefundId = TRUE, !.manualCheck = FALSE]
    <3>1. req' = [req EXCEPT ![r] = q]
      BY <1>2, <2>6 DEF ApplyRefundOutcome, TypeOK, ledger
    <3>2. q \in Request
      BY <2>3
    <3>3. Updates(r, q)
      BY <2>1, <3>1, <3>2 DEF Updates, Request
    <3>4. q.payment = req[r].payment /\ q.amount = req[r].amount /\ q.exec = "COMPLETED"
      BY <2>1 DEF Request
    <3>5. LET refunded == payment[q.payment].refunded + q.amount IN
          payment' = [payment EXCEPT ![q.payment] =
             [status |-> IF refunded = Amount[q.payment] THEN "REFUNDED" ELSE "PARTIALLY_REFUNDED",
              refunded |-> refunded]]
      BY <1>2, <2>6, <3>4 DEF ApplyRefundOutcome, ledger
    <3> HIDE DEF q
    <3>6. Pays(r, q)
      BY <2>1, <3>3, <3>4, <3>5 DEF Pays
    <3> QED BY <2>6, <3>6
  <2>7. CASE got = "SUCCESS" /\ complete /\ payment[req[r].payment].refunded + req[r].amount <= Amount[req[r].payment]
    <3>1. payment' # payment
      <4>1. req[r].payment \in Payments /\ req[r].amount \in Nat \ {0}
        BY <2>1, RequestAmountsAssumption DEF Request
      <4>2. payment'[req[r].payment].refunded = payment[req[r].payment].refunded + req[r].amount
        BY <1>2, <2>7, <4>1 DEF ApplyRefundOutcome, TypeOK, ledger
      <4> QED BY <4>1, <4>2 DEF TypeOK
    <3> QED BY <2>6, <2>7, <3>1
  <2>8. CASE got \in {"PENDING", "SUCCESS", "SUCCESS_OTHER"}
             /\ ~(got = "SUCCESS" /\ complete /\ payment[req[r].payment].refunded + req[r].amount <= Amount[req[r].payment])
    <3> DEFINE m == req[r].manualCheck \/ (got \in {"SUCCESS", "SUCCESS_OTHER"} /\ complete)
    <3>1. m \in BOOLEAN
      BY <2>2
    <3>2. UNCHANGED payment /\ req' = [req EXCEPT ![r].cfRefundId = TRUE, ![r].manualCheck = m]
      BY <1>2, <2>8 DEF ApplyRefundOutcome, ledger, TypeOK
    <3> QED BY <2>5, <2>8, <3>1, <3>2
  <2> QED BY <1>2, <2>4, <2>7, <2>8 DEF ApplyRefundOutcome, ledger, Answers
<1> QED BY <1>1, <1>2 DEF ApplyRefundOutcome

\* Cashfree has been asked to pay request r, or may still be.
Sent(r) == req[r].status = "APPROVED" /\ req[r].exec # "null"

\* What the handlers hold is true: an execution is of an approved request, and a
\* SUCCESS that was read is one that Cashfree reported.
Knows(j) ==
    /\ job[j].op = "execute" => Sent(job[j].req)
    /\ job[j].op \in {"execute", "refresh", "webhook"} /\ job[j].got \in {"SUCCESS", "SUCCESS_OTHER"}
           => refund[job[j].req] = "SUCCESS"
JobsKnow == \A j \in Jobs : Knows(j)

\* The invariant that the steps keep: every live claim on a payment fits in it, and the
\* books show what was completed.
StartedIsApproved == \A r \in Requests : req[r] # Unused /\ req[r].exec # "null" => Sent(r)
LiveFits == \A p \in Payments : Total(p, Live) <= Amount[p]
Inv == TypeOK /\ StartedIsApproved /\ RefundedAsApproved /\ JobsKnow /\ LiveFits /\ AccountedOnce

LEMMA StepKinds ==
    ASSUME TypeOK, StartedIsApproved, JobsKnow, [Next]_vars
    PROVE  \/ UNCHANGED ledger
           \/ \E r \in Requests : \E q : Asks(r, q) \/ Marks(r, q) \/ (refund[r] = "SUCCESS" /\ Pays(r, q))
<1>1. ASSUME NEW u \in Users, NEW p \in Payments, NEW a \in RequestAmounts, NEW k \in Keys \cup {NoKey},
             CreateRequest(u, p, a, k)
      PROVE  \E r \in Requests : \E q : Asks(r, q)
  <2> DEFINE q == [status |-> "PENDING", payment |-> p, amount |-> a, by |-> u, key |-> k,
                   exec |-> "null", attempts |-> 0, cfRefundId |-> FALSE, manualCheck |-> FALSE]
  <2>1. q \in Request
    BY BoundsAssumption DEF Request
  <2>2. PICK r \in Requests : req[r] = Unused /\ req' = [req EXCEPT ![r] = q]
    BY <1>1 DEF CreateRequest
  <2>3. Asks(r, q)
    BY <1>1, <2>1, <2>2 DEF CreateRequest, Submitted, Asks
  <2> QED BY <2>3
<1>2. ASSUME NEW r \in Requests, NEW d \in {"APPROVED", "REJECTED"}, req[r].status = "PENDING",
             req' = [req EXCEPT ![r].status = d], UNCHANGED payment
      PROVE  \E q : Marks(r, q)
  <2> DEFINE q == [req[r] EXCEPT !.status = d]
  <2>1. req[r] \in Request
    BY <1>2, RowKinds
  <2>2. q \in Request /\ req' = [req EXCEPT ![r] = q]
    BY <1>2, <2>1 DEF Request, TypeOK
  <2>3. req[r].exec = "null"
    BY <1>2, <2>1 DEF StartedIsApproved, Sent, Unused
  <2>4. Updates(r, q)
    BY <1>2, <2>1, <2>2, <2>3 DEF Updates, Request
  <2>5. Marks(r, q)
    BY <1>2, <2>1, <2>3, <2>4 DEF Marks, Request
  <2> QED BY <2>5
<1>3. ASSUME NEW j \in Calls, Decide(j)
      PROVE  UNCHANGED ledger \/ \E r \in Requests : \E q : Marks(r, q)
  <2>1. job[j].req \in Requests
    BY <1>3, JobKinds DEF Decide, At, Jobs, ApproveJob
  <2>2. CASE req' = req
    BY <1>3, <2>2 DEF Decide, ledger
  <2>3. CASE req[job[j].req].status = "PENDING" /\ req' = [req EXCEPT ![job[j].req].status = "APPROVED"]
    BY <1>2, <1>3, <2>1, <2>3 DEF Decide
  <2> QED BY <1>3, <2>2, <2>3 DEF Decide
<1>4. ASSUME NEW j \in Calls, NEW u \in Approvers, NEW r \in Requests, ExecuteStart(j, u, r)
      PROVE  \E q : Marks(r, q)
  <2> DEFINE q == [req[r] EXCEPT !.exec = "PROCESSING", !.attempts = @ + 1, !.manualCheck = FALSE]
  <2>1. req[r] \in Request /\ req[r].attempts + 1 \in 0..MaxAttempts
    BY <1>4, RowKinds, BoundsAssumption DEF ExecuteStart, Request
  <2>2. q \in Request /\ req' = [req EXCEPT ![r] = q]
    BY <1>4, <2>1 DEF ExecuteStart, Request, TypeOK
  <2>3. Updates(r, q)
    BY <1>4, <2>1, <2>2 DEF ExecuteStart, Updates, Request
  <2>4. Marks(r, q)
    BY <1>4, <2>1, <2>3 DEF ExecuteStart, Marks, Request
  <2> QED BY <2>4
<1>5. ASSUME NEW j \in Jobs, ExecuteRecord(j) \/ RefreshRecord(j) \/ WebhookRecord(j)
      PROVE  \/ UNCHANGED ledger
             \/ \E r \in Requests : \E q : Marks(r, q) \/ (refund[r] = "SUCCESS" /\ Pays(r, q))
  <2>1. job[j].op \in {"execute", "refresh", "webhook"} /\ job[j].req \in Requests /\ job[j].got \in Answers
    BY <1>5, JobKinds DEF ExecuteRecord, RefreshRecord, WebhookRecord, At, ExecuteJob, RefreshJob, WebhookJob
  <2>2. job[j].op = "execute" => job[j].readBack \in BOOLEAN
    BY JobKinds DEF ExecuteJob
  <2>3. \E complete \in BOOLEAN, only \in BOOLEAN :
            ApplyRefundOutcome(job[j].req, job[j].got, complete, only)
    <3>1. CASE ExecuteRecord(j)
      BY <2>2, <3>1 DEF ExecuteRecord, At
    <3>2. CASE RefreshRecord(j)
      BY <3>2 DEF RefreshRecord
    <3>3. CASE WebhookRecord(j)
      BY <3>3 DEF WebhookRecord
    <3> QED BY <1>5, <3>1, <3>2, <3>3
  <2>4. job[j].got = "SUCCESS" => refund[job[j].req] = "SUCCESS"
    BY <2>1 DEF JobsKnow, Knows
  <2> QED BY <2>1, <2>3, <2>4, OutcomeKinds
<1>6. ASSUME NEW u \in Approvers, NEW r \in Requests, Reject(u, r) PROVE \E q : Marks(r, q)
  BY <1>2, <1>6 DEF Reject
<1> DEFINE Quiet == UNCHANGED ledger
<1>7. ASSUME NEW j \in Calls, CallStep(j), ~Decide(j), ~ExecuteRecord(j), ~RefreshRecord(j) PROVE Quiet
  BY <1>7 DEF CallStep, Execution, OrderStep, CancelRead, CancelWrite, CancelRemember, CancelShopify, RevertWrite, RevertRecord, CreateAnswered,
     CreateRejected, CreateConflict, CreateUnknown, Recover, RefreshRead, RefreshJudge, Judged
<1>8. ASSUME NEW w \in Workers, WorkerStep(w), ~WebhookRecord(w) PROVE Quiet
  BY <1>8 DEF WorkerStep, WebhookRead, WebhookTake
<1>9. ASSUME NEW j \in Jobs, Stop(j) PROVE Quiet
  BY <1>9 DEF Stop
<1>10. ASSUME NEW r \in Requests, LateCreate(r) \/ LateLost(r) \/ Settle(r) \/ GracePasses(r) PROVE Quiet
  BY <1>10 DEF LateCreate, LateLost, Settle, GracePasses
<1>11. CASE UNCHANGED vars
  BY <1>11 DEF vars, ledger
<1>12. CASE UserStep
  BY <1>1, <1>4, <1>6, <1>12 DEF UserStep, ApproveStart, RefreshStart, CancelStart, RevertStart
<1>13. ASSUME NEW j \in Calls, CallStep(j)
       PROVE  \/ UNCHANGED ledger
              \/ \E r \in Requests : \E q : Marks(r, q) \/ (refund[r] = "SUCCESS" /\ Pays(r, q))
  BY <1>3, <1>5, <1>7, <1>13 DEF Jobs
<1>14. ASSUME NEW w \in Workers, WorkerStep(w)
       PROVE  \/ UNCHANGED ledger
              \/ \E r \in Requests : \E q : Marks(r, q) \/ (refund[r] = "SUCCESS" /\ Pays(r, q))
  BY <1>5, <1>8, <1>14 DEF Jobs
<1> HIDE DEF Quiet
<1> QED BY <1>9, <1>10, <1>11, <1>12, <1>13, <1>14 DEF Next, Quiet

\* An execution that started stays started, and only approved requests start one.
LEMMA SentStays ==
    ASSUME TypeOK, StartedIsApproved, JobsKnow, [Next]_vars
    PROVE  StartedIsApproved' /\ \A r \in Requests : Sent(r) => Sent(r)'
<1>1. CASE UNCHANGED ledger
  BY <1>1 DEF ledger, StartedIsApproved, Sent
<1>2. ASSUME NEW r \in Requests, NEW q, Asks(r, q) PROVE StartedIsApproved' /\ \A s \in Requests : Sent(s) => Sent(s)'
  BY <1>2 DEF Asks, StartedIsApproved, Sent, TypeOK, Unused, Request
<1>3. ASSUME NEW r \in Requests, NEW q, Updates(r, q), q.exec # req[r].exec => req[r].status = "APPROVED"
      PROVE StartedIsApproved' /\ \A s \in Requests : Sent(s) => Sent(s)'
  BY <1>3 DEF Updates, StartedIsApproved, Sent, TypeOK, Unused, Request
<1>4. ASSUME NEW r \in Requests, NEW q, Marks(r, q) \/ Pays(r, q)
      PROVE  Updates(r, q) /\ (q.exec # req[r].exec => req[r].status = "APPROVED")
  BY <1>4 DEF Marks, Pays
<1> QED BY <1>1, <1>2, <1>3, <1>4, StepKinds

\* Money that Cashfree paid out stays paid.
LEMMA PaidStays ==
    ASSUME TypeOK, [Next]_vars, NEW r \in Requests, refund[r] = "SUCCESS"
    PROVE  refund'[r] = "SUCCESS"
<1>1. ASSUME NEW j \in Calls, CallStep(j) PROVE refund'[r] = "SUCCESS"
  BY <1>1, JobKinds DEF CallStep, Execution, Decide, OrderStep, CancelRead, CancelWrite, CancelRemember, CancelShopify, RevertWrite, RevertRecord, CreateAnswered,
     CreateRejected, CreateConflict, CreateUnknown, Recover, ExecuteRecord, RefreshRead, RefreshJudge, Judged, RefreshRecord,
     TypeOK, At, Jobs, ExecuteJob
<1>2. ASSUME NEW w \in Workers, WorkerStep(w) PROVE refund'[r] = "SUCCESS"
  BY <1>2 DEF WorkerStep, WebhookRead, WebhookTake, WebhookRecord
<1>3. CASE UserStep
  BY <1>3 DEF UserStep, CreateRequest, Reject, ApproveStart, ExecuteStart, RefreshStart, CancelStart, RevertStart
<1>4. ASSUME NEW s \in Requests, LateCreate(s) \/ LateLost(s) \/ Settle(s) \/ GracePasses(s) PROVE refund'[r] = "SUCCESS"
  BY <1>4 DEF LateCreate, LateLost, Settle, GracePasses, TypeOK
<1>5. ASSUME NEW j \in Jobs, Stop(j) PROVE refund'[r] = "SUCCESS"
  BY <1>5 DEF Stop
<1>6. CASE UNCHANGED vars
  BY <1>6 DEF vars
<1> QED BY <1>1, <1>2, <1>3, <1>4, <1>5, <1>6 DEF Next

\* What a SUCCESS answer means: it can only have been read from a paid refund.
LEMMA SnapshotTrue ==
    ASSUME TypeOK, NEW r \in Requests, NEW g \in Snapshot(r), g \in {"SUCCESS", "SUCCESS_OTHER"}
    PROVE  refund[r] = "SUCCESS"
BY DEF Snapshot, TypeOK, RefundStatus

\* Reading a refund, and judging what was read, is about the same refund.
LEMMA ReadChanges ==
    ASSUME TypeOK, NEW j \in Jobs, RefreshRead(j) \/ RefreshJudge(j) \/ WebhookRead(j)
    PROVE  /\ job'[j].op = job[j].op /\ job'[j].req = job[j].req
           /\ job[j].op = "refresh" => job'[j].attempt = job[j].attempt
           /\ \A k \in Jobs : k # j => job'[k] = job[k]
           /\ RefreshRead(j) \/ WebhookRead(j) => job'[j].got \in Snapshot(job[j].req)
           /\ WebhookRead(j) => job[j].op = "webhook"
<1>1. CASE WebhookRead(j)
  <2>1. job[j] \in WebhookJob
    BY <1>1, JobKinds DEF WebhookRead, At
  <2>2. PICK g \in Snapshot(job[j].req) : job' = [job EXCEPT ![j].at = "record", ![j].got = g]
    BY <1>1 DEF WebhookRead, GotWith
  <2> QED BY <2>1, <2>2 DEF TypeOK, WebhookJob
<1>2. CASE RefreshRead(j)
  <2>1. job[j] \in RefreshJob
    BY <1>2, JobKinds DEF RefreshRead, At
  <2>2. PICK g \in Snapshot(job[j].req) : job' = [job EXCEPT ![j].at = "judge", ![j].got = g,
                                   ![j].early = (g = "none" /\ job[j].attempt > graced[job[j].req])]
    BY <1>2 DEF RefreshRead
  <2>3. ~WebhookRead(j)
    BY <1>2 DEF RefreshRead, WebhookRead, At
  <2> QED BY <2>1, <2>2, <2>3 DEF TypeOK, RefreshJob
<1>3. CASE RefreshJudge(j)
  <2>1. job[j] \in RefreshJob
    BY <1>3, JobKinds DEF RefreshJudge, Judged, At
  <2>2. PICK g : job' = [job EXCEPT ![j].at = "record", ![j].got = g]
    BY <1>3 DEF RefreshJudge, Judged, GotWith
  <2>3. ~WebhookRead(j) /\ ~RefreshRead(j)
    BY <1>3 DEF RefreshRead, RefreshJudge, Judged, WebhookRead, At
  <2> QED BY <2>1, <2>2, <2>3 DEF TypeOK, RefreshJob
<1> QED BY <1>1, <1>2, <1>3

LEMMA JobsKnowStep ==
    ASSUME TypeOK, StartedIsApproved, JobsKnow, [Next]_vars
    PROVE  JobsKnow'
<1> SUFFICES ASSUME NEW i \in Jobs PROVE Knows(i)'
  BY DEF JobsKnow
<1>1. ASSUME job'[i] = job[i] PROVE Knows(i)'
  <2>1. job[i].op \in {"execute", "refresh", "webhook"} => job[i].req \in Requests
    BY JobKinds DEF ExecuteJob, RefreshJob, WebhookJob
  <2> QED BY <1>1, <2>1, SentStays, PaidStays DEF JobsKnow, Knows
<1>2. ASSUME job'[i].op \in {"idle", "cancel", "approve", "revert"} PROVE Knows(i)'
  BY <1>2 DEF Knows
<1>3. ASSUME NEW j \in Calls, NEW u \in Approvers, NEW r \in Requests, ExecuteStart(j, u, r) PROVE Knows(i)'
  <2>1. Sent(r)'
    BY <1>3, RowKinds DEF ExecuteStart, Sent, TypeOK, Request
  <2> QED BY <1>1, <1>3, <2>1 DEF ExecuteStart, Begin, Knows, TypeOK
<1>4. ASSUME NEW j \in Calls, NEW u \in Approvers, NEW r \in Requests,
             ApproveStart(j, u, r) PROVE Knows(i)'
  BY <1>1, <1>4 DEF ApproveStart, Begin, Knows, TypeOK
<1>5. ASSUME NEW j \in Jobs, End(j) PROVE Knows(i)'
  BY <1>1, <1>2, <1>5 DEF End, Idle, TypeOK
<1>6. ASSUME NEW j \in Calls, OrderStep(j) PROVE Knows(i)'
  BY <1>1, <1>2, <1>6, OrderStepKinds
<1>7. ASSUME NEW j \in Calls, Execution(j) PROVE Knows(i)'
  <2>0. job[j].op = "execute"
    BY <1>7 DEF Execution, CreateAnswered, CreateRejected, CreateConflict, CreateUnknown, Recover,
       ExecuteRecord, At
  <2>1. job[j] \in ExecuteJob /\ job[j].op = "execute" /\ job[j].req \in Requests
        /\ \A r \in Requests : r = job[j].req => Sent(r)'
    <3>1. job[j] \in ExecuteJob /\ job[j].req \in Requests
      BY <2>0, JobKinds DEF Jobs, ExecuteJob
    <3>2. Sent(job[j].req)
      BY <2>0 DEF JobsKnow, Knows, Jobs
    <3> QED BY <2>0, <3>1, <3>2, SentStays
  <2>2. ASSUME NEW g \in Answers, NEW phase, job' = [job EXCEPT ![j].at = phase, ![j].got = g],
               g \in {"SUCCESS", "SUCCESS_OTHER"} => refund'[job[j].req] = "SUCCESS"
        PROVE  Knows(i)'
    BY <1>1, <2>1, <2>2 DEF Knows, TypeOK, ExecuteJob, Jobs
  <2>3. CASE CreateAnswered(j)
    <3>1. PICK s \in Answers : refund' = [refund EXCEPT ![job[j].req] = s] /\ GotWith(j, "record", s)
      BY <2>1, <2>3 DEF CreateAnswered, TypeOK, RefundStatus, Answers
    <3>2. refund'[job[j].req] = s /\ s # "SUCCESS_OTHER"
      BY <2>1, <2>3, <3>1 DEF CreateAnswered, TypeOK, RefundStatus
    <3> QED BY <2>2, <3>1, <3>2 DEF GotWith
  <2>4. CASE CreateRejected(j)
    BY <2>2, <2>4 DEF CreateRejected, GotWith, Answers
  <2>5. CASE CreateConflict(j) \/ CreateUnknown(j)
    <3>1. job' = [job EXCEPT ![j].at = "recover"] /\ refund' = refund
      BY <2>5 DEF CreateConflict, CreateUnknown, Goto
    <3>2. i # j => job'[i] = job[i]
      BY <3>1 DEF TypeOK
    <3>3. i = j => job'[i].op = "execute" /\ job'[i].req = job[j].req /\ job'[i].got = job[j].got
      BY <2>1, <3>1 DEF TypeOK, ExecuteJob
    <3>4. Knows(j)
      BY DEF JobsKnow, Jobs
    <3> QED BY <1>1, <2>1, <3>1, <3>2, <3>3, <3>4 DEF Knows
  <2>6. CASE Recover(j)
    <3>1. PICK g \in Snapshot(job[j].req) \cup {"none"} :
              job' = [job EXCEPT ![j].at = "record", ![j].got = g, ![j].readBack = (g # "none")]
      BY <2>6 DEF Recover
    <3>2. g \in {"SUCCESS", "SUCCESS_OTHER"} => refund'[job[j].req] = "SUCCESS"
      BY <2>1, <2>6, SnapshotTrue DEF Recover
    <3>3. i # j => job'[i] = job[i]
      BY <3>1 DEF TypeOK
    <3>4. i = j => job'[i].op = "execute" /\ job'[i].req = job[j].req /\ job'[i].got = g
      BY <2>1, <3>1 DEF TypeOK, ExecuteJob
    <3> QED BY <1>1, <2>1, <3>2, <3>3, <3>4 DEF Knows
  <2>7. CASE ExecuteRecord(j)
    BY <1>5, <2>7 DEF ExecuteRecord, Jobs
  <2> QED BY <1>7, <2>3, <2>4, <2>5, <2>6, <2>7 DEF Execution
<1>8. ASSUME NEW j \in Jobs, RefreshRead(j) \/ RefreshJudge(j) \/ WebhookRead(j) PROVE Knows(i)'
  <2>1. job[j] \in RefreshJob \cup WebhookJob /\ job[j].req \in Requests /\ job[j].op \in {"refresh", "webhook"}
    BY <1>8, JobKinds DEF RefreshRead, RefreshJudge, Judged, WebhookRead, At, RefreshJob, WebhookJob
  <2>2. job'[j].op = job[j].op /\ job'[j].req = job[j].req /\ \A k \in Jobs : k # j => job'[k] = job[k]
    BY <1>8, ReadChanges
  <2>3. job'[j].got \in {"SUCCESS", "SUCCESS_OTHER"} => refund'[job[j].req] = "SUCCESS"
    <3>1. CASE RefreshRead(j) \/ WebhookRead(j)
      <4>1. PICK g \in Snapshot(job[j].req) : job'[j].got = g
        BY <3>1, ReadChanges
      <4> QED BY <2>1, <3>1, <4>1, SnapshotTrue DEF RefreshRead, WebhookRead
    <3>2. CASE RefreshJudge(j)
      <4>1. job'[j].got \in {"failure", job[j].got} /\ refund' = refund
        BY <2>1, <3>2 DEF RefreshJudge, Judged, GotWith, TypeOK, RefreshJob, WebhookJob
      <4> QED BY <2>1, <4>1 DEF JobsKnow, Knows
    <3> QED BY <1>8, <3>1, <3>2
  <2>4. Knows(j) /\ UNCHANGED req
    BY <1>8 DEF JobsKnow, RefreshRead, RefreshJudge, Judged, WebhookRead, ledger
  <2>5. Knows(j)'
    BY <2>1, <2>2, <2>3, <2>4 DEF Knows, Sent
  <2> QED BY <1>1, <2>2, <2>5
<1>9. ASSUME NEW w \in Workers, NEW r \in Requests, WebhookTake(w, r) PROVE Knows(i)'
  BY <1>1, <1>9 DEF WebhookTake, Begin, Knows, TypeOK, Jobs
<1>10. ASSUME UNCHANGED job PROVE Knows(i)'
  BY <1>1, <1>10
<1>11. CASE UserStep
  <2>1. ASSUME NEW u \in Users, NEW p \in Payments, NEW a \in RequestAmounts, NEW k \in Keys \cup {NoKey},
               CreateRequest(u, p, a, k) PROVE Knows(i)'
    BY <1>10, <2>1 DEF CreateRequest
  <2>2. ASSUME NEW u \in Approvers, NEW r \in Requests, Reject(u, r) PROVE Knows(i)'
    BY <1>10, <2>2 DEF Reject
  <2>3. ASSUME NEW j \in Calls, CancelStart(j) \/ RevertStart(j) PROVE Knows(i)'
    BY <1>1, <2>3 DEF CancelStart, RevertStart, Begin, Knows, TypeOK
  <2>4. ASSUME NEW j \in Calls, NEW r \in Requests, RefreshStart(j, r) PROVE Knows(i)'
    BY <1>1, <2>4 DEF RefreshStart, Begin, Knows, TypeOK
  <2> QED BY <1>3, <1>4, <1>11, <2>1, <2>2, <2>3, <2>4 DEF UserStep
<1>12. ASSUME NEW j \in Calls, CallStep(j) PROVE Knows(i)'
  BY <1>5, <1>6, <1>7, <1>8, <1>12 DEF CallStep, Decide, RefreshRecord, Jobs
<1>13. ASSUME NEW w \in Workers, WorkerStep(w) PROVE Knows(i)'
  BY <1>5, <1>8, <1>9, <1>13 DEF WorkerStep, WebhookRecord, Jobs
<1>14. ASSUME NEW j \in Jobs, Stop(j) PROVE Knows(i)'
  BY <1>5, <1>14 DEF Stop
<1>15. ASSUME NEW r \in Requests, LateCreate(r) \/ LateLost(r) \/ Settle(r) \/ GracePasses(r) PROVE Knows(i)'
  BY <1>10, <1>15 DEF LateCreate, LateLost, Settle, GracePasses
<1>16. CASE UNCHANGED vars
  BY <1>10, <1>16 DEF vars
<1> QED BY <1>11, <1>12, <1>13, <1>14, <1>15, <1>16 DEF Next

--------------------------------------------------------------------------------
(* Cashfree pays what was approved *)

\* Only a job of a started execution, or its create call that is still on its way,
\* brings a refund to Cashfree.
LEMMA OnlySentReaches ==
    ASSUME TypeOK, JobsKnow, RefundedAsApproved, [Next]_vars, NEW r \in Requests,
           refund'[r] # "none" \/ r \in late'
    PROVE  Sent(r)
<1>1. CASE refund[r] # "none" \/ r \in late
  BY <1>1 DEF RefundedAsApproved, Sent
<1>2. CASE refund[r] = "none" /\ r \notin late
  <2>1. ASSUME NEW j \in Jobs, At(j, "execute", "sent"), job[j].req = r PROVE Sent(r)
    BY <2>1 DEF JobsKnow, Knows, At
  <2>2. ASSUME NEW j \in Jobs, At(j, "execute", "sent") PROVE job[j].req \in Requests
    BY <2>2, JobKinds DEF At, ExecuteJob
  <2>3. ASSUME NEW j \in Calls, CallStep(j) PROVE Sent(r)
    <3>1. CASE CreateAnswered(j)
      BY <1>2, <2>1, <2>2, <3>1 DEF CreateAnswered, TypeOK, Jobs
    <3>2. CASE CreateUnknown(j)
      BY <1>2, <2>1, <2>2, <3>2 DEF CreateUnknown, Jobs
    <3>3. CASE ~CreateAnswered(j) /\ ~CreateUnknown(j)
      BY <1>2, <2>3, <3>3 DEF CallStep, Execution, Decide, OrderStep, CancelRead, CancelWrite, CancelRemember, CancelShopify, RevertWrite, RevertRecord,
         CreateRejected, CreateConflict, Recover, ExecuteRecord, RefreshRead, RefreshJudge, Judged, RefreshRecord
    <3> QED BY <3>1, <3>2, <3>3
  <2>4. ASSUME NEW w \in Workers, WorkerStep(w) PROVE FALSE
    BY <1>2, <2>4 DEF WorkerStep, WebhookRead, WebhookTake, WebhookRecord
  <2>5. CASE UserStep
    BY <1>2, <2>5 DEF UserStep, CreateRequest, Reject, ApproveStart, ExecuteStart, RefreshStart, CancelStart, RevertStart
  <2>6. ASSUME NEW s \in Requests, LateCreate(s) \/ LateLost(s) \/ Settle(s) \/ GracePasses(s) PROVE FALSE
    BY <1>2, <2>6 DEF LateCreate, LateLost, Settle, GracePasses, TypeOK
  <2>7. ASSUME NEW j \in Jobs, Stop(j) PROVE Sent(r)
    BY <1>2, <2>1, <2>7 DEF Stop
  <2>8. CASE UNCHANGED vars
    BY <1>2, <2>8 DEF vars
  <2> QED BY <2>3, <2>4, <2>5, <2>6, <2>7, <2>8 DEF Next
<1> QED BY <1>1, <1>2

LEMMA RefundedAsApprovedStep ==
    ASSUME TypeOK, StartedIsApproved, JobsKnow, RefundedAsApproved, [Next]_vars
    PROVE  RefundedAsApproved'
<1>1. ASSUME NEW s \in Requests, refund'[s] # "none" \/ s \in late' PROVE Sent(s)'
  BY <1>1, OnlySentReaches, SentStays
<1>2. ASSUME NEW s \in Requests, req'[s].status = "APPROVED", req'[s].exec = "COMPLETED"
      PROVE  refund'[s] = "SUCCESS"
  <2>1. CASE UNCHANGED ledger
    BY <1>2, <2>1, PaidStays DEF ledger, RefundedAsApproved
  <2>2. ASSUME NEW r \in Requests, NEW q, Asks(r, q) \/ Marks(r, q) PROVE refund'[s] = "SUCCESS"
    <3>1. req' = [req EXCEPT ![r] = q] /\ q.exec # "COMPLETED"
      BY <2>2 DEF Asks, Marks, Updates
    <3>2. req'[s] = req[s]
      BY <1>2, <3>1 DEF TypeOK
    <3> QED BY <1>2, <3>2, PaidStays DEF RefundedAsApproved
  <2>3. ASSUME NEW r \in Requests, NEW q, refund[r] = "SUCCESS", Pays(r, q) PROVE refund'[s] = "SUCCESS"
    <3>1. req' = [req EXCEPT ![r] = q]
      BY <2>3 DEF Pays, Updates
    <3>2. s # r => req'[s] = req[s]
      BY <3>1 DEF TypeOK
    <3> QED BY <1>2, <2>3, <3>2, PaidStays DEF RefundedAsApproved
  <2> QED BY <2>1, <2>2, <2>3, StepKinds
<1> QED BY <1>1, <1>2 DEF RefundedAsApproved, Sent

--------------------------------------------------------------------------------
(* The sums of the ledger *)

\* Rows(p, S) of any contents of the table.
RowsOf(rows, p, S) == [r \in Requests |-> IF r \in S /\ rows[r].payment = p THEN rows[r].amount ELSE 0]

\* The amounts of a set of rows in use are naturals.
LEMMA RowsType ==
    ASSUME NEW rows \in [Requests -> Request \cup {Unused}], NEW p, NEW S,
           \A r \in Requests : r \in S => rows[r] # Unused
    PROVE  RowsOf(rows, p, S) \in [1..MaxRequests -> Nat]
<1>1. ASSUME NEW r \in Requests, r \in S PROVE rows[r].amount \in Nat
  BY <1>1, RequestAmountsAssumption DEF Request
<1> QED BY <1>1 DEF RowsOf

\* What is live is open or completed.
LEMMA LiveSplits ==
    ASSUME TypeOK, StartedIsApproved, NEW p
    PROVE  /\ Rows(p, Live) \in [1..MaxRequests -> Nat]
           /\ Rows(p, Open) \in [1..MaxRequests -> Nat]
           /\ Rows(p, Completed) \in [1..MaxRequests -> Nat]
           /\ Total(p, Open) \in Nat /\ Total(p, Completed) \in Nat
           /\ Total(p, Live) = Total(p, Open) + Total(p, Completed)
<1>1. \A r \in Requests : r \in Live \/ r \in Open \/ r \in Completed => req[r] # Unused
  BY DEF Live, Open, Completed, Unused
<1>2. /\ Rows(p, Live) \in [1..MaxRequests -> Nat]
      /\ Rows(p, Open) \in [1..MaxRequests -> Nat]
      /\ Rows(p, Completed) \in [1..MaxRequests -> Nat]
  <2>1. ASSUME NEW S, \A r \in Requests : r \in S => req[r] # Unused
        PROVE  Rows(p, S) \in [1..MaxRequests -> Nat]
    <3>1. RowsOf(req, p, S) \in [1..MaxRequests -> Nat]
      BY <2>1, RowsType DEF TypeOK
    <3> QED BY <3>1 DEF Rows, RowsOf
  <2> QED BY <1>1, <2>1
<1>3. ASSUME NEW r \in Requests
      PROVE  (r \in Live <=> r \in Open \/ r \in Completed) /\ ~(r \in Open /\ r \in Completed)
  BY DEF Live, Open, Completed, StartedIsApproved, Sent, Unused
<1>4. \A r \in 1..MaxRequests : Rows(p, Live)[r] = Rows(p, Open)[r] + Rows(p, Completed)[r]
  <2> SUFFICES ASSUME NEW r \in Requests
               PROVE  Rows(p, Live)[r] = Rows(p, Open)[r] + Rows(p, Completed)[r]
    OBVIOUS
  <2>1. CASE r \in Open
    BY <1>2, <1>3, <2>1 DEF Rows
  <2>2. CASE r \in Completed
    BY <1>2, <1>3, <2>2 DEF Rows
  <2>3. CASE r \notin Live
    BY <1>3, <2>3 DEF Rows
  <2> QED BY <1>3, <2>1, <2>2, <2>3
<1>5. Total(p, Live) = Total(p, Open) + Total(p, Completed)
  BY <1>2, <1>4, SumAdds, BoundsAssumption DEF Total
<1> QED BY <1>2, <1>5, SumType, BoundsAssumption DEF Total

\* Only row r changed from old to new, and it was not counted in S.
RowChange(old, new, S, T, r) ==
    /\ old \in [Requests -> Request \cup {Unused}] /\ new \in [Requests -> Request \cup {Unused}]
    /\ r \in Requests /\ new[r] # Unused /\ r \notin S
    /\ \A i \in Requests : i \in S => old[i] # Unused
    /\ \A i \in Requests : i # r => new[i] = old[i] /\ (i \in T <=> i \in S)

\* The amount row r brings to the sum over T.
Added(new, p, T, r) == IF r \in T /\ new[r].payment = p THEN new[r].amount ELSE 0

\* A row that changes or comes into use adds its amount to the sums it now belongs to
\* and leaves the others as they were.
LEMMA SumOfChangedRow ==
    ASSUME NEW old, NEW new, NEW p, NEW S, NEW T, NEW r, RowChange(old, new, S, T, r)
    PROVE  Sum(RowsOf(new, p, T), MaxRequests) = Sum(RowsOf(old, p, S), MaxRequests) + Added(new, p, T, r)
<1> DEFINE f == RowsOf(old, p, S)
           h == RowsOf(new, p, T)
           added == Added(new, p, T, r)
<1>1. f \in [1..MaxRequests -> Nat] /\ h \in [1..MaxRequests -> Nat]
  <2>1. \A i \in Requests : i \in T => new[i] # Unused
    BY DEF RowChange
  <2> QED BY <2>1, RowsType DEF RowChange
<1>2. \A i \in 1..MaxRequests : i # r => h[i] = f[i]
  BY DEF RowsOf, RowChange
<1>3. f[r] = 0 /\ h[r] = added
  BY DEF RowsOf, RowChange, Added
<1>4. Sum(f, MaxRequests) \in Nat /\ h[r] \in Nat
  BY <1>1, SumType, BoundsAssumption DEF RowChange
<1> HIDE DEF f, h, added
<1>5. Sum(h, MaxRequests) = Sum(f, MaxRequests) - f[r] + h[r]
  <2>1. DifferAt(f, h, MaxRequests, r)
    BY <1>1, <1>2 DEF DifferAt, RowChange
  <2> QED BY <2>1, SumChange, BoundsAssumption
<1>6. Sum(h, MaxRequests) = Sum(f, MaxRequests) + added
  BY <1>3, <1>4, <1>5
<1> QED BY <1>6 DEF f, h, added

LEMMA LiveFitsStep ==
    ASSUME Inv, TypeOK', [Next]_vars
    PROVE  LiveFits'
<1> USE DEF Inv
<1>1. CASE UNCHANGED ledger
  BY <1>1 DEF ledger, LiveFits, Total, Rows, Live
<1>2. ASSUME NEW r \in Requests, NEW q, Asks(r, q) PROVE LiveFits'
  <2> SUFFICES ASSUME NEW p \in Payments PROVE Total(p, Live)' <= Amount[p]
    BY DEF LiveFits
  <2>1. req' = [req EXCEPT ![r] = q] /\ q \in Request /\ req[r] = Unused /\ q.status = "PENDING"
    BY <1>2 DEF Asks
  <2>2. req'[r] = q /\ q # Unused /\ \A i \in Requests : i # r => req'[i] = req[i]
    BY <2>1 DEF TypeOK, Request, Unused
  <2>3. r \notin Live /\ r \in Live' /\ \A i \in Requests : i # r => (i \in Live' <=> i \in Live)
    BY <2>1, <2>2 DEF Live, Unused
  <2>4. \A i \in Requests : i \in Live => req[i] # Unused
    BY DEF Live, Unused
  <2>5. Total(p, Live)' = Total(p, Live) + (IF r \in Live' /\ req'[r].payment = p THEN req'[r].amount ELSE 0)
    <3>1. Sum(RowsOf(req', p, Live'), MaxRequests)
              = Sum(RowsOf(req, p, Live), MaxRequests) + Added(req', p, Live', r)
      <4>1. req \in [Requests -> Request \cup {Unused}] /\ req' \in [Requests -> Request \cup {Unused}]
        BY DEF TypeOK
      <4>2. req'[r] # Unused
        BY <2>2
      <4>3. \A i \in Requests : i # r => req'[i] = req[i] /\ (i \in Live' <=> i \in Live)
        BY <2>2, <2>3
      <4>4. RowChange(req, req', Live, Live', r)
        BY <2>3, <2>4, <4>1, <4>2, <4>3 DEF RowChange
      <4> QED BY <4>4, SumOfChangedRow
    <3> QED BY <3>1 DEF Total, Rows, RowsOf, Added
  <2>6. Total(p, Live) \in Nat /\ Total(p, Live) = Total(p, Open) + Total(p, Completed) /\ Total(p, Live) <= Amount[p]
    BY LiveSplits DEF LiveFits
  <2>7. CASE q.payment # p
    BY <2>2, <2>5, <2>6, <2>7
  <2>8. CASE q.payment = p
    <3>1. q.amount <= Amount[p] - payment[p].refunded - Total(p, Open)
      BY <1>2, <2>8 DEF Asks, Refundable
    <3>2. payment[p].refunded = Total(p, Completed)
      BY DEF AccountedOnce
    <3>3. q.amount \in Nat /\ Amount[p] \in Nat /\ Total(p, Open) \in Nat /\ Total(p, Completed) \in Nat
      BY <2>1, LiveSplits, AmountAssumption, RequestAmountsAssumption DEF Request
    <3>4. Total(p, Live)' = Total(p, Live) + q.amount
      BY <2>2, <2>3, <2>5, <2>8
    <3> QED BY <2>6, <3>1, <3>2, <3>3, <3>4
  <2> QED BY <2>7, <2>8
<1>3. ASSUME NEW r \in Requests, NEW q, Updates(r, q) PROVE LiveFits'
  <2> SUFFICES ASSUME NEW p \in Payments PROVE Total(p, Live)' <= Amount[p]
    BY DEF LiveFits
  <2>1. /\ req'[r] = q /\ q.amount = req[r].amount /\ q.payment = req[r].payment
        /\ \A i \in Requests : i # r => req'[i] = req[i]
    BY <1>3 DEF Updates, TypeOK
  <2>2. \A i \in Requests : i \in Live' => i \in Live
    BY <1>3, <2>1 DEF Updates, Live
  <2>3. \A i \in Requests : req'[i].amount = req[i].amount /\ req'[i].payment = req[i].payment
    BY <2>1
  <2>4. Rows(p, Live) \in [1..MaxRequests -> Nat]
    BY LiveSplits
  <2>5. Rows(p, Live)' \in [1..MaxRequests -> Nat]
    <3>1. \A i \in Requests : i \in Live' => req'[i] # Unused
      BY DEF Live, Unused
    <3>2. RowsOf(req', p, Live') \in [1..MaxRequests -> Nat]
      BY <3>1, RowsType DEF TypeOK
    <3> QED BY <3>2 DEF Rows, RowsOf
  <2>6. \A i \in 1..MaxRequests : Rows(p, Live)'[i] <= Rows(p, Live)[i]
    <3> SUFFICES ASSUME NEW i \in Requests PROVE Rows(p, Live)'[i] <= Rows(p, Live)[i]
      OBVIOUS
    <3>1. Rows(p, Live)[i] \in Nat /\ Rows(p, Live)'[i] \in Nat
      BY <2>4, <2>5
    <3>2. Rows(p, Live)'[i] = 0 \/ Rows(p, Live)'[i] = Rows(p, Live)[i]
      BY <2>2, <2>3 DEF Rows
    <3> QED BY <3>1, <3>2
  <2>7. Total(p, Live)' <= Total(p, Live)
    BY <2>4, <2>5, <2>6, SumMonotone, BoundsAssumption DEF Total
  <2>8. Total(p, Live) \in Nat /\ Total(p, Live)' \in Nat /\ Amount[p] \in Nat
    BY <2>4, <2>5, SumType, BoundsAssumption, AmountAssumption DEF Total
  <2> QED BY <2>7, <2>8 DEF LiveFits
<1> QED BY <1>1, <1>2, <1>3, StepKinds DEF Marks, Pays

\* The status a payment's row must have when n of it was refunded.
StatusOf(p, n) == CASE n = 0 -> "SUCCESS" [] n = Amount[p] -> "REFUNDED" [] OTHER -> "PARTIALLY_REFUNDED"

LEMMA AccountedOnceStep ==
    ASSUME Inv, TypeOK', [Next]_vars
    PROVE  AccountedOnce'
<1> USE DEF Inv
<1>1. CASE UNCHANGED ledger
  BY <1>1 DEF ledger, AccountedOnce, Total, Rows, Completed
<1>2. ASSUME NEW p \in Payments
      PROVE  Total(p, Completed) \in Nat /\ \A i \in Requests : i \in Completed => req[i] # Unused
  BY LiveSplits DEF Completed
<1>3. ASSUME NEW r \in Requests, NEW q, req[r] = Unused \/ req[r].exec # "COMPLETED", q \in Request,
             req' = [req EXCEPT ![r] = q], NEW p \in Payments
      PROVE  Total(p, Completed)'
                 = Total(p, Completed) + (IF q.exec = "COMPLETED" /\ q.payment = p THEN q.amount ELSE 0)
  <2>1. req'[r] = q /\ q # Unused /\ \A i \in Requests : i # r => req'[i] = req[i]
    BY <1>3 DEF TypeOK, Request, Unused
  <2>2. r \notin Completed /\ (r \in Completed' <=> q.exec = "COMPLETED")
        /\ \A i \in Requests : i # r => (i \in Completed' <=> i \in Completed)
    BY <1>3, <2>1 DEF Completed
  <2>3. RowChange(req, req', Completed, Completed', r)
    BY <1>2, <2>1, <2>2 DEF RowChange, TypeOK
  <2>4. Sum(RowsOf(req', p, Completed'), MaxRequests)
            = Sum(RowsOf(req, p, Completed), MaxRequests) + Added(req', p, Completed', r)
    BY <2>3, SumOfChangedRow
  <2> QED BY <2>1, <2>2, <2>4 DEF Total, Rows, RowsOf, Added
<1>4. ASSUME NEW r \in Requests, NEW q, Asks(r, q) \/ Marks(r, q) PROVE AccountedOnce'
  <2>1. /\ req[r] = Unused \/ req[r].exec # "COMPLETED"
        /\ q \in Request /\ q.exec # "COMPLETED"
        /\ req' = [req EXCEPT ![r] = q] /\ payment' = payment
    BY <1>4 DEF Asks, Marks, Updates
  <2>2. ASSUME NEW p \in Payments PROVE Total(p, Completed)' = Total(p, Completed)
    <3>1. Total(p, Completed)'
              = Total(p, Completed) + (IF q.exec = "COMPLETED" /\ q.payment = p THEN q.amount ELSE 0)
      BY <1>3, <2>1
    <3> QED BY <1>2, <2>1, <3>1
  <2> QED BY <2>1, <2>2 DEF AccountedOnce
<1>5. ASSUME NEW r \in Requests, NEW q, Pays(r, q) PROVE AccountedOnce'
  <2>1. req[r].exec # "COMPLETED" /\ q \in Request /\ q.exec = "COMPLETED" /\ req' = [req EXCEPT ![r] = q]
    BY <1>5 DEF Pays, Updates
  <2>2. q.payment \in Payments /\ q.amount \in Nat \ {0}
    BY <2>1, RequestAmountsAssumption DEF Request
  <2>3. ASSUME NEW p \in Payments
        PROVE  /\ payment'[p].refunded = Total(p, Completed)'
               /\ payment'[p].status = StatusOf(p, payment'[p].refunded)
    <3>1. payment[p].refunded = Total(p, Completed) /\ payment[p].status = StatusOf(p, payment[p].refunded)
      BY DEF AccountedOnce, StatusOf
    <3>2. Total(p, Completed)' = Total(p, Completed) + (IF q.payment = p THEN q.amount ELSE 0)
      BY <1>3, <2>1
    <3>3. CASE q.payment # p
      <4>1. payment'[p] = payment[p]
        BY <1>5, <3>3 DEF Pays, TypeOK
      <4> QED BY <1>2, <3>1, <3>2, <3>3, <4>1
    <3>4. CASE q.payment = p
      <4>1. payment'[p] = [status |-> IF payment[p].refunded + q.amount = Amount[p] THEN "REFUNDED" ELSE "PARTIALLY_REFUNDED",
                           refunded |-> payment[p].refunded + q.amount]
        BY <1>5, <3>4 DEF Pays, TypeOK
      <4>2. payment[p].refunded + q.amount # 0 /\ Total(p, Completed)' = Total(p, Completed) + q.amount
        BY <1>2, <2>2, <3>1, <3>2, <3>4
      <4> QED BY <3>1, <4>1, <4>2 DEF StatusOf
    <3> QED BY <3>3, <3>4
  <2> QED BY <2>3 DEF AccountedOnce, StatusOf
<1> QED BY <1>1, <1>4, <1>5, StepKinds

--------------------------------------------------------------------------------
(* The invariant and what follows from it *)

LEMMA SumOfNothing ==
    ASSUME Init, NEW p, NEW S, S = {}
    PROVE  Total(p, S) = 0
<1>1. Rows(p, S) \in [1..MaxRequests -> Nat] /\ \A i \in 1..MaxRequests : Rows(p, S)[i] = 0
  BY DEF Rows
<1> QED BY <1>1, SumOfZeros, BoundsAssumption DEF Total

LEMMA InvInit == Init => Inv
<1> SUFFICES ASSUME Init PROVE Inv
  OBVIOUS
<1>1. TypeOK
  BY TypeInit
<1>2. StartedIsApproved /\ RefundedAsApproved /\ JobsKnow
  BY DEF Init, StartedIsApproved, RefundedAsApproved, JobsKnow, Knows, Idle, Unused
<1>3. Live = {} /\ Completed = {}
  BY DEF Init, Live, Completed, Unused
<1>4. LiveFits
  BY <1>3, SumOfNothing, AmountAssumption DEF LiveFits
<1>5. AccountedOnce
  <2>1. \A p \in Payments : Total(p, Completed) = 0
    BY <1>3, SumOfNothing
  <2>2. ASSUME NEW p \in Payments PROVE payment[p].refunded = 0 /\ payment[p].status = "SUCCESS"
    BY <2>2 DEF Init
  <2>3. ASSUME NEW p \in Payments
        PROVE  /\ payment[p].refunded = Total(p, Completed)
               /\ payment[p].status = StatusOf(p, payment[p].refunded)
    <3>1. payment[p].refunded = Total(p, Completed)
      BY <2>1, <2>2
    <3>2. StatusOf(p, 0) = "SUCCESS"
      BY AmountAssumption DEF StatusOf
    <3> QED BY <2>2, <3>1, <3>2
  <2> QED BY <2>3 DEF AccountedOnce, StatusOf
<1> QED BY <1>1, <1>2, <1>4, <1>5 DEF Inv

LEMMA InvStep == Inv /\ [Next]_vars => Inv'
<1> SUFFICES ASSUME Inv, [Next]_vars PROVE Inv'
  OBVIOUS
<1>1. TypeOK'
  BY TypeStep DEF Inv
<1> QED BY <1>1, SentStays, JobsKnowStep, RefundedAsApprovedStep, LiveFitsStep, AccountedOnceStep DEF Inv

LEMMA InvAlways == Spec => []Inv
<1> QED BY InvInit, InvStep, PTL DEF Spec

\* Cashfree pays a refund out only after it was approved and sent, and a request is
\* COMPLETED only when it was paid: RefundedAsApproved, for any number of users,
\* payments, requests, attempts and handlers.
THEOREM RefundsApproved == Spec => []RefundedAsApproved
<1>1. Inv => RefundedAsApproved
  BY DEF Inv
<1> QED BY <1>1, InvAlways, PTL

\* The books count every completed refund once (AccountedOnce).
THEOREM BooksRight == Spec => []AccountedOnce
<1>1. Inv => AccountedOnce
  BY DEF Inv
<1> QED BY <1>1, InvAlways, PTL

\* Cashfree never holds refunds for more than was collected (PayoutsCovered): what it
\* holds is live, and the live claims on a payment fit in it.
THEOREM NeverPaysTooMuch == Spec => []PayoutsCovered
<1>1. Inv => PayoutsCovered
  <2> SUFFICES ASSUME Inv, NEW p \in Payments
               PROVE  Total(p, {r \in Requests : req[r] # Unused /\ refund[r] \in {"PENDING", "SUCCESS"}})
                          <= Amount[p]
    BY DEF PayoutsCovered
  <2> DEFINE Held == {r \in Requests : req[r] # Unused /\ refund[r] \in {"PENDING", "SUCCESS"}}
  <2>1. \A r \in Requests : r \in Held => r \in Live /\ req[r] # Unused
    BY DEF Inv, RefundedAsApproved, Live
  <2>2. Rows(p, Live) \in [1..MaxRequests -> Nat]
    BY LiveSplits DEF Inv
  <2>3. Rows(p, Held) \in [1..MaxRequests -> Nat]
    <3>1. RowsOf(req, p, Held) \in [1..MaxRequests -> Nat]
      <4> HIDE DEF Held
      <4> QED BY <2>1, RowsType DEF Inv, TypeOK
    <3> QED BY <3>1 DEF Rows, RowsOf
  <2> HIDE DEF Held
  <2>4. \A r \in 1..MaxRequests : Rows(p, Held)[r] <= Rows(p, Live)[r]
    <3> SUFFICES ASSUME NEW r \in Requests PROVE Rows(p, Held)[r] <= Rows(p, Live)[r]
      OBVIOUS
    <3>1. Rows(p, Held)[r] \in Nat /\ Rows(p, Live)[r] \in Nat
      BY <2>2, <2>3
    <3>2. Rows(p, Held)[r] = 0 \/ Rows(p, Held)[r] = Rows(p, Live)[r]
      BY <2>1 DEF Rows
    <3> QED BY <3>1, <3>2
  <2>5. Total(p, Held) <= Total(p, Live) /\ Total(p, Live) <= Amount[p]
    BY <2>2, <2>3, <2>4, SumMonotone, BoundsAssumption DEF Total, Inv, LiveFits
  <2>6. Total(p, Held) \in Nat /\ Total(p, Live) \in Nat /\ Amount[p] \in Nat
    BY <2>2, <2>3, SumType, BoundsAssumption, AmountAssumption DEF Total
  <2>7. Total(p, Held) <= Amount[p]
    BY <2>5, <2>6
  <2> QED BY <2>7 DEF Held
<1> QED BY <1>1, InvAlways, PTL

\* The balance checks of execute and applyRefundOutcome never refuse an open request
\* (BalanceHeld): its amount is part of the live claims, which fit in the payment.
THEOREM BalanceIsHeld == Spec => []BalanceHeld
<1>1. Inv => BalanceHeld
  <2> SUFFICES ASSUME Inv PROVE BalanceHeld
    OBVIOUS
  <2> USE DEF Inv
  <2>1. ASSUME NEW p \in Payments
        PROVE  /\ Total(p, Open) \in Nat /\ payment[p].refunded \in Nat /\ Amount[p] \in Nat
               /\ payment[p].refunded + Total(p, Open) <= Amount[p]
    <3>1. Total(p, Open) \in Nat /\ Total(p, Completed) \in Nat /\ Total(p, Live) = Total(p, Open) + Total(p, Completed)
      BY LiveSplits
    <3>2. Total(p, Live) <= Amount[p] /\ payment[p].refunded = Total(p, Completed) /\ Amount[p] \in Nat
      BY AmountAssumption DEF LiveFits, AccountedOnce
    <3> QED BY <3>1, <3>2
  <2>2. ASSUME NEW p \in Payments PROVE Refundable(p) >= 0
    BY <2>1 DEF Refundable
  <2>3. ASSUME NEW r \in Open
        PROVE  Eligible(req[r].payment) /\ req[r].amount <= RefundableWithout(req[r].payment, r)
    <3> DEFINE p == req[r].payment
               S == Open \ {r}
    <3>1. r \in Requests /\ req[r] \in Request /\ req[r] # Unused
      BY RowKinds DEF Open, Live, Unused
    <3>2. p \in Payments /\ req[r].amount \in Nat \ {0}
      BY <3>1, RequestAmountsAssumption DEF Request
    <3>3. RowChange(req, req, S, Open, r)
      BY <3>1 DEF RowChange, TypeOK, Open, Live, Unused
    <3>4. Total(p, Open) = Total(p, S) + req[r].amount
      <4> HIDE DEF S
      <4>1. Sum(RowsOf(req, p, Open), MaxRequests) = Sum(RowsOf(req, p, S), MaxRequests) + Added(req, p, Open, r)
        BY <3>3, SumOfChangedRow
      <4> QED BY <4>1, <3>1 DEF Total, Rows, RowsOf, Added
    <3>5. Total(p, S) \in Nat
      <4>1. \A i \in Requests : i \in S => req[i] # Unused
        BY <3>3 DEF RowChange
      <4> HIDE DEF S
      <4>2. RowsOf(req, p, S) \in [1..MaxRequests -> Nat]
        BY <4>1, RowsType DEF TypeOK
      <4>3. Sum(RowsOf(req, p, S), MaxRequests) \in Nat
        BY <4>2, SumType, BoundsAssumption
      <4> QED BY <4>3 DEF Total, Rows, RowsOf
    <3> HIDE DEF p, S
    <3>6. payment[p].refunded # Amount[p] /\ req[r].amount <= Amount[p] - payment[p].refunded - Total(p, S)
      BY <2>1, <3>2, <3>4, <3>5
    <3>7. payment[p].status \in {"SUCCESS", "PARTIALLY_REFUNDED"}
      BY <3>2, <3>6 DEF AccountedOnce
    <3> QED BY <3>6, <3>7 DEF p, S, Eligible, RefundableWithout
  <2>4. ASSUME NEW r \in Open PROVE r \in Requests
    BY DEF Open, Live
  <2> QED BY <2>2, <2>3 DEF BalanceHeld
<1> QED BY <1>1, InvAlways, PTL

\* A step keeps the decisions, the claims and the completed refunds (DecisionsFinal).
THEOREM DecisionsStay == Spec => DecisionsFinal
<1> DEFINE Kept ==
      \A r \in Requests : req[r] # Unused =>
          /\ req'[r] # Unused
          /\ req'[r].amount = req[r].amount /\ req'[r].payment = req[r].payment
          /\ req[r].status # "PENDING" => req'[r].status = req[r].status
          /\ req[r].exec = "COMPLETED" => req'[r] = req[r]
<1>1. Inv /\ [Next]_vars => [Kept]_req
  <2> SUFFICES ASSUME Inv, [Next]_vars PROVE Kept \/ req' = req
    OBVIOUS
  <2> USE DEF Inv
  <2>1. CASE UNCHANGED ledger
    BY <2>1 DEF ledger
  <2>2. ASSUME NEW s \in Requests, NEW q, Asks(s, q) PROVE Kept
    BY <2>2 DEF Asks, TypeOK
  <2>3. ASSUME NEW s \in Requests, NEW q, Updates(s, q) PROVE Kept
    BY <2>3 DEF Updates, TypeOK, Request, Unused
  <2> QED BY <2>1, <2>2, <2>3, StepKinds DEF Marks, Pays
<1> QED BY <1>1, InvAlways, PTL DEF Spec, DecisionsFinal

--------------------------------------------------------------------------------
(* The first execution of a request *)

Busy == {"execute", "refresh", "webhook"}

\* Cashfree has not paid r out and will not, unless it is executed again: it cancelled
\* the refund, or never heard of it and no create call is on its way.
Over(r) ==
    \/ refund[r] = "CANCELLED"
    \/ /\ refund[r] = "none" /\ r \notin late
       /\ \A j \in Jobs : job[j].op = "execute" /\ job[j].req = r => job[j].at # "sent"

\* A request that was not attempted was not started, and only attempts grow old.
Counted ==
    \A r \in Requests :
        IF req[r] = Unused THEN graced[r] = 0
        ELSE graced[r] <= req[r].attempts /\ (req[r].attempts = 0 => req[r].exec = "null")

\* Handlers act on started executions; a CANCELLED that was read stays true.
Acts(j) ==
    job[j].op \in Busy =>
        /\ Sent(job[j].req)
        /\ job[j].got = "CANCELLED" => refund[job[j].req] = "CANCELLED"
        /\ job[j].op = "refresh" => job[j].attempt >= 1

\* One handler makes the first call, and until it is answered or given up on nothing
\* of the refund has reached Cashfree.
OneCall(r) ==
    \A j \in Jobs : job[j].op = "execute" /\ job[j].req = r =>
        /\ \A i \in Jobs : job[i].op = "execute" /\ job[i].req = r => i = j
        /\ job[j].at = "sent" => refund[r] = "none" /\ r \notin late

ToldInTime(j) == job[j].op = "refresh" /\ job[j].at = "judge" /\ job[j].got = "none" /\ ~job[j].early

\* Whoever holds the first execution for failed, or has recorded it so, is right, unless
\* the end of the grace period overtook his answer; so is a refresh that was told after the
\* grace period that there is no such refund.
GivenUp(r) ==
    /\ graced[r] >= 1 => refund[r] # "none" \/ Over(r)
    /\ \A j \in Jobs : job[j].op \in Busy /\ job[j].req = r /\ job[j].got = "failure" => Over(r) \/ r \in hasty
    /\ \A j \in Jobs : job[j].req = r /\ ToldInTime(j) => Over(r)
    /\ req[r].exec = "FAILED" => Over(r) \/ r \in hasty
Firsts == \A r \in Requests : req[r] # Unused /\ req[r].attempts = 1 => OneCall(r) /\ GivenUp(r)
FirstInv == Counted /\ (\A j \in Jobs : Acts(j)) /\ Firsts

LEMMA BusyJobs ==
    ASSUME TypeOK, NEW j \in Jobs, job[j].op \in Busy
    PROVE  job[j].req \in Requests /\ job[j].got \in Answers
BY JobKinds DEF Busy, ExecuteJob, RefreshJob, WebhookJob

\* A busy job goes on; when it has just learnt of a failure or a cancellation, this is
\* where from.
Turns(i) ==
    /\ job[i].op \in Busy /\ job'[i].op = job[i].op /\ job'[i].req = job[i].req
    /\ job[i].op = "refresh" => job'[i].attempt = job[i].attempt
    /\ ToldInTime(i)' => /\ UNCHANGED <<refund, late>> /\ refund[job[i].req] = "none"
                         /\ job[i].attempt <= graced[job[i].req]
    /\ job[i].op = "execute" => job'[i].at # "sent"
    /\ job'[i].got = "CANCELLED" => job[i].got = "CANCELLED" \/ refund[job[i].req] = "CANCELLED"
    /\ job'[i].got = "failure" =>
          \/ job[i].got = "failure"
          \/ /\ UNCHANGED <<refund, late>>
             /\ \/ job[i].op = "execute" /\ job[i].at = "sent"
                \/ ToldInTime(i) \/ job[i].req \in hasty'

ExecuteStarted(i) ==
    \E u \in Approvers, r \in Requests :
        /\ ExecuteStart(i, u, r)
        /\ job'[i] = [op |-> "execute", at |-> "sent", req |-> r, got |-> "none", readBack |-> FALSE]
        /\ \A k \in Jobs : k # i => job'[k] = job[k]
ReadStarted(i) ==
    \E r \in Requests :
        /\ req[r].status = "APPROVED" /\ req[r].exec = "PROCESSING" /\ UNCHANGED req
        /\ job'[i].op \in {"refresh", "webhook"} /\ job'[i].req = r /\ job'[i].got = "none"
        /\ job'[i].at = "read"
        /\ job'[i].op = "refresh" => job'[i].attempt = req[r].attempts

LEMMA NewCall ==
    ASSUME NEW i, ExecuteStarted(i)
    PROVE  job'[i].op = "execute" /\ job'[i].got = "none"
<1>1. PICK r : job'[i] = [op |-> "execute", at |-> "sent", req |-> r, got |-> "none", readBack |-> FALSE]
  BY DEF ExecuteStarted
<1> QED BY <1>1

\* A job stays as it is, or serves nothing that concerns a refund under way.
Still(i) == job'[i] = job[i] \/ job'[i].op \in {"idle", "cancel", "approve", "revert"}
Moved(i) == Still(i) \/ Turns(i) \/ ExecuteStarted(i) \/ ReadStarted(i)

LEMMA ExecutionTurns ==
    ASSUME TypeOK, NEW j \in Calls, Execution(j), NEW i \in Jobs
    PROVE  Moved(i)
<1>1. job[j] \in ExecuteJob /\ j \in Jobs /\ job[j].req \in Requests
  <2>1. job[j].op = "execute"
    BY DEF Execution, CreateAnswered, CreateRejected, CreateConflict, CreateUnknown, Recover, ExecuteRecord, At
  <2> QED BY <2>1, JobKinds DEF Jobs, ExecuteJob
<1>2. ASSUME NEW w \in ExecuteJob, job' = [job EXCEPT ![j] = w], w.req = job[j].req, w.at # "sent",
             w.got = "CANCELLED" => job[j].got = "CANCELLED" \/ refund[job[j].req] = "CANCELLED",
             w.got = "failure" => job[j].got = "failure" \/ (UNCHANGED <<refund, late>> /\ job[j].at = "sent")
      PROVE  Moved(i)
  <2>1. i # j => job'[i] = job[i]
    BY <1>2 DEF TypeOK
  <2>2. job'[j] = w /\ w.op = "execute" /\ job[j].op = "execute"
    BY <1>1, <1>2 DEF TypeOK, ExecuteJob
  <2>3. Turns(j)
    BY <1>2, <2>2 DEF Turns, Busy, ToldInTime
  <2> QED BY <2>1, <2>3 DEF Moved, Still
<1>3. CASE CreateAnswered(j)
  <2>1. PICK s \in {"PENDING", "SUCCESS", "CANCELLED"} :
            GotWith(j, "record", s) /\ (s = "CANCELLED" => refund[job[j].req] = "CANCELLED")
    BY <1>1, <1>3 DEF CreateAnswered, TypeOK, RefundStatus
  <2> DEFINE w == [job[j] EXCEPT !.at = "record", !.got = s]
  <2>2. w \in ExecuteJob /\ w.req = job[j].req /\ w.at = "record" /\ w.got = s
    BY <1>1 DEF ExecuteJob, Answers
  <2>3. job' = [job EXCEPT ![j] = w]
    BY <1>1, <2>1 DEF GotWith, TypeOK
  <2> HIDE DEF w
  <2> QED BY <1>2, <2>1, <2>2, <2>3
<1>4. CASE CreateRejected(j)
  <2> DEFINE w == [job[j] EXCEPT !.at = "record", !.got = "failure"]
  <2>1. w \in ExecuteJob /\ w.req = job[j].req /\ w.at = "record" /\ w.got = "failure"
    BY <1>1 DEF ExecuteJob, Answers
  <2>2. job' = [job EXCEPT ![j] = w]
    BY <1>1, <1>4 DEF CreateRejected, GotWith, TypeOK
  <2>3. UNCHANGED <<refund, late>> /\ job[j].at = "sent"
    BY <1>4 DEF CreateRejected, At
  <2> HIDE DEF w
  <2> QED BY <1>2, <2>1, <2>2, <2>3
<1>5. CASE CreateConflict(j) \/ CreateUnknown(j)
  <2> DEFINE w == [job[j] EXCEPT !.at = "recover"]
  <2>1. w \in ExecuteJob /\ w.req = job[j].req /\ w.at = "recover" /\ w.got = job[j].got
    BY <1>1 DEF ExecuteJob
  <2>2. job' = [job EXCEPT ![j] = w]
    <3>1. job' = [job EXCEPT ![j].at = "recover"]
      BY <1>5 DEF CreateConflict, CreateUnknown, Goto
    <3> QED BY <1>1, <3>1 DEF TypeOK
  <2> HIDE DEF w
  <2> QED BY <1>2, <2>1, <2>2
<1>6. CASE Recover(j)
  <2>1. PICK g \in Snapshot(job[j].req) \cup {"none"} :
            job' = [job EXCEPT ![j].at = "record", ![j].got = g, ![j].readBack = (g # "none")]
    BY <1>6 DEF Recover
  <2>2. g \in Answers /\ g # "failure" /\ (g = "CANCELLED" => refund[job[j].req] = "CANCELLED")
    BY <1>1, <2>1 DEF Snapshot, Answers, TypeOK, RefundStatus
  <2> DEFINE b == g # "none"
             w == [job[j] EXCEPT !.at = "record", !.got = g, !.readBack = b]
  <2>3. b \in BOOLEAN
    OBVIOUS
  <2> HIDE DEF b
  <2>4. w \in ExecuteJob /\ w.req = job[j].req /\ w.at = "record" /\ w.got = g
    BY <1>1, <2>2, <2>3 DEF ExecuteJob
  <2>5. job' = [job EXCEPT ![j] = w]
    BY <1>1, <2>1 DEF TypeOK, b
  <2> HIDE DEF w
  <2> QED BY <1>2, <2>2, <2>4, <2>5
<1>7. CASE ExecuteRecord(j)
  BY <1>1, <1>7 DEF ExecuteRecord, End, Idle, Moved, Still, TypeOK
<1> QED BY <1>3, <1>4, <1>5, <1>6, <1>7 DEF Execution

LEMMA ReadTurns ==
    ASSUME TypeOK, NEW j \in Jobs, RefreshRead(j) \/ RefreshJudge(j) \/ WebhookRead(j), NEW i \in Jobs
    PROVE  Moved(i)
<1>1. job[j] \in RefreshJob \cup WebhookJob /\ job[j].req \in Requests /\ job[j].op \in {"refresh", "webhook"}
  BY JobKinds DEF RefreshRead, RefreshJudge, Judged, WebhookRead, At, RefreshJob, WebhookJob
<1>2. \A g \in Snapshot(job[j].req) : /\ g \in Answers /\ g # "failure"
                                      /\ g = "CANCELLED" => refund[job[j].req] = "CANCELLED"
                                      /\ g = "none" => refund[job[j].req] = "none"
  BY <1>1 DEF Snapshot, Answers, TypeOK, RefundStatus
<1>3. UNCHANGED <<refund, late>> /\ \A k \in Jobs : k # j => job'[k] = job[k]
  BY ReadChanges DEF RefreshRead, RefreshJudge, Judged, WebhookRead
<1>4. /\ job'[j].op = job[j].op /\ job'[j].req = job[j].req
      /\ job[j].op = "refresh" => job'[j].attempt = job[j].attempt
  BY ReadChanges
<1>5. CASE WebhookRead(j)
  <2>1. PICK g \in Snapshot(job[j].req) : job'[j].got = g /\ job'[j].op = "webhook"
    BY <1>4, <1>5, ReadChanges
  <2>2. Turns(j)
    BY <1>1, <1>2, <1>3, <1>4, <2>1 DEF Turns, Busy, ToldInTime
  <2> QED BY <1>3, <2>2 DEF Moved, Still
<1>6. CASE RefreshRead(j)
  <2>1. job[j] \in RefreshJob /\ job[j].op = "refresh"
    BY <1>1, <1>6, JobKinds DEF RefreshRead, At
  <2>2. PICK g \in Snapshot(job[j].req) : job' = [job EXCEPT ![j].at = "judge", ![j].got = g,
                                   ![j].early = (g = "none" /\ job[j].attempt > graced[job[j].req])]
    BY <1>6 DEF RefreshRead
  <2>3. job'[j].got = g /\ (job'[j].early <=> (g = "none" /\ job[j].attempt > graced[job[j].req]))
    BY <2>1, <2>2 DEF TypeOK, RefreshJob
  <2>4. job[j].attempt \in Int /\ graced[job[j].req] \in Int
    BY <1>1, <2>1, BoundsAssumption DEF TypeOK, RefreshJob
  <2>5. ToldInTime(j)' => refund[job[j].req] = "none" /\ job[j].attempt <= graced[job[j].req]
    BY <1>2, <2>3, <2>4 DEF ToldInTime
  <2>6. Turns(j)
    BY <1>1, <1>2, <1>3, <1>4, <2>1, <2>3, <2>5 DEF Turns, Busy
  <2> QED BY <1>3, <2>6 DEF Moved, Still
<1>7. CASE RefreshJudge(j)
  <2>1. job[j] \in RefreshJob /\ job[j].op = "refresh" /\ job[j].at = "judge" /\ job[j].early \in BOOLEAN
    BY <1>1, <1>7, JobKinds DEF RefreshJudge, Judged, At, RefreshJob
  <2>2. job'[j].at = "record" /\ job'[j].got = IF Unheard(j) THEN "failure" ELSE job[j].got
    BY <2>1, <1>7 DEF RefreshJudge, Judged, GotWith, TypeOK, RefreshJob
  <2>3. job'[j].got = "failure" => job[j].got = "failure" \/ ToldInTime(j) \/ job[j].req \in hasty'
    BY <1>7, <2>1, <2>2 DEF RefreshJudge, Judged, Overtaken, Unheard, ToldInTime
  <2>4. ~ToldInTime(j)'
    BY <2>2 DEF ToldInTime
  <2>5. Turns(j)
    BY <1>1, <1>3, <1>4, <2>1, <2>2, <2>3, <2>4 DEF Turns, Busy
  <2> QED BY <1>3, <2>5 DEF Moved, Still
<1> QED BY <1>5, <1>6, <1>7

LEMMA JobMoves ==
    ASSUME TypeOK, [Next]_vars, NEW i \in Jobs
    PROVE  Moved(i)
<1>1. ASSUME NEW j \in Jobs, End(j) PROVE Moved(i)
  BY <1>1 DEF End, Idle, Moved, Still, TypeOK
<1>2. ASSUME UNCHANGED job PROVE Moved(i)
  BY <1>2 DEF Moved, Still
<1>3. ASSUME NEW j \in Calls, NEW u \in Approvers, NEW r \in Requests, ExecuteStart(j, u, r) PROVE Moved(i)
  <2>1. /\ job'[j] = [op |-> "execute", at |-> "sent", req |-> r, got |-> "none", readBack |-> FALSE]
        /\ \A k \in Jobs : k # j => job'[k] = job[k]
    BY <1>3 DEF ExecuteStart, Begin, TypeOK, Jobs
  <2> QED BY <1>3, <2>1 DEF Moved, Still, ExecuteStarted
<1>4. ASSUME NEW j \in Calls, NEW r \in Requests, RefreshStart(j, r) PROVE Moved(i)
  <2>1. /\ job'[j] = [op |-> "refresh", at |-> "read", req |-> r, attempt |-> req[r].attempts,
                      known |-> req[r].cfRefundId, early |-> FALSE, got |-> "none"]
        /\ \A k \in Jobs : k # j => job'[k] = job[k]
    BY <1>4 DEF RefreshStart, Begin, TypeOK, Jobs
  <2>2. ReadStarted(j)
    BY <1>4, <2>1 DEF ReadStarted, RefreshStart, ledger
  <2> QED BY <2>1, <2>2 DEF Moved, Still
<1>5. ASSUME NEW w \in Workers, NEW r \in Requests, WebhookTake(w, r) PROVE Moved(i)
  <2>1. CASE ~(req[r].status = "APPROVED" /\ req[r].exec = "PROCESSING")
    BY <1>2, <1>5, <2>1 DEF WebhookTake
  <2>2. CASE req[r].status = "APPROVED" /\ req[r].exec = "PROCESSING"
    <3>1. /\ job'[w] = [op |-> "webhook", at |-> "read", req |-> r, got |-> "none"]
          /\ \A k \in Jobs : k # w => job'[k] = job[k]
      BY <1>5, <2>2 DEF WebhookTake, Begin, TypeOK, Jobs
    <3>2. ReadStarted(w)
      BY <1>5, <2>2, <3>1 DEF ReadStarted, WebhookTake, ledger
    <3> QED BY <3>1, <3>2 DEF Moved, Still
  <2> QED BY <2>1, <2>2
<1>6. ASSUME NEW j \in Calls, NEW u \in Approvers, NEW r \in Requests, ApproveStart(j, u, r) PROVE Moved(i)
  BY <1>6 DEF ApproveStart, Begin, Moved, Still, TypeOK, Jobs
<1>7. ASSUME NEW j \in Calls, CancelStart(j) \/ RevertStart(j) PROVE Moved(i)
  BY <1>7 DEF CancelStart, RevertStart, Begin, Moved, Still, TypeOK, Jobs
<1>8. ASSUME NEW j \in Calls, OrderStep(j) PROVE Moved(i)
  BY <1>8, OrderStepKinds DEF Moved, Still
<1>9. CASE UserStep
  BY <1>2, <1>3, <1>4, <1>6, <1>7, <1>9 DEF UserStep, CreateRequest, Reject
<1>10. ASSUME NEW j \in Calls, CallStep(j) PROVE Moved(i)
  BY <1>1, <1>8, <1>10, ExecutionTurns, ReadTurns DEF CallStep, Decide, RefreshRecord, Jobs
<1>11. ASSUME NEW w \in Workers, WorkerStep(w) PROVE Moved(i)
  BY <1>1, <1>5, <1>11, ReadTurns DEF WorkerStep, WebhookRecord, Jobs
<1>12. ASSUME NEW j \in Jobs, Stop(j) PROVE Moved(i)
  BY <1>1, <1>12 DEF Stop
<1>13. ASSUME NEW r \in Requests, LateCreate(r) \/ LateLost(r) \/ Settle(r) \/ GracePasses(r) PROVE Moved(i)
  BY <1>2, <1>13 DEF LateCreate, LateLost, Settle, GracePasses
<1>14. CASE UNCHANGED vars
  BY <1>2, <1>14 DEF vars
<1> QED BY <1>9, <1>10, <1>11, <1>12, <1>13, <1>14 DEF Next

\* What a step does to a row, as far as its attempts are concerned.
Kept(r) ==
    /\ req[r] # Unused /\ req'[r] # Unused
    /\ req'[r].attempts = req[r].attempts
    /\ req[r].exec = "null" => req'[r].exec = "null"
    /\ req'[r].exec = "FAILED" =>
          \/ req[r].exec = "FAILED"
          \/ /\ \E j \in Jobs : /\ job[j].op \in Busy /\ job[j].req = r
                                /\ job[j].got \in {"failure", "CANCELLED"}
             /\ UNCHANGED <<refund, late>>
             /\ \A i \in Jobs : job'[i] = job[i] \/ job'[i] = Idle
Created(r) == req[r] = Unused /\ req'[r] # Unused /\ req'[r].attempts = 0 /\ req'[r].exec = "null"
Executed(r) ==
    /\ req[r].status = "APPROVED" /\ req'[r] # Unused
    /\ req'[r].attempts = req[r].attempts + 1 /\ req'[r].exec = "PROCESSING"
    /\ UNCHANGED <<refund, late, graced>>

LEMMA RowMoves ==
    ASSUME TypeOK, [Next]_vars, NEW r \in Requests
    PROVE  (req'[r] = req[r]) \/ Kept(r) \/ Created(r) \/ Executed(r)
<1> DEFINE Result == (req'[r] = req[r]) \/ Kept(r) \/ Created(r) \/ Executed(r)
<1> SUFFICES Result
  OBVIOUS
<1>1. ASSUME UNCHANGED req PROVE Result
  BY <1>1
<1>2. ASSUME NEW s \in Requests, NEW d \in {"APPROVED", "REJECTED"}, req[s].status = "PENDING",
             req' = [req EXCEPT ![s].status = d]
      PROVE  Result
  <2>1. req[s] \in Request
    BY <1>2, RowKinds
  <2>2. r # s => req'[r] = req[r]
    BY <1>2 DEF TypeOK
  <2>3. r = s => Kept(r)
    BY <1>2, <2>1 DEF Kept, TypeOK, Request, Unused
  <2> QED BY <2>2, <2>3
<1>3. ASSUME NEW u \in Users, NEW p \in Payments, NEW a \in RequestAmounts, NEW k \in Keys \cup {NoKey},
             CreateRequest(u, p, a, k)
      PROVE  Result
  <2>1. PICK s \in Requests :
            /\ req[s] = Unused
            /\ req' = [req EXCEPT ![s] =
                   [status |-> "PENDING", payment |-> p, amount |-> a, by |-> u, key |-> k,
                    exec |-> "null", attempts |-> 0, cfRefundId |-> FALSE, manualCheck |-> FALSE]]
    BY <1>3 DEF CreateRequest
  <2>2. r # s => req'[r] = req[r]
    BY <2>1 DEF TypeOK
  <2>3. r = s => Created(r)
    BY <2>1 DEF Created, TypeOK, Unused
  <2> QED BY <2>2, <2>3
<1>4. ASSUME NEW j \in Calls, NEW u \in Approvers, NEW s \in Requests, ExecuteStart(j, u, s) PROVE Result
  <2>1. req[s] \in Request
    BY <1>4, RowKinds DEF ExecuteStart
  <2>2. r # s => req'[r] = req[r]
    BY <1>4 DEF ExecuteStart, TypeOK
  <2>3. r = s => Executed(r)
    BY <1>4, <2>1 DEF ExecuteStart, Executed, TypeOK, Request, Unused
  <2> QED BY <2>2, <2>3
<1>5. ASSUME NEW j \in Calls, Decide(j) PROVE Result
  <2>1. job[j].req \in Requests
    BY <1>5, JobKinds DEF Decide, At, Jobs, ApproveJob
  <2>2. CASE req' = req
    BY <1>1, <2>2
  <2>3. CASE req[job[j].req].status = "PENDING" /\ req' = [req EXCEPT ![job[j].req].status = "APPROVED"]
    BY <1>2, <2>1, <2>3
  <2> QED BY <1>5, <2>2, <2>3 DEF Decide
<1>6. ASSUME NEW j \in Jobs, ExecuteRecord(j) \/ RefreshRecord(j) \/ WebhookRecord(j) PROVE Result
  <2> DEFINE s == job[j].req
  <2>1. job[j].op \in Busy /\ s \in Requests /\ job[j].got \in Answers
    BY <1>6, JobKinds DEF ExecuteRecord, RefreshRecord, WebhookRecord, At, ExecuteJob, RefreshJob, WebhookJob, Busy
  <2>2. UNCHANGED <<refund, late>> /\ \A i \in Jobs : job'[i] = job[i] \/ job'[i] = Idle
    BY <1>6 DEF ExecuteRecord, RefreshRecord, WebhookRecord, End, TypeOK
  <2>3. PICK complete, only : ApplyRefundOutcome(s, job[j].got, complete, only)
    BY <1>6 DEF ExecuteRecord, RefreshRecord, WebhookRecord
  <2>4. CASE UNCHANGED ledger
    BY <1>1, <2>4 DEF ledger
  <2>5. CASE ~Untouched(s, only) /\ ~UNCHANGED ledger
    <3>1. req[s] \in Request /\ req[s].status = "APPROVED" /\ req[s].exec # "null"
      BY <2>1, <2>5, RowKinds DEF Untouched
    <3>2. r # s => req'[r] = req[r]
      BY <2>1, <2>3, <2>5 DEF ApplyRefundOutcome, TypeOK
    <3>3. CASE job[j].got \in {"failure", "CANCELLED"}
      <4>1. req' = [req EXCEPT ![s].exec = "FAILED", ![s].cfRefundId = @ \/ job[j].got = "CANCELLED",
                               ![s].manualCheck = FALSE]
        BY <2>3, <2>5, <3>3 DEF ApplyRefundOutcome, ledger
      <4>2. req'[s] # Unused /\ req'[s].attempts = req[s].attempts
        BY <2>1, <3>1, <4>1 DEF TypeOK, Request, Unused
      <4> QED BY <2>1, <2>2, <3>1, <3>2, <3>3, <4>2 DEF Kept, Unused
    <3>4. CASE job[j].got \notin {"failure", "CANCELLED"}
      <4>1. \/ req' = [req EXCEPT ![s].exec = "COMPLETED", ![s].cfRefundId = TRUE, ![s].manualCheck = FALSE]
            \/ \E m : req' = [req EXCEPT ![s].cfRefundId = TRUE, ![s].manualCheck = m]
        <5>1. ASSUME req' = [req EXCEPT ![s].cfRefundId = TRUE, ![s].manualCheck =
                               @ \/ (job[j].got \in {"SUCCESS", "SUCCESS_OTHER"} /\ complete)]
              PROVE  \E m : req' = [req EXCEPT ![s].cfRefundId = TRUE, ![s].manualCheck = m]
          BY <5>1
        <5> QED BY <2>3, <2>5, <3>4, <5>1 DEF ApplyRefundOutcome
      <4>2. /\ req'[s] # Unused /\ req'[s].attempts = req[s].attempts
            /\ req'[s].exec \in {req[s].exec, "COMPLETED"}
        <5>1. req[s] \in Request /\ s \in Requests /\ req \in [Requests -> Request \cup {Unused}]
          BY <2>1, <3>1 DEF TypeOK
        <5>2. ASSUME NEW q, req' = [req EXCEPT ![s] = q], q.attempts = req[s].attempts,
                     q.exec \in {req[s].exec, "COMPLETED"}, q # Unused
              PROVE  /\ req'[s] # Unused /\ req'[s].attempts = req[s].attempts
                     /\ req'[s].exec \in {req[s].exec, "COMPLETED"}
          BY <5>1, <5>2
        <5>3. ASSUME NEW m, req' = [req EXCEPT ![s].cfRefundId = TRUE, ![s].manualCheck = m]
              PROVE  req' = [req EXCEPT ![s] = [req[s] EXCEPT !.cfRefundId = TRUE, !.manualCheck = m]]
          BY <5>1, <5>3
        <5>4. ASSUME NEW m
              PROVE  LET q == [req[s] EXCEPT !.cfRefundId = TRUE, !.manualCheck = m] IN
                     q.attempts = req[s].attempts /\ q.exec = req[s].exec /\ q # Unused
          BY <5>1 DEF Request, Unused
        <5>5. LET q == [req[s] EXCEPT !.exec = "COMPLETED", !.cfRefundId = TRUE, !.manualCheck = FALSE] IN
              q.attempts = req[s].attempts /\ q.exec = "COMPLETED" /\ q # Unused
          BY <5>1 DEF Request, Unused
        <5>6. ASSUME req' = [req EXCEPT ![s].exec = "COMPLETED", ![s].cfRefundId = TRUE, ![s].manualCheck = FALSE]
              PROVE  req' = [req EXCEPT ![s] = [req[s] EXCEPT !.exec = "COMPLETED", !.cfRefundId = TRUE,
                                                              !.manualCheck = FALSE]]
          BY <5>1, <5>6
        <5> QED BY <4>1, <5>2, <5>3, <5>4, <5>5, <5>6
      <4> QED BY <3>1, <3>2, <4>2 DEF Kept, Unused
    <3> QED BY <3>3, <3>4
  <2> QED BY <2>3, <2>4, <2>5 DEF ApplyRefundOutcome
<1>7. ASSUME NEW j \in Calls, CallStep(j), ~Decide(j), ~ExecuteRecord(j), ~RefreshRecord(j) PROVE UNCHANGED req
  BY <1>7 DEF CallStep, Execution, OrderStep, CancelRead, CancelWrite, CancelRemember, CancelShopify,
     RevertWrite, RevertRecord, CreateAnswered, CreateRejected, CreateConflict, CreateUnknown, Recover,
     RefreshRead, RefreshJudge, Judged, ledger
<1>8. ASSUME NEW j \in Calls, CallStep(j) PROVE Result
  BY <1>1, <1>5, <1>6, <1>7, <1>8 DEF Jobs
<1>9. ASSUME NEW w \in Workers, WorkerStep(w) PROVE Result
  BY <1>1, <1>6, <1>9 DEF WorkerStep, WebhookRead, WebhookTake, ledger, Jobs
<1>10. ASSUME NEW u \in Approvers, NEW s \in Requests, Reject(u, s) PROVE Result
  BY <1>2, <1>10 DEF Reject
<1>11. CASE UserStep
  BY <1>1, <1>3, <1>4, <1>10, <1>11 DEF UserStep, ApproveStart, RefreshStart, CancelStart, RevertStart, ledger
<1>12. ASSUME NEW j \in Jobs, Stop(j) PROVE UNCHANGED req
  BY <1>12 DEF Stop, ledger
<1>13. ASSUME NEW s \in Requests, LateCreate(s) \/ LateLost(s) \/ Settle(s) \/ GracePasses(s) PROVE UNCHANGED req
  BY <1>13 DEF LateCreate, LateLost, Settle, GracePasses, ledger
<1>14. CASE UNCHANGED vars
  BY <1>1, <1>14 DEF vars
<1> HIDE DEF Result
<1> QED BY <1>1, <1>8, <1>9, <1>11, <1>12, <1>13, <1>14 DEF Next

\* The call of an execution that is under way: answered, given up on or stopped, it
\* leaves "sent".
Calling(j, r) == job[j].op = "execute" /\ job[j].req = r /\ job[j].at = "sent"

\* A refund reaches Cashfree only by a create call: one that a handler makes in this
\* step, or one that was given up on before.
LEMMA OnlyCallsReach ==
    ASSUME TypeOK, [Next]_vars, NEW r \in Requests
    PROVE  /\ refund[r] = "CANCELLED" => refund'[r] = "CANCELLED"
           /\ refund[r] # "none" => refund'[r] # "none"
           /\ refund[r] = "none" /\ r \notin late =>
                 \/ refund'[r] = "none" /\ r \notin late'
                 \/ \E j \in Jobs : Calling(j, r) /\ (job'[j].op = "idle" \/ job'[j].at # "sent")
<1> DEFINE Result ==
       /\ refund[r] = "CANCELLED" => refund'[r] = "CANCELLED"
       /\ refund[r] # "none" => refund'[r] # "none"
       /\ refund[r] = "none" /\ r \notin late =>
             \/ refund'[r] = "none" /\ r \notin late'
             \/ \E j \in Jobs : Calling(j, r) /\ (job'[j].op = "idle" \/ job'[j].at # "sent")
<1> SUFFICES Result
  OBVIOUS
<1>1. ASSUME UNCHANGED <<refund, late>> PROVE Result
  BY <1>1
<1>2. ASSUME NEW j \in Jobs, At(j, "execute", "sent")
      PROVE  job[j] \in ExecuteJob /\ job[j].req \in Requests /\ (job[j].req = r => Calling(j, r))
  BY <1>2, JobKinds DEF At, ExecuteJob, Calling
<1>3. ASSUME NEW j \in Jobs, CreateAnswered(j) PROVE Result
  <2>1. PICK s \in {"PENDING", "SUCCESS", "CANCELLED"} :
            /\ refund' = [refund EXCEPT ![job[j].req] = s] /\ GotWith(j, "record", s)
            /\ refund[job[j].req] # "none" => s = refund[job[j].req]
    <3>1. At(j, "execute", "sent") /\ job[j].req \in Requests
      BY <1>2, <1>3 DEF CreateAnswered
    <3>2. refund[job[j].req] \in {"none", "PENDING", "SUCCESS", "CANCELLED"}
      BY <3>1 DEF TypeOK, RefundStatus
    <3> QED BY <1>3, <3>2 DEF CreateAnswered
  <2>2. job'[j].at = "record"
    BY <1>2, <1>3, <2>1 DEF CreateAnswered, GotWith, TypeOK, ExecuteJob
  <2>3. late' = late
    BY <1>3 DEF CreateAnswered
  <2>4. CASE r = job[j].req
    BY <1>2, <1>3, <2>1, <2>2, <2>4 DEF CreateAnswered, TypeOK
  <2>5. CASE r # job[j].req
    BY <2>1, <2>3, <2>5 DEF TypeOK
  <2> QED BY <2>4, <2>5
<1>4. ASSUME NEW j \in Jobs, CreateUnknown(j) PROVE Result
  <2>1. job'[j].at = "recover" /\ refund' = refund /\ late' = late \cup {job[j].req}
    BY <1>2, <1>4 DEF CreateUnknown, Goto, TypeOK, ExecuteJob
  <2> QED BY <1>2, <1>4, <2>1 DEF CreateUnknown
<1>5. ASSUME NEW j \in Jobs, Stop(j) PROVE Result
  <2>1. job'[j].op = "idle" /\ refund' = refund
    BY <1>5 DEF Stop, End, Idle, TypeOK
  <2> QED BY <1>2, <1>5, <2>1 DEF Stop
<1>6. ASSUME NEW j \in Calls, CallStep(j) PROVE Result
  <2>1. CASE ~CreateAnswered(j) /\ ~CreateUnknown(j)
    BY <1>1, <1>6, <2>1 DEF CallStep, Execution, Decide, OrderStep, CancelRead, CancelWrite, CancelRemember,
       CancelShopify, RevertWrite, RevertRecord, CreateRejected, CreateConflict, Recover, ExecuteRecord,
       RefreshRead, RefreshJudge, Judged, RefreshRecord
  <2> QED BY <1>3, <1>4, <2>1 DEF Jobs
<1>7. ASSUME NEW w \in Workers, WorkerStep(w) PROVE Result
  BY <1>1, <1>7 DEF WorkerStep, WebhookRead, WebhookTake, WebhookRecord
<1>8. CASE UserStep
  BY <1>1, <1>8 DEF UserStep, CreateRequest, Reject, ApproveStart, ExecuteStart, RefreshStart, CancelStart, RevertStart
<1>9. ASSUME NEW s \in Requests, LateCreate(s) \/ LateLost(s) \/ Settle(s) \/ GracePasses(s) PROVE Result
  BY <1>9 DEF LateCreate, LateLost, Settle, GracePasses, TypeOK
<1>10. CASE UNCHANGED vars
  BY <1>1, <1>10 DEF vars
<1> HIDE DEF Result
<1> QED BY <1>5, <1>6, <1>7, <1>8, <1>9, <1>10 DEF Next

\* A grace period ends in a step of its own, when no call of the execution is under way.
LEMMA GraceMoves ==
    ASSUME TypeOK, GraceCoversCalls, [Next]_vars, NEW r \in Requests
    PROVE  \/ graced'[r] = graced[r]
           \/ /\ UNCHANGED <<refund, late, job, req>> /\ req[r] # Unused
              /\ graced'[r] <= req[r].attempts
              /\ r \notin late /\ \A j \in Jobs : job[j].op = "execute" => job[j].req # r
<1> DEFINE Result ==
      \/ graced'[r] = graced[r]
      \/ /\ UNCHANGED <<refund, late, job, req>> /\ req[r] # Unused
         /\ graced'[r] <= req[r].attempts
         /\ r \notin late /\ \A j \in Jobs : job[j].op = "execute" => job[j].req # r
<1> SUFFICES Result
  OBVIOUS
<1>0. ASSUME UNCHANGED graced PROVE Result
  BY <1>0
<1>1. ASSUME NEW j \in Calls, CallStep(j) PROVE UNCHANGED graced
  BY <1>1 DEF CallStep, Execution, Decide, OrderStep, CancelRead, CancelWrite, CancelRemember,
     CancelShopify, RevertWrite, RevertRecord, CreateAnswered, CreateRejected, CreateConflict, CreateUnknown,
     Recover, ExecuteRecord, RefreshRead, RefreshJudge, Judged, RefreshRecord
<1>2. ASSUME NEW w \in Workers, WorkerStep(w) PROVE UNCHANGED graced
  BY <1>2 DEF WorkerStep, WebhookRead, WebhookTake, WebhookRecord
<1>3. ASSUME UserStep PROVE UNCHANGED graced
  BY <1>3 DEF UserStep, CreateRequest, Reject, ApproveStart, ExecuteStart, RefreshStart, CancelStart, RevertStart
<1>4. ASSUME NEW j \in Jobs, Stop(j) PROVE UNCHANGED graced
  BY <1>4 DEF Stop
<1>5. ASSUME NEW s \in Requests, LateCreate(s) \/ LateLost(s) \/ Settle(s) PROVE UNCHANGED graced
  BY <1>5 DEF LateCreate, LateLost, Settle
<1>6. ASSUME NEW s \in Requests, GracePasses(s) PROVE Result
  <2>1. r # s => graced'[r] = graced[r]
    BY <1>6 DEF GracePasses, TypeOK
  <2>2. req[s].attempts \in Nat /\ graced[s] \in Nat
    BY <1>6, RowKinds, BoundsAssumption DEF GracePasses, TypeOK, Request
  <2>3. graced'[s] = graced[s] + 1 /\ graced'[s] <= req[s].attempts
    BY <1>6, <2>2 DEF GracePasses, TypeOK
  <2> QED BY <1>6, <2>1, <2>3 DEF GracePasses, ledger
<1>7. ASSUME UNCHANGED vars PROVE UNCHANGED graced
  BY <1>7 DEF vars
<1> HIDE DEF Result
<1> QED BY <1>0, <1>1, <1>2, <1>3, <1>4, <1>5, <1>6, <1>7 DEF Next

\* Only an execution of r makes a new call for it.
LEMMA OldCalls ==
    ASSUME TypeOK, [Next]_vars, NEW r \in Requests, req[r] \in Request,
           req'[r].attempts = req[r].attempts, NEW j \in Jobs, job'[j].op = "execute", job'[j].req = r
    PROVE  job[j].op = "execute" /\ job[j].req = r /\ (job'[j].at = "sent" => job'[j] = job[j])
<1>1. CASE Still(j)
  BY <1>1 DEF Still
<1>2. CASE Turns(j)
  BY <1>2 DEF Turns
<1>3. CASE ExecuteStarted(j)
  <2>1. PICK u \in Approvers, s \in Requests : ExecuteStart(j, u, s) /\ job'[j].req = s
    BY <1>3 DEF ExecuteStarted
  <2>2. req'[r].attempts = req[r].attempts + 1
    BY <2>1 DEF ExecuteStart, TypeOK, Request
  <2>3. req[r].attempts \in Nat
    BY BoundsAssumption DEF Request
  <2> QED BY <2>2, <2>3
<1>4. CASE ReadStarted(j)
  BY <1>4 DEF ReadStarted
<1> QED BY <1>1, <1>2, <1>3, <1>4, JobMoves DEF Moved

\* Until it is executed again, a refund that is over stays over.
LEMMA OverStays ==
    ASSUME TypeOK, [Next]_vars, NEW r \in Requests, req[r] \in Request,
           req'[r].attempts = req[r].attempts, Over(r)
    PROVE  Over(r)'
<1>1. CASE refund[r] = "CANCELLED"
  BY <1>1, OnlyCallsReach DEF Over
<1>2. CASE refund[r] # "CANCELLED"
  <2>1. refund'[r] = "none" /\ r \notin late'
    BY <1>2, OnlyCallsReach DEF Over, Calling
  <2>2. ASSUME NEW j \in Jobs, job'[j].op = "execute", job'[j].req = r PROVE job'[j].at # "sent"
    BY <1>2, <2>2, OldCalls DEF Over
  <2> QED BY <2>1, <2>2 DEF Over
<1> QED BY <1>1, <1>2

LEMMA CountedStep ==
    ASSUME TypeOK, GraceCoversCalls, Counted, [Next]_vars
    PROVE  Counted'
<1> SUFFICES ASSUME NEW r \in Requests
             PROVE  IF req'[r] = Unused THEN graced'[r] = 0
                    ELSE graced'[r] <= req'[r].attempts /\ (req'[r].attempts = 0 => req'[r].exec = "null")
  BY DEF Counted
<1>1. graced[r] \in Nat /\ graced'[r] \in Nat
  BY TypeStep, BoundsAssumption DEF TypeOK
<1>2. req[r] # Unused => req[r].attempts \in Nat
  BY RowKinds, BoundsAssumption DEF Request
<1>3. IF req[r] = Unused THEN graced[r] = 0
      ELSE graced[r] <= req[r].attempts /\ (req[r].attempts = 0 => req[r].exec = "null")
  BY DEF Counted
<1>4. CASE graced'[r] # graced[r]
  BY <1>1, <1>2, <1>3, <1>4, GraceMoves
<1>5. CASE graced'[r] = graced[r]
  <2>1. CASE req'[r] = req[r]
    BY <1>3, <1>5, <2>1
  <2>2. CASE Kept(r)
    BY <1>2, <1>3, <1>5, <2>2 DEF Kept
  <2>3. CASE Created(r)
    BY <1>3, <1>5, <2>3 DEF Created
  <2>4. CASE Executed(r)
    <3>1. req[r] # Unused
      BY <2>4 DEF Executed, Unused
    <3> QED BY <1>1, <1>2, <1>3, <1>5, <2>4, <3>1 DEF Executed
  <2> QED BY <2>1, <2>2, <2>3, <2>4, RowMoves
<1> QED BY <1>4, <1>5

LEMMA ActsStep ==
    ASSUME Inv, Counted, \A j \in Jobs : Acts(j), [Next]_vars, NEW i \in Jobs
    PROVE  Acts(i)'
<1> USE DEF Inv
<1>1. job[i].op \in Busy => job[i].req \in Requests
  BY BusyJobs
<1>2. Acts(i)
  OBVIOUS
<1>3. CASE Still(i)
  BY <1>1, <1>2, <1>3, SentStays, OnlyCallsReach DEF Still, Acts, Busy
<1>4. CASE Turns(i)
  <2>1. Sent(job[i].req) /\ Sent(job[i].req)' /\ job'[i].req = job[i].req
    <3>1. job[i].req \in Requests /\ Sent(job[i].req)
      BY <1>1, <1>2, <1>4 DEF Turns, Acts
    <3>2. \A s \in Requests : Sent(s) => Sent(s)'
      BY SentStays
    <3>3. \A s \in Requests : s = job[i].req => Sent(s)'
      BY <3>1, <3>2
    <3>4. job'[i].req = job[i].req
      BY <1>4 DEF Turns
    <3> QED BY <3>1, <3>3, <3>4 DEF Sent
  <2>2. job[i].got = "CANCELLED" => refund[job[i].req] = "CANCELLED"
    BY <1>2, <1>4 DEF Turns, Acts
  <2>3. job'[i].got = "CANCELLED" => refund'[job[i].req] = "CANCELLED"
    BY <1>1, <1>4, <2>2, OnlyCallsReach DEF Turns
  <2>4. job'[i].op = "refresh" => job'[i].attempt >= 1
    BY <1>2, <1>4 DEF Turns, Acts
  <2> QED BY <2>1, <2>3, <2>4 DEF Acts
<1>5. CASE ExecuteStarted(i)
  <2>1. Knows(i)'
    BY JobsKnowStep DEF JobsKnow
  <2>2. job'[i].op = "execute" /\ job'[i].got = "none"
    BY <1>5, NewCall
  <2> QED BY <2>1, <2>2 DEF Knows, Acts
<1>6. CASE ReadStarted(i)
  <2>1. PICK r \in Requests :
            /\ req[r].status = "APPROVED" /\ req[r].exec = "PROCESSING"
            /\ UNCHANGED req /\ job'[i].op \in {"refresh", "webhook"} /\ job'[i].req = r /\ job'[i].got = "none"
            /\ job'[i].op = "refresh" => job'[i].attempt = req[r].attempts
    BY <1>6 DEF ReadStarted
  <2>2. req[r] # Unused /\ req[r].attempts \in Nat
    BY <2>1, RowKinds, BoundsAssumption DEF Request, Unused
  <2>3. req[r].attempts >= 1
    BY <2>1, <2>2 DEF Counted
  <2> QED BY <2>1, <2>3 DEF Acts, Sent
<1> QED BY <1>3, <1>4, <1>5, <1>6, JobMoves DEF Moved

\* A first execution starts from nothing: no handler, call, refund or grace period.
LEMMA FirstsStart ==
    ASSUME Inv, Counted, \A j \in Jobs : Acts(j), [Next]_vars, NEW r \in Requests,
           Executed(r), req'[r].attempts = 1
    PROVE  OneCall(r)' /\ GivenUp(r)'
<1> USE DEF Inv
<1>1. req[r] # Unused /\ req[r].attempts \in Nat
  BY RowKinds, BoundsAssumption DEF Executed, Request, Unused
<1>2. req[r].attempts = 0
  BY <1>1 DEF Executed
<1>3. req[r].exec = "null" /\ graced[r] = 0
  BY <1>1, <1>2, BoundsAssumption DEF Counted, TypeOK
<1>4. refund'[r] = "none" /\ r \notin late' /\ graced'[r] = 0
  BY <1>3 DEF RefundedAsApproved, Executed
<1>5. \A j \in Jobs : ~(job[j].op \in Busy /\ job[j].req = r)
  BY <1>3 DEF Acts, Sent
<1>6. ASSUME NEW j \in Jobs, job'[j].op \in Busy, job'[j].req = r PROVE ExecuteStarted(j)
  BY <1>3, <1>5, <1>6, JobMoves DEF Moved, Still, Turns, ReadStarted, Busy
<1>7. ASSUME NEW j \in Jobs, NEW i \in Jobs, job'[j].op = "execute", job'[j].req = r,
             job'[i].op = "execute", job'[i].req = r
      PROVE  i = j
  BY <1>5, <1>6, <1>7 DEF ExecuteStarted, Busy
<1>8. OneCall(r)'
  BY <1>4, <1>7 DEF OneCall
<1>9. \A j \in Jobs : job'[j].op \in Busy /\ job'[j].req = r => job'[j].got # "failure"
  BY <1>6, NewCall
<1>10. req'[r].exec = "PROCESSING"
  BY DEF Executed
<1>11. \A j \in Jobs : job'[j].req = r => ~ToldInTime(j)'
  BY <1>6, NewCall DEF ToldInTime, Busy
<1> QED BY <1>4, <1>8, <1>9, <1>10, <1>11 DEF GivenUp

\* What was given up hastily is not forgotten.
LEMMA HastyStays == [Next]_vars => hasty \subseteq hasty'
<1>1. ASSUME NEW j \in Calls, CallStep(j) PROVE hasty \subseteq hasty'
  BY <1>1 DEF CallStep, Execution, Decide, OrderStep, CancelRead, CancelWrite, CancelRemember,
     CancelShopify, RevertWrite, RevertRecord, CreateAnswered, CreateRejected, CreateConflict, CreateUnknown,
     Recover, ExecuteRecord, RefreshRead, RefreshJudge, Judged, RefreshRecord
<1>2. ASSUME NEW w \in Workers, WorkerStep(w) PROVE hasty' = hasty
  BY <1>2 DEF WorkerStep, WebhookRead, WebhookTake, WebhookRecord
<1>3. ASSUME UserStep PROVE hasty' = hasty
  BY <1>3 DEF UserStep, CreateRequest, Reject, ApproveStart, ExecuteStart, RefreshStart, CancelStart, RevertStart
<1>4. ASSUME NEW j \in Jobs, Stop(j) PROVE hasty' = hasty
  BY <1>4 DEF Stop
<1>5. ASSUME NEW s \in Requests, LateCreate(s) \/ LateLost(s) \/ Settle(s) \/ GracePasses(s) PROVE hasty' = hasty
  BY <1>5 DEF LateCreate, LateLost, Settle, GracePasses
<1>6. ASSUME UNCHANGED vars PROVE hasty' = hasty
  BY <1>6 DEF vars
<1> QED BY <1>1, <1>2, <1>3, <1>4, <1>5, <1>6 DEF Next

\* While it is the only execution, its call and what is known of it stay true.
LEMMA FirstsGoOn ==
    ASSUME Inv, GraceCoversCalls, \A j \in Jobs : Acts(j), [Next]_vars, NEW r \in Requests,
           req[r] \in Request, req[r].attempts = 1, OneCall(r), GivenUp(r),
           req'[r] = req[r] \/ Kept(r)
    PROVE  OneCall(r)' /\ GivenUp(r)'
<1> USE DEF Inv
<1>1. req'[r].attempts = req[r].attempts
  BY DEF Kept
<1>2. Over(r) => Over(r)'
  BY <1>1, OverStays
<1>3. OneCall(r)'
  <2> SUFFICES ASSUME NEW j \in Jobs, job'[j].op = "execute", job'[j].req = r
               PROVE  /\ \A i \in Jobs : job'[i].op = "execute" /\ job'[i].req = r => i = j
                      /\ job'[j].at = "sent" => refund'[r] = "none" /\ r \notin late'
    BY DEF OneCall
  <2>1. job[j].op = "execute" /\ job[j].req = r /\ (job'[j].at = "sent" => job'[j] = job[j])
    BY <1>1, OldCalls
  <2>2. \A i \in Jobs : job[i].op = "execute" /\ job[i].req = r => i = j
    BY <2>1 DEF OneCall
  <2>3. \A i \in Jobs : job'[i].op = "execute" /\ job'[i].req = r => i = j
    BY <1>1, <2>2, OldCalls
  <2>4. ASSUME job'[j].at = "sent" PROVE refund'[r] = "none" /\ r \notin late'
    <3>1. refund[r] = "none" /\ r \notin late
      BY <2>1, <2>4 DEF OneCall
    <3>2. ~(\E i \in Jobs : Calling(i, r) /\ (job'[i].op = "idle" \/ job'[i].at # "sent"))
      BY <2>1, <2>2, <2>4 DEF Calling
    <3> QED BY <3>1, <3>2, OnlyCallsReach
  <2> QED BY <2>3, <2>4
<1>4. graced'[r] >= 1 => refund'[r] # "none" \/ Over(r)'
  <2>1. CASE graced'[r] = graced[r]
    BY <1>2, <2>1, OnlyCallsReach DEF GivenUp
  <2>2. CASE UNCHANGED <<refund, late, job, req>> /\ r \notin late
             /\ \A j \in Jobs : job[j].op = "execute" => job[j].req # r
    BY <2>2 DEF Over
  <2> QED BY <2>1, <2>2, GraceMoves
<1>5. hasty \subseteq hasty'
  BY HastyStays
<1>6. ASSUME NEW j \in Jobs, job'[j].op \in Busy, job'[j].req = r, job'[j].got = "failure"
      PROVE  Over(r)' \/ r \in hasty'
  <2>1. CASE Still(j)
    BY <1>2, <1>5, <1>6, <2>1 DEF Still, Busy, GivenUp
  <2>2. CASE Turns(j)
    <3>1. job[j].op \in Busy /\ job[j].req = r
      BY <1>6, <2>2 DEF Turns
    <3>2. CASE job[j].got = "failure"
      BY <1>2, <1>5, <3>1, <3>2 DEF GivenUp
    <3>3. CASE UNCHANGED <<refund, late>> /\ job[j].op = "execute" /\ job[j].at = "sent"
      <4>1. refund'[r] = "none" /\ r \notin late'
        BY <3>1, <3>3 DEF OneCall
      <4>2. ASSUME NEW i \in Jobs, job'[i].op = "execute", job'[i].req = r PROVE job'[i].at # "sent"
        <5>1. i = j
          BY <1>1, <3>1, <3>3, <4>2, OldCalls DEF OneCall
        <5> QED BY <2>2, <3>3, <5>1 DEF Turns
      <4> QED BY <4>1, <4>2 DEF Over
    <3>4. CASE ToldInTime(j)
      BY <1>2, <3>1, <3>4 DEF GivenUp
    <3>5. CASE job[j].req \in hasty'
      BY <3>1, <3>5
    <3> QED BY <1>6, <2>2, <3>1, <3>2, <3>3, <3>4, <3>5 DEF Turns
  <2>3. CASE ExecuteStarted(j) \/ ReadStarted(j)
    BY <1>6, <2>3, NewCall DEF ReadStarted
  <2> QED BY <2>1, <2>2, <2>3, JobMoves DEF Moved
<1>7. ASSUME NEW j \in Jobs, job'[j].req = r, ToldInTime(j)' PROVE Over(r)'
  <2>1. CASE Still(j)
    <3>1. job'[j] = job[j]
      BY <1>7, <2>1 DEF Still, ToldInTime
    <3>2. ToldInTime(j) /\ job[j].req = r
      BY <1>7, <3>1 DEF ToldInTime
    <3> QED BY <1>2, <3>2 DEF GivenUp
  <2>2. CASE Turns(j)
    <3>1. /\ job[j].op \in Busy /\ job[j].req = r /\ job[j].op = "refresh"
          /\ refund[r] = "none" /\ job[j].attempt <= graced[r]
      BY <1>7, <2>2 DEF Turns, ToldInTime
    <3>2. job[j].attempt >= 1 /\ job[j].attempt \in Nat /\ graced[r] \in Nat
      <4>1. job[j] \in RefreshJob
        BY <3>1, JobKinds
      <4> QED BY <3>1, <4>1, BoundsAssumption DEF Acts, RefreshJob, TypeOK, Busy
    <3> QED BY <1>2, <3>1, <3>2 DEF GivenUp
  <2>3. CASE ExecuteStarted(j) \/ ReadStarted(j)
    BY <1>7, <2>3, NewCall DEF ReadStarted, ToldInTime
  <2> QED BY <2>1, <2>2, <2>3, JobMoves DEF Moved
<1>8. req'[r].exec = "FAILED" => Over(r)' \/ r \in hasty'
  <2> SUFFICES ASSUME req'[r].exec = "FAILED" PROVE Over(r) \/ r \in hasty
    BY <1>2, <1>5
  <2>1. CASE req[r].exec = "FAILED"
    BY <2>1 DEF GivenUp
  <2>2. ASSUME NEW j \in Jobs, job[j].op \in Busy, job[j].req = r, job[j].got \in {"failure", "CANCELLED"}
        PROVE  Over(r) \/ r \in hasty
    BY <2>2 DEF GivenUp, Acts, Over
  <2> QED BY <2>1, <2>2 DEF Kept
<1> QED BY <1>3, <1>4, <1>6, <1>7, <1>8 DEF GivenUp

LEMMA FirstStep == Inv /\ GraceCoversCalls /\ FirstInv /\ [Next]_vars => FirstInv'
<1> SUFFICES ASSUME Inv, GraceCoversCalls, FirstInv, [Next]_vars PROVE FirstInv'
  OBVIOUS
<1> USE DEF FirstInv
<1>1. Counted'
  BY CountedStep DEF Inv
<1>2. \A j \in Jobs : Acts(j)'
  BY ActsStep
<1>3. ASSUME NEW r \in Requests, req'[r] # Unused, req'[r].attempts = 1 PROVE OneCall(r)' /\ GivenUp(r)'
  <2>1. CASE Executed(r)
    BY <1>3, <2>1, FirstsStart
  <2>2. CASE req'[r] = req[r] \/ Kept(r)
    <3>1. req[r] # Unused /\ req[r].attempts = 1
      BY <1>3, <2>2 DEF Kept
    <3>2. req[r] \in Request /\ OneCall(r) /\ GivenUp(r)
      BY <3>1, RowKinds DEF Inv, Firsts
    <3> QED BY <2>2, <3>1, <3>2, FirstsGoOn
  <2>3. CASE Created(r)
    BY <1>3, <2>3 DEF Created
  <2> QED BY <2>1, <2>2, <2>3, RowMoves DEF Inv
<1>4. Firsts'
  BY <1>3 DEF Firsts
<1> QED BY <1>1, <1>2, <1>4

\* The first execution that is given up as FAILED was not paid and will not be
\* (FirstFailureWasNotPaid), whatever repeats, refreshes, webhooks and late calls do, if no
\* create call outlasts the grace period; excepted is a request given up on an answer which
\* the end of that period overtook.
THEOREM FirstFailuresUnpaid ==
    ASSUME GraceCoversCalls
    PROVE  Spec => []FirstFailureWasNotPaid
<1>1. Init => FirstInv
  BY DEF Init, FirstInv, Counted, Acts, Firsts, Idle, Busy, Unused
<1>2. Inv /\ FirstInv /\ [Next]_vars => FirstInv'
  BY FirstStep
<1>3. FirstInv => FirstFailureWasNotPaid
  BY DEF FirstInv, Firsts, GivenUp, Over, FirstFailureWasNotPaid, Unused
<1> QED BY <1>1, <1>2, <1>3, InvAlways, PTL DEF Spec
================================================================================
