-------------------------- MODULE RefundLedgerProofs ---------------------------
(* Refunds implements RefundLedger, for every value of their constants. *)
EXTENDS RefundsProofs

--------------------------------------------------------------------------------
(* The mapping *)

\* What a row of the RefundRequest table is in the ledger.
StageOf(row) ==
    CASE row.status = "PENDING" -> "asked"
      [] row.status = "REJECTED" -> "refused"
      [] row.status = "APPROVED" /\ row.exec = "null" -> "approved"
      [] row.status = "APPROVED" /\ row.exec = "COMPLETED" -> "booked"
      [] OTHER -> "sent"
Claimed(row) == IF row = Unused THEN [stage |-> "none"]
                ELSE [stage |-> StageOf(row), payment |-> row.payment, amount |-> row.amount]

claims == [r \in Requests |-> ClaimOf(r)]
unclaimed == [p \in Payments |-> Amount[p] - Total(p, Live)]
booked == [p \in Payments |-> payment[p].refunded]

LEMMA ClaimsOfRows == \A r \in Requests : claims[r] = Claimed(req[r]) /\ claims'[r] = Claimed(req'[r])
BY DEF claims, ClaimOf, Claimed, Stage, StageOf

\* One row that changes changes one claim.
LEMMA OneClaimChanges ==
    ASSUME TypeOK, NEW r \in Requests, NEW q, req' = [req EXCEPT ![r] = q]
    PROVE  claims' = [claims EXCEPT ![r] = Claimed(q)]
<1>1. req'[r] = q /\ \A i \in Requests : i # r => req'[i] = req[i]
  BY DEF TypeOK
<1>2. ASSUME NEW i \in Requests PROVE claims'[i] = [claims EXCEPT ![r] = Claimed(q)][i]
  BY <1>1, ClaimsOfRows DEF claims
<1>3. claims' = [i \in Requests |-> claims'[i]] /\ claims = [i \in Requests |-> claims[i]]
  BY DEF claims
<1> QED BY <1>2, <1>3

LEMMA UnclaimedValues ==
    ASSUME NEW p \in Payments
    PROVE  unclaimed[p] = Amount[p] - Total(p, Live) /\ unclaimed'[p] = Amount[p] - Total(p, Live)'
BY DEF unclaimed

--------------------------------------------------------------------------------
(* What a step does to the claims on a payment *)

\* Row r is live after the step and was not before.
LEMMA LiveGains ==
    ASSUME TypeOK, TypeOK', NEW r \in Requests, NEW p, r \notin Live, r \in Live',
           \A i \in Requests : i # r => req'[i] = req[i]
    PROVE  Total(p, Live)' = Total(p, Live) + (IF req'[r].payment = p THEN req'[r].amount ELSE 0)
<1>1. req'[r] # Unused /\ \A i \in Requests : i \in Live => req[i] # Unused
  BY DEF Live, Unused
<1>2. \A i \in Requests : i # r => (i \in Live' <=> i \in Live)
  BY DEF Live
<1>3. RowChange(req, req', Live, Live', r)
  BY <1>1, <1>2 DEF RowChange, TypeOK
<1>4. Sum(RowsOf(req', p, Live'), MaxRequests) = Sum(RowsOf(req, p, Live), MaxRequests) + Added(req', p, Live', r)
  BY <1>3, SumOfChangedRow
<1> QED BY <1>4 DEF Total, Rows, RowsOf, Added

\* Row r was live before the step and is not after it.
LEMMA LiveLoses ==
    ASSUME TypeOK, TypeOK', NEW r \in Requests, NEW p, r \in Live, r \notin Live',
           \A i \in Requests : i # r => req'[i] = req[i]
    PROVE  Total(p, Live) = Total(p, Live)' + (IF req[r].payment = p THEN req[r].amount ELSE 0)
<1>1. req[r] # Unused /\ \A i \in Requests : i \in Live' => req'[i] # Unused
  BY DEF Live, Unused
<1>2. \A i \in Requests : i # r => (i \in Live' <=> i \in Live)
  BY DEF Live
<1>3. RowChange(req', req, Live', Live, r)
  BY <1>1, <1>2 DEF RowChange, TypeOK
<1>4. Sum(RowsOf(req, p, Live), MaxRequests) = Sum(RowsOf(req', p, Live'), MaxRequests) + Added(req, p, Live, r)
  BY <1>3, SumOfChangedRow
<1> QED BY <1>4 DEF Total, Rows, RowsOf, Added

\* The same rows are live, for the same amounts.
LEMMA LiveStays ==
    ASSUME \A i \in Requests : i \in Live' <=> i \in Live,
           \A i \in Requests : i \in Live => req'[i].amount = req[i].amount /\ req'[i].payment = req[i].payment
    PROVE  unclaimed' = unclaimed
<1>1. ASSUME NEW p PROVE Total(p, Live)' = Total(p, Live)
  <2>1. RowsOf(req', p, Live') = RowsOf(req, p, Live)
    BY DEF RowsOf
  <2> QED BY <2>1 DEF Total, Rows, RowsOf
<1> QED BY <1>1 DEF unclaimed

--------------------------------------------------------------------------------
(* What a step does at Cashfree *)

\* Cashfree comes to hold the refund of request r, or settles it.
Reaches(r, s) ==
    /\ \/ refund[r] = "none" /\ s \in {"PENDING", "SUCCESS"}
       \/ refund[r] = "PENDING" /\ s \in {"SUCCESS", "CANCELLED"}
    /\ refund' = [refund EXCEPT ![r] = s]
    /\ UNCHANGED ledger

\* A step changes one refund at Cashfree, and then nothing in the ledger, or none.
LEMMA BankKinds ==
    ASSUME TypeOK, [Next]_vars
    PROVE  refund' = refund \/ \E r \in Requests : \E s : Reaches(r, s)
<1> DEFINE Result == refund' = refund \/ \E r \in Requests : \E s : Reaches(r, s)
<1>1. ASSUME NEW j \in Calls, CreateAnswered(j) PROVE Result
  <2>1. job[j].req \in Requests
    BY <1>1, JobKinds DEF CreateAnswered, At, Jobs, ExecuteJob
  <2>2. PICK s \in (IF refund[job[j].req] = "none" THEN {"PENDING", "SUCCESS"} ELSE {refund[job[j].req]}) :
            refund' = [refund EXCEPT ![job[j].req] = s]
    BY <1>1 DEF CreateAnswered
  <2>3. CASE refund[job[j].req] = "none"
    <3>1. Reaches(job[j].req, s)
      BY <1>1, <2>2, <2>3 DEF CreateAnswered, Reaches
    <3> QED BY <2>1, <3>1
  <2>4. CASE refund[job[j].req] # "none"
    BY <2>1, <2>2, <2>4 DEF TypeOK
  <2> QED BY <2>3, <2>4
<1>2. ASSUME NEW j \in Calls, CallStep(j), ~CreateAnswered(j) PROVE refund' = refund
  BY <1>2 DEF CallStep, Execution, Decide, OrderStep, CancelRead, CancelWrite, CancelRemember, CancelShopify,
     RevertWrite, RevertRecord, CreateRejected, CreateConflict, CreateUnknown, Recover, ExecuteRecord,
     RefreshRead, RefreshJudge, Judged, RefreshRecord
<1>3. ASSUME NEW w \in Workers, WorkerStep(w) PROVE refund' = refund
  BY <1>3 DEF WorkerStep, WebhookRead, WebhookTake, WebhookRecord
<1>4. CASE UserStep
  BY <1>4 DEF UserStep, CreateRequest, Reject, ApproveStart, ExecuteStart, RefreshStart, CancelStart, RevertStart
<1>5. ASSUME NEW r \in Requests, LateCreate(r) PROVE Result
  <2>1. CASE refund[r] = "none"
    <3>1. Reaches(r, "PENDING")
      BY <1>5, <2>1 DEF LateCreate, Reaches, TypeOK
    <3> QED BY <3>1
  <2>2. CASE refund[r] # "none"
    BY <1>5, <2>2 DEF LateCreate, TypeOK
  <2> QED BY <2>1, <2>2
<1>6. ASSUME NEW r \in Requests, Settle(r) PROVE Result
  <2>1. PICK s \in {"SUCCESS", "CANCELLED"} : refund' = [refund EXCEPT ![r] = s]
    BY <1>6 DEF Settle
  <2>2. Reaches(r, s)
    BY <1>6, <2>1 DEF Settle, Reaches
  <2> QED BY <2>2
<1>7. ASSUME NEW r \in Requests, LateLost(r) \/ GracePasses(r) PROVE refund' = refund
  BY <1>7 DEF LateLost, GracePasses
<1>8. ASSUME NEW j \in Jobs, Stop(j) PROVE refund' = refund
  BY <1>8 DEF Stop
<1>9. CASE UNCHANGED vars
  BY <1>9 DEF vars
<1> HIDE DEF Result
<1> QED BY <1>1, <1>2, <1>3, <1>4, <1>5, <1>6, <1>7, <1>8, <1>9 DEF Next, Result

--------------------------------------------------------------------------------
(* Every step is one of the ledger's, or none *)

\* What one step of RefundLedger is under the mapping.
Advances(r, from, to) ==
    /\ claims[r].stage = from
    /\ claims' = [claims EXCEPT ![r] = [stage |-> to, payment |-> @.payment, amount |-> @.amount]]

LEMMA LedgerVars ==
    ASSUME claims' = claims, unclaimed' = unclaimed, booked' = booked, refund' = refund
    PROVE  UNCHANGED Ledger!vars
BY DEF Ledger!vars, claims, unclaimed, booked

LEMMA Advancing ==
    ASSUME NEW r, NEW from, NEW to, Advances(r, from, to)
    PROVE  Ledger!Advance(r, from, to)
BY DEF Advances, Ledger!Advance, claims

\* A refund that reaches Cashfree, or that it settles, was sent and is not booked.
LEMMA ReachesIsPay ==
    ASSUME Inv, [Next]_vars, NEW r \in Requests, NEW s, Reaches(r, s)
    PROVE  Ledger!Pay(r)
<1> USE DEF Inv
<1>1. refund[r] # "SUCCESS" /\ refund'[r] # "none"
  BY DEF Reaches, TypeOK
<1>2. Sent(r)
  BY <1>1, OnlySentReaches
<1>3. req[r].exec # "COMPLETED"
  BY <1>1, <1>2 DEF RefundedAsApproved, Sent
<1>4. claims[r].stage = "sent"
  <2>1. req[r] # Unused
    BY <1>2 DEF Sent, Unused
  <2>2. StageOf(req[r]) = "sent"
    BY <1>2, <1>3 DEF StageOf, Sent
  <2>3. claims[r] = Claimed(req[r])
    BY ClaimsOfRows
  <2> QED BY <2>1, <2>2, <2>3 DEF Claimed
<1>5. claims' = claims /\ unclaimed' = unclaimed /\ booked' = booked
  BY DEF Reaches, ledger, claims, ClaimOf, Stage, unclaimed, Total, Rows, Live, booked
<1> QED BY <1>4, <1>5 DEF Reaches, Ledger!Pay, claims, unclaimed, booked

\* A new request claims what it asks for from what is unclaimed.
LEMMA AsksIsAsk ==
    ASSUME Inv, TypeOK', refund' = refund, NEW r \in Requests, NEW q, Asks(r, q)
    PROVE  Ledger!Ask(r, q.payment, q.amount)
<1> USE DEF Inv
<1>1. /\ q \in Request /\ q.status = "PENDING" /\ req[r] = Unused
      /\ req' = [req EXCEPT ![r] = q] /\ payment' = payment
      /\ q.amount <= Refundable(q.payment)
  BY DEF Asks
<1>2. q # Unused /\ q.payment \in Payments /\ q.amount \in Nat
  <2>1. q # Unused
    BY <1>1 DEF Unused
  <2>2. q.payment \in Payments /\ q.amount \in RequestAmounts
    BY <1>1 DEF Request
  <2> QED BY <2>1, <2>2, RequestAmountsAssumption
<1>3. req'[r] = q /\ \A i \in Requests : i # r => req'[i] = req[i]
  BY <1>1 DEF TypeOK
<1>4. claims[r] = [stage |-> "none"]
  <2>1. claims[r] = Claimed(req[r])
    BY ClaimsOfRows
  <2> QED BY <1>1, <2>1 DEF Claimed
<1>5. claims' = [claims EXCEPT ![r] = [stage |-> "asked", payment |-> q.payment, amount |-> q.amount]]
  <2>1. StageOf(q) = "asked"
    BY <1>1 DEF StageOf
  <2>2. Claimed(q) = [stage |-> "asked", payment |-> q.payment, amount |-> q.amount]
    BY <1>2, <2>1 DEF Claimed
  <2> QED BY <1>1, <2>2, OneClaimChanges
<1>6. r \notin Live /\ r \in Live'
  BY <1>1, <1>3 DEF Live, Unused
<1>7. ASSUME NEW p \in Payments
      PROVE  unclaimed'[p] = unclaimed[p] - (IF q.payment = p THEN q.amount ELSE 0)
  <2>1. Total(p, Live)' = Total(p, Live) + (IF q.payment = p THEN q.amount ELSE 0)
    BY <1>3, <1>6, LiveGains
  <2>2. Total(p, Live) \in Nat /\ Amount[p] \in Nat
    BY LiveSplits, AmountAssumption
  <2> QED BY <1>2, <2>1, <2>2, UnclaimedValues
<1>8. q.amount <= unclaimed[q.payment]
  <2>1. Total(q.payment, Live) = Total(q.payment, Open) + Total(q.payment, Completed)
        /\ Total(q.payment, Open) \in Nat /\ Total(q.payment, Completed) \in Nat
    BY LiveSplits
  <2>2. payment[q.payment].refunded = Total(q.payment, Completed) /\ Amount[q.payment] \in Nat
    BY <1>2, AmountAssumption DEF AccountedOnce
  <2>3. q.amount <= Amount[q.payment] - payment[q.payment].refunded - Total(q.payment, Open)
    BY <1>1 DEF Refundable
  <2>4. unclaimed[q.payment] = Amount[q.payment] - Total(q.payment, Live)
    BY <1>2, UnclaimedValues
  <2> QED BY <1>2, <2>1, <2>2, <2>3, <2>4
<1>9. unclaimed' = [unclaimed EXCEPT ![q.payment] = @ - q.amount]
  <2>1. ASSUME NEW p \in Payments PROVE unclaimed[p] \in Int
    <3>1. Total(p, Live) \in Nat /\ Amount[p] \in Nat
      BY LiveSplits, AmountAssumption
    <3> QED BY <3>1, UnclaimedValues
  <2>2. unclaimed' = [p \in Payments |-> unclaimed'[p]] /\ unclaimed = [p \in Payments |-> unclaimed[p]]
    BY DEF unclaimed
  <2>3. ASSUME NEW p \in Payments PROVE unclaimed'[p] = [unclaimed EXCEPT ![q.payment] = @ - q.amount][p]
    BY <1>2, <1>7, <2>1, <2>2
  <2> QED BY <2>2, <2>3
<1>10. booked' = booked
  BY <1>1 DEF booked
<1> QED BY <1>4, <1>5, <1>8, <1>9, <1>10 DEF Ledger!Ask, Ledger!None, claims, unclaimed, booked

\* The claim of a row that keeps its payment and amount, before and after.
LEMMA UpdatedClaim ==
    ASSUME TypeOK, NEW r \in Requests, NEW q, Updates(r, q)
    PROVE  /\ claims[r] = [stage |-> StageOf(req[r]), payment |-> req[r].payment, amount |-> req[r].amount]
           /\ claims' = [claims EXCEPT ![r] =
                 [stage |-> StageOf(q), payment |-> claims[r].payment, amount |-> claims[r].amount]]
<1>1. req[r] \in Request /\ q \in Request /\ req' = [req EXCEPT ![r] = q]
      /\ q.amount = req[r].amount /\ q.payment = req[r].payment
  BY DEF Updates
<1>2. req[r] # Unused /\ q # Unused
  BY <1>1 DEF Request, Unused
<1>3. claims[r] = Claimed(req[r])
  BY ClaimsOfRows
<1>4. claims[r] = [stage |-> StageOf(req[r]), payment |-> req[r].payment, amount |-> req[r].amount]
  BY <1>2, <1>3 DEF Claimed
<1>5. Claimed(q) = [stage |-> StageOf(q), payment |-> claims[r].payment, amount |-> claims[r].amount]
  BY <1>1, <1>2, <1>4 DEF Claimed
<1>6. claims' = [claims EXCEPT ![r] = Claimed(q)]
  BY <1>1, OneClaimChanges
<1> QED BY <1>4, <1>5, <1>6

\* A row that keeps its stage keeps its claim.
LEMMA SameStage ==
    ASSUME TypeOK, NEW r \in Requests, NEW q, Updates(r, q), StageOf(q) = StageOf(req[r])
    PROVE  claims' = claims
<1>1. claims[r] = [stage |-> StageOf(req[r]), payment |-> req[r].payment, amount |-> req[r].amount]
  BY UpdatedClaim
<1>2. claims' = [claims EXCEPT ![r] =
          [stage |-> StageOf(q), payment |-> claims[r].payment, amount |-> claims[r].amount]]
  BY UpdatedClaim
<1>3. claims[r] = [stage |-> StageOf(q), payment |-> claims[r].payment, amount |-> claims[r].amount]
  BY <1>1
<1>4. claims' = [claims EXCEPT ![r] = claims[r]]
  BY <1>2, <1>3
<1> QED BY <1>4 DEF claims

\* A row that changes its stage advances.
LEMMA NextStage ==
    ASSUME TypeOK, NEW r \in Requests, NEW q, Updates(r, q)
    PROVE  Ledger!Advance(r, StageOf(req[r]), StageOf(q))
<1>1. Advances(r, StageOf(req[r]), StageOf(q))
  BY UpdatedClaim DEF Advances, claims
<1> QED BY <1>1, Advancing

\* A row that stays live, or stays out, leaves what is unclaimed as it was.
LEMMA SameUnclaimed ==
    ASSUME TypeOK, NEW r \in Requests, NEW q, Updates(r, q), (q.status = "REJECTED") <=> (req[r].status = "REJECTED")
    PROVE  unclaimed' = unclaimed
<1>1. req[r] \in Request /\ q \in Request /\ req'[r] = q /\ \A i \in Requests : i # r => req'[i] = req[i]
  BY DEF Updates, TypeOK
<1>2. (q.status \in {"PENDING", "APPROVED"}) <=> (req[r].status \in {"PENDING", "APPROVED"})
  BY <1>1 DEF Request
<1>3. \A i \in Requests : i \in Live' <=> i \in Live
  BY <1>1, <1>2 DEF Live
<1>4. \A i \in Requests : req'[i].amount = req[i].amount /\ req'[i].payment = req[i].payment
  BY <1>1 DEF Updates
<1> QED BY <1>3, <1>4, LiveStays

\* A rejection gives the amount back.
LEMMA RejectIsRefuse ==
    ASSUME Inv, TypeOK', refund' = refund, NEW r \in Requests, NEW q, Marks(r, q),
           req[r].status = "PENDING", q.status = "REJECTED"
    PROVE  Ledger!Refuse(r)
<1> USE DEF Inv
<1> DEFINE p0 == req[r].payment
           a0 == req[r].amount
<1>1. Updates(r, q) /\ booked' = booked
  BY DEF Marks, booked
<1>2. req[r] \in Request /\ q \in Request /\ req'[r] = q /\ \A i \in Requests : i # r => req'[i] = req[i]
  BY <1>1 DEF Updates, TypeOK
<1>3. p0 \in Payments /\ a0 \in Nat
  <2>1. p0 \in Payments /\ a0 \in RequestAmounts
    BY <1>2 DEF Request
  <2> QED BY <2>1, RequestAmountsAssumption
<1>4. r \in Live /\ r \notin Live'
  BY <1>2 DEF Live
<1>5. claims[r].payment = p0 /\ claims[r].amount = a0
  <2>1. claims[r] = [stage |-> StageOf(req[r]), payment |-> req[r].payment, amount |-> req[r].amount]
    BY <1>1, UpdatedClaim
  <2> QED BY <2>1
<1>6. ASSUME NEW p \in Payments
      PROVE  unclaimed'[p] = unclaimed[p] + (IF p0 = p THEN a0 ELSE 0) /\ unclaimed[p] \in Int
  <2>1. Total(p, Live) = Total(p, Live)' + (IF p0 = p THEN a0 ELSE 0)
    BY <1>2, <1>4, LiveLoses
  <2>2. Total(p, Live) \in Nat /\ Amount[p] \in Nat
    BY LiveSplits, AmountAssumption
  <2>3. Total(p, Live)' \in Nat
    <3>1. \A i \in Requests : i \in Live' => req'[i] # Unused
      BY DEF Live, Unused
    <3>2. RowsOf(req', p, Live') \in [1..MaxRequests -> Nat]
      BY <3>1, RowsType DEF TypeOK
    <3>3. Sum(RowsOf(req', p, Live'), MaxRequests) \in Nat
      BY <3>2, SumType, BoundsAssumption
    <3> QED BY <3>3 DEF Total, Rows, RowsOf
  <2>4. unclaimed[p] = Amount[p] - Total(p, Live) /\ unclaimed'[p] = Amount[p] - Total(p, Live)'
    BY UnclaimedValues
  <2> HIDE DEF p0, a0
  <2> QED BY <1>3, <2>1, <2>2, <2>3, <2>4
<1> HIDE DEF p0, a0
<1>7. unclaimed' = [unclaimed EXCEPT ![p0] = @ + a0]
  <2>1. unclaimed' = [p \in Payments |-> unclaimed'[p]] /\ unclaimed = [p \in Payments |-> unclaimed[p]]
    BY DEF unclaimed
  <2>2. ASSUME NEW p \in Payments PROVE unclaimed'[p] = [unclaimed EXCEPT ![p0] = @ + a0][p]
    BY <1>3, <1>6, <2>1
  <2> QED BY <2>1, <2>2
<1>8. Ledger!Advance(r, "asked", "refused")
  <2>1. StageOf(req[r]) = "asked" /\ StageOf(q) = "refused"
    BY DEF StageOf
  <2> QED BY <1>1, <2>1, NextStage
<1> QED BY <1>1, <1>5, <1>7, <1>8 DEF Ledger!Refuse, claims, unclaimed, booked

\* A decision, or an execution that starts, fails or is under way: one step of the ledger or none.
LEMMA MarksIsStep ==
    ASSUME Inv, TypeOK', refund' = refund, NEW r \in Requests, NEW q, Marks(r, q)
    PROVE  \/ UNCHANGED Ledger!vars
           \/ Ledger!Refuse(r) \/ Ledger!Approve(r) \/ Ledger!Send(r)
<1> USE DEF Inv
<1>1. Updates(r, q) /\ booked' = booked
  BY DEF Marks, booked
<1>2. /\ req[r] \in Request /\ q \in Request
      /\ q.exec # "COMPLETED" /\ req[r].exec # "COMPLETED"
      /\ q.exec = req[r].exec \/ req[r].status = "APPROVED"
      /\ req[r].status # "PENDING" => q.status = req[r].status
      /\ req[r].exec # "null" => q.exec # "null"
  BY <1>1 DEF Marks, Updates
<1>3. ASSUME StageOf(q) = StageOf(req[r]), unclaimed' = unclaimed PROVE UNCHANGED Ledger!vars
  <2>1. claims' = claims
    BY <1>1, <1>3, SameStage
  <2> QED BY <1>1, <1>3, <2>1, LedgerVars
<1>4. CASE req[r].status = "PENDING"
  <2>1. req[r].exec = "null" /\ q.exec = "null" /\ StageOf(req[r]) = "asked"
    <3>1. req[r] # Unused /\ ~Sent(r)
      BY <1>4 DEF Unused, Sent
    <3>2. req[r].exec = "null"
      BY <3>1 DEF StartedIsApproved
    <3> QED BY <1>2, <1>4, <3>2 DEF StageOf
  <2>2. CASE q.status = "PENDING"
    <3>1. StageOf(q) = "asked" /\ unclaimed' = unclaimed
      BY <1>1, <1>4, <2>2, SameUnclaimed DEF StageOf
    <3> QED BY <1>3, <2>1, <3>1
  <2>3. CASE q.status = "REJECTED"
    BY <1>4, <2>3, RejectIsRefuse
  <2>4. CASE q.status = "APPROVED"
    <3>1. StageOf(q) = "approved" /\ unclaimed' = unclaimed
      BY <1>1, <1>4, <2>1, <2>4, SameUnclaimed DEF StageOf
    <3>2. Ledger!Advance(r, "asked", "approved")
      BY <1>1, <2>1, <3>1, NextStage
    <3> QED BY <1>1, <3>1, <3>2 DEF Ledger!Approve, unclaimed, booked
  <2> QED BY <1>2, <2>2, <2>3, <2>4 DEF Request
<1>5. CASE req[r].status = "REJECTED"
  <2>1. StageOf(q) = "refused" /\ StageOf(req[r]) = "refused" /\ unclaimed' = unclaimed
    BY <1>1, <1>2, <1>5, SameUnclaimed DEF StageOf
  <2> QED BY <1>3, <2>1
<1>6. CASE req[r].status = "APPROVED"
  <2>1. q.status = "APPROVED" /\ unclaimed' = unclaimed
    BY <1>1, <1>2, <1>6, SameUnclaimed
  <2>2. CASE req[r].exec = q.exec \/ req[r].exec # "null"
    <3>1. StageOf(q) = StageOf(req[r])
      BY <1>2, <1>6, <2>1, <2>2 DEF StageOf
    <3> QED BY <1>3, <2>1, <3>1
  <2>3. CASE req[r].exec = "null" /\ q.exec # "null"
    <3>1. StageOf(req[r]) = "approved" /\ StageOf(q) = "sent"
      BY <1>2, <1>6, <2>1, <2>3 DEF StageOf
    <3>2. Ledger!Advance(r, "approved", "sent")
      BY <1>1, <3>1, NextStage
    <3> QED BY <1>1, <2>1, <3>2 DEF Ledger!Send, unclaimed, booked
  <2> QED BY <2>2, <2>3
<1> QED BY <1>2, <1>4, <1>5, <1>6 DEF Request

\* A confirmed refund is booked, on the payment and for the amount of its claim.
LEMMA PaysIsBook ==
    ASSUME Inv, refund' = refund, NEW r \in Requests, NEW q, refund[r] = "SUCCESS", Pays(r, q)
    PROVE  Ledger!Book(r)
<1> USE DEF Inv
<1>1. Updates(r, q) /\ q.exec = "COMPLETED" /\ req[r].exec # "null" /\ req[r].status = "APPROVED"
  BY DEF Pays
<1>2. /\ req[r] \in Request /\ q \in Request /\ req[r].exec # "COMPLETED"
      /\ q.status = "APPROVED" /\ q.payment = req[r].payment /\ q.amount = req[r].amount
  BY <1>1 DEF Updates
<1>3. Ledger!Advance(r, "sent", "booked")
  <2>1. StageOf(req[r]) = "sent" /\ StageOf(q) = "booked"
    BY <1>1, <1>2 DEF StageOf
  <2> QED BY <1>1, <2>1, NextStage
<1>4. unclaimed' = unclaimed
  BY <1>1, <1>2, SameUnclaimed
<1>5. claims[r].payment = q.payment /\ claims[r].amount = q.amount
  <2>1. claims[r] = [stage |-> StageOf(req[r]), payment |-> req[r].payment, amount |-> req[r].amount]
    BY <1>1, UpdatedClaim
  <2> QED BY <1>2, <2>1
<1>6. booked' = [booked EXCEPT ![q.payment] = @ + q.amount]
  <2>1. q.payment \in Payments
    BY <1>2 DEF Request
  <2>2. PICK status : payment' = [payment EXCEPT ![q.payment] =
            [status |-> status, refunded |-> payment[q.payment].refunded + q.amount]]
    BY DEF Pays
  <2>3. payment'[q.payment].refunded = payment[q.payment].refunded + q.amount
        /\ \A p \in Payments : p # q.payment => payment'[p] = payment[p]
    BY <2>1, <2>2 DEF TypeOK
  <2>4. ASSUME NEW p \in Payments PROVE booked'[p] = [booked EXCEPT ![q.payment] = @ + q.amount][p]
    BY <2>1, <2>3 DEF booked
  <2>5. booked' = [p \in Payments |-> booked'[p]] /\ booked = [p \in Payments |-> booked[p]]
    BY DEF booked
  <2> QED BY <2>4, <2>5
<1> QED BY <1>3, <1>4, <1>5, <1>6 DEF Ledger!Book, claims, unclaimed, booked

--------------------------------------------------------------------------------
(* The refinement *)

LEMMA LedgerInit == Init => Ledger!Init
<1> SUFFICES ASSUME Init PROVE Ledger!Init
  OBVIOUS
<1>1. Inv
  BY InvInit
<1>2. claims = [r \in Requests |-> [stage |-> "none"]]
  BY DEF Init, claims, ClaimOf
<1>3. unclaimed = Amount
  <2>1. Live = {}
    BY DEF Init, Live, Unused
  <2>2. ASSUME NEW p \in Payments PROVE unclaimed[p] = Amount[p]
    <3>1. Total(p, Live) = 0
      BY <2>1, SumOfNothing
    <3> QED BY <3>1, AmountAssumption DEF unclaimed
  <2>3. unclaimed = [p \in Payments |-> unclaimed[p]] /\ Amount = [p \in Payments |-> Amount[p]]
    BY AmountAssumption DEF unclaimed
  <2> QED BY <2>2, <2>3
<1>4. booked = [p \in Payments |-> 0]
  BY DEF Init, booked
<1> QED BY <1>2, <1>3, <1>4 DEF Init, Ledger!Init, Ledger!None, Ledger!Claims, Requests, claims, unclaimed, booked

LEMMA LedgerStep == Inv /\ Inv' /\ [Next]_vars => [Ledger!Next]_Ledger!vars
<1> SUFFICES ASSUME Inv, Inv', [Next]_vars PROVE Ledger!Next \/ UNCHANGED Ledger!vars
  OBVIOUS
<1> USE DEF Ledger!Claims, Requests
<1>1. TypeOK /\ TypeOK' /\ StartedIsApproved /\ JobsKnow
  BY DEF Inv
<1>2. CASE UNCHANGED ledger
  <2>1. claims' = claims /\ unclaimed' = unclaimed /\ booked' = booked
    BY <1>2 DEF ledger, claims, ClaimOf, Stage, unclaimed, Total, Rows, Live, booked
  <2>2. CASE refund' = refund
    BY <2>1, <2>2, LedgerVars
  <2>3. ASSUME NEW r \in Requests, NEW s, Reaches(r, s) PROVE Ledger!Next
    BY <2>3, ReachesIsPay DEF Ledger!Next
  <2> QED BY <1>1, <2>2, <2>3, BankKinds
<1>3. CASE ~UNCHANGED ledger
  <2>1. refund' = refund
    BY <1>1, <1>3, BankKinds DEF Reaches
  <2>2. ASSUME NEW r \in Requests, NEW q, Asks(r, q) PROVE Ledger!Next
    <3>1. q.payment \in Payments /\ q.amount \in RequestAmounts
      BY <2>2 DEF Asks, Request
    <3>2. Ledger!Ask(r, q.payment, q.amount)
      BY <1>1, <2>1, <2>2, AsksIsAsk
    <3> QED BY <3>1, <3>2 DEF Ledger!Next
  <2>3. ASSUME NEW r \in Requests, NEW q, Marks(r, q) PROVE Ledger!Next \/ UNCHANGED Ledger!vars
    <3>1. UNCHANGED Ledger!vars \/ Ledger!Refuse(r) \/ Ledger!Approve(r) \/ Ledger!Send(r)
      BY <1>1, <2>1, <2>3, MarksIsStep
    <3> QED BY <3>1 DEF Ledger!Next
  <2>4. ASSUME NEW r \in Requests, NEW q, refund[r] = "SUCCESS", Pays(r, q) PROVE Ledger!Next
    <3>1. Ledger!Book(r)
      BY <2>1, <2>4, PaysIsBook
    <3> QED BY <3>1 DEF Ledger!Next
  <2> QED BY <1>1, <1>3, <2>2, <2>3, <2>4, StepKinds
<1> QED BY <1>2, <1>3

\* Refunds does to the money what RefundLedger says (ImplementsLedger), for any number
\* of users, payments, requests, attempts, handlers and webhook workers.
THEOREM LedgerImplemented == Spec => ImplementsLedger
<1>1. Spec => []Inv
  BY InvAlways
<1> QED BY <1>1, LedgerInit, LedgerStep, PTL DEF Spec, ImplementsLedger, Ledger!Spec
================================================================================
