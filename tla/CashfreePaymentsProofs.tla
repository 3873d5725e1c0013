------------------------ MODULE CashfreePaymentsProofs ------------------------
(***************************************************************************)
(* What holds of an order's Cashfree payments for any number of payments,   *)
(* users, deliveries and processes, whatever they ask for and whatever      *)
(* fails.                                                                   *)
(***************************************************************************)
EXTENDS CashfreePayments, TLAPS, FiniteSetTheorems, NaturalsInduction, WellFoundedInduction

USE BoundsAssumption

--------------------------------------------------------------------------------
(* The inductive invariant *)

\* The phases in which a job has a payment, which it read as a row that is there.
Held == {"create", "reject", "finish", "cancel", "cancelled", "askLink", "askQr", "apply",
         "close", "qrCall", "qrStore"}

Ended(p) == link[p] \in {"expired", "cancelled"}

\* What was learnt of a payment and is still so when it is applied: a link that ended or
\* was paid stays as it is, and so does a QR that was paid.
Justified(p, u) ==
    /\ pay[p].status # "none"
    /\ u.id \in {"none", u.via}
    /\ u.to = "FAILED" => Ended(p) \/ u.why = "rejected"
    /\ u.to = "SUCCESS" /\ u.via = "link" => link[p] = "paid"
    /\ u.to = "SUCCESS" /\ u.via = "qr" =>
        /\ u.id = "qr" /\ qr[p] = "paid"
        /\ u.paidAt = "late" => p \in lapsed
        /\ u.paidAt = "in time" => p \in inTime

JobOK(j) ==
    /\ job[j].at \in Held => job[j].pay \in Payments /\ pay[job[j].pay].status # "none"
    /\ At(j, "revert") => j \in Users /\ job[j].held.pre # "none"
    /\ At(j, "cancelled") => link[job[j].pay] = "cancelled"
    /\ job[j].at \in {"askQr", "apply"} => Justified(job[j].pay, job[j].update)
JobsOK == \A j \in Jobs : JobOK(j)

\* TypeOK, but for the jobs.
DataOK ==
    /\ order \in {"PENDING_PAYMENT", "CONFIRMED", "CANCELLED"}
    /\ meta \in Metadata
    /\ linked \in BOOLEAN
    /\ pay \in [Payments -> Payment]
    /\ manual \in BOOLEAN
    /\ flagged \subseteq Exception
    /\ reported \in BOOLEAN
    /\ link \in [Payments -> {"none", "active", "paid", "expired", "cancelled"}]
    /\ qr \in [Payments -> {"none", "active", "paid", "closed"}]
    /\ lapsed \subseteq Payments
    /\ inTime \subseteq Payments
    /\ faults \in 0..MaxFaults
    /\ seen \subseteq (Payments \X Methods)

\* There is a link or a QR only of a payment, and a QR is paid before it lapses or after.
Issued ==
    \A p \in Payments :
        /\ link[p] # "none" \/ qr[p] # "none" => pay[p].status # "none"
        /\ qr[p] = "paid" => p \in inTime \cup lapsed

Sound == DataOK /\ job \in [Jobs -> Job] /\ JobsOK /\ Issued

--------------------------------------------------------------------------------
(* What a step does to the rows: one of four things *)

\* Cashfree, its customer or a call to it: what ended or was paid stays so.
CashfreeMoves ==
    /\ \A p \in Payments :
        \/ link'[p] = link[p]
        \/ link[p] = "none" /\ link'[p] = "active" /\ pay[p].status # "none"
        \/ link[p] = "active" /\ link'[p] \in {"paid", "expired", "cancelled"}
    /\ \A p \in Payments :
        \/ qr'[p] = qr[p]
        \/ qr[p] = "none" /\ qr'[p] = "active" /\ pay[p].status # "none"
        \/ qr[p] = "active" /\ qr'[p] = "closed"
        \/ qr[p] = "active" /\ qr'[p] = "paid" /\ p \in lapsed \cup inTime'
    /\ lapsed \subseteq lapsed' /\ inTime \subseteq inTime'

\* Nothing is decided about a payment.
Undecided ==
    /\ UNCHANGED <<manual, flagged, reported, seen>>
    /\ \A p \in Payments :
        pay'[p].status = pay[p].status /\ pay'[p].why = pay[p].why /\ pay'[p].id = pay[p].id
    /\ CashfreeMoves

\* What prepare does to the rows.
Prepares ==
    /\ PaidTimes = 0
    /\ \E made \in Payments \cup {0} :
        /\ made # 0 => /\ \A q \in Payments : pay[q].status = "none" <=> q >= made
                       /\ {p \in Payments : Open(p) /\ p \notin lapsed} = {}
        /\ \A p \in Payments :
            /\ p = made => pay'[p].status = "PENDING"
            /\ p # made /\ ~(Open(p) /\ p \in lapsed) => pay'[p].status = pay[p].status /\ pay'[p].why = pay[p].why
            /\ p # made /\ Open(p) /\ p \in lapsed => pay'[p].status = "FAILED"
            /\ pay'[p].id = pay[p].id
    /\ UNCHANGED <<manual, flagged, reported, cashfree, seen>>

Applies == \E p \in Payments, u \in Update : Justified(p, u) /\ ApplyUpdate(p, u)

Verifies ==
    /\ manual' = (manual \/ PaidTimes = 0)
    /\ UNCHANGED <<pay, flagged, reported, cashfree, seen>>

RowStep == Undecided \/ Prepares \/ Applies \/ Verifies

\* A step of the job j that leaves every other job alone, and its own in order.
JobStep(j) ==
    /\ job' = [job EXCEPT ![j] = job'[j]]
    /\ job'[j] \in Job
    /\ JobOK(j)'

StepOK(j) == DataOK' /\ RowStep /\ JobStep(j)

--------------------------------------------------------------------------------
(* Typed values *)

LEMMA Constants ==
    /\ NoMetadata \in Metadata
    /\ NoUpdate \in Update
    /\ NoPayment \in Payment
    /\ Idle \in Job /\ Idle.at = "idle"
    /\ \A why \in {"expired", "cancelled", "rejected"} : Failed(why) \in Update
<1>1. NoMetadata \in Metadata
    BY DEF NoMetadata, Metadata
<1>2. NoUpdate \in Update
    BY DEF NoUpdate, Update, Methods
<1>3. NoPayment \in Payment
    BY DEF NoPayment, Payment, Methods
<1>4. Idle \in Job /\ Idle.at = "idle"
    <2> HIDE DEF NoUpdate, NoMetadata
    <2> QED BY <1>1, <1>2 DEF Idle, Job, Phases
<1>5. \A why \in {"expired", "cancelled", "rejected"} : Failed(why) \in Update
    BY DEF Failed, NoUpdate, Update, Methods
<1> QED BY <1>1, <1>2, <1>3, <1>4, <1>5

\* The smallest element of a set of payments is one of them.
LEMMA MinIn ==
    ASSUME NEW S \in SUBSET Payments, S # {}
    PROVE  Min(S) \in S
<1>1. S \subseteq Nat
    BY DEF Payments
<1>2. IsWellFoundedOn(OpToRel(<, Nat), Nat)
    BY NatLessThanWellFounded
<1>3. PICK x \in S : \A y \in S : ~(<<y, x>> \in OpToRel(<, Nat))
    BY <1>1, <1>2, WFMin
<1>4. \A y \in S : ~(y < x)
    BY <1>1, <1>3 DEF OpToRel
<1>5. \A y \in S : x =< y
    BY <1>1, <1>4
<1> QED BY <1>5 DEF Min

--------------------------------------------------------------------------------
(* How a job goes on *)

\* A job that ends, that is done with a payment, or that has none.
LEMMA Ends ==
    ASSUME job \in [Jobs -> Job], NEW j \in Jobs, job' = [job EXCEPT ![j] = Idle]
    PROVE  JobStep(j)
<1> HIDE DEF Idle
<1>1. job'[j] = Idle
    OBVIOUS
<1>2. JobOK(j)'
    BY <1>1, Constants DEF JobOK, At, Held
<1> QED BY <1>1, <1>2, Constants DEF JobStep

LEMMA Dones ==
    ASSUME job \in [Jobs -> Job], NEW j \in Jobs, Done(j)
    PROVE  JobStep(j)
<1> DEFINE w == [Idle EXCEPT !.at = job[j].then, !.then = job[j].then,
                             !.todo = job[j].todo, !.held = job[j].held]
<1>1. job[j] \in Job
    OBVIOUS
<1>2. w \in Job
    BY <1>1, Constants DEF Job, Phases
<1>3. w.at \in {"idle", "links", "sweep"}
    BY <1>1, Constants DEF Job
<1>4. job' = [job EXCEPT ![j] = w]
    BY DEF Done
<1> HIDE DEF w
<1>5. job'[j] = w
    BY <1>4
<1>6. JobOK(j)'
    BY <1>3, <1>5 DEF JobOK, At, Held
<1> QED BY <1>2, <1>4, <1>5, <1>6 DEF JobStep

\* What Goto leaves of a job.
LEMMA Goes ==
    ASSUME job \in [Jobs -> Job], NEW j \in Jobs, NEW phase \in Phases, Goto(j, phase)
    PROVE  /\ job' = [job EXCEPT ![j] = job'[j]] /\ job'[j] \in Job
           /\ job'[j].at = phase /\ job'[j].pay = job[j].pay /\ job'[j].held = job[j].held
           /\ job'[j].update = job[j].update
<1> DEFINE w == [job[j] EXCEPT !.at = phase]
<1>1. job[j] \in Job
    OBVIOUS
<1>2. w \in Job /\ w.at = phase /\ w.pay = job[j].pay /\ w.held = job[j].held /\ w.update = job[j].update
    BY <1>1 DEF Job
<1>3. job' = [job EXCEPT ![j] = w]
    BY DEF Goto
<1> HIDE DEF w
<1>4. job'[j] = w
    BY <1>3
<1> QED BY <1>2, <1>3, <1>4

\* To a phase without a payment.
LEMMA GoesOn ==
    ASSUME job \in [Jobs -> Job], NEW j \in Jobs,
           NEW phase \in Phases \ (Held \cup {"revert"}), Goto(j, phase)
    PROVE  JobStep(j)
<1>1. /\ job' = [job EXCEPT ![j] = job'[j]] /\ job'[j] \in Job
      /\ job'[j].at = phase
    BY Goes
<1> QED BY <1>1 DEF JobStep, JobOK, At, Held

\* To a phase with the payment it has.
LEMMA GoesOnWith ==
    ASSUME job \in [Jobs -> Job], NEW j \in Jobs,
           NEW phase \in Held \ {"cancelled", "askQr", "apply"}, Goto(j, phase),
           job[j].pay \in Payments, pay'[job[j].pay].status # "none"
    PROVE  JobStep(j)
<1>1. phase \in Phases
    BY DEF Held, Phases
<1>2. /\ job' = [job EXCEPT ![j] = job'[j]] /\ job'[j] \in Job
      /\ job'[j].at = phase /\ job'[j].pay = job[j].pay
    BY <1>1, Goes
<1> QED BY <1>2 DEF JobStep, JobOK, At, Held

\* With a payment whose row is there.
LEMMA Begins ==
    ASSUME job \in [Jobs -> Job], pay \in [Payments -> Payment], NEW j \in Jobs, NEW p \in Payments,
           NEW phase \in Held \ {"cancelled", "askQr", "apply"}, Begin(j, phase, p),
           pay'[p].status # "none"
    PROVE  JobStep(j)
<1> DEFINE b == p # 0 /\ pay[p].qr
           w == [Idle EXCEPT !.at = phase, !.pay = p, !.qr = b]
<1>1. b \in BOOLEAN
    BY DEF Payment
<1>2. job' = [job EXCEPT ![j] = w]
    BY DEF Begin
<1> HIDE DEF b
<1>3. w \in Job /\ w.at = phase /\ w.pay = p
    BY <1>1, Constants DEF Job, Held, Phases
<1> HIDE DEF w
<1>4. job'[j] = w
    BY <1>2
<1> QED BY <1>2, <1>3, <1>4 DEF JobStep, JobOK, At, Held

--------------------------------------------------------------------------------
(* The rows, step by step *)

\* Faults are counted up to their bound.
LEMMA FaultsCounted ==
    ASSUME DataOK, Fault \/ NoFault
    PROVE  faults' \in 0..MaxFaults
BY DEF DataOK, Fault, NoFault

\* A step that only reads.
LEMMA OnlyReads ==
    ASSUME DataOK, UNCHANGED <<order, meta, linked, rows, cashfree, seen>>, Fault \/ NoFault
    PROVE  DataOK' /\ RowStep
<1>1. faults' \in 0..MaxFaults
    BY FaultsCounted
<1>2. DataOK'
    BY <1>1 DEF DataOK, rows, cashfree
<1>3. Undecided
    BY DEF Undecided, CashfreeMoves, rows, cashfree
<1> QED BY <1>2, <1>3 DEF RowStep

\* A step that writes only the order and its metadata.
LEMMA OnlyOrder ==
    ASSUME DataOK, UNCHANGED <<rows, cashfree, faults, seen>>, linked' \in BOOLEAN, meta' \in Metadata,
           order' \in {"PENDING_PAYMENT", "CONFIRMED", "CANCELLED"}
    PROVE  DataOK' /\ RowStep
<1>1. DataOK'
    BY DEF DataOK, rows, cashfree
<1>2. Undecided
    BY DEF Undecided, CashfreeMoves, rows, cashfree
<1> QED BY <1>1, <1>2 DEF RowStep

LEMMA UpdatedTyped ==
    ASSUME DataOK, NEW p \in Payments, NEW u \in Update
    PROVE  Updated(p, u) \in Payment
<1>1. pay[p] \in Payment
    BY DEF DataOK
<1>2. u.to \in {"none", "SUCCESS", "FAILED"} /\ u.id \in Methods \cup {"none"}
      /\ u.why \in {"null", "expired", "cancelled", "rejected"}
    BY DEF Update
<1> DEFINE status == IF Moves(p, u) THEN u.to ELSE pay[p].status
           why == IF Moves(p, u) THEN u.why ELSE pay[p].why
           id == IF status = "SUCCESS" /\ pay[p].id = "none" THEN u.id ELSE pay[p].id
<1>3. status \in {"none", "PENDING", "SUCCESS", "FAILED"}
    BY <1>1, <1>2 DEF Payment
<1>4. why \in {"null", "expired", "cancelled", "rejected"}
    BY <1>1, <1>2 DEF Payment
<1>5. id \in Methods \cup {"none"}
    BY <1>1, <1>2 DEF Payment
<1>6. Updated(p, u) = IF Exceptional(p, u) THEN pay[p]
                      ELSE [pay[p] EXCEPT !.status = status, !.why = why, !.id = id]
    BY <1>1 DEF Updated, Payment
<1> HIDE DEF status, why, id
<1> QED BY <1>1, <1>3, <1>4, <1>5, <1>6 DEF Payment

\* What applyPaymentUpdate does to the row: its status, reason and id, and nothing else.
LEMMA UpdatedFields ==
    ASSUME DataOK, NEW p \in Payments, NEW u \in Update
    PROVE  /\ Exceptional(p, u) => Updated(p, u) = pay[p]
           /\ ~Exceptional(p, u) =>
                /\ Updated(p, u).status = IF Moves(p, u) THEN u.to ELSE pay[p].status
                /\ Updated(p, u).why = IF Moves(p, u) THEN u.why ELSE pay[p].why
                /\ Updated(p, u).id = IF Updated(p, u).status = "SUCCESS" /\ pay[p].id = "none"
                                      THEN u.id ELSE pay[p].id
<1>1. pay[p] \in Payment
    BY DEF DataOK
<1> QED BY <1>1 DEF Updated, Payment

LEMMA KindKinds ==
    ASSUME NEW p, NEW u
    PROVE  Kind(p, u) \in {"none", "duplicate", "late"}
BY DEF Kind

LEMMA AppliesTyped ==
    ASSUME DataOK, NEW p \in Payments, NEW u \in Update, Justified(p, u), ApplyUpdate(p, u),
           Fault \/ NoFault
    PROVE  DataOK' /\ RowStep
<1>1. faults' \in 0..MaxFaults
    BY FaultsCounted
<1>2. pay' \in [Payments -> Payment]
    BY UpdatedTyped DEF ApplyUpdate, DataOK
<1>3. Exceptional(p, u) => KeyOf(p, u) \in Key
    BY KindKinds DEF Exceptional, KeyOf, Key, Update
<1>4. flagged' \subseteq Exception
    <2> DEFINE c == order = "CANCELLED"
               x == [key |-> KeyOf(p, u), via |-> u.via, orderClosed |-> c]
    <2>1. u.via \in Methods
        BY DEF Update
    <2>2. c \in BOOLEAN
        OBVIOUS
    <2>3. flagged' = flagged \/ (Exceptional(p, u) /\ flagged' = flagged \cup {x})
        BY DEF ApplyUpdate
    <2> HIDE DEF c
    <2>4. Exceptional(p, u) => x \in Exception
        BY <1>3, <2>1, <2>2 DEF Exception
    <2> QED BY <2>3, <2>4 DEF DataOK
<1>5. meta' \in Metadata
    <2>1. meta' = meta \/ (Exceptional(p, u) /\ meta' = [meta EXCEPT !.entries = @ \cup {KeyOf(p, u)}])
        BY DEF ApplyUpdate
    <2> QED BY <1>3, <2>1 DEF DataOK, Metadata
<1>6. reported' \in BOOLEAN
    BY DEF ApplyUpdate
<1>7. seen' \subseteq (Payments \X Methods)
    <2>1. u.via \in Methods
        BY DEF Update
    <2>2. seen' = seen \/ seen' = seen \cup {<<p, u.via>>}
        BY DEF ApplyUpdate
    <2> QED BY <2>1, <2>2 DEF DataOK
<1>8. UNCHANGED <<order, linked, manual, link, qr, lapsed, inTime>>
    BY DEF ApplyUpdate, cashfree
<1>9. DataOK'
    BY <1>1, <1>2, <1>4, <1>5, <1>6, <1>7, <1>8 DEF DataOK
<1>10. Applies
    BY DEF Applies
<1> QED BY <1>9, <1>10 DEF RowStep

\* A row that is there stays there when an update is applied.
LEMMA AppliedRowsStay ==
    ASSUME DataOK, NEW p \in Payments, NEW u \in Update, ApplyUpdate(p, u),
           NEW q \in Payments, pay[q].status # "none"
    PROVE  pay'[q].status # "none"
<1>1. pay' = [pay EXCEPT ![p] = Updated(p, u)]
    BY DEF ApplyUpdate
<1>2. Updated(p, u).status = pay[p].status \/ Updated(p, u).status \in {"SUCCESS", "FAILED"}
    BY UpdatedFields DEF Moves
<1> QED BY <1>1, <1>2 DEF DataOK

\* Calls to Cashfree and its customer: they change its links and QRs, and of the rows at
\* most what is stored of them.
LEMMA CallsTyped ==
    ASSUME DataOK, CashfreeMoves, UNCHANGED <<order, meta, linked, manual, flagged, reported, seen>>,
           Fault \/ NoFault,
           pay' \in [Payments -> Payment],
           \A p \in Payments :
                pay'[p].status = pay[p].status /\ pay'[p].why = pay[p].why /\ pay'[p].id = pay[p].id,
           link' \in [Payments -> {"none", "active", "paid", "expired", "cancelled"}],
           qr' \in [Payments -> {"none", "active", "paid", "closed"}],
           lapsed' \subseteq Payments, inTime' \subseteq Payments
    PROVE  DataOK' /\ RowStep
<1>1. faults' \in 0..MaxFaults
    BY FaultsCounted
<1>2. DataOK'
    BY <1>1 DEF DataOK
<1>3. Undecided
    BY DEF Undecided
<1> QED BY <1>2, <1>3 DEF RowStep

\* The customer pays, time passes, Cashfree ends what lapsed.
LEMMA CustomerStep ==
    ASSUME DataOK, Customer
    PROVE  DataOK' /\ RowStep /\ UNCHANGED job
<1> USE DEF rows, cashfree
<1>1. PICK p \in Payments : PayLink(p) \/ PayQr(p) \/ Lapse(p) \/ ExpireLink(p) \/ ExpireQr(p)
    BY DEF Customer
<1>2. CASE PayLink(p)
    <2>1. CashfreeMoves
        BY <1>2 DEF PayLink, CashfreeMoves, DataOK
    <2> QED BY <1>2, <2>1, CallsTyped DEF PayLink, NoFault, DataOK
<1>3. CASE PayQr(p)
    <2>1. inTime' \subseteq Payments
        BY <1>3 DEF PayQr, DataOK
    <2>2. CashfreeMoves
        BY <1>3 DEF PayQr, CashfreeMoves, DataOK
    <2> QED BY <1>3, <2>1, <2>2, CallsTyped DEF PayQr, NoFault, DataOK
<1>4. CASE Lapse(p)
    <2>1. CashfreeMoves
        BY <1>4 DEF Lapse, CashfreeMoves
    <2> QED BY <1>4, <2>1, CallsTyped DEF Lapse, NoFault, DataOK
<1>5. CASE ExpireLink(p)
    <2>1. CashfreeMoves
        BY <1>5 DEF ExpireLink, CashfreeMoves, DataOK
    <2> QED BY <1>5, <2>1, CallsTyped DEF ExpireLink, NoFault, DataOK
<1>6. CASE ExpireQr(p)
    <2>1. CashfreeMoves
        BY <1>6 DEF ExpireQr, CashfreeMoves, DataOK
    <2> QED BY <1>6, <2>1, CallsTyped DEF ExpireQr, NoFault, DataOK
<1> QED BY <1>1, <1>2, <1>3, <1>4, <1>5, <1>6

--------------------------------------------------------------------------------
(* The jobs, step by step *)

\* A job with a payment read it as a row that is there.
LEMMA HasPayment ==
    ASSUME Sound, NEW j \in Jobs, job[j].at \in Held
    PROVE  job[j].pay \in Payments /\ pay[job[j].pay].status # "none"
BY DEF Sound, JobsOK, JobOK

\* createPaymentLink prepares a payment.
LEMMA PrepareStep ==
    ASSUME Sound, NEW j \in Jobs, Prepare(j)
    PROVE  StepOK(j)
<1> DEFINE stale == {p \in Payments : Open(p) /\ p \in lapsed}
           open == {p \in Payments : Open(p) /\ p \notin lapsed}
           closed == [p \in Payments |-> IF p \in stale THEN Updated(p, Failed("expired")) ELSE pay[p]]
<1>1. DataOK /\ job \in [Jobs -> Job]
    BY DEF Sound
<1>2. /\ PaidTimes = 0
      /\ UNCHANGED <<order, meta, linked, manual, flagged, reported, cashfree, faults, seen>>
      /\ \/ \E p \in open : pay' = closed /\ (IF pay[p].url THEN UNCHANGED job ELSE Begin(j, "create", p))
         \/ \E p \in Payments : /\ open = {}
                                /\ \A q \in Payments : pay[q].status = "none" <=> q >= p
                                /\ pay' = [closed EXCEPT ![p].status = "PENDING"]
                                /\ Begin(j, "create", p)
    BY DEF Prepare
<1>3. closed \in [Payments -> Payment]
    BY <1>1, UpdatedTyped, Constants DEF DataOK
<1>4. ASSUME NEW p \in Payments
      PROVE  /\ Open(p) /\ p \in lapsed => closed[p].status = "FAILED"
             /\ ~(Open(p) /\ p \in lapsed) => closed[p].status = pay[p].status /\ closed[p].why = pay[p].why
             /\ closed[p].id = pay[p].id
    <2>1. CASE p \in stale
        <3>1. Failed("expired") \in Update /\ Failed("expired").to = "FAILED"
            BY Constants DEF Failed, NoUpdate
        <3>2. Moves(p, Failed("expired")) /\ ~Exceptional(p, Failed("expired"))
            BY <2>1, <3>1 DEF Moves, Open, Exceptional, Kind
        <3>3. closed[p] = Updated(p, Failed("expired"))
            BY <2>1
        <3> QED BY <1>1, <2>1, <3>1, <3>2, <3>3, UpdatedFields
    <2>2. CASE p \notin stale
        BY <2>2
    <2> QED BY <2>1, <2>2
<1> HIDE DEF closed
<1>5. /\ \A p \in Payments : pay[p].status # "none" => pay'[p].status # "none"
      /\ pay' \in [Payments -> Payment]
      /\ Prepares
      /\ JobStep(j)
    <2>1. CASE \E p \in open : pay' = closed /\ (IF pay[p].url THEN UNCHANGED job ELSE Begin(j, "create", p))
        <3>1. PICK p \in open : pay' = closed /\ (IF pay[p].url THEN UNCHANGED job ELSE Begin(j, "create", p))
            BY <2>1
        <3>2. Prepares
            <4>1. 0 \notin Payments
                BY DEF Payments
            <4>2. \A q \in Payments :
                    /\ q = 0 => pay'[q].status = "PENDING"
                    /\ q # 0 /\ ~(Open(q) /\ q \in lapsed) => pay'[q].status = pay[q].status /\ pay'[q].why = pay[q].why
                    /\ q # 0 /\ Open(q) /\ q \in lapsed => pay'[q].status = "FAILED"
                    /\ pay'[q].id = pay[q].id
                BY <1>4, <3>1, <4>1
            <4> QED BY <1>2, <4>2 DEF Prepares
        <3>3. \A q \in Payments : pay[q].status # "none" => pay'[q].status # "none"
            BY <1>4, <3>1
        <3>4. pay[p].status # "none"
            BY DEF Open
        <3>5. JobStep(j)
            <4>1. CASE pay[p].url
                <5>1. job' = job
                    BY <3>1, <4>1
                <5>2. JobOK(j)
                    BY DEF Sound, JobsOK
                <5>3. JobOK(j)'
                    BY <1>2, <3>3, <5>1, <5>2 DEF JobOK, At, Held, Justified, Ended, cashfree
                <5> QED BY <1>1, <5>1, <5>3 DEF JobStep
            <4>2. CASE ~pay[p].url
                BY <1>1, <3>1, <3>3, <3>4, <4>2, Begins DEF DataOK, Held
            <4> QED BY <4>1, <4>2
        <3> QED BY <1>3, <3>1, <3>2, <3>3, <3>5
    <2>2. CASE \E p \in Payments : /\ open = {}
                                   /\ \A q \in Payments : pay[q].status = "none" <=> q >= p
                                   /\ pay' = [closed EXCEPT ![p].status = "PENDING"]
                                   /\ Begin(j, "create", p)
        <3>1. PICK p \in Payments : /\ open = {}
                                    /\ \A q \in Payments : pay[q].status = "none" <=> q >= p
                                    /\ pay' = [closed EXCEPT ![p].status = "PENDING"]
                                    /\ Begin(j, "create", p)
            BY <2>2
        <3>2. /\ pay' \in [Payments -> Payment]
              /\ \A q \in Payments : q # p => pay'[q] = closed[q]
              /\ pay'[p].status = "PENDING" /\ pay'[p].id = closed[p].id
            BY <1>3, <3>1 DEF Payment
        <3>3. \A q \in Payments :
                /\ q = p => pay'[q].status = "PENDING"
                /\ q # p /\ ~(Open(q) /\ q \in lapsed) => pay'[q].status = pay[q].status /\ pay'[q].why = pay[q].why
                /\ q # p /\ Open(q) /\ q \in lapsed => pay'[q].status = "FAILED"
                /\ pay'[q].id = pay[q].id
            BY <1>4, <3>2
        <3>4. Prepares
            BY <1>2, <3>1, <3>3 DEF Prepares
        <3>5. \A q \in Payments : pay[q].status # "none" => pay'[q].status # "none"
            BY <3>3
        <3>6. JobStep(j)
            BY <1>1, <3>1, <3>2, Begins DEF DataOK, Held
        <3> QED BY <3>2, <3>4, <3>5, <3>6
    <2> QED BY <1>2, <2>1, <2>2
<1>6. DataOK'
    BY <1>1, <1>2, <1>5 DEF DataOK, cashfree
<1> QED BY <1>5, <1>6 DEF StepOK, RowStep

\* A call of createOrRecover, answered, not answered or refused.
LEMMA CreateLinkStep ==
    ASSUME Sound, NEW j \in Jobs, CreateLink(j)
    PROVE  StepOK(j)
<1> DEFINE p == job[j].pay
           created == [link EXCEPT ![p] = IF @ = "none" THEN "active" ELSE @]
<1>1. DataOK /\ job \in [Jobs -> Job]
    BY DEF Sound
<1>2. p \in Payments /\ pay[p].status # "none"
    BY HasPayment DEF CreateLink, At, Held
<1>3. /\ link' \in {link, created}
      /\ Fault \/ NoFault
      /\ Goto(j, "finish") \/ Done(j) \/ Goto(j, "reject")
      /\ UNCHANGED <<order, meta, linked, rows, qr, lapsed, inTime, seen>>
    BY DEF CreateLink
<1>4. /\ link' \in [Payments -> {"none", "active", "paid", "expired", "cancelled"}]
      /\ \A q \in Payments : link'[q] = link[q] \/ (link[q] = "none" /\ link'[q] = "active" /\ pay[q].status # "none")
    BY <1>1, <1>2, <1>3 DEF DataOK
<1>5. CashfreeMoves
    BY <1>3, <1>4 DEF CashfreeMoves
<1>6. DataOK' /\ RowStep
    BY <1>1, <1>3, <1>4, <1>5, CallsTyped DEF rows, DataOK
<1>7. pay' = pay
    BY <1>3 DEF rows
<1>8. JobStep(j)
    BY <1>1, <1>2, <1>3, <1>7, GoesOnWith, Dones DEF Held
<1> QED BY <1>6, <1>8 DEF StepOK

\* markCreationFailed
LEMMA RejectStep ==
    ASSUME Sound, NEW j \in Jobs, Reject(j)
    PROVE  StepOK(j)
<1>1. DataOK /\ job \in [Jobs -> Job]
    BY DEF Sound
<1>2. job[j].pay \in Payments /\ pay[job[j].pay].status # "none"
    BY HasPayment DEF Reject, At, Held
<1>3. Failed("rejected") \in Update
    BY Constants
<1>4. Justified(job[j].pay, Failed("rejected"))
    BY <1>2 DEF Justified, Failed, NoUpdate
<1>5. DataOK' /\ RowStep
    BY <1>1, <1>2, <1>3, <1>4, AppliesTyped DEF Reject
<1>6. JobStep(j)
    BY <1>1, Dones DEF Reject
<1> QED BY <1>5, <1>6 DEF StepOK

\* The link, or the QR, is stored with the row, or what closing it came to.
LEMMA StoringTyped ==
    ASSUME DataOK, NEW p \in Payments,
           \/ pay' = [pay EXCEPT ![p].url = TRUE]
           \/ pay' = [pay EXCEPT ![p].qr = TRUE]
           \/ \E b \in BOOLEAN : pay' = [pay EXCEPT ![p].closed = b]
    PROVE  /\ pay' \in [Payments -> Payment]
           /\ \A q \in Payments :
                pay'[q].status = pay[q].status /\ pay'[q].why = pay[q].why /\ pay'[q].id = pay[q].id
<1>1. pay[p] \in Payment
    BY DEF DataOK
<1>2. CASE pay' = [pay EXCEPT ![p].url = TRUE]
    BY <1>1, <1>2 DEF DataOK, Payment
<1>3. CASE pay' = [pay EXCEPT ![p].qr = TRUE]
    BY <1>1, <1>3 DEF DataOK, Payment
<1>4. CASE \E b \in BOOLEAN : pay' = [pay EXCEPT ![p].closed = b]
    <2>1. PICK b \in BOOLEAN : pay' = [pay EXCEPT ![p].closed = b]
        BY <1>4
    <2> QED BY <1>1, <2>1 DEF DataOK, Payment
<1> QED BY <1>2, <1>3, <1>4

\* finish, and the QR that is stored.
LEMMA FinishStep ==
    ASSUME Sound, NEW j \in Jobs, Finish(j) \/ StoreQr(j)
    PROVE  StepOK(j)
<1>1. DataOK /\ job \in [Jobs -> Job]
    BY DEF Sound
<1>2. job[j].pay \in Payments
    BY HasPayment DEF Finish, StoreQr, At, Held
<1>3. /\ pay' = [pay EXCEPT ![job[j].pay].url = TRUE] \/ pay' = [pay EXCEPT ![job[j].pay].qr = TRUE]
      /\ Done(j) /\ NoFault
      /\ UNCHANGED <<order, meta, linked, manual, flagged, reported, cashfree, seen>>
    BY DEF Finish, StoreQr, NoFault
<1>4. /\ pay' \in [Payments -> Payment]
      /\ \A q \in Payments :
            pay'[q].status = pay[q].status /\ pay'[q].why = pay[q].why /\ pay'[q].id = pay[q].id
    BY <1>1, <1>2, <1>3, StoringTyped
<1>5. CashfreeMoves
    BY <1>3 DEF CashfreeMoves, cashfree
<1>6. DataOK' /\ RowStep
    BY <1>1, <1>3, <1>4, <1>5, CallsTyped DEF cashfree, DataOK
<1>7. JobStep(j)
    BY <1>1, <1>3, Dones
<1> QED BY <1>6, <1>7 DEF StepOK

\* Cashfree is asked to cancel the link; a refusal makes a refresh of it.
LEMMA CancelLinkStep ==
    ASSUME Sound, NEW j \in Jobs, CancelLink(j)
    PROVE  StepOK(j)
<1> DEFINE p == job[j].pay
           ended == [link EXCEPT ![p] = IF @ = "active" THEN "cancelled" ELSE @]
           w == [job[j] EXCEPT !.at = "askLink", !.qr = pay[p].qr]
<1>1. DataOK /\ job \in [Jobs -> Job]
    BY DEF Sound
<1>2. p \in Payments /\ pay[p].status # "none"
    BY HasPayment DEF CancelLink, At, Held
<1>3. /\ link' \in {link, ended}
      /\ Fault \/ NoFault
      /\ \/ link[p] = "active" /\ link' = ended /\ Goto(j, "cancelled")
         \/ job' = [job EXCEPT ![j].at = "askLink", ![j].qr = pay[p].qr]
         \/ Done(j)
      /\ UNCHANGED <<order, meta, linked, rows, qr, lapsed, inTime, seen>>
    BY DEF CancelLink
<1>4. /\ link' \in [Payments -> {"none", "active", "paid", "expired", "cancelled"}]
      /\ \A q \in Payments : link'[q] = link[q] \/ (link[q] = "active" /\ link'[q] = "cancelled")
    BY <1>1, <1>2, <1>3 DEF DataOK
<1>5. CashfreeMoves
    BY <1>3, <1>4 DEF CashfreeMoves
<1>6. DataOK' /\ RowStep
    BY <1>1, <1>3, <1>4, <1>5, CallsTyped DEF rows, DataOK
<1>7. pay' = pay
    BY <1>3 DEF rows
<1>8. JobStep(j)
    <2>1. CASE link[p] = "active" /\ link' = ended /\ Goto(j, "cancelled")
        <3>1. /\ job' = [job EXCEPT ![j] = job'[j]] /\ job'[j] \in Job
              /\ job'[j].at = "cancelled" /\ job'[j].pay = p
            BY <1>1, <2>1, Goes DEF Phases
        <3>2. link'[p] = "cancelled"
            BY <1>1, <1>2, <2>1 DEF DataOK
        <3> QED BY <1>2, <1>7, <3>1, <3>2 DEF JobStep, JobOK, At, Held
    <2>2. CASE job' = [job EXCEPT ![j].at = "askLink", ![j].qr = pay[p].qr]
        <3>1. job[j] \in Job /\ pay[p].qr \in BOOLEAN
            BY <1>1, <1>2 DEF DataOK, Payment
        <3>2. w \in Job /\ w.at = "askLink" /\ w.pay = p
            BY <3>1 DEF Job, Phases
        <3>3. job' = [job EXCEPT ![j] = w]
            BY <1>1, <2>2
        <3> HIDE DEF w
        <3>4. job'[j] = w
            BY <1>1, <3>3
        <3> QED BY <1>2, <1>7, <3>2, <3>3, <3>4 DEF JobStep, JobOK, At, Held
    <2>3. CASE Done(j)
        BY <1>1, <2>3, Dones
    <2> QED BY <1>3, <2>1, <2>2, <2>3
<1> QED BY <1>6, <1>8 DEF StepOK

\* The cancellation of the link is written to the payment.
LEMMA RecordCancelledStep ==
    ASSUME Sound, NEW j \in Jobs, RecordCancelled(j)
    PROVE  StepOK(j)
<1> DEFINE p == job[j].pay
           u == Failed("cancelled")
           w == [job[j] EXCEPT !.at = "close", !.update = u]
<1>1. DataOK /\ job \in [Jobs -> Job]
    BY DEF Sound
<1>2. p \in Payments /\ pay[p].status # "none"
    BY HasPayment DEF RecordCancelled, At, Held
<1>3. u \in Update
    BY Constants
<1>4. link[p] = "cancelled"
    BY DEF Sound, JobsOK, JobOK, RecordCancelled, At
<1>5. Justified(p, u)
    BY <1>2, <1>4 DEF Justified, Failed, NoUpdate, Ended
<1>6. ApplyUpdate(p, u) /\ NoFault /\ job' = [job EXCEPT ![j].at = "close", ![j].update = u]
    BY DEF RecordCancelled
<1> HIDE DEF u
<1>7. DataOK' /\ RowStep
    BY <1>1, <1>2, <1>3, <1>5, <1>6, AppliesTyped
<1>8. pay'[p].status # "none"
    BY <1>1, <1>2, <1>3, <1>6, AppliedRowsStay
<1>9. JobStep(j)
    <2>1. job[j] \in Job
        BY <1>1
    <2>2. w \in Job /\ w.at = "close" /\ w.pay = p
        BY <1>3, <2>1 DEF Job, Phases
    <2>3. job' = [job EXCEPT ![j] = w]
        BY <1>1, <1>6
    <2> HIDE DEF w
    <2>4. job'[j] = w
        BY <1>1, <2>3
    <2> QED BY <1>2, <1>8, <2>2, <2>3, <2>4 DEF JobStep, JobOK, At, Held
<1> QED BY <1>7, <1>9 DEF StepOK

\* The other way to pay is closed at Cashfree.
LEMMA CloseStep ==
    ASSUME Sound, NEW j \in Jobs, CloseOpenMethods(j)
    PROVE  StepOK(j)
<1> DEFINE p == job[j].pay
           paidByQr == job[j].update.to = "SUCCESS" /\ job[j].update.via = "qr"
           closable == IF paidByQr THEN link[p] = "active" ELSE qr[p] = "active"
           endLink == IF paidByQr /\ closable THEN [link EXCEPT ![p] = "cancelled"] ELSE link
           endQr == IF ~paidByQr /\ closable THEN [qr EXCEPT ![p] = "closed"] ELSE qr
           w == [job[j] EXCEPT !.at = "confirm", !.update = NoUpdate, !.notify = TRUE]
<1>1. DataOK /\ job \in [Jobs -> Job]
    BY DEF Sound
<1>2. p \in Payments /\ pay[p].status # "none"
    BY HasPayment DEF CloseOpenMethods, At, Held
<1>3. closable \in BOOLEAN
    OBVIOUS
<1>4. /\ link' \in {link, endLink} /\ qr' \in {qr, endQr}
      /\ pay' \in {pay, [pay EXCEPT ![p].closed = closable], [pay EXCEPT ![p].closed = FALSE]}
      /\ Fault \/ NoFault
      /\ AfterClosing(j)
      /\ UNCHANGED <<order, meta, linked, manual, flagged, reported, lapsed, inTime, seen>>
    BY DEF CloseOpenMethods
<1>5. /\ pay' \in [Payments -> Payment]
      /\ \A q \in Payments :
            pay'[q].status = pay[q].status /\ pay'[q].why = pay[q].why /\ pay'[q].id = pay[q].id
    <2> HIDE DEF closable
    <2>1. pay' = pay \/ \E b \in BOOLEAN : pay' = [pay EXCEPT ![p].closed = b]
        BY <1>3, <1>4
    <2>2. CASE pay' = pay
        BY <1>1, <2>2 DEF DataOK
    <2>3. CASE \E b \in BOOLEAN : pay' = [pay EXCEPT ![p].closed = b]
        BY <1>1, <1>2, <2>3, StoringTyped
    <2> QED BY <2>1, <2>2, <2>3
<1>6. /\ link' \in [Payments -> {"none", "active", "paid", "expired", "cancelled"}]
      /\ \A q \in Payments : link'[q] = link[q] \/ (link[q] = "active" /\ link'[q] = "cancelled")
    BY <1>1, <1>2, <1>4 DEF DataOK
<1>7. /\ qr' \in [Payments -> {"none", "active", "paid", "closed"}]
      /\ \A q \in Payments : qr'[q] = qr[q] \/ (qr[q] = "active" /\ qr'[q] = "closed")
    BY <1>1, <1>2, <1>4 DEF DataOK
<1>8. CashfreeMoves
    BY <1>4, <1>6, <1>7 DEF CashfreeMoves
<1>9. DataOK' /\ RowStep
    BY <1>1, <1>4, <1>5, <1>6, <1>7, <1>8, CallsTyped DEF DataOK
<1>10. JobStep(j)
    <2>1. CASE Done(j)
        BY <1>1, <2>1, Dones
    <2>2. CASE job' = [job EXCEPT ![j].at = "confirm", ![j].update = NoUpdate, ![j].notify = TRUE]
        <3>1. job[j] \in Job
            BY <1>1
        <3>2. w \in Job /\ w.at = "confirm"
            BY <3>1, Constants DEF Job, Phases
        <3>3. job' = [job EXCEPT ![j] = w]
            BY <1>1, <2>2
        <3> HIDE DEF w
        <3>4. job'[j] = w
            BY <1>1, <3>3
        <3> QED BY <3>2, <3>3, <3>4 DEF JobStep, JobOK, At, Held
    <2> QED BY <1>4, <2>1, <2>2 DEF AfterClosing
<1> QED BY <1>9, <1>10 DEF StepOK

\* The QR's order is read or created.
LEMMA CallQrStep ==
    ASSUME Sound, NEW j \in Jobs, CallQr(j)
    PROVE  StepOK(j)
<1> DEFINE p == job[j].pay
           created == [qr EXCEPT ![p] = IF @ = "none" THEN "active" ELSE @]
<1>1. DataOK /\ job \in [Jobs -> Job]
    BY DEF Sound
<1>2. p \in Payments /\ pay[p].status # "none"
    BY HasPayment DEF CallQr, At, Held
<1>3. /\ qr' \in {qr, created}
      /\ Fault \/ NoFault
      /\ Goto(j, "qrStore") \/ Done(j)
      /\ UNCHANGED <<order, meta, linked, rows, link, lapsed, inTime, seen>>
    BY DEF CallQr
<1>4. /\ qr' \in [Payments -> {"none", "active", "paid", "closed"}]
      /\ \A q \in Payments : qr'[q] = qr[q] \/ (qr[q] = "none" /\ qr'[q] = "active" /\ pay[q].status # "none")
    BY <1>1, <1>2, <1>3 DEF DataOK
<1>5. CashfreeMoves
    BY <1>3, <1>4 DEF CashfreeMoves
<1>6. DataOK' /\ RowStep
    BY <1>1, <1>3, <1>4, <1>5, CallsTyped DEF rows, DataOK
<1>7. pay' = pay
    BY <1>3 DEF rows
<1>8. JobStep(j)
    BY <1>1, <1>2, <1>3, <1>7, GoesOnWith, Dones DEF Held
<1> QED BY <1>6, <1>8 DEF StepOK

\* reconcileCashfreePayment applies what was learnt.
LEMMA ApplyStep ==
    ASSUME Sound, NEW j \in Jobs, Apply(j)
    PROVE  StepOK(j)
<1> DEFINE p == job[j].pay
           u == job[j].update
<1>1. DataOK /\ job \in [Jobs -> Job]
    BY DEF Sound
<1>2. p \in Payments /\ pay[p].status # "none"
    BY HasPayment DEF Apply, At, Held
<1>3. u \in Update
    BY <1>1 DEF Job
<1>4. Justified(p, u)
    BY DEF Sound, JobsOK, JobOK, Apply, At
<1>5. ApplyUpdate(p, u) /\ NoFault /\ (Done(j) \/ Goto(j, "close") \/ Goto(j, "recover"))
    BY DEF Apply
<1> HIDE DEF u
<1>6. DataOK' /\ RowStep
    BY <1>1, <1>2, <1>3, <1>4, <1>5, AppliesTyped
<1>7. pay'[p].status # "none"
    BY <1>1, <1>2, <1>3, <1>5, AppliedRowsStay
<1>8. JobStep(j)
    <2>1. CASE Done(j)
        BY <1>1, <2>1, Dones
    <2>2. CASE Goto(j, "close")
        BY <1>1, <1>2, <1>7, <2>2, GoesOnWith DEF Held
    <2>3. CASE Goto(j, "recover")
        BY <1>1, <2>3, GoesOn DEF Held, Phases
    <2> QED BY <1>5, <2>1, <2>2, <2>3
<1> QED BY <1>6, <1>8 DEF StepOK

\* A user starts on a payment whose row is there, or is told of it.
LEMMA UserBeginsStep ==
    ASSUME Sound, NEW j \in Jobs, NEW p \in Payments, Cancel(j, p) \/ Refresh(j, p) \/ WantQr(j, p)
    PROVE  StepOK(j)
<1>1. DataOK /\ job \in [Jobs -> Job]
    BY DEF Sound
<1>2. /\ pay[p].status # "none"
      /\ \E phase \in {"cancel", "askLink", "qrCall"} : Begin(j, phase, p)
      /\ UNCHANGED <<order, meta, linked, rows, cashfree, seen>> /\ NoFault
    BY DEF Cancel, Refresh, WantQr, Open, NoFault
<1>3. pay' = pay
    BY <1>2 DEF rows
<1>4. PICK phase \in {"cancel", "askLink", "qrCall"} : Begin(j, phase, p)
    BY <1>2
<1>5. JobStep(j)
    BY <1>1, <1>2, <1>3, <1>4, Begins DEF DataOK, Held
<1> QED BY <1>1, <1>2, <1>5, OnlyReads DEF StepOK

\* What is learnt is so, and a delivery of it is applied.
LEMMA Learns ==
    ASSUME job \in [Jobs -> Job], NEW j \in Jobs, NEW p \in Payments, NEW u \in Update,
           Learn(j, p, u), Justified(p, u)'
    PROVE  JobStep(j)
<1> DEFINE w == [Idle EXCEPT !.at = "apply", !.pay = p, !.update = u]
<1>1. w \in Job /\ w.at = "apply" /\ w.pay = p /\ w.update = u
    BY Constants DEF Job, Phases
<1>2. job' = [job EXCEPT ![j] = w]
    BY DEF Learn
<1> HIDE DEF w
<1>3. job'[j] = w
    BY <1>2
<1>4. pay'[p].status # "none"
    BY DEF Justified
<1>5. JobOK(j)'
    BY <1>1, <1>3, <1>4 DEF JobOK, At, Held
<1> QED BY <1>1, <1>2, <1>3, <1>5 DEF JobStep

LEMMA HookStep ==
    ASSUME Sound, NEW j \in Jobs, NEW p \in Payments, HookPaid(j, p) \/ HookEnded(j, p)
    PROVE  StepOK(j)
<1>1. DataOK /\ job \in [Jobs -> Job]
    BY DEF Sound
<1>2. /\ UNCHANGED <<order, meta, linked, rows, cashfree, seen>> /\ NoFault
    BY DEF HookPaid, HookEnded, NoFault
<1>3. UNCHANGED <<pay, link, qr, lapsed, inTime>>
    BY <1>2 DEF rows, cashfree
<1>4. \E u \in Update : Justified(p, u) /\ Learn(j, p, u)
    <2>1. CASE link[p] = "paid" /\ \E id \in {"link", "none"} : Learn(j, p, Paid("link", id, "unknown"))
        <3>1. PICK id \in {"link", "none"} : Learn(j, p, Paid("link", id, "unknown"))
            BY <2>1
        <3> DEFINE u == Paid("link", id, "unknown")
        <3>2. u \in Update /\ u.to = "SUCCESS" /\ u.via = "link" /\ u.id = id
            BY DEF Paid, NoUpdate, Update, Methods
        <3>3. Justified(p, u)
            BY <2>1, <3>2 DEF Justified, Sound, Issued
        <3> QED BY <3>1, <3>2, <3>3
    <2>2. CASE qr[p] = "paid" /\ Learn(j, p, Paid("qr", "qr", IF p \in inTime THEN "in time" ELSE "late"))
        <3> DEFINE t == IF p \in inTime THEN "in time" ELSE "late"
                   u == Paid("qr", "qr", t)
        <3>1. u \in Update /\ u.to = "SUCCESS" /\ u.via = "qr" /\ u.id = "qr" /\ u.paidAt = t
            <4>1. t \in {"unknown", "in time", "late"}
                OBVIOUS
            <4> HIDE DEF t
            <4> QED BY <4>1 DEF Paid, NoUpdate, Update, Methods
        <3> HIDE DEF u
        <3>2. Justified(p, u)
            BY <2>2, <3>1 DEF Justified, Sound, Issued
        <3> QED BY <2>2, <3>1, <3>2 DEF u
    <2>3. CASE link[p] \in {"expired", "cancelled"} /\ Learn(j, p, Failed(link[p]))
        <3> DEFINE u == Failed(link[p])
        <3>1. u \in Update
            BY <2>3, Constants
        <3>2. Justified(p, u)
            BY <2>3 DEF Justified, Failed, NoUpdate, Ended, Sound, Issued
        <3> QED BY <2>3, <3>1, <3>2
    <2> QED BY <2>1, <2>2, <2>3 DEF HookPaid, HookEnded
<1>5. PICK u \in Update : Justified(p, u) /\ Learn(j, p, u)
    BY <1>4
<1>6. Justified(p, u)'
    BY <1>3, <1>5 DEF Justified, Ended
<1>7. JobStep(j)
    BY <1>1, <1>5, <1>6, Learns
<1> QED BY <1>1, <1>2, <1>7, OnlyReads DEF StepOK

\* The catch-up reads its batch, and a payment of it.
LEMMA SweepStep ==
    ASSUME Sound, NEW j \in Jobs, Sweep(j) \/ SweepNext(j)
    PROVE  StepOK(j)
<1>1. DataOK /\ job \in [Jobs -> Job]
    BY DEF Sound
<1>2. /\ UNCHANGED <<order, meta, linked, rows, cashfree, seen>> /\ NoFault
    BY DEF Sweep, SweepNext, NoFault
<1>3. pay' = pay
    BY <1>2 DEF rows
<1>4. JobStep(j)
    <2>1. CASE Sweep(j)
        <3> DEFINE due == {p \in Payments : \/ Open(p)
                                            \/ pay[p].status = "SUCCESS" /\ order = "PENDING_PAYMENT"}
                   w == [Idle EXCEPT !.at = "sweep", !.then = "sweep", !.todo = due]
        <3>1. due \in SUBSET Payments
            OBVIOUS
        <3>2. job' = [job EXCEPT ![j] = w]
            BY <2>1 DEF Sweep
        <3> HIDE DEF due
        <3>3. w \in Job /\ w.at = "sweep"
            BY <3>1, Constants DEF Job, Phases
        <3> HIDE DEF w
        <3>4. job'[j] = w
            BY <1>1, <3>2
        <3> QED BY <3>2, <3>3, <3>4 DEF JobStep, JobOK, At, Held
    <2>2. CASE SweepNext(j)
        <3> DEFINE p == Min(job[j].todo)
                   asks == pay[p].status \in {"PENDING", "SUCCESS"}
                   b == asks /\ pay[p].qr
                   at == IF asks THEN "askLink" ELSE "sweep"
                   n == IF asks THEN p ELSE 0
                   w == [job[j] EXCEPT !.todo = @ \ {p}, !.at = at, !.pay = n, !.qr = b]
        <3>1. CASE job[j].todo = {}
            BY <1>1, <2>2, <3>1, Ends DEF SweepNext
        <3>2. CASE job[j].todo # {}
            <4>1. job[j] \in Job /\ job[j].todo \in SUBSET Payments
                BY <1>1 DEF Job
            <4>2. p \in Payments
                BY <3>2, <4>1, MinIn
            <4>3. job' = [job EXCEPT ![j] = w]
                BY <1>1, <2>2, <3>2 DEF SweepNext
            <4>4. b \in BOOLEAN
                BY <1>1, <4>2 DEF DataOK, Payment
            <4>5. at \in {"askLink", "sweep"} /\ n \in Payments \cup {0}
                  /\ (at = "askLink" => n \in Payments /\ pay[n].status # "none")
                BY <4>2
            <4> HIDE DEF p, b, at, n
            <4>6. w \in Job /\ w.at = at /\ w.pay = n
                BY <4>1, <4>4, <4>5 DEF Job, Phases
            <4> HIDE DEF w
            <4>7. job'[j] = w
                BY <1>1, <4>3
            <4> QED BY <1>3, <4>3, <4>5, <4>6, <4>7 DEF JobStep, JobOK, At, Held
        <3> QED BY <3>1, <3>2
    <2> QED BY <2>1, <2>2
<1> QED BY <1>1, <1>2, <1>4, OnlyReads DEF StepOK

\* What Cashfree says of a link or a QR is so.
LEMMA AskLinkStep ==
    ASSUME Sound, NEW j \in Jobs, AskLink(j)
    PROVE  StepOK(j)
<1> DEFINE p == job[j].pay
           other == IF job[j].qr THEN "askQr" ELSE "apply"
           told(u, phase) == job' = [job EXCEPT ![j].at = phase, ![j].update = u, ![j].qr = FALSE]
<1>1. DataOK /\ job \in [Jobs -> Job]
    BY DEF Sound
<1>2. p \in Payments /\ pay[p].status # "none"
    BY HasPayment DEF AskLink, At, Held
<1>3. /\ UNCHANGED <<order, meta, linked, rows, cashfree, seen>>
      /\ Fault \/ NoFault
    BY DEF AskLink
<1>4. UNCHANGED <<pay, link, qr, lapsed, inTime>>
    BY <1>3 DEF rows, cashfree
<1>5. \/ Done(j)
      \/ \E u \in Update, phase \in {"askQr", "apply"} : Justified(p, u) /\ told(u, phase)
    <2>1. CASE link[p] = "paid" /\ \E id \in {"link", "none"} : told(Paid("link", id, "unknown"), "apply")
        <3>1. PICK id \in {"link", "none"} : told(Paid("link", id, "unknown"), "apply")
            BY <2>1
        <3> DEFINE u == Paid("link", id, "unknown")
        <3>2. u \in Update /\ u.to = "SUCCESS" /\ u.via = "link" /\ u.id = id
            BY DEF Paid, NoUpdate, Update, Methods
        <3> HIDE DEF u
        <3>3. Justified(p, u)
            BY <1>2, <2>1, <3>2 DEF Justified
        <3> QED BY <3>1, <3>2, <3>3 DEF u
    <2>2. CASE link[p] = "active" /\ told(NoUpdate, other)
        <3>1. NoUpdate \in Update
            BY Constants
        <3>2. Justified(p, NoUpdate)
            BY <1>2 DEF Justified, NoUpdate
        <3>3. other \in {"askQr", "apply"}
            OBVIOUS
        <3> QED BY <2>2, <3>1, <3>2, <3>3
    <2>3. CASE link[p] \in {"expired", "cancelled"} /\ told(Failed(link[p]), other)
        <3> DEFINE u == Failed(link[p])
        <3>1. u \in Update
            BY <2>3, Constants
        <3>2. Justified(p, u)
            BY <1>2, <2>3 DEF Justified, Failed, NoUpdate, Ended
        <3>3. other \in {"askQr", "apply"}
            OBVIOUS
        <3> QED BY <2>3, <3>1, <3>2, <3>3
    <2> QED BY <2>1, <2>2, <2>3 DEF AskLink
<1>6. JobStep(j)
    <2>1. CASE Done(j)
        BY <1>1, <2>1, Dones
    <2>2. CASE \E u \in Update, phase \in {"askQr", "apply"} : Justified(p, u) /\ told(u, phase)
        <3>1. PICK u \in Update, phase \in {"askQr", "apply"} : Justified(p, u) /\ told(u, phase)
            BY <2>2
        <3> DEFINE w == [job[j] EXCEPT !.at = phase, !.update = u, !.qr = FALSE]
        <3>2. job[j] \in Job
            BY <1>1
        <3>3. w \in Job /\ w.at = phase /\ w.update = u /\ w.pay = p
            BY <3>2 DEF Job, Phases
        <3>4. job' = [job EXCEPT ![j] = w]
            BY <1>1, <3>1
        <3> HIDE DEF w
        <3>5. job'[j] = w
            BY <1>1, <3>4
        <3>6. job'[j].pay = job[j].pay /\ job'[j].update = u
            BY <3>3, <3>5
        <3>7. Justified(job[j].pay, u)
            BY <3>1
        <3> HIDE DEF told
        <3>8. Justified(job[j].pay, job[j].update)'
            BY <1>4, <3>6, <3>7 DEF Justified, Ended
        <3>9. JobOK(j)'
            BY <1>2, <1>4, <3>3, <3>5, <3>8 DEF JobOK, At, Held
        <3> QED BY <3>3, <3>4, <3>5, <3>9 DEF JobStep
    <2> QED BY <1>5, <2>1, <2>2
<1> QED BY <1>1, <1>3, <1>6, OnlyReads DEF StepOK

LEMMA AskQrStep ==
    ASSUME Sound, NEW j \in Jobs, AskQr(j)
    PROVE  StepOK(j)
<1> DEFINE p == job[j].pay
           u == Paid("qr", "qr", "unknown")
           w == [job[j] EXCEPT !.at = "apply", !.update = u]
<1>1. DataOK /\ job \in [Jobs -> Job]
    BY DEF Sound
<1>2. p \in Payments /\ pay[p].status # "none"
    BY HasPayment DEF AskQr, At, Held
<1>3. Justified(p, job[j].update)
    BY DEF Sound, JobsOK, JobOK, AskQr, At
<1>4. /\ UNCHANGED <<order, meta, linked, rows, cashfree, seen>>
      /\ Fault \/ NoFault
    BY DEF AskQr
<1>5. UNCHANGED <<pay, link, qr, lapsed, inTime>>
    BY <1>4 DEF rows, cashfree
<1>6. JobStep(j)
    <2>1. CASE Goto(j, "apply")
        <3>1. /\ job' = [job EXCEPT ![j] = job'[j]] /\ job'[j] \in Job
              /\ job'[j].at = "apply" /\ job'[j].pay = p /\ job'[j].update = job[j].update
            BY <1>1, <2>1, Goes DEF Phases
        <3>2. Justified(job[j].pay, job[j].update)'
            BY <1>3, <1>5, <3>1 DEF Justified, Ended
        <3> QED BY <1>2, <1>5, <3>1, <3>2 DEF JobStep, JobOK, At, Held
    <2>2. CASE qr[p] = "paid" /\ job' = [job EXCEPT ![j].at = "apply", ![j].update = u]
        <3>1. u \in Update /\ u.to = "SUCCESS" /\ u.via = "qr" /\ u.id = "qr" /\ u.paidAt = "unknown"
            BY DEF Paid, NoUpdate, Update, Methods
        <3> HIDE DEF u
        <3>2. job[j] \in Job
            BY <1>1
        <3>3. w \in Job /\ w.at = "apply" /\ w.update = u /\ w.pay = p
            BY <3>1, <3>2 DEF Job, Phases
        <3>4. job' = [job EXCEPT ![j] = w]
            BY <1>1, <2>2
        <3> HIDE DEF w
        <3>5. job'[j] = w
            BY <1>1, <3>4
        <3>6. Justified(job[j].pay, job[j].update)'
            BY <1>2, <1>5, <2>2, <3>1, <3>3, <3>5 DEF Justified
        <3> QED BY <1>2, <1>5, <3>3, <3>4, <3>5, <3>6 DEF JobStep, JobOK, At, Held
    <2> QED BY <2>1, <2>2 DEF AskQr
<1> QED BY <1>1, <1>4, <1>6, OnlyReads DEF StepOK

\* Steps that read the order and its metadata and go on.
LEMMA ReadingStep ==
    ASSUME Sound, NEW j \in Jobs, Recover(j) \/ Confirm(j) \/ Sync(j) \/ Notify(j)
    PROVE  StepOK(j)
<1>1. DataOK /\ job \in [Jobs -> Job]
    BY DEF Sound
<1>2. /\ UNCHANGED <<order, meta, linked, rows, cashfree, seen>>
      /\ Fault \/ NoFault
    BY DEF Recover, Confirm, Sync, Notify, NoFault
<1>3. \/ Done(j)
      \/ \E phase \in {"commit", "sync", "notify"} : Goto(j, phase)
      \/ job' = [job EXCEPT ![j].at = "confirm", ![j].update = NoUpdate]
      \/ \E phase \in {"syncWrite", "notifyWrite"} : job' = [job EXCEPT ![j].at = phase, ![j].read = meta]
    BY DEF Recover, Confirm, Sync, Notify, AfterSync
<1>4. JobStep(j)
    <2>1. CASE Done(j)
        BY <1>1, <2>1, Dones
    <2>2. CASE \E phase \in {"commit", "sync", "notify"} : Goto(j, phase)
        <3>1. PICK phase \in {"commit", "sync", "notify"} : Goto(j, phase)
            BY <2>2
        <3>2. phase \in Phases \ (Held \cup {"revert"})
            BY DEF Phases, Held
        <3> QED BY <1>1, <3>1, <3>2, GoesOn
    <2>3. CASE job' = [job EXCEPT ![j].at = "confirm", ![j].update = NoUpdate]
        <3> DEFINE w == [job[j] EXCEPT !.at = "confirm", !.update = NoUpdate]
        <3>1. job[j] \in Job
            BY <1>1
        <3>2. w \in Job /\ w.at = "confirm"
            BY <3>1, Constants DEF Job, Phases
        <3>3. job' = [job EXCEPT ![j] = w]
            BY <1>1, <2>3
        <3> HIDE DEF w
        <3>4. job'[j] = w
            BY <1>1, <3>3
        <3> QED BY <3>2, <3>3, <3>4 DEF JobStep, JobOK, At, Held
    <2>4. CASE \E phase \in {"syncWrite", "notifyWrite"} : job' = [job EXCEPT ![j].at = phase, ![j].read = meta]
        <3>1. PICK phase \in {"syncWrite", "notifyWrite"} : job' = [job EXCEPT ![j].at = phase, ![j].read = meta]
            BY <2>4
        <3> DEFINE w == [job[j] EXCEPT !.at = phase, !.read = meta]
        <3>2. job[j] \in Job /\ meta \in Metadata
            BY <1>1 DEF DataOK
        <3>3. w \in Job /\ w.at = phase
            BY <3>2 DEF Job, Phases
        <3>4. job' = [job EXCEPT ![j] = w]
            BY <1>1, <3>1
        <3> HIDE DEF w
        <3>5. job'[j] = w
            BY <1>1, <3>4
        <3> QED BY <3>3, <3>4, <3>5 DEF JobStep, JobOK, At, Held
    <2> QED BY <1>3, <2>1, <2>2, <2>3, <2>4
<1> QED BY <1>1, <1>2, <1>4, OnlyReads DEF StepOK

\* confirmPaidPrepaidOrder's write, and the writes of metadata read before.
LEMMA WritingStep ==
    ASSUME Sound, NEW j \in Jobs, Commit(j) \/ SyncWrite(j) \/ NotifyWrite(j)
    PROVE  StepOK(j)
<1>1. DataOK /\ job \in [Jobs -> Job]
    BY DEF Sound
<1>2. job[j] \in Job /\ job[j].read \in Metadata
    BY <1>1 DEF Job
<1>3. UNCHANGED <<rows, cashfree, faults, seen>>
    BY DEF Commit, SyncWrite, NotifyWrite
<1>4. /\ order' \in {"PENDING_PAYMENT", "CONFIRMED", "CANCELLED"} /\ linked' \in BOOLEAN
      /\ meta' \in Metadata
    <2>1. CASE Commit(j)
        BY <1>1, <2>1 DEF Commit, DataOK
    <2>2. CASE SyncWrite(j)
        <3>1. PICK ok \in BOOLEAN : meta' = [job[j].read EXCEPT !.synced = ok]
            BY <2>2 DEF SyncWrite
        <3>2. meta' \in Metadata
            BY <1>2, <3>1 DEF Metadata
        <3> QED BY <1>1, <2>2, <3>2 DEF SyncWrite, DataOK
    <2>3. CASE NotifyWrite(j)
        <3>1. meta' \in Metadata
            BY <1>2, <2>3 DEF NotifyWrite, Metadata
        <3> QED BY <1>1, <2>3, <3>1 DEF NotifyWrite, DataOK
    <2> QED BY <2>1, <2>2, <2>3
<1>5. \/ Done(j) \/ Goto(j, "sync")
      \/ job' = [job EXCEPT ![j].at = "notify", ![j].read = NoMetadata]
    BY DEF Commit, SyncWrite, NotifyWrite
<1>6. JobStep(j)
    <2>1. CASE Done(j)
        BY <1>1, <2>1, Dones
    <2>2. CASE Goto(j, "sync")
        BY <1>1, <2>2, GoesOn DEF Held, Phases
    <2>3. CASE job' = [job EXCEPT ![j].at = "notify", ![j].read = NoMetadata]
        <3> DEFINE w == [job[j] EXCEPT !.at = "notify", !.read = NoMetadata]
        <3>1. w \in Job /\ w.at = "notify"
            BY <1>2, Constants DEF Job, Phases
        <3>2. job' = [job EXCEPT ![j] = w]
            BY <1>1, <2>3
        <3> HIDE DEF w
        <3>3. job'[j] = w
            BY <1>1, <3>2
        <3> QED BY <3>1, <3>2, <3>3 DEF JobStep, JobOK, At, Held
    <2> QED BY <1>5, <2>1, <2>2, <2>3
<1> QED BY <1>1, <1>3, <1>4, <1>6, OnlyOrder DEF StepOK

\* markPrepaidOrderPaid
LEMMA MarkPaidStep ==
    ASSUME Sound, NEW j \in Jobs, MarkPaid(j)
    PROVE  StepOK(j)
<1> DEFINE w == [Idle EXCEPT !.at = "confirm", !.pay = 0, !.qr = FALSE]
<1>1. DataOK /\ job \in [Jobs -> Job]
    BY DEF Sound
<1>2. /\ manual' = (manual \/ PaidTimes = 0)
      /\ UNCHANGED <<order, meta, linked, pay, flagged, reported, cashfree, faults, seen>>
    BY DEF MarkPaid
<1>3. manual' \in BOOLEAN
    BY <1>2
<1>4. DataOK'
    BY <1>1, <1>2, <1>3 DEF DataOK, cashfree
<1>5. RowStep
    BY <1>2 DEF RowStep, Verifies
<1>6. JobStep(j)
    <2>1. job' = [job EXCEPT ![j] = w]
        BY DEF MarkPaid, Begin
    <2>2. w \in Job /\ w.at = "confirm"
        BY Constants DEF Job, Phases
    <2> HIDE DEF w
    <2>3. job'[j] = w
        BY <1>1, <2>1
    <2> QED BY <2>1, <2>2, <2>3 DEF JobStep, JobOK, At, Held
<1> QED BY <1>4, <1>5, <1>6 DEF StepOK

\* cancelOrder reads the order and the payments that are open, and then each again.
LEMMA VoidReadsStep ==
    ASSUME Sound, NEW j \in Jobs, Void(j) \/ VoidLinks(j)
    PROVE  StepOK(j)
<1>1. DataOK /\ job \in [Jobs -> Job]
    BY DEF Sound
<1>2. /\ UNCHANGED <<order, meta, linked, rows, cashfree, seen>> /\ NoFault
    BY DEF Void, VoidLinks, NoFault
<1>3. pay' = pay
    BY <1>2 DEF rows
<1>4. JobStep(j)
    <2>1. CASE Void(j)
        <3> DEFINE fresh == order # "CANCELLED"
                   open == {p \in Payments : Open(p)}
                   at == IF fresh THEN "void" ELSE "links"
                   held == IF fresh THEN [meta EXCEPT !.pre = order] ELSE meta
                   w == [Idle EXCEPT !.at = at, !.then = "links", !.todo = open, !.held = held]
        <3>1. job' = [job EXCEPT ![j] = w]
            BY <2>1 DEF Void
        <3>2. open \in SUBSET Payments /\ at \in {"void", "links"}
            OBVIOUS
        <3>3. held \in Metadata
            BY <1>1 DEF DataOK, Metadata
        <3> HIDE DEF open, at, held
        <3>4. w \in Job /\ w.at = at
            BY <3>2, <3>3, Constants DEF Job, Phases
        <3> HIDE DEF w
        <3>5. job'[j] = w
            BY <1>1, <3>1
        <3> QED BY <3>1, <3>2, <3>4, <3>5 DEF JobStep, JobOK, At, Held
    <2>2. CASE VoidLinks(j)
        <3> DEFINE p == Min(job[j].todo)
                   at == IF Open(p) THEN "cancel" ELSE "links"
                   n == IF Open(p) THEN p ELSE 0
                   w == [job[j] EXCEPT !.todo = @ \ {p}, !.at = at, !.pay = n]
        <3>1. CASE job[j].todo = {}
            BY <1>1, <2>2, <3>1, GoesOn DEF VoidLinks, Held, Phases
        <3>2. CASE job[j].todo # {}
            <4>1. job[j] \in Job /\ job[j].todo \in SUBSET Payments
                BY <1>1 DEF Job
            <4>2. p \in Payments
                BY <3>2, <4>1, MinIn
            <4>3. job' = [job EXCEPT ![j] = w]
                BY <1>1, <2>2, <3>2 DEF VoidLinks
            <4>4. at \in {"cancel", "links"} /\ n \in Payments \cup {0}
                  /\ (at = "cancel" => n \in Payments /\ pay[n].status # "none")
                BY <4>2 DEF Open
            <4> HIDE DEF p, at, n
            <4>5. w \in Job /\ w.at = at /\ w.pay = n
                BY <4>1, <4>4 DEF Job, Phases
            <4> HIDE DEF w
            <4>6. job'[j] = w
                BY <1>1, <4>3
            <4> QED BY <1>3, <4>3, <4>4, <4>5, <4>6 DEF JobStep, JobOK, At, Held
        <3> QED BY <3>1, <3>2
    <2> QED BY <2>1, <2>2
<1> QED BY <1>1, <1>2, <1>4, OnlyReads DEF StepOK

\* cancelOrder and revertCancellation write what they read.
LEMMA VoidWritesStep ==
    ASSUME Sound, NEW j \in Jobs,
           VoidStatus(j) \/ VoidMeta(j) \/ VoidEnd(j) \/ RevertStatus(j) \/ RevertMeta(j)
    PROVE  StepOK(j)
<1>1. DataOK /\ job \in [Jobs -> Job]
    BY DEF Sound
<1>2. job[j] \in Job /\ job[j].held \in Metadata
    BY <1>1 DEF Job
<1>3. UNCHANGED <<linked, rows, cashfree, faults, seen>>
    BY DEF VoidStatus, VoidMeta, VoidEnd, RevertStatus, RevertMeta
<1>4. order' \in {"PENDING_PAYMENT", "CONFIRMED", "CANCELLED"}
    <2>1. CASE RevertStatus(j)
        <3>1. job[j].held.pre # "none"
            BY <2>1 DEF Sound, JobsOK, JobOK, RevertStatus, At
        <3>2. job[j].held.pre \in {"PENDING_PAYMENT", "CONFIRMED"}
            BY <1>2, <3>1 DEF Metadata
        <3> QED BY <1>1, <2>1, <3>2 DEF RevertStatus, DataOK
    <2>2. CASE ~RevertStatus(j)
        BY <1>1, <2>2 DEF VoidStatus, VoidMeta, VoidEnd, RevertMeta, DataOK
    <2> QED BY <2>1, <2>2
<1>5. meta' \in Metadata
    <2>1. meta' = meta \/ meta' = job[j].held \/ meta' = [job[j].held EXCEPT !.pre = "none"]
        BY DEF VoidStatus, VoidMeta, VoidEnd, RevertStatus, RevertMeta
    <2> QED BY <1>1, <1>2, <2>1 DEF DataOK, Metadata
<1>6. \/ job' = [job EXCEPT ![j] = Idle]
      \/ \E phase \in {"voidMeta", "links", "revertMeta"} : Goto(j, phase)
    BY DEF VoidStatus, VoidMeta, VoidEnd, RevertStatus, RevertMeta
<1>7. JobStep(j)
    <2>1. CASE job' = [job EXCEPT ![j] = Idle]
        BY <1>1, <2>1, Ends
    <2>2. CASE \E phase \in {"voidMeta", "links", "revertMeta"} : Goto(j, phase)
        <3>1. PICK phase \in {"voidMeta", "links", "revertMeta"} : Goto(j, phase)
            BY <2>2
        <3>2. phase \in Phases \ (Held \cup {"revert"})
            BY DEF Phases, Held
        <3> QED BY <1>1, <3>1, <3>2, GoesOn
    <2> QED BY <1>6, <2>1, <2>2
<1>8. linked' \in BOOLEAN
    BY <1>1, <1>3 DEF DataOK
<1> QED BY <1>1, <1>3, <1>4, <1>5, <1>7, <1>8, OnlyOrder DEF StepOK

\* Only a user reverts, and only from a status that was kept.
LEMMA RevertStep ==
    ASSUME Sound, NEW j \in Jobs, j \in Users, Revert(j)
    PROVE  StepOK(j)
<1> DEFINE w == [Idle EXCEPT !.at = "revert", !.held = meta]
<1>1. DataOK /\ job \in [Jobs -> Job]
    BY DEF Sound
<1>2. /\ UNCHANGED <<order, meta, linked, rows, cashfree, seen>> /\ NoFault
      /\ meta.pre # "none"
      /\ job' = [job EXCEPT ![j] = w]
    BY DEF Revert, NoFault
<1>3. w \in Job /\ w.at = "revert" /\ w.held = meta
    BY <1>1, Constants DEF Job, Phases, DataOK
<1> HIDE DEF w
<1>4. job'[j] = w
    BY <1>1, <1>2
<1>5. JobStep(j)
    BY <1>2, <1>3, <1>4 DEF JobStep, JobOK, At, Held
<1> QED BY <1>1, <1>2, <1>5, OnlyReads DEF StepOK

LEMMA StopStep ==
    ASSUME Sound, NEW j \in Jobs, Stop(j)
    PROVE  StepOK(j)
<1>1. DataOK /\ job \in [Jobs -> Job]
    BY DEF Sound
<1>2. /\ UNCHANGED <<order, meta, linked, rows, cashfree, seen>> /\ Fault
      /\ job' = [job EXCEPT ![j] = Idle]
    BY DEF Stop
<1> QED BY <1>1, <1>2, Ends, OnlyReads DEF StepOK

\* Every step is the customer's, or a job's that is in order.
LEMMA NextSteps ==
    ASSUME Sound, Next
    PROVE  /\ DataOK' /\ RowStep
           /\ UNCHANGED job \/ \E j \in Jobs : JobStep(j)
<1>1. CASE Customer
    BY <1>1, CustomerStep DEF Sound
<1>2. ASSUME NEW j \in Users, UserStart(j) PROVE StepOK(j)
    <2>1. j \in Jobs
        BY DEF Jobs
    <2> QED BY <1>2, <2>1, PrepareStep, UserBeginsStep, MarkPaidStep, VoidReadsStep, RevertStep DEF UserStart
<1>3. ASSUME NEW j \in Hooks, HookStart(j) PROVE StepOK(j)
    <2>1. j \in Jobs
        BY DEF Jobs
    <2> QED BY <1>3, <2>1, HookStep DEF HookStart
<1>4. ASSUME NEW j \in Sweepers, Sweep(j) PROVE StepOK(j)
    <2>1. j \in Jobs
        BY DEF Jobs
    <2> QED BY <1>4, <2>1, SweepStep
<1>5. ASSUME NEW j \in Jobs, Step(j) PROVE StepOK(j)
    BY <1>5, CreateLinkStep, RejectStep, FinishStep, CancelLinkStep, RecordCancelledStep, CloseStep,
       SweepStep, AskLinkStep, AskQrStep, ApplyStep, ReadingStep, WritingStep, CallQrStep,
       VoidReadsStep, VoidWritesStep DEF Step
<1>6. ASSUME NEW j \in Jobs, Stop(j) PROVE StepOK(j)
    BY <1>6, StopStep
<1>7. Jobs = Users \cup Hooks \cup Sweepers
    BY DEF Jobs
<1>8. CASE \E j \in Jobs : StepOK(j)
    BY <1>8 DEF StepOK
<1> QED BY <1>1, <1>2, <1>3, <1>4, <1>5, <1>6, <1>7, <1>8 DEF Next

--------------------------------------------------------------------------------
(* What only grows *)

\* What applyPaymentUpdate leaves of the rows.
LEMMA AppliedRows ==
    ASSUME DataOK, NEW p \in Payments, NEW u \in Update, ApplyUpdate(p, u)
    PROVE  /\ \A q \in Payments : q # p => pay'[q] = pay[q]
           /\ Exceptional(p, u) => pay'[p] = pay[p]
           /\ ~Exceptional(p, u) =>
                /\ pay'[p].status = IF Moves(p, u) THEN u.to ELSE pay[p].status
                /\ pay'[p].why = IF Moves(p, u) THEN u.why ELSE pay[p].why
                /\ pay'[p].id = IF pay'[p].status = "SUCCESS" /\ pay[p].id = "none"
                                THEN u.id ELSE pay[p].id
           /\ UNCHANGED <<manual, link, qr, lapsed, inTime>>
<1>1. pay' = [pay EXCEPT ![p] = Updated(p, u)]
    BY DEF ApplyUpdate
<1>2. pay'[p] = Updated(p, u) /\ \A q \in Payments : q # p => pay'[q] = pay[q]
    BY <1>1 DEF DataOK
<1>3. UNCHANGED <<manual, link, qr, lapsed, inTime>>
    BY DEF ApplyUpdate, cashfree
<1> QED BY <1>2, <1>3, UpdatedFields

\* A row that is there stays there; a successful payment stays so, with the Cashfree
\* payment that is known for it.
LEMMA RowsGrow ==
    ASSUME DataOK, RowStep, NEW q \in Payments
    PROVE  /\ pay[q].status # "none" => pay'[q].status # "none"
           /\ pay[q].status = "SUCCESS" =>
                pay'[q].status = "SUCCESS" /\ (pay[q].id # "none" => pay'[q].id = pay[q].id)
<1>1. CASE Undecided
    BY <1>1 DEF Undecided
<1>2. CASE Prepares
    <2>1. pay[q].status # "SUCCESS"
        <3>1. Successful \in SUBSET Payments /\ IsFiniteSet(Payments)
            BY FS_Interval DEF Successful, Payments
        <3>2. IsFiniteSet(Successful) /\ Cardinality(Successful) \in Nat
            BY <3>1, FS_Subset, FS_CardinalityType
        <3>3. Cardinality(Successful) = 0
            BY <1>2, <3>2 DEF Prepares, PaidTimes
        <3>4. Successful = {}
            BY <3>2, <3>3, FS_EmptySet
        <3> QED BY <3>4 DEF Successful
    <2> QED BY <1>2, <2>1 DEF Prepares
<1>3. CASE Applies
    <2>1. PICK p \in Payments, u \in Update : Justified(p, u) /\ ApplyUpdate(p, u)
        BY <1>3 DEF Applies
    <2>2. CASE q # p
        BY <2>1, <2>2, AppliedRows
    <2>3. CASE q = p
        <3>1. CASE Exceptional(p, u)
            BY <2>1, <2>3, <3>1, AppliedRows
        <3>2. CASE ~Exceptional(p, u)
            <4>1. /\ pay'[p].status = IF Moves(p, u) THEN u.to ELSE pay[p].status
                  /\ pay'[p].id = IF pay'[p].status = "SUCCESS" /\ pay[p].id = "none"
                                  THEN u.id ELSE pay[p].id
                BY <2>1, <3>2, AppliedRows
            <4> QED BY <2>3, <4>1 DEF Moves
        <3> QED BY <3>1, <3>2
    <2> QED BY <2>2, <2>3
<1>4. CASE Verifies
    BY <1>4 DEF Verifies
<1> QED BY <1>1, <1>2, <1>3, <1>4 DEF RowStep

\* A link that ended or was paid, and a QR that was paid, stays so.
LEMMA CashfreeGrows ==
    ASSUME DataOK, RowStep
    PROVE  /\ CashfreeMoves
           /\ lapsed \subseteq lapsed' /\ inTime \subseteq inTime'
           /\ \A q \in Payments : link[q] \in {"paid", "expired", "cancelled"} => link'[q] = link[q]
           /\ \A q \in Payments : qr[q] = "paid" => qr'[q] = "paid"
<1>1. CashfreeMoves
    <2>1. ASSUME UNCHANGED <<link, qr, lapsed, inTime>> PROVE CashfreeMoves
        BY <2>1 DEF CashfreeMoves
    <2> QED BY <2>1 DEF RowStep, Undecided, Prepares, Applies, ApplyUpdate, Verifies, cashfree
<1> QED BY <1>1 DEF CashfreeMoves

LEMMA IssuedStays ==
    ASSUME DataOK, Issued, RowStep
    PROVE  Issued'
<1> SUFFICES ASSUME NEW q \in Payments
             PROVE  /\ link'[q] # "none" \/ qr'[q] # "none" => pay'[q].status # "none"
                    /\ qr'[q] = "paid" => q \in inTime' \cup lapsed'
    BY DEF Issued
<1>1. pay[q].status # "none" => pay'[q].status # "none"
    BY RowsGrow
<1>2. CashfreeMoves
    BY CashfreeGrows
<1> QED BY <1>1, <1>2 DEF Issued, CashfreeMoves

\* What a job relies on stays so while others take steps.
LEMMA OthersStay ==
    ASSUME Sound, RowStep, NEW i \in Jobs, job'[i] = job[i]
    PROVE  JobOK(i)'
<1>1. DataOK /\ JobOK(i)
    BY DEF Sound, JobsOK
<1>2. /\ \A q \in Payments : pay[q].status # "none" => pay'[q].status # "none"
      /\ lapsed \subseteq lapsed' /\ inTime \subseteq inTime'
      /\ \A q \in Payments : link[q] \in {"paid", "expired", "cancelled"} => link'[q] = link[q]
      /\ \A q \in Payments : qr[q] = "paid" => qr'[q] = "paid"
    BY <1>1, RowsGrow, CashfreeGrows
<1>3. job[i].at \in {"askQr", "apply"} => Justified(job[i].pay, job[i].update)'
    <2>1. SUFFICES ASSUME job[i].at \in {"askQr", "apply"}
                   PROVE  Justified(job[i].pay, job[i].update)'
        OBVIOUS
    <2>2. job[i].pay \in Payments /\ Justified(job[i].pay, job[i].update)
        BY <1>1, <2>1 DEF JobOK, Held
    <2> QED BY <1>2, <2>2 DEF Justified, Ended
<1> QED BY <1>1, <1>2, <1>3 DEF JobOK, At, Held

LEMMA SoundStays ==
    ASSUME Sound, [Next]_vars
    PROVE  Sound'
<1>1. CASE Next
    <2>1. /\ DataOK' /\ RowStep
          /\ UNCHANGED job \/ \E j \in Jobs : JobStep(j)
        BY <1>1, NextSteps
    <2>2. Issued'
        BY <2>1, IssuedStays DEF Sound
    <2>3. CASE UNCHANGED job
        <3>1. JobsOK'
            BY <2>1, <2>3, OthersStay DEF JobsOK
        <3> QED BY <2>1, <2>2, <2>3, <3>1 DEF Sound
    <2>4. CASE \E j \in Jobs : JobStep(j)
        <3>1. PICK j \in Jobs : JobStep(j)
            BY <2>4
        <3>2. job' \in [Jobs -> Job] /\ \A i \in Jobs : i # j => job'[i] = job[i]
            BY <3>1 DEF JobStep, Sound
        <3>3. \A i \in Jobs : JobOK(i)'
            BY <2>1, <3>1, <3>2, OthersStay DEF JobStep
        <3> QED BY <2>1, <2>2, <3>2, <3>3 DEF Sound, JobsOK
    <2> QED BY <2>1, <2>3, <2>4
<1>2. CASE UNCHANGED vars
    <2>1. UNCHANGED <<order, meta, linked, pay, manual, flagged, reported, link, qr, lapsed, inTime, job, faults, seen>>
        BY <1>2 DEF vars, rows, cashfree
    <2>2. DataOK' /\ Issued' /\ job' \in [Jobs -> Job]
        BY <2>1 DEF Sound, DataOK, Issued
    <2>3. Undecided
        BY <2>1 DEF Undecided, CashfreeMoves
    <2>4. JobsOK'
        BY <2>1, <2>3, OthersStay DEF JobsOK, RowStep
    <2> QED BY <2>2, <2>4 DEF Sound
<1> QED BY <1>1, <1>2

LEMMA SoundInit == Init => Sound
<1> SUFFICES ASSUME Init PROVE Sound
    OBVIOUS
<1>1. job \in [Jobs -> Job] /\ \A j \in Jobs : job[j].at = "idle"
    BY Constants DEF Init
<1>2. pay \in [Payments -> Payment]
    BY Constants DEF Init
<1>3. DataOK
    <2>1. meta \in Metadata
        BY Constants DEF Init
    <2>2. /\ link \in [Payments -> {"none", "active", "paid", "expired", "cancelled"}]
          /\ qr \in [Payments -> {"none", "active", "paid", "closed"}]
        BY DEF Init
    <2>3. /\ order = "PENDING_PAYMENT" /\ linked = FALSE /\ manual = FALSE /\ reported = FALSE
          /\ flagged = {} /\ lapsed = {} /\ inTime = {} /\ seen = {} /\ faults = 0
        BY DEF Init
    <2>4. faults \in 0..MaxFaults
        BY <2>3
    <2>5. flagged \subseteq Exception /\ seen \subseteq (Payments \X Methods)
        BY <2>3
    <2> QED BY <1>2, <2>1, <2>2, <2>3, <2>4, <2>5 DEF DataOK
<1>4. JobsOK
    BY <1>1 DEF JobsOK, JobOK, At, Held
<1>5. Issued
    BY DEF Init, Issued
<1> QED BY <1>1, <1>3, <1>4, <1>5 DEF Sound

LEMMA SoundAlways == Spec => []Sound
BY SoundInit, SoundStays, PTL DEF Spec

\* What is kept has the form it should have, and every job that is at work on a payment
\* works on one that exists.
THEOREM TypeCorrect == Spec => []TypeOK
<1>1. Sound => TypeOK
    BY DEF Sound, DataOK, TypeOK
<1> QED BY <1>1, SoundAlways, PTL

\* The first Cashfree payment known for a successful payment stays the one of record.
THEOREM RecordStays == Spec => FirstStaysOfRecord
<1>1. ASSUME Sound, [Next]_vars
      PROVE  [\A p \in Payments : pay[p].status = "SUCCESS" =>
                 pay'[p].status = "SUCCESS" /\ (pay[p].id # "none" => pay'[p].id = pay[p].id)]_vars
    <2>1. CASE Next
        BY <1>1, <2>1, NextSteps, RowsGrow DEF Sound
    <2>2. CASE UNCHANGED vars
        BY <2>2
    <2> QED BY <1>1, <2>1, <2>2
<1> QED BY <1>1, SoundAlways, PTL DEF Spec, FirstStaysOfRecord

--------------------------------------------------------------------------------
(* Money is not lost *)

\* A payment has a Cashfree id only once it is successful, and what is flagged under the
\* id of a Cashfree payment was made through the method of that payment.
IdsKnown ==
    /\ \A p \in Payments : pay[p].id # "none" => pay[p].status = "SUCCESS"
    /\ \A x \in flagged : x.key.id # "none" => x.key.id = x.via

\* How the list of exceptions grows.
LEMMA FlaggedGrows ==
    ASSUME DataOK, RowStep
    PROVE  /\ flagged \subseteq flagged'
           /\ \A x \in flagged' \ flagged :
                \E p \in Payments, u \in Update :
                    /\ Justified(p, u) /\ ApplyUpdate(p, u) /\ Exceptional(p, u)
                    /\ x = [key |-> KeyOf(p, u), via |-> u.via, orderClosed |-> order = "CANCELLED"]
<1>1. CASE Applies
    <2>1. PICK p \in Payments, u \in Update : Justified(p, u) /\ ApplyUpdate(p, u)
        BY <1>1 DEF Applies
    <2> DEFINE x == [key |-> KeyOf(p, u), via |-> u.via, orderClosed |-> order = "CANCELLED"]
    <2>2. flagged' = flagged \/ (Exceptional(p, u) /\ flagged' = flagged \cup {x})
        BY <2>1 DEF ApplyUpdate
    <2> HIDE DEF x
    <2>3. flagged \subseteq flagged' /\ \A y \in flagged' \ flagged : y = x /\ Exceptional(p, u)
        BY <2>2
    <2> QED BY <2>1, <2>3 DEF x
<1>2. CASE ~Applies
    BY <1>2 DEF RowStep, Undecided, Prepares, Verifies
<1> QED BY <1>1, <1>2

LEMMA IdsStay ==
    ASSUME Sound, IdsKnown, RowStep
    PROVE  IdsKnown'
<1>1. DataOK
    BY DEF Sound
<1>2. ASSUME NEW q \in Payments, pay'[q].id # "none"
      PROVE  pay'[q].status = "SUCCESS"
    <2>1. CASE pay[q].id = pay'[q].id
        <3>1. pay[q].status = "SUCCESS"
            BY <1>2, <2>1 DEF IdsKnown
        <3> QED BY <1>1, <3>1, RowsGrow
    <2>2. CASE pay[q].id # pay'[q].id
        <3>1. Applies
            BY <2>2 DEF RowStep, Undecided, Prepares, Verifies
        <3>2. PICK p \in Payments, u \in Update : Justified(p, u) /\ ApplyUpdate(p, u)
            BY <3>1 DEF Applies
        <3>3. /\ q = p /\ ~Exceptional(p, u)
              /\ pay'[p].id = IF pay'[p].status = "SUCCESS" /\ pay[p].id = "none"
                              THEN u.id ELSE pay[p].id
            BY <1>1, <2>2, <3>2, AppliedRows
        <3> QED BY <2>2, <3>3
    <2> QED BY <2>1, <2>2
<1>3. ASSUME NEW x \in flagged', x.key.id # "none"
      PROVE  x.key.id = x.via
    <2>1. CASE x \in flagged
        BY <1>3, <2>1 DEF IdsKnown
    <2>2. CASE x \notin flagged
        <3>1. PICK p \in Payments, u \in Update :
                /\ Justified(p, u)
                /\ x = [key |-> KeyOf(p, u), via |-> u.via, orderClosed |-> order = "CANCELLED"]
            BY <1>1, <1>3, <2>2, FlaggedGrows
        <3>2. x.via = u.via /\ x.key.id = u.id
            BY <3>1 DEF KeyOf
        <3> QED BY <1>3, <3>1, <3>2 DEF Justified
    <2> QED BY <2>1, <2>2
<1> QED BY <1>2, <1>3 DEF IdsKnown

LEMMA NothingVanishesStays ==
    ASSUME Sound, IdsKnown, IdsKnown', NothingVanishes, RowStep
    PROVE  NothingVanishes'
<1> SUFFICES ASSUME NEW q \in Payments, NEW via \in Methods, <<q, via>> \in seen'
             PROVE  \/ pay'[q].status = "SUCCESS" /\ pay'[q].id = via
                    \/ \E x \in flagged' : x.key.pay = q /\ x.via = via
    BY DEF NothingVanishes, OfRecord
<1>1. DataOK
    BY DEF Sound
<1>2. CASE <<q, via>> \in seen
    <2>1. CASE pay[q].status = "SUCCESS" /\ pay[q].id = via
        <3>1. via # "none"
            BY DEF Methods
        <3> QED BY <1>1, <2>1, <3>1, RowsGrow
    <2>2. CASE \E x \in flagged : x.key.pay = q /\ x.via = via
        BY <1>1, <2>2, FlaggedGrows
    <2> QED BY <1>2, <2>1, <2>2 DEF NothingVanishes, OfRecord
<1>3. CASE <<q, via>> \notin seen
    <2>1. Applies
        BY <1>3 DEF RowStep, Undecided, Prepares, Verifies
    <2>2. PICK p \in Payments, u \in Update : Justified(p, u) /\ ApplyUpdate(p, u)
        BY <2>1 DEF Applies
    <2>3. u.to = "SUCCESS" /\ u.id # "none" /\ seen' = seen \cup {<<p, u.via>>}
        BY <1>3, <2>2 DEF ApplyUpdate
    <2>4. q = p /\ via = u.via
        BY <1>3, <2>3
    <2>5. u.id = via
        BY <2>2, <2>3, <2>4 DEF Justified
    <2>6. CASE Exceptional(p, u)
        <3>1. CASE Known(KeyOf(p, u))
            <4>1. PICK x \in flagged : x.key = KeyOf(p, u)
                BY <3>1 DEF Known
            <4>2. x.key.pay = q /\ x.key.id = via
                BY <2>4, <2>5, <4>1 DEF KeyOf
            <4>3. x.via = via
                BY <2>3, <2>5, <4>2 DEF IdsKnown
            <4> QED BY <1>1, <4>2, <4>3, FlaggedGrows
        <3>2. CASE ~Known(KeyOf(p, u))
            <4> DEFINE x == [key |-> KeyOf(p, u), via |-> u.via, orderClosed |-> order = "CANCELLED"]
            <4>1. x \in flagged'
                BY <2>2, <2>6, <3>2 DEF ApplyUpdate
            <4>2. x.key.pay = q /\ x.via = via
                BY <2>4 DEF KeyOf
            <4> QED BY <4>1, <4>2
        <3> QED BY <3>1, <3>2
    <2>7. CASE ~Exceptional(p, u)
        <3>1. /\ pay'[p].status = IF Moves(p, u) THEN u.to ELSE pay[p].status
              /\ pay'[p].id = IF pay'[p].status = "SUCCESS" /\ pay[p].id = "none" THEN u.id ELSE pay[p].id
            BY <1>1, <2>2, <2>7, AppliedRows
        <3>2. pay[p].status \in {"PENDING", "SUCCESS", "FAILED"}
            BY <1>1, <2>2 DEF Justified, DataOK, Payment
        <3>3. pay'[p].status = "SUCCESS"
            BY <2>3, <3>1, <3>2 DEF Moves
        <3>4. CASE pay[p].status = "SUCCESS"
            <4>1. pay[p].id = "none" \/ pay[p].id = u.id
                BY <2>3, <2>7, <3>4 DEF Exceptional, Kind
            <4> QED BY <2>4, <2>5, <3>1, <3>3, <4>1
        <3>5. CASE pay[p].status # "SUCCESS"
            <4>1. pay[p].id = "none"
                BY <2>2, <3>5 DEF IdsKnown
            <4> QED BY <2>4, <2>5, <3>1, <3>3, <4>1
        <3> QED BY <3>4, <3>5
    <2> QED BY <2>6, <2>7
<1> QED BY <1>2, <1>3

\* Money that reached the CRM with its Cashfree id is of record or listed for a refund.
THEOREM MoneyStays == Spec => []NothingVanishes
<1>1. Init => IdsKnown /\ NothingVanishes
    BY DEF Init, NoPayment, IdsKnown, NothingVanishes
<1>2. Sound /\ IdsKnown /\ NothingVanishes /\ [Next]_vars => (IdsKnown /\ NothingVanishes)'
    <2> SUFFICES ASSUME Sound, IdsKnown, NothingVanishes, [Next]_vars
                 PROVE  IdsKnown' /\ NothingVanishes'
        OBVIOUS
    <2>1. CASE Next
        BY <2>1, NextSteps, IdsStay, NothingVanishesStays
    <2>2. CASE UNCHANGED vars
        BY <2>2 DEF vars, rows, IdsKnown, NothingVanishes, OfRecord
    <2> QED BY <2>1, <2>2
<1> QED BY <1>1, <1>2, SoundAlways, PTL DEF Spec

--------------------------------------------------------------------------------
(* Money is not both listed for a refund and of record *)

\* What becomes of a payment that came late while the order was not cancelled.
LateFate(x) ==
    \/ pay[x.key.pay].status = "FAILED" /\ pay[x.key.pay].why = "cancelled"
    \/ /\ x.via = "qr" /\ x.key.pay \in lapsed
       /\ \/ pay[x.key.pay].status = "FAILED"
          \/ /\ pay[x.key.pay].status = "SUCCESS"
             /\ pay[x.key.pay].id = "qr" => x.key.pay \in inTime \/ link[x.key.pay] = "paid"

\* A duplicate is beside a payment of record that is another one.
DuplicateFate(x) ==
    /\ x.key.id # "none" /\ pay[x.key.pay].status = "SUCCESS"
    /\ pay[x.key.pay].id \notin {"none", x.key.id}

\* Only a link's payment is recorded without its id.
UnnamedIsLinks ==
    \A p \in Payments : pay[p].status = "SUCCESS" /\ pay[p].id = "none" => link[p] = "paid"

Fates ==
    /\ UnnamedIsLinks
    /\ \A x \in flagged :
        /\ x.key.kind = "duplicate" => DuplicateFate(x)
        /\ x.key.kind = "late" /\ ~x.orderClosed => LateFate(x)

LEMMA UnnamedStays ==
    ASSUME Sound, UnnamedIsLinks, RowStep
    PROVE  UnnamedIsLinks'
<1> SUFFICES ASSUME NEW q \in Payments, pay'[q].status = "SUCCESS", pay'[q].id = "none"
             PROVE  link'[q] = "paid"
    BY DEF UnnamedIsLinks
<1>1. DataOK
    BY DEF Sound
<1>2. CASE pay[q].status = "SUCCESS"
    <2>1. pay[q].id = "none"
        BY <1>1, <1>2, RowsGrow
    <2> QED BY <1>1, <1>2, <2>1, CashfreeGrows DEF UnnamedIsLinks
<1>3. CASE pay[q].status # "SUCCESS"
    <2>1. Applies
        <3>1. ~Prepares
            BY <1>3 DEF Prepares
        <3> QED BY <1>3, <3>1 DEF RowStep, Undecided, Verifies
    <2>2. PICK p \in Payments, u \in Update : Justified(p, u) /\ ApplyUpdate(p, u)
        BY <2>1 DEF Applies
    <2>3. /\ q = p /\ link' = link
          /\ pay'[p].status = IF Moves(p, u) THEN u.to ELSE pay[p].status
          /\ pay'[p].id = IF pay'[p].status = "SUCCESS" /\ pay[p].id = "none" THEN u.id ELSE pay[p].id
        BY <1>1, <1>3, <2>2, AppliedRows
    <2>4. u.to = "SUCCESS" /\ u.id = "none"
        BY <1>3, <2>3
    <2>5. u.via = "link"
        BY <2>2, <2>4 DEF Justified, Update, Methods
    <2> QED BY <2>2, <2>3, <2>4, <2>5 DEF Justified
<1> QED BY <1>2, <1>3

\* A payment that is closed, and not open again, is left by prepare as it is.
LEMMA ClosedKept ==
    ASSUME DataOK, Prepares, NEW q \in Payments, pay[q].status \notin {"none", "PENDING"}
    PROVE  pay'[q].status = pay[q].status /\ pay'[q].why = pay[q].why
<1>1. PICK made \in Payments \cup {0} :
        /\ made # 0 => \A r \in Payments : pay[r].status = "none" <=> r >= made
        /\ \A p \in Payments :
            p # made /\ ~(Open(p) /\ p \in lapsed) => pay'[p].status = pay[p].status /\ pay'[p].why = pay[p].why
    BY DEF Prepares
<1>2. q # made
    <2>1. q \in Nat /\ q # 0
        BY DEF Payments
    <2> QED BY <1>1, <2>1
<1> QED BY <1>1, <1>2 DEF Open

LEMMA FlaggedTyped ==
    ASSUME DataOK, NEW x \in flagged
    PROVE  /\ x.key.pay \in Payments /\ x.key.kind \in {"duplicate", "late"}
           /\ x.via \in Methods /\ x.orderClosed \in BOOLEAN
BY DEF DataOK, Exception, Key

LEMMA LateFateStays ==
    ASSUME Sound, IdsKnown, Fates, RowStep, NEW x \in flagged, LateFate(x)
    PROVE  LateFate(x)'
<1> DEFINE q == x.key.pay
<1>1. DataOK /\ q \in Payments
    BY FlaggedTyped DEF Sound
<1>2. /\ lapsed \subseteq lapsed' /\ inTime \subseteq inTime'
      /\ link[q] = "paid" => link'[q] = "paid"
    BY <1>1, CashfreeGrows
<1>3. CASE pay[q].status = "FAILED"
    <2>1. CASE ~Applies
        <3>1. pay'[q].status = pay[q].status /\ pay'[q].why = pay[q].why
            BY <1>1, <1>3, <2>1, ClosedKept DEF RowStep, Undecided, Verifies
        <3> QED BY <1>2, <1>3, <3>1 DEF LateFate
    <2>2. CASE Applies
        <3>1. PICK p \in Payments, u \in Update : Justified(p, u) /\ ApplyUpdate(p, u)
            BY <2>2 DEF Applies
        <3>2. CASE q # p \/ Exceptional(p, u)
            <4>1. pay'[q] = pay[q]
                BY <1>1, <3>1, <3>2, AppliedRows
            <4> QED BY <1>2, <1>3, <4>1 DEF LateFate
        <3>3. CASE q = p /\ ~Exceptional(p, u)
            <4>1. /\ pay'[q].status = IF Moves(q, u) THEN u.to ELSE pay[q].status
                  /\ pay'[q].why = IF Moves(q, u) THEN u.why ELSE pay[q].why
                  /\ pay'[q].id = IF pay'[q].status = "SUCCESS" /\ pay[q].id = "none" THEN u.id ELSE pay[q].id
                BY <1>1, <3>1, <3>3, AppliedRows
            <4>2. CASE ~Moves(q, u)
                BY <1>2, <1>3, <4>1, <4>2 DEF LateFate
            <4>3. CASE Moves(q, u)
                <5>1. u.to = "SUCCESS"
                    BY <1>3, <4>3 DEF Moves
                <5>2. pay[q].why # "cancelled" /\ ~PaidLate(q, u)
                    BY <1>3, <3>3, <5>1 DEF Exceptional, Kind
                <5>3. x.via = "qr" /\ q \in lapsed
                    BY <5>2 DEF LateFate
                <5>4. pay[q].id = "none"
                    BY <1>1, <1>3 DEF IdsKnown
                <5>5. pay'[q].status = "SUCCESS" /\ pay'[q].id = u.id
                    BY <4>1, <4>3, <5>1, <5>4
                <5>6. ASSUME u.id = "qr" PROVE q \in inTime
                    <6>1. u.via = "qr"
                        BY <3>1, <5>6 DEF Justified
                    <6>2. u.paidAt \in {"unknown", "in time", "late"}
                        BY DEF Update
                    <6>3. u.paidAt = "in time"
                        BY <5>2, <5>3, <6>1, <6>2 DEF PaidLate
                    <6> QED BY <3>1, <3>3, <5>1, <6>1, <6>3 DEF Justified
                <5> QED BY <1>2, <5>3, <5>5, <5>6 DEF LateFate
            <4> QED BY <4>2, <4>3
        <3> QED BY <3>2, <3>3
    <2> QED BY <2>1, <2>2
<1>4. CASE pay[q].status = "SUCCESS"
    <2>1. pay'[q].status = "SUCCESS" /\ (pay[q].id # "none" => pay'[q].id = pay[q].id)
        BY <1>1, <1>4, RowsGrow
    <2>2. pay[q].id = "none" => link[q] = "paid"
        BY <1>1, <1>4 DEF Fates, UnnamedIsLinks
    <2> QED BY <1>2, <1>4, <2>1, <2>2 DEF LateFate
<1> QED BY <1>3, <1>4 DEF LateFate

LEMMA FatesStay ==
    ASSUME Sound, IdsKnown, Fates, RowStep
    PROVE  Fates'
<1>1. DataOK
    BY DEF Sound
<1>2. UnnamedIsLinks'
    BY UnnamedStays DEF Fates
<1>3. ASSUME NEW x \in flagged
      PROVE  /\ x.key.kind = "duplicate" => DuplicateFate(x)'
             /\ x.key.kind = "late" /\ ~x.orderClosed => LateFate(x)'
    <2>1. x.key.pay \in Payments
        BY <1>1, FlaggedTyped
    <2>2. DuplicateFate(x) => DuplicateFate(x)'
        BY <1>1, <2>1, RowsGrow DEF DuplicateFate
    <2> QED BY <2>2, LateFateStays DEF Fates
<1>4. ASSUME NEW x \in flagged' \ flagged
      PROVE  /\ x.key.kind = "duplicate" => DuplicateFate(x)'
             /\ x.key.kind = "late" /\ ~x.orderClosed => LateFate(x)'
    <2>1. PICK p \in Payments, u \in Update :
            /\ Justified(p, u) /\ ApplyUpdate(p, u) /\ Exceptional(p, u)
            /\ x = [key |-> KeyOf(p, u), via |-> u.via, orderClosed |-> order = "CANCELLED"]
        BY <1>1, FlaggedGrows
    <2>2. x.key.pay = p /\ x.key.kind = Kind(p, u) /\ x.key.id = u.id /\ x.via = u.via
        BY <2>1 DEF KeyOf
    <2>3. pay'[p] = pay[p] /\ lapsed' = lapsed
        BY <1>1, <2>1, AppliedRows
    <2>4. ASSUME x.key.kind = "duplicate" PROVE DuplicateFate(x)'
        <3>1. u.id # "none" /\ pay[p].status = "SUCCESS" /\ pay[p].id # "none" /\ u.id # pay[p].id
            BY <2>2, <2>4 DEF Kind
        <3> QED BY <2>2, <2>3, <3>1 DEF DuplicateFate
    <2>5. ASSUME x.key.kind = "late", ~x.orderClosed PROVE LateFate(x)'
        <3>1. order # "CANCELLED"
            BY <2>1, <2>5
        <3>2. u.to = "SUCCESS" /\ pay[p].status = "FAILED" /\ (pay[p].why = "cancelled" \/ PaidLate(p, u))
            BY <2>2, <2>5, <3>1 DEF Kind
        <3>3. CASE pay[p].why = "cancelled"
            BY <2>2, <2>3, <3>2, <3>3 DEF LateFate
        <3>4. CASE PaidLate(p, u)
            <4>1. u.via = "qr" /\ p \in lapsed
                BY <2>1, <3>2, <3>4 DEF PaidLate, Justified
            <4> QED BY <2>2, <2>3, <3>2, <4>1 DEF LateFate
        <3> QED BY <3>2, <3>3, <3>4
    <2> QED BY <2>4, <2>5
<1> QED BY <1>2, <1>3, <1>4 DEF Fates

LEMMA FatesAlways == Spec => [](IdsKnown /\ Fates)
<1>1. Init => IdsKnown /\ Fates
    BY DEF Init, NoPayment, IdsKnown, Fates, UnnamedIsLinks
<1>2. Sound /\ IdsKnown /\ Fates /\ [Next]_vars => (IdsKnown /\ Fates)'
    <2> SUFFICES ASSUME Sound, IdsKnown, Fates, [Next]_vars
                 PROVE  IdsKnown' /\ Fates'
        OBVIOUS
    <2>1. CASE Next
        BY <2>1, NextSteps, IdsStay, FatesStay
    <2>2. CASE UNCHANGED vars
        BY <2>2 DEF vars, rows, cashfree, IdsKnown, Fates, UnnamedIsLinks, LateFate, DuplicateFate
    <2> QED BY <2>1, <2>2
<1> QED BY <1>1, <1>2, SoundAlways, PTL DEF Spec

\* Money listed for a refund is not the payment of record as well, but for what OneFate names.
THEOREM OneFateAlways == Spec => []OneFate
<1>1. Sound /\ IdsKnown /\ Fates => OneFate
    <2> SUFFICES ASSUME Sound, IdsKnown, Fates, NEW x \in flagged,
                        OfRecord(x.key.pay, x.via), ~x.orderClosed
                 PROVE  /\ x.via = "qr" /\ x.key.kind = "late"
                        /\ x.key.pay \in inTime \/ link[x.key.pay] = "paid"
        BY DEF OneFate
    <2>1. x.key.pay \in Payments /\ x.key.kind \in {"duplicate", "late"}
        BY FlaggedTyped DEF Sound
    <2>2. x.key.kind # "duplicate"
        BY DEF Fates, DuplicateFate, IdsKnown, OfRecord
    <2>3. LateFate(x)
        BY <2>1, <2>2 DEF Fates
    <2> QED BY <2>1, <2>2, <2>3 DEF LateFate, OfRecord
<1> QED BY <1>1, SoundAlways, FatesAlways, PTL

--------------------------------------------------------------------------------
(* An order that was paid more than once *)

LEMMA PaidTimesType ==
    ASSUME Successful \in SUBSET Payments
    PROVE  IsFiniteSet(Successful) /\ Cardinality(Successful) \in Nat /\ PaidTimes \in Nat
<1>1. IsFiniteSet(Payments)
    BY FS_Interval DEF Payments
<1>2. IsFiniteSet(Successful)
    BY <1>1, FS_Subset
<1>3. Cardinality(Successful) \in Nat
    BY <1>2, FS_CardinalityType
<1> QED BY <1>2, <1>3 DEF PaidTimes

LEMMA NonePaid ==
    ASSUME PaidTimes = 0
    PROVE  Successful = {} /\ ~manual
<1>1. Successful \in SUBSET Payments
    BY DEF Successful
<1>2. IsFiniteSet(Successful) /\ Cardinality(Successful) \in Nat
    BY <1>1, PaidTimesType
<1>3. Cardinality(Successful) = 0 /\ ~manual
    BY <1>2 DEF PaidTimes
<1> QED BY <1>2, <1>3, FS_EmptySet

LEMMA ReportsStay ==
    ASSUME Sound, OverCollectionReported, RowStep
    PROVE  OverCollectionReported'
<1>1. DataOK
    BY DEF Sound
<1>2. Successful \in SUBSET Payments /\ PaidTimes \in Nat /\ Cardinality(Successful) \in Nat
      /\ IsFiniteSet(Successful)
    BY PaidTimesType DEF Successful
<1>3. CASE Undecided
    <2>1. Successful' = Successful /\ manual' = manual /\ reported' = reported
        BY <1>3 DEF Undecided, Successful
    <2> QED BY <2>1 DEF OverCollectionReported, PaidTimes
<1>4. CASE Prepares
    <2>1. Successful = {} /\ ~manual
        BY <1>4, NonePaid DEF Prepares
    <2>2. \A p \in Payments : pay'[p].status # "SUCCESS"
        BY <1>4, <2>1 DEF Prepares, Successful
    <2>3. Successful' = {} /\ manual' = manual
        BY <1>4, <2>2 DEF Successful, Prepares
    <2>4. PaidTimes' = 0
        BY <2>1, <2>3, FS_EmptySet DEF PaidTimes
    <2> QED BY <2>4 DEF OverCollectionReported
<1>5. CASE Applies
    <2>1. PICK p \in Payments, u \in Update : Justified(p, u) /\ ApplyUpdate(p, u)
        BY <1>5 DEF Applies
    <2>2. /\ \A q \in Payments : q # p => pay'[q] = pay[q]
          /\ manual' = manual
          /\ reported' = (reported \/ Overcollects(p, u))
        BY <1>1, <2>1, AppliedRows DEF ApplyUpdate
    <2>3. CASE pay'[p].status = "SUCCESS" /\ pay[p].status # "SUCCESS"
        <3>1. u.to = "SUCCESS" /\ Moves(p, u) /\ ~Exceptional(p, u)
            BY <1>1, <2>1, <2>3, AppliedRows
        <3>2. Successful' = Successful \cup {p} /\ p \notin Successful
            BY <2>2, <2>3 DEF Successful
        <3>3. Cardinality(Successful') = Cardinality(Successful) + 1
            BY <1>2, <3>2, FS_AddElement
        <3>4. PaidTimes' = PaidTimes + 1
            BY <1>2, <2>2, <3>3 DEF PaidTimes
        <3>5. PaidTimes > 0 => reported'
            BY <2>2, <3>1 DEF Overcollects
        <3> QED BY <1>2, <3>4, <3>5 DEF OverCollectionReported
    <2>4. CASE ~(pay'[p].status = "SUCCESS" /\ pay[p].status # "SUCCESS")
        <3>1. pay[p].status = "SUCCESS" => pay'[p].status = "SUCCESS"
            BY <1>1, RowsGrow
        <3>2. Successful' = Successful
            BY <2>2, <2>4, <3>1 DEF Successful
        <3>3. PaidTimes' = PaidTimes
            BY <2>2, <3>2 DEF PaidTimes
        <3> QED BY <2>2, <3>3 DEF OverCollectionReported
    <2> QED BY <2>3, <2>4
<1>6. CASE Verifies
    <2>1. /\ manual' = (manual \/ PaidTimes = 0)
          /\ pay' = pay /\ reported' = reported
        BY <1>6 DEF Verifies
    <2>2. Successful' = Successful
        BY <2>1 DEF Successful
    <2>3. CASE PaidTimes = 0
        <3>1. Successful = {}
            BY <2>3, NonePaid
        <3>2. Cardinality(Successful') = 0
            BY <2>2, <3>1, FS_EmptySet
        <3>3. PaidTimes' <= 1
            BY <3>2 DEF PaidTimes
        <3>4. PaidTimes' \in Nat
            BY <3>2 DEF PaidTimes
        <3> QED BY <3>3, <3>4 DEF OverCollectionReported
    <2>4. CASE PaidTimes # 0
        <3>1. manual' <=> manual
            BY <1>1, <2>1, <2>4 DEF DataOK
        <3>2. PaidTimes' = PaidTimes
            BY <2>2, <3>1 DEF PaidTimes
        <3> QED BY <2>1, <3>2 DEF OverCollectionReported
    <2> QED BY <2>3, <2>4
<1> QED BY <1>3, <1>4, <1>5, <1>6 DEF RowStep

\* An order that was paid more than once is reported.
THEOREM OverCollectionsKnown == Spec => []OverCollectionReported
<1>1. Init => OverCollectionReported
    <2> SUFFICES ASSUME Init PROVE OverCollectionReported
        OBVIOUS
    <2>1. Successful = {} /\ manual = FALSE
        BY DEF Init, NoPayment, Successful
    <2>2. PaidTimes = 0
        BY <2>1, FS_EmptySet DEF PaidTimes
    <2> QED BY <2>2 DEF OverCollectionReported
<1>2. Sound /\ OverCollectionReported /\ [Next]_vars => OverCollectionReported'
    <2> SUFFICES ASSUME Sound, OverCollectionReported, [Next]_vars
                 PROVE  OverCollectionReported'
        OBVIOUS
    <2>1. CASE Next
        BY <2>1, NextSteps, ReportsStay
    <2>2. CASE UNCHANGED vars
        <3>1. Successful' = Successful /\ manual' = manual /\ reported' = reported
            BY <2>2 DEF vars, rows, Successful
        <3> QED BY <3>1 DEF OverCollectionReported, PaidTimes
    <2> QED BY <2>1, <2>2
<1> QED BY <1>1, <1>2, SoundAlways, PTL DEF Spec

--------------------------------------------------------------------------------
(* Links that compete *)

\* Why a payment is not open any more: its link is dead, or nobody waits for it.
Dropped(p) == p \in lapsed \/ pay[p].why = "rejected" \/ Ended(p)

LinksKnown ==
    /\ \A p \in Payments : pay[p].status = "FAILED" => Dropped(p)
    /\ \A p \in Payments : pay[p].status = "SUCCESS" => link[p] = "paid" \/ qr[p] = "paid"
    /\ \A p, q \in Payments :
        p < q /\ pay[q].status # "none" =>
            pay[p].status # "none" /\ (Dropped(p) \/ pay[p].status = "SUCCESS")

\* A payment that failed or succeeded does not open again, and what dropped it remains.
LEMMA DroppedStays ==
    ASSUME Sound, LinksKnown, RowStep, NEW q \in Payments
    PROVE  /\ pay'[q].status = "FAILED" => Dropped(q)'
           /\ Dropped(q) /\ pay[q].status # "none" => Dropped(q)' \/ pay'[q].status = "SUCCESS"
<1>1. DataOK
    BY DEF Sound
<1>2. lapsed \subseteq lapsed' /\ (Ended(q) => Ended(q)')
    BY <1>1, CashfreeGrows DEF Ended
<1>3. pay[q].status \in {"none", "PENDING", "SUCCESS", "FAILED"}
    BY <1>1 DEF DataOK, Payment
<1>4. CASE Undecided \/ Verifies
    <2>1. pay'[q].status = pay[q].status /\ pay'[q].why = pay[q].why
        BY <1>4 DEF Undecided, Verifies
    <2> QED BY <1>2, <2>1 DEF Dropped, LinksKnown
<1>5. CASE Prepares
    <2>1. UNCHANGED lapsed
        BY <1>5 DEF Prepares, cashfree
    <2>2. PICK made \in Payments \cup {0} :
            /\ made # 0 => \A r \in Payments : pay[r].status = "none" <=> r >= made
            /\ \A p \in Payments :
                /\ p = made => pay'[p].status = "PENDING"
                /\ p # made /\ ~(Open(p) /\ p \in lapsed) => pay'[p].status = pay[p].status /\ pay'[p].why = pay[p].why
        BY <1>5 DEF Prepares
    <2>3. CASE q = made
        <3>1. q \in Nat /\ q # 0
            BY DEF Payments
        <3>2. pay[q].status = "none" /\ pay'[q].status = "PENDING"
            BY <2>2, <2>3, <3>1
        <3> QED BY <3>2
    <2>4. CASE q # made /\ Open(q) /\ q \in lapsed
        BY <2>1, <2>4 DEF Dropped
    <2>5. CASE q # made /\ ~(Open(q) /\ q \in lapsed)
        <3>1. pay'[q].status = pay[q].status /\ pay'[q].why = pay[q].why
            BY <2>2, <2>5
        <3> QED BY <1>2, <3>1 DEF Dropped, LinksKnown
    <2> QED BY <2>3, <2>4, <2>5
<1>6. CASE Applies
    <2>1. PICK p \in Payments, u \in Update : Justified(p, u) /\ ApplyUpdate(p, u)
        BY <1>6 DEF Applies
    <2>2. CASE q # p \/ Exceptional(p, u)
        <3>1. pay'[q] = pay[q]
            BY <1>1, <2>1, <2>2, AppliedRows
        <3> QED BY <1>2, <3>1 DEF Dropped, LinksKnown
    <2>3. CASE q = p /\ ~Exceptional(p, u)
        <3>1. /\ pay'[q].status = IF Moves(q, u) THEN u.to ELSE pay[q].status
              /\ pay'[q].why = IF Moves(q, u) THEN u.why ELSE pay[q].why
            BY <1>1, <2>1, <2>3, AppliedRows
        <3>2. CASE Moves(q, u)
            <4>1. u.to = "SUCCESS" \/ (u.to = "FAILED" /\ (Ended(q) \/ u.why = "rejected"))
                BY <2>1, <2>3, <3>2 DEF Moves, Justified
            <4> QED BY <1>2, <3>1, <3>2, <4>1 DEF Dropped
        <3>3. CASE ~Moves(q, u)
            BY <1>2, <3>1, <3>3 DEF Dropped, LinksKnown
        <3> QED BY <3>2, <3>3
    <2> QED BY <2>2, <2>3
<1> QED BY <1>4, <1>5, <1>6 DEF RowStep

LEMMA LinksStay ==
    ASSUME Sound, LinksKnown, RowStep
    PROVE  LinksKnown'
<1>1. DataOK
    BY DEF Sound
<1>2. ASSUME NEW q \in Payments, pay'[q].status = "SUCCESS"
      PROVE  link'[q] = "paid" \/ qr'[q] = "paid"
    <2>1. CASE pay[q].status = "SUCCESS"
        BY <1>1, <2>1, CashfreeGrows DEF LinksKnown
    <2>2. CASE pay[q].status # "SUCCESS"
        <3>1. Applies
            <4>1. ~Prepares
                BY <1>2, <2>2 DEF Prepares
            <4> QED BY <1>2, <2>2, <4>1 DEF RowStep, Undecided, Verifies
        <3>2. PICK p \in Payments, u \in Update : Justified(p, u) /\ ApplyUpdate(p, u)
            BY <3>1 DEF Applies
        <3>3. /\ q = p /\ link' = link /\ qr' = qr
              /\ pay'[p].status = IF Moves(p, u) THEN u.to ELSE pay[p].status
            BY <1>1, <1>2, <2>2, <3>2, AppliedRows
        <3>4. u.to = "SUCCESS" /\ u.via \in Methods
            BY <1>2, <2>2, <3>3 DEF Update
        <3> QED BY <3>2, <3>3, <3>4 DEF Justified, Methods
    <2> QED BY <2>1, <2>2
<1>3. ASSUME NEW p \in Payments, NEW q \in Payments, p < q, pay'[q].status # "none"
      PROVE  pay'[p].status # "none" /\ (Dropped(p)' \/ pay'[p].status = "SUCCESS")
    <2>1. CASE pay[q].status # "none"
        <3>1. pay[p].status # "none" /\ (Dropped(p) \/ pay[p].status = "SUCCESS")
            BY <1>3, <2>1 DEF LinksKnown
        <3> QED BY <1>1, <3>1, RowsGrow, DroppedStays
    <2>2. CASE pay[q].status = "none"
        <3>1. Prepares
            <4>1. ~Applies
                BY <1>1, <1>3, <2>2, AppliedRows DEF Applies, Justified, Moves
            <4> QED BY <1>3, <2>2, <4>1 DEF RowStep, Undecided, Verifies
        <3>2. PICK made \in Payments \cup {0} :
                /\ made # 0 => /\ \A r \in Payments : pay[r].status = "none" <=> r >= made
                               /\ {r \in Payments : Open(r) /\ r \notin lapsed} = {}
                /\ \A r \in Payments :
                    r # made /\ ~(Open(r) /\ r \in lapsed) => pay'[r].status = pay[r].status
            BY <3>1 DEF Prepares
        <3>3. q = made /\ made # 0
            BY <1>3, <2>2, <3>2 DEF Open, Payments
        <3>4. pay[p].status # "none"
            BY <1>3, <3>2, <3>3 DEF Payments
        <3>5. pay[p].status \in {"PENDING", "SUCCESS", "FAILED"}
            BY <1>1, <3>4 DEF DataOK, Payment
        <3>6. Dropped(p) \/ pay[p].status = "SUCCESS"
            BY <3>2, <3>3, <3>5 DEF Open, Dropped, LinksKnown
        <3> QED BY <1>1, <3>4, <3>6, RowsGrow, DroppedStays
    <2> QED BY <2>1, <2>2
<1> QED BY <1>2, <1>3, DroppedStays DEF LinksKnown

\* Of two links that can be paid, the older one lapsed or was taken for rejected.
THEOREM LinksSeparate == Spec => []LinksDoNotCompete
<1>1. Init => LinksKnown
    BY DEF Init, NoPayment, LinksKnown
<1>2. Sound /\ LinksKnown /\ [Next]_vars => LinksKnown'
    <2> SUFFICES ASSUME Sound, LinksKnown, [Next]_vars
                 PROVE  LinksKnown'
        OBVIOUS
    <2>1. CASE Next
        BY <2>1, NextSteps, LinksStay
    <2>2. CASE UNCHANGED vars
        BY <2>2 DEF vars, rows, cashfree, LinksKnown, Dropped, Ended
    <2> QED BY <2>1, <2>2
<1>3. Sound /\ LinksKnown => LinksDoNotCompete
    <2> SUFFICES ASSUME Sound, LinksKnown, NEW p \in Payments, NEW q \in Payments, p < q,
                        link[p] = "active", link[q] = "active"
                 PROVE  \/ p \in lapsed \/ pay[p].why = "rejected"
                        \/ pay[p].status = "SUCCESS" /\ qr[p] = "paid"
        BY DEF LinksDoNotCompete
    <2>1. pay[q].status # "none"
        BY DEF Sound, Issued
    <2> QED BY <2>1 DEF LinksKnown, Dropped, Ended
<1> QED BY <1>1, <1>2, <1>3, SoundAlways, PTL DEF Spec

--------------------------------------------------------------------------------
(* A cancelled order *)

\* The order's status is written by three steps only.
LEMMA OrderWrites ==
    ASSUME Next
    PROVE  \/ order' = order
           \/ \E j \in Jobs : Commit(j) \/ VoidStatus(j) \/ RevertStatus(j)
<1>1. CASE Customer
    BY <1>1 DEF Customer, PayLink, PayQr, Lapse, ExpireLink, ExpireQr
<1>2. ASSUME NEW j \in Users, UserStart(j) PROVE order' = order
    BY <1>2 DEF UserStart, Prepare, Cancel, Refresh, WantQr, MarkPaid, Void, Revert
<1>3. ASSUME NEW j \in Hooks, HookStart(j) PROVE order' = order
    BY <1>3 DEF HookStart, HookPaid, HookEnded
<1>4. ASSUME NEW j \in Sweepers, Sweep(j) PROVE order' = order
    BY <1>4 DEF Sweep
<1>5. ASSUME NEW j \in Jobs, Step(j), ~(Commit(j) \/ VoidStatus(j) \/ RevertStatus(j))
      PROVE  order' = order
    <2>1. CASE CreateLink(j) \/ Finish(j) \/ CancelLink(j) \/ CloseOpenMethods(j) \/ CallQr(j) \/ StoreQr(j)
        BY <2>1 DEF CreateLink, Finish, CancelLink, CloseOpenMethods, CallQr, StoreQr
    <2>2. CASE Reject(j) \/ RecordCancelled(j) \/ Apply(j)
        BY <2>2 DEF Reject, RecordCancelled, Apply, ApplyUpdate
    <2>3. CASE SweepNext(j) \/ AskLink(j) \/ AskQr(j) \/ Recover(j) \/ Confirm(j) \/ Sync(j) \/ Notify(j) \/ VoidLinks(j)
        BY <2>3 DEF SweepNext, AskLink, AskQr, Recover, Confirm, Sync, Notify, VoidLinks
    <2>4. CASE SyncWrite(j) \/ NotifyWrite(j) \/ VoidMeta(j) \/ VoidEnd(j) \/ RevertMeta(j)
        BY <2>4 DEF SyncWrite, NotifyWrite, VoidMeta, VoidEnd, RevertMeta
    <2> QED BY <1>5, <2>1, <2>2, <2>3, <2>4 DEF Step
<1>6. ASSUME NEW j \in Jobs, Stop(j) PROVE order' = order
    BY <1>6 DEF Stop
<1> QED BY <1>1, <1>2, <1>3, <1>4, <1>5, <1>6 DEF Next

\* A cancelled order is confirmed only by a user's revert that restores it: a payment that
\* arrives for it, however late, does not.
THEOREM CancelledStays == Spec => NeverRevived
<1>1. ASSUME Sound, [Next]_vars
      PROVE  [order = "CANCELLED" /\ order' = "CONFIRMED" =>
                  \E j \in Users : At(j, "revert") /\ job[j].held.pre = "CONFIRMED"]_vars
    <2>1. CASE Next
        <3>1. SUFFICES ASSUME order = "CANCELLED", order' = "CONFIRMED"
                       PROVE  \E j \in Users : At(j, "revert") /\ job[j].held.pre = "CONFIRMED"
            OBVIOUS
        <3>2. PICK j \in Jobs : Commit(j) \/ VoidStatus(j) \/ RevertStatus(j)
            BY <2>1, <3>1, OrderWrites
        <3>3. RevertStatus(j)
            BY <3>1, <3>2 DEF Commit, VoidStatus
        <3>4. At(j, "revert") /\ job[j].held.pre = "CONFIRMED"
            BY <3>1, <3>3 DEF RevertStatus
        <3>5. j \in Users
            BY <1>1, <3>4 DEF Sound, JobsOK, JobOK
        <3> QED BY <3>4, <3>5
    <2>2. CASE UNCHANGED vars
        BY <2>2
    <2> QED BY <1>1, <2>1, <2>2
<1> QED BY <1>1, SoundAlways, PTL DEF Spec, NeverRevived
================================================================================
