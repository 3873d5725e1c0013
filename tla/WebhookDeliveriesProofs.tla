------------------------ MODULE WebhookDeliveriesProofs ------------------------
(***************************************************************************)
(* What holds of the stored deliveries for any number of deliveries, runs   *)
(* and attempts.                                                            *)
(***************************************************************************)
EXTENDS WebhookDeliveries, TLAPS

USE NumEventsAssumption, RunsAssumption, BatchAssumption, AttemptsAssumption, LeaseAssumption

--------------------------------------------------------------------------------
(* Types *)

Busy == Loading \cup Working \cup Completing

\* A run that is at a step of its own carries the fields that the step reads.
LEMMA RunKinds ==
    ASSUME TypeOK, NEW r \in Runs
    PROVE  /\ run[r] \in {Idle} \cup Busy
           /\ run[r].at = "load" => run[r] \in Loading
           /\ run[r].at \in {"work", "fail"} => run[r] \in Working
           /\ run[r].at = "complete" => run[r] \in Completing
BY DEF TypeOK, Busy, Idle, Loading, Working, Completing

LEMMA InitTyped == Init => TypeOK
BY DEF Init, TypeOK, Row, Events

LEMMA ClaimTyped ==
    ASSUME TypeOK, NEW r \in Runs, NEW e \in Events, Claim(r, e)
    PROVE  event' \in [Events -> Row] /\ run' \in [Runs -> {Idle} \cup Busy]
<1>1. CountedUp(event[e].attempts) \in 0..MaxAttempts
    BY DEF TypeOK, Row, CountedUp
<1>2. [at |-> "load", event |-> e] \in Busy
    BY DEF Busy, Loading
<1> QED BY <1>1, <1>2 DEF TypeOK, Claim, Row, Busy

LEMMA NextTyped == TypeOK /\ [Next]_vars => TypeOK'
<1> SUFFICES ASSUME TypeOK, [Next]_vars PROVE TypeOK'
    OBVIOUS
<1>1. ASSUME NEW e \in Events, Record(e) PROVE TypeOK'
    BY <1>1 DEF TypeOK, Record, Row
<1>2. ASSUME NEW e \in Events, TimeComes(e) PROVE TypeOK'
    BY <1>2 DEF TypeOK, TimeComes, Row
<1>3. ASSUME NEW e \in Events, BecomesOverdue(e) PROVE TypeOK'
    BY <1>3 DEF TypeOK, BecomesOverdue, Row
<1>4. ASSUME NEW h \in Handlers, NEW e \in Events, Start(h, e) PROVE TypeOK'
    BY <1>4, ClaimTyped DEF TypeOK, Start, Runs, Busy
<1>5. ASSUME NEW l \in Loops, Tick(l) PROVE TypeOK'
    BY <1>5 DEF TypeOK, Tick, Oldest
<1>6. ASSUME NEW l \in Loops, ForgetBatch(l) PROVE TypeOK'
    BY <1>6 DEF TypeOK, ForgetBatch
<1>7. ASSUME NEW l \in Loops, NEW e \in Events, TickNext(l, e) PROVE TypeOK'
    BY <1>7, ClaimTyped DEF TypeOK, TickNext, Runs, Busy
<1>8. ASSUME NEW c \in Recoveries, NEW e \in Events, RecoverDead(c, e) PROVE TypeOK'
    BY <1>8 DEF TypeOK, RecoverDead, Row, Runs, Loading
<1>9. ASSUME NEW r \in Runs, Load(r) PROVE TypeOK'
    <2>1. run[r] \in Loading
        BY <1>9, RunKinds DEF Load
    <2>2. [at |-> "work", event |-> run[r].event, attempts |-> event[run[r].event].attempts] \in Working
        BY <2>1 DEF TypeOK, Row, Loading, Working
    <2> QED BY <1>9, <2>2 DEF TypeOK, Load
<1>10. ASSUME NEW r \in Runs, Work(r) PROVE TypeOK'
    <2>1. run[r] \in Working
        BY <1>10, RunKinds DEF Work
    <2>2. /\ [at |-> "fail", event |-> run[r].event, attempts |-> run[r].attempts] \in Working
          /\ \A s \in {"PROCESSED", "IGNORED"} :
                [at |-> "complete", event |-> run[r].event, attempts |-> run[r].attempts, result |-> s] \in Completing
        BY <2>1 DEF Working, Completing
    <2>3. run' \in [Runs -> {Idle} \cup Loading \cup Working \cup Completing]
        BY <1>10, <2>2 DEF TypeOK, Work
    <2>4. applied' \subseteq Events
        BY <1>10, <2>1 DEF TypeOK, Work, Working
    <2> QED BY <1>10, <2>3, <2>4 DEF TypeOK, Work
<1>11. ASSUME NEW r \in Runs, Complete(r) PROVE TypeOK'
    <2>1. run[r] \in Completing
        BY <1>11, RunKinds DEF Complete
    <2>2. [at |-> "fail", event |-> run[r].event, attempts |-> run[r].attempts] \in Working
        BY <2>1 DEF Working, Completing
    <2>3. run' \in [Runs -> {Idle} \cup Loading \cup Working \cup Completing]
        BY <1>11, <2>2 DEF TypeOK, Complete
    <2>4. event' \in [Events -> Row]
        BY <1>11, <2>1 DEF TypeOK, Complete, Row, Completing
    <2> QED BY <1>11, <2>3, <2>4 DEF TypeOK, Complete
<1>12. ASSUME NEW r \in Runs, Fail(r) PROVE TypeOK'
    <2>1. run[r] \in Working
        BY <1>12, RunKinds DEF Fail
    <2> QED BY <1>12, <2>1 DEF TypeOK, Fail, Row, Working
<1>13. ASSUME NEW r \in Runs, Stop(r) PROVE TypeOK'
    BY <1>13 DEF TypeOK, Stop
<1>14. ASSUME ForgetScheduled PROVE TypeOK'
    BY <1>14 DEF TypeOK, ForgetScheduled
<1>15. CASE UNCHANGED vars
    BY <1>15 DEF TypeOK, vars
<1> QED BY <1>1, <1>2, <1>3, <1>4, <1>5, <1>6, <1>7, <1>8, <1>9, <1>10, <1>11, <1>12, <1>13, <1>14, <1>15 DEF Next

\* Rows, runs and batches have the shapes TypeOK gives them in every reachable state.
THEOREM TypeCorrect == Spec => []TypeOK
BY InitTyped, NextTyped, PTL DEF Spec

--------------------------------------------------------------------------------
(* A delivery marked PROCESSED was applied, leases or not *)

\* A run that is about to write PROCESSED has committed its effects.
AppliedFirst ==
    \A r \in Runs :
        run[r].at = "complete" /\ run[r].result = "PROCESSED" => run[r].event \in applied

AppliedInv == TypeOK /\ AppliedFirst /\ ProcessedWasApplied

LEMMA AppliedInit == Init => AppliedInv
BY InitTyped DEF Init, AppliedInv, AppliedFirst, ProcessedWasApplied, Idle

LEMMA ClaimKeepsApplied ==
    ASSUME AppliedInv, NEW r \in Runs, NEW e \in Events, Claim(r, e), applied' = applied
    PROVE  AppliedFirst' /\ ProcessedWasApplied'
BY DEF AppliedInv, TypeOK, Row, AppliedFirst, ProcessedWasApplied, Claim

LEMMA AppliedNext == AppliedInv /\ [Next]_vars => AppliedInv'
<1> SUFFICES ASSUME AppliedInv, [Next]_vars PROVE AppliedInv'
    OBVIOUS
<1>typed. TypeOK /\ TypeOK'
    BY NextTyped DEF AppliedInv
<1> SUFFICES AppliedFirst' /\ ProcessedWasApplied'
    BY <1>typed DEF AppliedInv
<1> USE DEF AppliedInv, AppliedFirst, ProcessedWasApplied
<1>1. ASSUME NEW e \in Events, Record(e) \/ TimeComes(e) \/ BecomesOverdue(e)
      PROVE  AppliedFirst' /\ ProcessedWasApplied'
    BY <1>1, <1>typed DEF TypeOK, Row, Record, TimeComes, BecomesOverdue
<1>2. ASSUME NEW h \in Handlers, NEW e \in Events, Start(h, e)
      PROVE  AppliedFirst' /\ ProcessedWasApplied'
    BY <1>2, ClaimKeepsApplied DEF Start, Runs
<1>3. ASSUME NEW l \in Loops, Tick(l) \/ ForgetBatch(l)
      PROVE  AppliedFirst' /\ ProcessedWasApplied'
    BY <1>3 DEF Tick, ForgetBatch
<1>4. ASSUME NEW l \in Loops, NEW e \in Events, TickNext(l, e)
      PROVE  AppliedFirst' /\ ProcessedWasApplied'
    BY <1>4, ClaimKeepsApplied DEF TickNext, Runs
<1>5. ASSUME NEW c \in Recoveries, NEW e \in Events, RecoverDead(c, e)
      PROVE  AppliedFirst' /\ ProcessedWasApplied'
    BY <1>5, <1>typed DEF TypeOK, Row, Runs, RecoverDead
<1>6. ASSUME NEW r \in Runs, Load(r) \/ Fail(r) \/ Stop(r)
      PROVE  AppliedFirst' /\ ProcessedWasApplied'
    BY <1>6, <1>typed DEF TypeOK, Row, Load, Fail, Stop, Idle
<1>7. ASSUME NEW r \in Runs, Work(r)
      PROVE  AppliedFirst' /\ ProcessedWasApplied'
    BY <1>7, <1>typed DEF TypeOK, Work
<1>8. ASSUME NEW r \in Runs, Complete(r)
      PROVE  AppliedFirst' /\ ProcessedWasApplied'
    <2>1. run[r] \in Completing
        BY <1>8, <1>typed, RunKinds DEF Complete
    <2> DEFINE e == run[r].event
    <2>2. /\ applied' = applied
          /\ run'[r].at # "complete"
          /\ \A q \in Runs : q # r => run'[q] = run[q]
        BY <1>8, <1>typed DEF TypeOK, Complete, Idle
    <2>3. AppliedFirst'
        BY <2>2
    <2>4. \A d \in Events : event'[d].status = event[d].status \/ (d = e /\ event'[d].status = run[r].result)
        BY <1>8, <1>typed, <2>1 DEF TypeOK, Row, Complete, Completing
    <2>5. ProcessedWasApplied'
        BY <1>8, <2>2, <2>4 DEF Complete
    <2> QED BY <2>3, <2>5
<1>9. ASSUME ForgetScheduled \/ UNCHANGED vars
      PROVE  AppliedFirst' /\ ProcessedWasApplied'
    BY <1>9 DEF ForgetScheduled, vars
<1> QED BY <1>1, <1>2, <1>3, <1>4, <1>5, <1>6, <1>7, <1>8, <1>9 DEF Next

\* No delivery is PROCESSED whose effects were not committed, also when runs outlive
\* their leases and several of them write the same row.
THEOREM ProcessedIsApplied == Spec => []ProcessedWasApplied
<1>1. AppliedInv => ProcessedWasApplied
    BY DEF AppliedInv
<1> QED BY <1>1, AppliedInit, AppliedNext, PTL DEF Spec

--------------------------------------------------------------------------------
(* Claims are exclusive as long as no run outlives its lease *)

\* The lease of a delivery that a run holds has not ended.
LeaseHeld ==
    \A r \in Runs, e \in Events :
        Holds(r, e) => event[e].status = "PROCESSING" /\ event[e].next = "ahead"

\* The number of attempts a run works with is the row's.
AttemptsKnown ==
    \A r \in Runs :
        run[r].at \in {"work", "fail", "complete"} => run[r].attempts = event[run[r].event].attempts

LeaseInv == TypeOK /\ LeaseHeld /\ ClaimsExclusive /\ AttemptsKnown /\ NothingForgotten

\* What a step must leave of LeaseInv, beyond the types.
LeaseKept == LeaseHeld' /\ ClaimsExclusive' /\ AttemptsKnown' /\ NothingForgotten'

LEMMA LeaseInit == Init => LeaseInv
BY InitTyped DEF Init, LeaseInv, LeaseHeld, ClaimsExclusive, AttemptsKnown, NothingForgotten, Holds, Idle

\* Run r takes delivery e, which no run holds, and the row is leased to it.
Takes(r, e) ==
    /\ run[r] = Idle
    /\ \A q \in Runs : ~Holds(q, e)
    /\ \A d \in Events : d # e => event'[d] = event[d]
    /\ event'[e].status = "PROCESSING" /\ event'[e].next = "ahead"
    /\ run' = [run EXCEPT ![r] = [at |-> "load", event |-> e]]

LEMMA TakesKeepsLeases ==
    ASSUME LeaseInv, NEW r \in Runs, NEW e \in Events, Takes(r, e)
    PROVE  LeaseKept
<1> USE DEF LeaseInv, TypeOK, Takes
<1>1. \A d \in Events : d # e => event'[d] = event[d]
    OBVIOUS
<1>2. event'[e].status = "PROCESSING" /\ event'[e].next = "ahead"
    OBVIOUS
<1>3. \A q \in Runs : q # r => run'[q] = run[q]
    OBVIOUS
<1>4. run'[r] = [at |-> "load", event |-> e]
    OBVIOUS
<1>5. \A q \in Runs : q # r /\ run[q] # Idle => run[q].event # e
    BY DEF Holds
<1>6. LeaseHeld'
    BY <1>1, <1>2, <1>3, <1>4, <1>5 DEF LeaseHeld, Holds
<1>7. ClaimsExclusive'
    BY <1>3, <1>4, <1>5 DEF ClaimsExclusive, Holds
<1>8. AttemptsKnown'
    <2> SUFFICES ASSUME NEW q \in Runs, run'[q].at \in {"work", "fail", "complete"}
                 PROVE  run'[q].attempts = event'[run'[q].event].attempts
        BY DEF AttemptsKnown
    <2>1. q # r /\ run[q] # Idle
        BY <1>3, <1>4 DEF Idle
    <2>2. run[q].event \in Events
        BY <2>1, RunKinds DEF Busy, Loading, Working, Completing
    <2> QED BY <1>1, <1>3, <1>5, <2>1, <2>2 DEF AttemptsKnown
<1>9. NothingForgotten'
    BY <1>1, <1>2 DEF NothingForgotten
<1> QED BY <1>6, <1>7, <1>8, <1>9 DEF LeaseKept

LEMMA ClaimKeepsLeases ==
    ASSUME LeaseInv, NEW r \in Runs, NEW e \in Events, run[r] = Idle, Claim(r, e)
    PROVE  LeaseKept
<1>1. CASE Claimable(e)
    <2>1. \A q \in Runs : ~Holds(q, e)
        BY <1>1 DEF LeaseInv, LeaseHeld, Claimable
    <2>2. Takes(r, e)
        BY <1>1, <2>1 DEF Claim, Takes, LeaseInv, TypeOK, Row
    <2> QED BY <2>2, TakesKeepsLeases
<1>2. CASE ~Claimable(e)
    BY <1>2 DEF Claim, LeaseKept, LeaseInv, LeaseHeld, ClaimsExclusive, AttemptsKnown, NothingForgotten, Holds
<1> QED BY <1>1, <1>2

\* Run r is over and leaves the row of its delivery e with another status.
Leaves(r, e) ==
    /\ Holds(r, e)
    /\ \E s \in {"PROCESSED", "IGNORED", "FAILED"}, n \in {"null", "ahead"} :
        /\ event' = [event EXCEPT ![e].status = s, ![e].next = n]
        /\ s = "FAILED" => (n = "null" <=> event[e].attempts = MaxAttempts)
    /\ run' = [run EXCEPT ![r] = Idle]

LEMMA LeavesKeepsLeases ==
    ASSUME LeaseInv, NEW r \in Runs, NEW e \in Events, Leaves(r, e)
    PROVE  LeaseKept
<1> USE DEF LeaseInv, TypeOK, Leaves
<1>1. \A d \in Events : d # e => event'[d] = event[d]
    OBVIOUS
<1>2. \A d \in Events : event'[d].attempts = event[d].attempts
    BY DEF Row
<1>3. /\ \A q \in Runs : q # r => run'[q] = run[q]
      /\ run'[r] = Idle
    OBVIOUS
<1>4. \A q \in Runs : q # r => ~Holds(q, e)
    BY DEF ClaimsExclusive
<1>5. LeaseHeld'
    BY <1>1, <1>3, <1>4 DEF LeaseHeld, Holds
<1>6. ClaimsExclusive'
    BY <1>3 DEF ClaimsExclusive, Holds
<1>7. AttemptsKnown'
    <2> SUFFICES ASSUME NEW q \in Runs, run'[q].at \in {"work", "fail", "complete"}
                 PROVE  run'[q].attempts = event'[run'[q].event].attempts
        BY DEF AttemptsKnown
    <2>1. q # r /\ run[q] # Idle
        BY <1>3 DEF Idle
    <2>2. run[q].event \in Events
        BY <2>1, RunKinds DEF Busy, Loading, Working, Completing
    <2> QED BY <1>2, <1>3, <2>1, <2>2 DEF AttemptsKnown
<1>8. NothingForgotten'
    <2>1. event'[e].status = "FAILED" => (event'[e].next = "null" <=> event'[e].attempts = MaxAttempts)
        BY DEF Row
    <2> QED BY <1>1, <2>1 DEF NothingForgotten
<1> QED BY <1>5, <1>6, <1>7, <1>8 DEF LeaseKept

LEMMA LeaseNext ==
    ASSUME LeaseCoversProcessing, LeaseInv, [Next]_vars
    PROVE  LeaseInv'
<1>typed. TypeOK /\ TypeOK'
    BY NextTyped DEF LeaseInv
<1> SUFFICES LeaseKept
    BY <1>typed DEF LeaseInv, LeaseKept
<1> DEFINE Same == run' = run /\ event' = event
<1>same. ASSUME Same PROVE LeaseKept
    BY <1>same DEF LeaseInv, LeaseKept, LeaseHeld, ClaimsExclusive, AttemptsKnown, NothingForgotten, Holds
<1> HIDE DEF Same
<1>1. ASSUME NEW e \in Events, Record(e) PROVE LeaseKept
    <2>1. \A r \in Runs : ~Holds(r, e)
        BY <1>1 DEF LeaseInv, LeaseHeld, Record, Recorded
    <2> QED BY <1>1, <1>typed, <2>1 DEF TypeOK, Row, Record, LeaseInv, LeaseKept, LeaseHeld, ClaimsExclusive, AttemptsKnown, NothingForgotten, Holds
<1>2. ASSUME NEW e \in Events, TimeComes(e) PROVE LeaseKept
    <2>1. \A r \in Runs : ~Holds(r, e)
        BY <1>2 DEF LeaseInv, LeaseHeld, TimeComes
    <2> QED BY <1>2, <1>typed, <2>1 DEF TypeOK, Row, TimeComes, LeaseInv, LeaseKept, LeaseHeld, ClaimsExclusive, AttemptsKnown, NothingForgotten, Holds
<1>3. ASSUME NEW e \in Events, BecomesOverdue(e) PROVE LeaseKept
    BY <1>3, <1>typed DEF TypeOK, Row, BecomesOverdue, LeaseInv, LeaseKept, LeaseHeld, ClaimsExclusive, AttemptsKnown, NothingForgotten, Holds
<1>4. ASSUME NEW h \in Handlers, NEW e \in Events, Start(h, e) PROVE LeaseKept
    BY <1>4, ClaimKeepsLeases DEF Start, Runs
<1>5. ASSUME NEW l \in Loops, Tick(l) \/ ForgetBatch(l) PROVE LeaseKept
    BY <1>5, <1>same DEF Tick, ForgetBatch, Same
<1>6. ASSUME NEW l \in Loops, NEW e \in Events, TickNext(l, e) PROVE LeaseKept
    BY <1>6, ClaimKeepsLeases DEF TickNext, Runs
<1>7. ASSUME NEW c \in Recoveries, NEW e \in Events, RecoverDead(c, e) PROVE LeaseKept
    <2>1. \A r \in Runs : ~Holds(r, e)
        BY <1>7 DEF LeaseInv, LeaseHeld, RecoverDead
    <2>2. Takes(c, e)
        BY <1>7, <1>typed, <2>1 DEF TypeOK, Row, RecoverDead, Takes
    <2> QED BY <2>2, TakesKeepsLeases DEF Runs
<1>8. ASSUME NEW r \in Runs, Load(r) PROVE LeaseKept
    <2>1. run[r] \in Loading /\ run[r] # Idle
        BY <1>8, <1>typed, RunKinds DEF Load, Idle
    <2>2. /\ \A q \in Runs, e \in Events : Holds(q, e)' <=> Holds(q, e)
          /\ event' = event
          /\ \A q \in Runs : q # r => run'[q] = run[q]
          /\ run'[r].attempts = event[run[r].event].attempts /\ run'[r].event = run[r].event
        BY <1>8, <1>typed, <2>1 DEF TypeOK, Load, Holds, Idle, Loading
    <2> QED BY <2>2 DEF LeaseInv, LeaseKept, LeaseHeld, ClaimsExclusive, AttemptsKnown, NothingForgotten
<1>9. ASSUME NEW r \in Runs, Work(r) PROVE LeaseKept
    <2>1. run[r] \in Working /\ run[r] # Idle
        BY <1>9, <1>typed, RunKinds DEF Work, Idle
    <2>2. /\ \A q \in Runs, e \in Events : Holds(q, e)' <=> Holds(q, e)
          /\ event' = event
          /\ \A q \in Runs : q # r => run'[q] = run[q]
          /\ run'[r].attempts = run[r].attempts /\ run'[r].event = run[r].event
        BY <1>9, <1>typed, <2>1 DEF TypeOK, Work, Holds, Idle, Working
    <2>3. run[r].attempts = event[run[r].event].attempts
        BY <1>9 DEF Work, LeaseInv, AttemptsKnown
    <2> QED BY <2>2, <2>3 DEF LeaseInv, LeaseKept, LeaseHeld, ClaimsExclusive, AttemptsKnown, NothingForgotten
<1>10. ASSUME NEW r \in Runs, Complete(r) PROVE LeaseKept
    <2>1. run[r] \in Completing /\ run[r] # Idle
        BY <1>10, <1>typed, RunKinds DEF Complete, Idle
    <2> DEFINE e == run[r].event
    <2>2. e \in Events /\ Holds(r, e)
        BY <2>1 DEF Completing, Holds
    <2>3. CASE run' = [run EXCEPT ![r] = [at |-> "fail", event |-> run[r].event, attempts |-> run[r].attempts]]
               /\ event' = event
        <3>1. /\ \A q \in Runs, d \in Events : Holds(q, d)' <=> Holds(q, d)
              /\ \A q \in Runs : q # r => run'[q] = run[q]
              /\ run'[r].attempts = run[r].attempts /\ run'[r].event = run[r].event
            BY <1>typed, <2>1, <2>3 DEF TypeOK, Holds, Idle, Completing
        <3>2. run[r].attempts = event[run[r].event].attempts
            BY <1>10 DEF Complete, LeaseInv, AttemptsKnown
        <3> QED BY <2>3, <3>1, <3>2 DEF LeaseInv, LeaseKept, LeaseHeld, ClaimsExclusive, AttemptsKnown, NothingForgotten
    <2>4. CASE event' = [event EXCEPT ![run[r].event].status = run[r].result, ![run[r].event].next = "null"]
               /\ run' = [run EXCEPT ![r] = Idle]
        <3>1. Leaves(r, e)
            BY <2>1, <2>2, <2>4 DEF Leaves, Completing
        <3> QED BY <2>2, <3>1, LeavesKeepsLeases
    <2> QED BY <1>10, <2>3, <2>4 DEF Complete
<1>11. ASSUME NEW r \in Runs, Fail(r) PROVE LeaseKept
    <2>1. run[r] \in Working /\ run[r] # Idle
        BY <1>11, <1>typed, RunKinds DEF Fail, Idle
    <2> DEFINE e == run[r].event
    <2>2. e \in Events /\ Holds(r, e)
        BY <2>1 DEF Working, Holds
    <2>3. run[r].attempts = event[e].attempts /\ event[e].attempts \in 0..MaxAttempts
        BY <1>11, <1>typed, <2>2 DEF Fail, LeaseInv, AttemptsKnown, TypeOK, Row
    <2>4. CASE event[e].attempts = MaxAttempts
        <3>1. event' = [event EXCEPT ![e].status = "FAILED", ![e].next = "null"]
            BY <1>11, <2>3, <2>4 DEF Fail
        <3>2. Leaves(r, e)
            BY <1>11, <2>2, <2>4, <3>1 DEF Fail, Leaves
        <3> QED BY <2>2, <3>2, LeavesKeepsLeases
    <2>5. CASE event[e].attempts # MaxAttempts
        <3>1. ~(run[r].attempts >= MaxAttempts)
            BY <2>3, <2>5
        <3>2. event' = [event EXCEPT ![e].status = "FAILED", ![e].next = "ahead"]
            BY <1>11, <3>1 DEF Fail
        <3>3. Leaves(r, e)
            BY <1>11, <2>2, <2>5, <3>2 DEF Fail, Leaves
        <3> QED BY <2>2, <3>3, LeavesKeepsLeases
    <2> QED BY <2>4, <2>5
<1>12. ASSUME NEW r \in Runs, Stop(r) PROVE LeaseKept
    BY <1>12, <1>typed DEF TypeOK, Stop, Idle, LeaseInv, LeaseKept, LeaseHeld, ClaimsExclusive, AttemptsKnown, NothingForgotten, Holds
<1>13. ASSUME ForgetScheduled \/ UNCHANGED vars PROVE LeaseKept
    BY <1>13, <1>same DEF ForgetScheduled, vars, Same
<1> QED BY <1>1, <1>2, <1>3, <1>4, <1>5, <1>6, <1>7, <1>8, <1>9, <1>10, <1>11, <1>12, <1>13 DEF Next

LEMMA LeaseInvariant ==
    ASSUME LeaseCoversProcessing
    PROVE  Spec => []LeaseInv
<1>1. LeaseInv /\ [Next]_vars => LeaseInv'
    BY LeaseNext
<1> QED BY <1>1, LeaseInit, PTL DEF Spec

\* Two runs are never at work on one delivery, however many processes serve it.
THEOREM ExclusiveClaims ==
    ASSUME LeaseCoversProcessing
    PROVE  Spec => []ClaimsExclusive
<1>1. LeaseInv => ClaimsExclusive
    BY DEF LeaseInv
<1> QED BY <1>1, LeaseInvariant, PTL

\* A failed delivery has a retry planned until its attempts are used up, and none after.
THEOREM NothingIsForgotten ==
    ASSUME LeaseCoversProcessing
    PROVE  Spec => []NothingForgotten
<1>1. LeaseInv => NothingForgotten
    BY DEF LeaseInv
<1> QED BY <1>1, LeaseInvariant, PTL

LEMMA DoneNext ==
    ASSUME LeaseInv, [Next]_vars, NEW e \in Events, Done(e)
    PROVE  Done(e)'
<1>1. \A r \in Runs : ~Holds(r, e)
    BY DEF LeaseInv, LeaseHeld, Done
<1>2. \A r \in Runs : run[r].at \in {"complete", "fail"} => run[r].event # e
    BY <1>1 DEF Holds, Idle
<1> USE DEF LeaseInv, TypeOK, Row, Done
<1>3. ASSUME NEW r \in Runs, NEW d \in Events, Claim(r, d) PROVE Done(e)'
    BY <1>3 DEF Claim, Claimable
<1>4. ASSUME NEW d \in Events, Record(d) \/ TimeComes(d) \/ BecomesOverdue(d) PROVE Done(e)'
    BY <1>4 DEF Record, Recorded, TimeComes, BecomesOverdue
<1>5. ASSUME NEW h \in Handlers, NEW d \in Events, Start(h, d) PROVE Done(e)'
    BY <1>3, <1>5 DEF Start, Runs
<1>6. ASSUME NEW l \in Loops, Tick(l) \/ ForgetBatch(l) PROVE Done(e)'
    BY <1>6 DEF Tick, ForgetBatch
<1>7. ASSUME NEW l \in Loops, NEW d \in Events, TickNext(l, d) PROVE Done(e)'
    BY <1>3, <1>7 DEF TickNext, Runs
<1>8. ASSUME NEW c \in Recoveries, NEW d \in Events, RecoverDead(c, d) PROVE Done(e)'
    BY <1>8 DEF RecoverDead
<1>9. ASSUME NEW r \in Runs, Load(r) \/ Work(r) \/ Stop(r) PROVE Done(e)'
    BY <1>9 DEF Load, Work, Stop
<1>10. ASSUME NEW r \in Runs, Complete(r) PROVE Done(e)'
    BY <1>2, <1>10 DEF Complete
<1>11. ASSUME NEW r \in Runs, Fail(r) PROVE Done(e)'
    BY <1>2, <1>11 DEF Fail
<1>12. ASSUME ForgetScheduled \/ UNCHANGED vars PROVE Done(e)'
    BY <1>12 DEF ForgetScheduled, vars
<1> QED BY <1>4, <1>5, <1>6, <1>7, <1>8, <1>9, <1>10, <1>11, <1>12 DEF Next

\* A delivery that is processed or ignored is never opened again.
THEOREM DoneIsDone ==
    ASSUME LeaseCoversProcessing
    PROVE  Spec => DoneStaysDone
<1>1. LeaseInv /\ [Next]_vars => [\A e \in Events : Done(e) => Done(e)']_vars
    BY DoneNext
<1> QED BY <1>1, LeaseInvariant, PTL DEF Spec, DoneStaysDone
================================================================================
