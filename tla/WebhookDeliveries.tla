--------------------------- MODULE WebhookDeliveries ---------------------------
(***************************************************************************)
(* The stored webhook deliveries of one provider (Shopify, Cashfree and      *)
(* Shiprocket share this table and this code): a delivery is recorded and    *)
(* acknowledged, then processed in the background, by the run that its       *)
(* arrival schedules, by a retry loop, or, for abandoned carts, by the       *)
(* recovery an administrator starts.                                         *)
(*                                                                           *)
(* A run claims the row with one conditional UPDATE, which leases it; it     *)
(* works with no lock held and completes or fails the row by its id alone.   *)
(* Time is abstract: a time stored in a row is ahead or has come, and every  *)
(* pending time may come at any step.                                        *)
(***************************************************************************)
EXTENDS Integers, FiniteSets

CONSTANTS
    NumEvents,   \* bound: supported deliveries ever recorded
    Handlers,    \* runs scheduled by arrivals, over all server processes
    Loops,       \* the retry loops, one in each server process
    Recoveries,  \* recoveries of given-up deliveries (abandoned carts only)
    BatchSize,   \* rows a loop reads at a time
    MaxAttempts, \* MAX_ATTEMPTS
    LeaseCoversProcessing \* no run is still at work when its lease ends

ASSUME NumEventsAssumption == NumEvents \in Nat
ASSUME RunsAssumption ==
    /\ Handlers \cap Loops = {}
    /\ Recoveries \cap (Handlers \cup Loops) = {}
ASSUME BatchAssumption == BatchSize \in Nat
ASSUME AttemptsAssumption == MaxAttempts \in Nat \ {0}
ASSUME LeaseAssumption == LeaseCoversProcessing \in BOOLEAN

Events == 1..NumEvents \* in the order they were received
Runs == Handlers \cup Loops \cup Recoveries

VARIABLES
    event,   \* the webhook_events rows
    run,     \* what each run is doing
    queued,  \* deliveries acknowledged, their run not started yet
    batch,   \* what each loop still has to process of the rows it read
    applied  \* deliveries whose effects were committed at least once

vars == <<event, run, queued, batch, applied>>

--------------------------------------------------------------------------------
(* Rows and runs *)

\* attempts stops counting at MaxAttempts: it is only ever compared with it.
\* next is nextAttemptAt: the end of the lease while PROCESSING, the time of the
\* retry while FAILED.  overdue: received more than STALE_RECEIVED_MS ago.
Row == [status : {"none", "RECEIVED", "PROCESSING", "PROCESSED", "IGNORED", "FAILED"},
        attempts : 0..MaxAttempts, next : {"null", "ahead", "come"}, overdue : BOOLEAN]

Idle == [at |-> "idle"]
Loading == [at : {"load"}, event : Events]
Working == [at : {"work", "fail"}, event : Events, attempts : 0..MaxAttempts]
Completing == [at : {"complete"}, event : Events, attempts : 0..MaxAttempts,
               result : {"PROCESSED", "IGNORED"}]

TypeOK ==
    /\ event \in [Events -> Row]
    /\ run \in [Runs -> {Idle} \cup Loading \cup Working \cup Completing]
    /\ queued \subseteq Events
    /\ batch \in [Loops -> SUBSET Events]
    /\ applied \subseteq Events

Recorded(e) == event[e].status # "none"
Holds(r, e) == run[r] # Idle /\ run[r].event = e

Init ==
    /\ event = [e \in Events |-> [status |-> "none", attempts |-> 0, next |-> "null", overdue |-> FALSE]]
    /\ run = [r \in Runs |-> Idle]
    /\ queued = {}
    /\ batch = [l \in Loops |-> {}]
    /\ applied = {}

--------------------------------------------------------------------------------
(* Receiving *)

\* A delivery of a handled type that was not recorded yet: INSERT, acknowledge and
\* schedule its run.  A repeat of the delivery finds the row and changes nothing.
Record(e) ==
    /\ ~Recorded(e)
    /\ \A d \in Events : d < e => Recorded(d)
    /\ event' = [event EXCEPT ![e].status = "RECEIVED"]
    /\ queued' = queued \cup {e}
    /\ UNCHANGED <<run, batch, applied>>

--------------------------------------------------------------------------------
(* The store: claim, complete, fail, due *)

\* Faults: a lease protects nothing; only a lease protects a row.
ClaimableIgnoringLeases(e) == event[e].status \in {"RECEIVED", "PROCESSING"} \/ event[e].next = "come"
ClaimableUnlessLeased(e) == event[e].status # "PROCESSING" \/ event[e].next = "come"

Claimable(e) ==
    \/ event[e].status = "RECEIVED"
    \/ event[e].status \in {"FAILED", "PROCESSING"} /\ event[e].next = "come"

CountedUp(n) == IF n < MaxAttempts THEN n + 1 ELSE n

\* claim, its UPDATE: a run whose delivery is not claimable is over (skipped).
Claim(r, e) ==
    IF Claimable(e)
    THEN /\ event' = [event EXCEPT ![e].status = "PROCESSING", ![e].next = "ahead",
                                   ![e].attempts = CountedUp(@)]
         /\ run' = [run EXCEPT ![r] = [at |-> "load", event |-> e]]
    ELSE UNCHANGED <<event, run>>

\* Fault: the attempts are not selected.
LoadWithoutAttempts(r) ==
    /\ run[r].at = "load"
    /\ run' = [run EXCEPT ![r] = [at |-> "work", event |-> run[r].event]]
    /\ UNCHANGED <<event, queued, batch, applied>>

\* claim, the SELECT that follows: the run works with the attempts it reads here.
Load(r) ==
    /\ run[r].at = "load"
    /\ run' = [run EXCEPT ![r] = [at |-> "work", event |-> run[r].event,
                                  attempts |-> event[run[r].event].attempts]]
    /\ UNCHANGED <<event, queued, batch, applied>>

\* Fault: a delivery whose run died is not due.
DueIgnoringLeases(e) ==
    \/ event[e].status = "RECEIVED" /\ event[e].overdue
    \/ event[e].status = "FAILED" /\ event[e].next = "come" /\ event[e].attempts < MaxAttempts

\* The rows a pass of a loop may take: due, which orders them by arrival and limits them.
Due(e) ==
    \/ event[e].status = "RECEIVED" /\ event[e].overdue
    \/ event[e].status = "FAILED" /\ event[e].next = "come" /\ event[e].attempts < MaxAttempts
    \/ event[e].status = "PROCESSING" /\ event[e].next = "come"
Oldest(n) == {e \in Events : Due(e) /\ Cardinality({d \in 1..(e - 1) : Due(d)}) < n}

--------------------------------------------------------------------------------
(* Runs *)

\* The run that an arrival scheduled.
Start(h, e) ==
    /\ run[h] = Idle
    /\ e \in queued
    /\ queued' = queued \ {e}
    /\ Claim(h, e)
    /\ UNCHANGED <<batch, applied>>

\* A loop reads what is due ...
Tick(l) ==
    /\ run[l] = Idle /\ batch[l] = {}
    /\ batch' = [batch EXCEPT ![l] = Oldest(BatchSize)]
    /\ UNCHANGED <<event, run, queued, applied>>

\* ... and processes it one after the other, the oldest first.
TickNext(l, e) ==
    /\ run[l] = Idle
    /\ e \in batch[l] /\ \A d \in batch[l] : e <= d
    /\ batch' = [batch EXCEPT ![l] = @ \ {e}]
    /\ Claim(l, e)
    /\ UNCHANGED <<queued, applied>>

\* The recovery claims a delivery that was given up; this is not a further attempt.
RecoverDead(c, e) ==
    /\ run[c] = Idle
    /\ event[e].status = "FAILED"
    /\ event[e].next = "null" \/ event[e].attempts >= MaxAttempts
    /\ event' = [event EXCEPT ![e].status = "PROCESSING", ![e].next = "ahead"]
    /\ run' = [run EXCEPT ![c] = [at |-> "load", event |-> e]]
    /\ UNCHANGED <<queued, batch, applied>>

\* Fault: a delivery that concerns nothing here is reported as processed.
WorkNeverIgnores(r) ==
    /\ run[r].at = "work"
    /\ run' = [run EXCEPT ![r] = [at |-> "complete", event |-> run[r].event,
                                  attempts |-> run[r].attempts, result |-> "PROCESSED"]]
    /\ applied' \in {applied, applied \cup {run[r].event}}
    /\ UNCHANGED <<event, queued, batch>>

\* The work on a claimed delivery: it is applied, it concerns nothing here, or an
\* error is thrown, before or after its effects were committed.
Work(r) ==
    /\ run[r].at = "work"
    /\ LET e == run[r].event
           complete(result) == [at |-> "complete", event |-> e, attempts |-> run[r].attempts,
                                result |-> result]
           failing == [at |-> "fail", event |-> e, attempts |-> run[r].attempts]
       IN  \/ run' = [run EXCEPT ![r] = complete("PROCESSED")] /\ applied' = applied \cup {e}
           \/ run' = [run EXCEPT ![r] = complete("IGNORED")] /\ UNCHANGED applied
           \/ run' = [run EXCEPT ![r] = failing] /\ applied' \in {applied, applied \cup {e}}
    /\ UNCHANGED <<event, queued, batch>>

\* complete writes the row by its id; when that statement fails the run fails.
Complete(r) ==
    /\ run[r].at = "complete"
    /\ \/ /\ event' = [event EXCEPT ![run[r].event].status = run[r].result,
                                    ![run[r].event].next = "null"]
          /\ run' = [run EXCEPT ![r] = Idle]
       \/ /\ run' = [run EXCEPT ![r] = [at |-> "fail", event |-> run[r].event,
                                        attempts |-> run[r].attempts]]
          /\ UNCHANGED event
    /\ UNCHANGED <<queued, batch, applied>>

\* Fault: one attempt too many.
FailOneMore(r) ==
    /\ run[r].at = "fail"
    /\ event' = [event EXCEPT ![run[r].event].status = "FAILED",
                              ![run[r].event].next = IF run[r].attempts > MaxAttempts THEN "null" ELSE "ahead"]
    /\ run' = [run EXCEPT ![r] = Idle]
    /\ UNCHANGED <<queued, batch, applied>>

\* fail, also by its id: a retry is planned until MAX_ATTEMPTS are used up.
Fail(r) ==
    /\ run[r].at = "fail"
    /\ event' = [event EXCEPT ![run[r].event].status = "FAILED",
                              ![run[r].event].next = IF run[r].attempts >= MaxAttempts THEN "null" ELSE "ahead"]
    /\ run' = [run EXCEPT ![r] = Idle]
    /\ UNCHANGED <<queued, batch, applied>>

--------------------------------------------------------------------------------
(* Crashes and time *)

\* The process stops, or the statement that would have ended the run fails.
Stop(r) ==
    /\ run[r] # Idle
    /\ run' = [run EXCEPT ![r] = Idle]
    /\ UNCHANGED <<event, queued, batch, applied>>

\* A process that restarts forgets the runs it had scheduled ...
ForgetScheduled ==
    /\ queued' \in SUBSET queued
    /\ UNCHANGED <<event, run, batch, applied>>

\* ... and what its loop had read.
ForgetBatch(l) ==
    /\ batch' = [batch EXCEPT ![l] = {}]
    /\ UNCHANGED <<event, run, queued, applied>>

\* The row's nextAttemptAt comes: a lease ends or a retry is due.
TimeComes(e) ==
    /\ event[e].next = "ahead"
    /\ LeaseCoversProcessing /\ event[e].status = "PROCESSING" => \A r \in Runs : ~Holds(r, e)
    /\ event' = [event EXCEPT ![e].next = "come"]
    /\ UNCHANGED <<run, queued, batch, applied>>

BecomesOverdue(e) ==
    /\ Recorded(e) /\ ~event[e].overdue
    /\ event' = [event EXCEPT ![e].overdue = TRUE]
    /\ UNCHANGED <<run, queued, batch, applied>>

--------------------------------------------------------------------------------
Next ==
    \/ \E e \in Events : Record(e) \/ TimeComes(e) \/ BecomesOverdue(e)
    \/ \E h \in Handlers, e \in Events : Start(h, e)
    \/ \E l \in Loops : Tick(l) \/ ForgetBatch(l) \/ \E e \in Events : TickNext(l, e)
    \/ \E c \in Recoveries, e \in Events : RecoverDead(c, e)
    \/ \E r \in Runs : Load(r) \/ Work(r) \/ Complete(r) \/ Fail(r) \/ Stop(r)
    \/ ForgetScheduled

Spec == Init /\ [][Next]_vars

RunStep(r) == Load(r) \/ Work(r) \/ Complete(r) \/ Fail(r)

\* Time passes, a loop ticks (setInterval), no run hangs forever (every call has a
\* timeout), and a loop that keeps coming back to a delivery is not stopped in the
\* middle of it every time.  The recovery looks at the deliveries of the last seven days
\* at most, so it opens one again only so often.
Fairness ==
    /\ <>[][~ \E c \in Recoveries, e \in Events : RecoverDead(c, e)]_vars
    /\ \A e \in Events : WF_vars(TimeComes(e)) /\ WF_vars(BecomesOverdue(e))
    /\ \A r \in Runs : WF_vars(RunStep(r))
    /\ \A l \in Loops :
        /\ WF_vars(Tick(l)) /\ SF_vars(\E e \in Events : TickNext(l, e))
        /\ SF_vars(Load(l)) /\ SF_vars(Work(l)) /\ SF_vars(Complete(l)) /\ SF_vars(Fail(l))

FairSpec == Spec /\ Fairness

--------------------------------------------------------------------------------
(* Properties *)

\* "A repeated delivery can never be ... processed twice" and "Claims are atomic in the
\* database, so running more than one instance is safe" (shopify.webhook.store.ts:6,
\* shopify.webhook.worker.ts:4-5): no two runs are ever at work on one delivery.
ClaimsExclusive ==
    \A q, r \in Runs, e \in Events : Holds(q, e) /\ Holds(r, e) => q = r

\* A delivery is marked PROCESSED only after its effects were committed, although every
\* run writes the row it claimed whatever became of it in the meantime.
ProcessedWasApplied ==
    \A e \in Events : event[e].status = "PROCESSED" => e \in applied

\* No delivery is left where nothing will ever take it up again: it is given up (FAILED
\* with no retry planned) exactly when its attempts are used up.
NothingForgotten ==
    \A e \in Events :
        event[e].status = "FAILED" => (event[e].next = "null" <=> event[e].attempts = MaxAttempts)

\* claim answers "null if it is not claimable (already done or held by someone else)"
\* (shopify.webhook.store.ts:25): a delivery that is done is never opened again.
Done(e) == event[e].status \in {"PROCESSED", "IGNORED"}
DoneStaysDone ==
    [][\A e \in Events : Done(e) => Done(e)']_vars

\* Every delivery that was acknowledged is processed, ignored or given up, whatever
\* crashes and whatever is forgotten.
EventuallySettled ==
    \A e \in Events :
        Recorded(e) ~> (Done(e) \/ (event[e].status = "FAILED" /\ event[e].next = "null"))
================================================================================
