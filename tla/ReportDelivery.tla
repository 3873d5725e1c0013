---------------------------- MODULE ReportDelivery ----------------------------
(***************************************************************************)
(* The daily team report for one recipient: one occurrence of an automation  *)
(* or one test send, the run row, and the recipient's row with its three     *)
(* messages, the notification (a template), the detailed text and the Excel  *)
(* file; the ticks of the scheduler that send it, the users who cancel,      *)
(* retry and delete it, the recipient's reply that releases what is held     *)
(* back, and the provider's callbacks.                                       *)
(*                                                                           *)
(* Every statement that reads or writes the two rows is a step of its own    *)
(* (those that close several messages, one after the other, are one step),   *)
(* and so is every transmission to the provider.  Claims are conditional on  *)
(* what was read; what a send came to is written whatever the row holds.     *)
(* Other recipients of a run only take time.  The provider delivers the free *)
(* form messages, the text and the file, while the recipient's window, 24    *)
(* hours from his last message, is open.                                     *)
(***************************************************************************)
EXTENDS Integers, FiniteSets

CONSTANTS
    Tickers,     \* ticks of the scheduler under way, in any process
    Handlers,    \* users' requests, replies and callbacks under way
    MaxAttempts, \* attempts at a notification the scheduler makes
    MaxTries,    \* bound: attempts at a message altogether (the code's limit is 8)
    MaxReplies,  \* bound: messages of the recipient
    Scenes       \* bound: what may happen together, each on its own

Requests == {"test", "cancel", "delete", "retry", "reply", "configure", "owner"}
Events == {"SENT", "DELIVERED", "READ", "FAILED"}

\* kind: the run's; parts: what the automation sends; jobs: the ticks and handlers there
\* are; requests: what handlers are asked for; events: what the provider reports; faults:
\* how many there may be.
ASSUME ScenesAssumption ==
    \A s \in Scenes :
        /\ s.kind \in {"SCHEDULED", "TEST"}
        /\ s.parts \subseteq {"text", "excel"} /\ s.parts # {}
        /\ s.jobs \subseteq Tickers \cup Handlers
        /\ s.requests \subseteq Requests /\ s.events \subseteq Events
        /\ s.faults \in Nat
ASSUME BoundsAssumption ==
    MaxAttempts \in Nat \ {0} /\ MaxTries \in Nat /\ MaxAttempts <= MaxTries /\ MaxReplies \in Nat

Jobs == Tickers \cup Handlers
FreeForm == {"txt", "doc"}
Parts == {"note"} \cup FreeForm

VARIABLES
    scene,    \* what may happen
    clock,    \* the time, against the occurrence's
    settings, \* the automation's, against the occurrence
    owner,    \* the automation's owner may have reports sent
    run,      \* the run row
    row,      \* the recipient's row: its three messages
    stale,    \* the row has not been written for the time a send may take
    open,     \* the recipient's window
    reached,  \* messages the provider accepted, of each kind
    mail,     \* those of them it answered, by their attempts
    told,     \* what it reported of them, a report each
    replies,  \* messages of the recipient there have been
    job,      \* what each tick and handler is doing
    faults,   \* faults there have been
    lost,     \* (history) transmissions accepted without an answer
    missed    \* (history) the run was recorded as missed, and no user retried it

provider == <<reached, mail, told, lost>>
vars == <<scene, clock, settings, owner, run, row, stale, open, reached, mail, told, replies, job, faults, lost, missed>>

--------------------------------------------------------------------------------
(* Rows *)

Accepted == {"SENT", "DELIVERED", "READ"}
Statuses == {"none", "PENDING", "SENDING", "FAILED", "UNCERTAIN", "WAITING_FOR_REPLY", "SKIPPED"} \cup Accepted

\* id: the attempt whose message providerMessageId names, 0 for none; shut: the error says
\* that the window is closed; next: nextAttemptAt, against the time.
Part == [status : Statuses, attempts : 0..MaxTries, id : 0..MaxTries, shut : BOOLEAN,
         next : {"never", "later", "now"}]
NewPart(status) == [status |-> status, attempts |-> 0, id |-> 0, shut |-> FALSE, next |-> "never"]

On(p) == IF p = "doc" THEN "excel" \in scene.parts ELSE "text" \in scene.parts
InitialParts == [p \in Parts |-> NewPart(IF On(p) THEN "PENDING" ELSE "SKIPPED")]

HasRow == row["note"].status # "none"
Live == {"PENDING", "SENDING"}

\* The run's status is a summary of the messages.
Summary ==
    LET all == {row[p].status : p \in Parts}
        held == {row[p].status : p \in FreeForm} IN
    [status |-> IF "SENDING" \in all THEN "SENDING"
                ELSE IF row["note"].status = "PENDING" THEN "PENDING"
                ELSE IF "FAILED" \in all THEN "FAILED"
                ELSE IF "UNCERTAIN" \in all THEN "UNCERTAIN"
                ELSE IF held \cap {"PENDING", "WAITING_FOR_REPLY"} # {} THEN "PENDING"
                ELSE "SENT",
     retry |-> row["note"].status = "FAILED" /\ row["note"].next # "never"]
NoRow == [p \in Parts |-> NewPart("none")]
Summaries == [status : {"none", "PENDING", "SENDING", "FAILED", "UNCERTAIN", "SENT", "CANCELLED"},
              retry : BOOLEAN]

Phases == {"idle", "create", "rows", "test rows", "mark", "owner", "close", "read", "claim", "note", "due", "take", "free", "post",
           "record", "fallback", "sum", "store", "cancel", "cancel rows", "missed rows",
           "recover", "select", "reply owner", "reply claim", "interrupted", "retry", "hook"}
Answers == {"none", "accepted", "refused", "shut", "unreachable"}

\* part: the message being sent, and attempt, its attempt; seen: what was read of it;
\* again: this is the template sent after all; takes: the free-form messages the job may
\* send; adopts: those it sends although they are SENDING; window: what it knows of the
\* window; skipped: it left the template out; then: where it goes on after the summary.
Job == [op : {"none", "tick", "test", "cancel", "reply", "retry", "hook"}, at : Phases,
        part : Parts, attempt : 0..MaxTries, seen : [Parts -> Part], takes : SUBSET FreeForm,
        adopts : SUBSET FreeForm, window : {"unknown", "open", "closed"}, skipped : BOOLEAN,
        again : BOOLEAN, resent : BOOLEAN, answer : Answers, sum : Summaries,
        event : Events \cup {"none"}, then : {"idle", "select"}]
Idle == [op |-> "none", at |-> "idle", part |-> "note", attempt |-> 0, seen |-> NoRow,
         takes |-> {}, adopts |-> {}, window |-> "unknown", skipped |-> FALSE, again |-> FALSE,
         resent |-> FALSE, answer |-> "none", sum |-> [status |-> "none", retry |-> FALSE],
         event |-> "none", then |-> "idle"]

Message == Parts \X (1..MaxTries)

TypeOK ==
    /\ scene \in Scenes
    /\ clock \in {"before", "due", "late", "old"}
    /\ settings \in {"in force", "saved", "off"}
    /\ owner \in BOOLEAN
    /\ run \in [status : {"none", "PENDING", "SENDING", "FAILED", "UNCERTAIN", "SENT", "CANCELLED"},
                retry : BOOLEAN, deleted : BOOLEAN]
    /\ row \in [Parts -> Part]
    /\ stale \in BOOLEAN /\ open \in BOOLEAN /\ missed \in BOOLEAN
    /\ reached \in [Parts -> Nat]
    /\ mail \subseteq Message
    /\ told \subseteq (Message \X Events)
    /\ replies \in 0..MaxReplies
    /\ job \in [Jobs -> Job]
    /\ faults \in 0..scene.faults
    /\ lost \in [Parts -> Nat]

Init ==
    /\ scene \in Scenes
    /\ clock = "before"
    /\ settings = "in force"
    /\ owner = TRUE
    /\ run = [status |-> "none", retry |-> FALSE, deleted |-> FALSE]
    /\ row = NoRow
    /\ stale = FALSE
    /\ open \in BOOLEAN
    /\ reached = [p \in Parts |-> 0]
    /\ mail = {}
    /\ told = {}
    /\ replies = 0
    /\ job = [h \in Jobs |-> Idle]
    /\ faults = 0
    /\ lost = [p \in Parts |-> 0]
    /\ missed = FALSE

Fault == faults < scene.faults /\ faults' = faults + 1

At(h, phase) == job[h].at = phase
Goto(h, phase) == job' = [job EXCEPT ![h].at = phase]
End(h) == job' = [job EXCEPT ![h] = Idle]
Begin(h, started) == job' = [job EXCEPT ![h] = started]

Write(r) == row' = r /\ stale' = FALSE
WritePart(p, part) == Write([row EXCEPT ![p] = part])

Claimed(part) ==
    [part EXCEPT !.status = "SENDING", !.attempts = @ + 1, !.shut = FALSE, !.next = "never"]
\* A claim holds what it claimed: the row as it is, and the attempt.
Holding(j, p, phase) ==
    [j EXCEPT !.at = phase, !.part = p, !.attempt = row[p].attempts + 1, !.seen = NoRow]

--------------------------------------------------------------------------------
(* deliver *)

Summing(j) == [Idle EXCEPT !.op = j.op, !.at = "sum"]

\* The parts after the notification: the text, then the file, then the fallback.
After(p) == CASE p = "note" -> "txt" [] p \in FreeForm -> "doc"
Onward(j, p) ==
    LET over == [j EXCEPT !.answer = "none", !.resent = FALSE, !.attempt = 0,
                          !.seen = IF j.op = "reply" THEN @ ELSE NoRow] IN
    IF p = "doc" THEN IF j.skipped THEN [over EXCEPT !.at = "fallback"] ELSE Summing(j)
    ELSE [over EXCEPT !.at = "due", !.part = After(p)]

Failed(part, shut, retry) ==
    [part EXCEPT !.status = "FAILED", !.shut = shut, !.next = IF retry THEN "later" ELSE "never"]
\* The scheduler's attempts at the notification are made again, up to a number.
Retried(j) == j.op = "tick" /\ j.attempt < MaxAttempts

\* The window is looked up once.
KnownOpen(j) == IF j.window = "unknown" THEN open ELSE j.window = "open"
Knowing(j) == [j EXCEPT !.window = IF KnownOpen(j) THEN "open" ELSE "closed"]

NothingToSendFirst(h) ==
    job[h].attempt <= 1 /\ (\E p \in FreeForm : row[p].status # "SKIPPED") /\ KnownOpen(job[h])

\* The template is left out on the first attempt when the free form can be sent at once.
Note(h) ==
    /\ At(h, "note")
    /\ IF NothingToSendFirst(h)
          THEN /\ WritePart("note", [row["note"] EXCEPT !.status = "SKIPPED", !.shut = FALSE, !.next = "never"])
               /\ Begin(h, [Onward(Knowing(job[h]), "note") EXCEPT !.skipped = TRUE])
          ELSE Begin(h, [Knowing(job[h]) EXCEPT !.at = "post"]) /\ UNCHANGED <<row, stale>>
    /\ UNCHANGED <<scene, clock, settings, owner, run, open, provider, replies, faults, missed>>

\* duePart: what the row holds of the next message.
Due(h) ==
    /\ At(h, "due")
    /\ LET p == job[h].part IN
        IF p \notin job[h].takes THEN Begin(h, Onward(job[h], p))
        ELSE IF row[p].status = "SENDING" /\ p \in job[h].adopts
            THEN Begin(h, [job[h] EXCEPT !.at = "free", !.attempt = row[p].attempts])
        ELSE IF row[p].status = "PENDING" /\ row["note"].status \notin Live
            THEN Begin(h, [job[h] EXCEPT !.at = "take", !.seen = row])
        ELSE Begin(h, Onward(job[h], p))
    /\ UNCHANGED <<scene, clock, settings, owner, run, row, stale, open, provider, replies, faults, missed>>

\* Fault: a part is claimed as it was read.
TakeAsRead(h) ==
    /\ At(h, "take")
    /\ WritePart(job[h].part, Claimed(job[h].seen[job[h].part]))
    /\ Begin(h, Holding(job[h], job[h].part, "free"))
    /\ UNCHANGED <<scene, clock, settings, owner, run, open, provider, replies, faults, missed>>

Take(h) ==
    /\ At(h, "take")
    /\ LET p == job[h].part IN
        IF row[p].status = "PENDING" /\ row[p].attempts = job[h].seen[p].attempts
          THEN WritePart(p, Claimed(row[p])) /\ Begin(h, Holding(job[h], p, "free"))
          ELSE Begin(h, Onward(job[h], p)) /\ UNCHANGED <<row, stale>>
    /\ UNCHANGED <<scene, clock, settings, owner, run, open, provider, replies, faults, missed>>

\* Outside the window nothing is sent: the part waits for a reply.
Free(h) ==
    /\ At(h, "free")
    /\ LET p == job[h].part IN
        IF KnownOpen(job[h])
          THEN Begin(h, [Knowing(job[h]) EXCEPT !.at = "post"]) /\ UNCHANGED <<row, stale>>
          ELSE /\ WritePart(p, [row[p] EXCEPT !.status = "WAITING_FOR_REPLY", !.shut = TRUE])
               /\ Begin(h, Onward(Knowing(job[h]), p))
    /\ UNCHANGED <<scene, clock, settings, owner, run, open, provider, replies, faults, missed>>

\* The report cannot be built: nothing is sent.
NotBuilt(h) ==
    /\ At(h, "note") \/ At(h, "free")
    /\ Fault
    /\ LET p == job[h].part IN
        /\ WritePart(p, Failed(row[p], FALSE, p = "note" /\ Retried(job[h])))
        /\ Begin(h, Onward(job[h], p))
    /\ UNCHANGED <<scene, clock, settings, owner, run, open, provider, replies, missed>>

Answer(h, answer) == job' = [job EXCEPT ![h].at = "record", ![h].answer = answer]

\* One transmission to the provider, that takes the message or refuses it.
Post(h) ==
    /\ At(h, "post")
    /\ LET p == job[h].part IN
        \/ /\ p = "note" \/ open
           /\ reached' = [reached EXCEPT ![p] = @ + 1]
           /\ mail' = mail \cup {<<p, job[h].attempt>>}
           /\ Answer(h, "accepted")
        \/ /\ p = "note" \/ open
           /\ Answer(h, "refused")
           /\ UNCHANGED <<reached, mail>>
        \/ /\ p # "note" /\ ~ open
           /\ Answer(h, "shut")
           /\ UNCHANGED <<reached, mail>>
    /\ UNCHANGED <<scene, clock, settings, owner, run, row, stale, open, told, replies, faults, lost, missed>>

\* No answer comes, whether the message arrived or not.  It is transmitted once more.
NoAnswer(h) ==
    /\ At(h, "post")
    /\ Fault
    /\ LET p == job[h].part IN
        /\ \/ /\ p = "note" \/ open
              /\ reached' = [reached EXCEPT ![p] = @ + 1]
              /\ lost' = [lost EXCEPT ![p] = @ + 1]
           \/ UNCHANGED <<reached, lost>>
        /\ IF job[h].resent THEN Answer(h, "unreachable")
           ELSE job' = [job EXCEPT ![h].resent = TRUE]
    /\ UNCHANGED <<scene, clock, settings, owner, run, row, stale, open, mail, told, replies, missed>>

\* What a send came to is written whatever the row holds.  A provider that cannot be reached
\* is, for the sender, one that refused.
Record(h) ==
    /\ At(h, "record")
    /\ LET p == job[h].part
            part == row[p] IN
        /\ WritePart(p,
              IF job[h].answer = "accepted"
                THEN [part EXCEPT !.status = "SENT", !.id = job[h].attempt, !.shut = FALSE,
                                  !.next = IF job[h].again THEN @ ELSE "never"]
                ELSE IF job[h].again
                  THEN [part EXCEPT !.status = "FAILED", !.shut = FALSE]
                  ELSE Failed(part, job[h].answer = "shut", p = "note" /\ Retried(job[h])))
        /\ IF job[h].again THEN Begin(h, Summing(job[h])) ELSE Begin(h, Onward(job[h], p))
    /\ UNCHANGED <<scene, clock, settings, owner, run, open, provider, replies, faults, missed>>

\* The write that records an accepted message fails, and the one that says so does not.
NotRecorded(h) ==
    /\ At(h, "record") /\ job[h].answer = "accepted"
    /\ Fault
    /\ LET p == job[h].part IN
        /\ WritePart(p, [row[p] EXCEPT !.status = "UNCERTAIN", !.shut = FALSE,
                                       !.next = IF job[h].again THEN @ ELSE "never"])
        /\ IF job[h].again THEN Begin(h, Summing(job[h])) ELSE Begin(h, Onward(job[h], p))
    /\ UNCHANGED <<scene, clock, settings, owner, run, open, provider, replies, missed>>

\* A free form message was refused, or held back, for the window: the template is sent
\* after all.
Fallback(h) ==
    /\ At(h, "fallback")
    /\ IF \E p \in FreeForm : row[p].shut /\ row[p].status \in {"FAILED", "WAITING_FOR_REPLY"}
          THEN Begin(h, [job[h] EXCEPT !.at = "post", !.part = "note", !.again = TRUE, !.attempt = 1,
                                       !.resent = FALSE])
          ELSE Begin(h, Summing(job[h]))
    /\ UNCHANGED <<scene, clock, settings, owner, run, row, stale, open, provider, replies, faults, missed>>

\* recomputeRunStatus: the summary of the row as it was read is written later.
Sum(h) ==
    /\ At(h, "sum")
    /\ IF ~ HasRow \/ run.status = "CANCELLED" THEN End(h)
       ELSE Begin(h, [job[h] EXCEPT !.at = "store", !.sum = Summary])
    /\ UNCHANGED <<scene, clock, settings, owner, run, row, stale, open, provider, replies, faults, missed>>

Store(h) ==
    /\ At(h, "store")
    /\ run' = [run EXCEPT !.status = job[h].sum.status, !.retry = job[h].sum.retry]
    /\ IF job[h].then = "idle" THEN End(h)
       ELSE Begin(h, [job[h] EXCEPT !.at = job[h].then, !.then = "idle"])
    /\ UNCHANGED <<scene, clock, settings, owner, row, stale, open, provider, replies, faults, missed>>

--------------------------------------------------------------------------------
(* A tick of the scheduler: its timer, or the cron endpoint *)

\* The time and the settings are those the tick reads at its start.
Tick(h) ==
    /\ At(h, "idle") /\ scene.kind = "SCHEDULED" /\ clock = "due" /\ settings = "in force"
    /\ Begin(h, [Idle EXCEPT !.op = "tick", !.at = "create", !.takes = FreeForm])
    /\ UNCHANGED <<scene, clock, settings, owner, run, row, stale, open, provider, replies, faults, missed>>

\* Fault: only the tick that creates the run goes on with it.
CreateOnce(h) ==
    /\ At(h, "create")
    /\ IF run.status = "none"
          THEN run' = [run EXCEPT !.status = "PENDING"] /\ Goto(h, "rows")
          ELSE End(h) /\ UNCHANGED run
    /\ UNCHANGED <<scene, clock, settings, owner, row, stale, open, provider, replies, faults, missed>>

\* The run's unique key decides who owns the occurrence.
Create(h) ==
    /\ At(h, "create")
    /\ run' = IF run.status = "none" THEN [run EXCEPT !.status = "PENDING"] ELSE run
    /\ Goto(h, "rows")
    /\ UNCHANGED <<scene, clock, settings, owner, row, stale, open, provider, replies, faults, missed>>

\* A cancelled or deleted run is left alone.
Rows(h) ==
    /\ At(h, "rows")
    /\ IF run.status = "CANCELLED" \/ run.deleted
          THEN End(h) /\ UNCHANGED <<row, stale>>
          ELSE /\ IF HasRow THEN UNCHANGED <<row, stale>> ELSE Write(InitialParts)
               /\ Goto(h, "mark")
    /\ UNCHANGED <<scene, clock, settings, owner, run, open, provider, replies, faults, missed>>

Interrupted(p) == [row[p] EXCEPT !.status = "UNCERTAIN", !.shut = FALSE]

\* A stale send is closed as uncertain; writing one message makes the row fresh.
Mark(h) ==
    /\ At(h, "mark")
    /\ LET sending == {p \in Parts : row[p].status = "SENDING"} IN
        IF ~ stale \/ sending = {} THEN UNCHANGED <<row, stale>>
        ELSE LET p == IF "note" \in sending THEN "note" ELSE IF "doc" \in sending THEN "doc" ELSE "txt" IN
            WritePart(p, Interrupted(p))
    /\ Goto(h, "owner")
    /\ UNCHANGED <<scene, clock, settings, owner, run, open, provider, replies, faults, missed>>

\* An owner who is no longer an active Admin or Manager has no report sent, by this tick or by
\* any later one.
Owner(h) ==
    /\ At(h, "owner")
    /\ Goto(h, IF owner THEN "read" ELSE "close")
    /\ UNCHANGED <<scene, clock, settings, owner, run, row, stale, open, provider, replies, faults, missed>>

\* What is still to be sent has failed.  A retry that is planned is left as it is.
OwnerGone(h) ==
    /\ At(h, "close")
    /\ LET pending == {p \in Parts : row[p].status = "PENDING"} IN
        IF pending = {} THEN UNCHANGED <<row, stale>>
        ELSE Write([p \in Parts |-> IF p \in pending THEN [row[p] EXCEPT !.status = "FAILED"] ELSE row[p]])
    /\ Goto(h, "sum")
    /\ UNCHANGED <<scene, clock, settings, owner, run, open, provider, replies, faults, missed>>

Eligible ==
    \/ row["note"].status = "PENDING"
    \/ row["note"].status = "FAILED" /\ row["note"].attempts < MaxAttempts /\ row["note"].next = "now"

Read(h) ==
    /\ At(h, "read")
    /\ Begin(h, IF Eligible THEN [job[h] EXCEPT !.at = "claim", !.seen = row]
                ELSE Onward(job[h], "note"))
    /\ UNCHANGED <<scene, clock, settings, owner, run, row, stale, open, provider, replies, faults, missed>>

Claim(h) ==
    /\ At(h, "claim")
    /\ IF row["note"].status \in {"PENDING", "FAILED"} /\ row["note"].attempts = job[h].seen["note"].attempts
          THEN WritePart("note", Claimed(row["note"])) /\ Begin(h, Holding(job[h], "note", "note"))
          ELSE Begin(h, Onward(job[h], "note")) /\ UNCHANGED <<row, stale>>
    /\ UNCHANGED <<scene, clock, settings, owner, run, open, provider, replies, faults, missed>>

\* recordMissed: the occurrence is too old to be sent and has no run.
Miss(h) ==
    /\ At(h, "idle") /\ scene.kind = "SCHEDULED" /\ clock = "late" /\ settings = "in force"
    /\ run.status = "none"
    /\ run' = [run EXCEPT !.status = "FAILED"]
    /\ Begin(h, [Idle EXCEPT !.op = "tick", !.at = "missed rows"])
    /\ UNCHANGED <<scene, clock, settings, owner, row, stale, open, provider, replies, faults, missed>>

MissedRows(h) ==
    /\ At(h, "missed rows")
    /\ IF HasRow THEN UNCHANGED <<row, stale, missed>>
       ELSE Write([p \in Parts |-> NewPart("FAILED")]) /\ missed' = TRUE
    /\ Goto(h, "sum")
    /\ UNCHANGED <<scene, clock, settings, owner, run, open, provider, replies, faults>>

Waiting == {p \in FreeForm : row[p].status = "WAITING_FOR_REPLY"}

\* expireWaitingParts: what nobody replied to in 48 hours has failed.
Expire(h) ==
    /\ At(h, "idle") /\ scene.kind = "SCHEDULED" /\ clock = "old" /\ Waiting # {}
    /\ Write([p \in Parts |-> IF p \in Waiting THEN [row[p] EXCEPT !.status = "FAILED", !.shut = FALSE] ELSE row[p]])
    /\ Begin(h, [Idle EXCEPT !.op = "tick", !.at = "sum"])
    /\ UNCHANGED <<scene, clock, settings, owner, run, open, provider, replies, faults, missed>>

--------------------------------------------------------------------------------
(* Users *)

\* sendTest: a run of its own, that is being sent when it is created.
Test(h) ==
    /\ At(h, "idle") /\ scene.kind = "TEST" /\ run.status = "none"
    /\ run' = [run EXCEPT !.status = "SENDING"]
    /\ Begin(h, [Idle EXCEPT !.op = "test", !.at = "test rows", !.takes = FreeForm, !.adopts = FreeForm])
    /\ UNCHANGED <<scene, clock, settings, owner, row, stale, open, provider, replies, faults, missed>>

TestRows(h) ==
    /\ At(h, "test rows")
    /\ IF On("note")
          THEN /\ Write([InitialParts EXCEPT !["note"] = Claimed(@)])
               /\ Begin(h, [job[h] EXCEPT !.at = "note", !.attempt = 1])
          ELSE Write(InitialParts) /\ Begin(h, Onward(job[h], "note"))
    /\ UNCHANGED <<scene, clock, settings, owner, run, open, provider, replies, faults, missed>>

\* cancelOccurrence, of one that is still to come.
Cancel(h) ==
    /\ At(h, "idle") /\ scene.kind = "SCHEDULED" /\ clock = "before" /\ run.status = "none"
    /\ Begin(h, [Idle EXCEPT !.op = "cancel", !.at = "cancel"])
    /\ UNCHANGED <<scene, clock, settings, owner, run, row, stale, open, provider, replies, faults, missed>>

\* Fault: the run that may have been created since is not left alone.
CancelAny(h) ==
    /\ At(h, "cancel")
    /\ run' = [run EXCEPT !.status = "CANCELLED"]
    /\ Goto(h, "cancel rows")
    /\ UNCHANGED <<scene, clock, settings, owner, row, stale, open, provider, replies, faults, missed>>

CancelRun(h) ==
    /\ At(h, "cancel")
    /\ IF run.status = "none"
          THEN run' = [run EXCEPT !.status = "CANCELLED"] /\ Goto(h, "cancel rows")
          ELSE End(h) /\ UNCHANGED run
    /\ UNCHANGED <<scene, clock, settings, owner, row, stale, open, provider, replies, faults, missed>>

CancelRows(h) ==
    /\ At(h, "cancel rows")
    /\ IF HasRow THEN UNCHANGED <<row, stale>> ELSE Write([p \in Parts |-> NewPart("SKIPPED")])
    /\ End(h)
    /\ UNCHANGED <<scene, clock, settings, owner, run, open, provider, replies, faults, missed>>

\* deleteRun, of a run nothing is to come of: one conditional write.
Deletable ==
    /\ run.status \notin Live \cup {"none"} /\ ~ run.retry
    /\ \A p \in Parts : row[p].status \notin Live
    /\ Waiting = {}

Delete ==
    /\ ~ run.deleted /\ Deletable
    /\ run' = [run EXCEPT !.deleted = TRUE]
    /\ UNCHANGED <<scene, clock, settings, owner, row, stale, open, provider, replies, job, faults, missed>>

Retryable(p) ==
    \/ row[p].status = "FAILED"
    \/ p \in FreeForm /\ row[p].status = "WAITING_FOR_REPLY"

\* Fault: retries are not counted.
RetryWithoutLimit(h, p) ==
    /\ At(h, "idle") /\ HasRow
    /\ run.status # "CANCELLED" /\ ~ run.deleted
    /\ Retryable(p)
    /\ Begin(h, [Idle EXCEPT !.op = "retry", !.at = "retry", !.part = p, !.seen = row])
    /\ UNCHANGED <<scene, clock, settings, owner, run, row, stale, open, provider, replies, faults, missed>>

\* retryRecipient, of one message that failed.
Retry(h, p) ==
    /\ At(h, "idle") /\ HasRow
    /\ run.status # "CANCELLED" /\ ~ run.deleted
    /\ Retryable(p) /\ row[p].attempts < MaxTries
    /\ Begin(h, [Idle EXCEPT !.op = "retry", !.at = "retry", !.part = p, !.seen = row])
    /\ UNCHANGED <<scene, clock, settings, owner, run, row, stale, open, provider, replies, faults, missed>>

\* A notification takes the other messages along when they are still to be sent.
RetryClaim(h) ==
    /\ At(h, "retry")
    /\ LET p == job[h].part IN
        IF row[p].status = job[h].seen[p].status /\ row[p].attempts = job[h].seen[p].attempts
          THEN /\ WritePart(p, Claimed(row[p]))
               /\ missed' = FALSE
               /\ IF p = "note"
                     THEN Begin(h, [Holding(job[h], p, "note") EXCEPT !.takes = FreeForm])
                     ELSE Begin(h, [job[h] EXCEPT !.at = "due", !.part = "txt", !.seen = NoRow,
                                                  !.takes = {p}, !.adopts = {p}])
          ELSE End(h) /\ UNCHANGED <<row, stale, missed>>
    /\ UNCHANGED <<scene, clock, settings, owner, run, open, provider, replies, faults>>

--------------------------------------------------------------------------------
(* The recipient writes: sendPendingOnReply *)

Reply(h) ==
    /\ At(h, "idle") /\ HasRow /\ replies < MaxReplies
    /\ replies' = replies + 1
    /\ open' = TRUE
    /\ Begin(h, [Idle EXCEPT !.op = "reply", !.at = "recover"])
    /\ UNCHANGED <<scene, clock, settings, owner, run, row, stale, provider, faults, missed>>

\* recoverStaleParts: what is stale of his reports is closed as uncertain.
Recover(h) ==
    /\ At(h, "recover")
    /\ IF stale /\ \E p \in Parts : row[p].status = "SENDING"
          THEN /\ Write([p \in Parts |-> IF row[p].status = "SENDING" THEN Interrupted(p) ELSE row[p]])
               /\ Begin(h, [job[h] EXCEPT !.at = "sum", !.then = "select"])
          ELSE Goto(h, "select") /\ UNCHANGED <<row, stale>>
    /\ UNCHANGED <<scene, clock, settings, owner, run, open, provider, replies, faults, missed>>

Held == {"WAITING_FOR_REPLY", "FAILED", "PENDING"}

\* A report of the last 48 hours whose notification is over and that has something left.
Select(h) ==
    /\ At(h, "select")
    /\ IF /\ scene.kind = "SCHEDULED" /\ run.status # "CANCELLED" /\ ~ run.deleted
          /\ clock # "old" /\ settings # "off"
          /\ row["note"].status \notin Live
          /\ \E p \in FreeForm : row[p].status \in Held
          THEN Begin(h, [job[h] EXCEPT !.at = "reply owner", !.part = "txt", !.seen = row])
          ELSE End(h)
    /\ UNCHANGED <<scene, clock, settings, owner, run, row, stale, open, provider, replies, faults, missed>>

\* The owner is looked up after the reports.
ReplyOwner(h) ==
    /\ At(h, "reply owner")
    /\ IF owner THEN Goto(h, "reply claim") ELSE End(h)
    /\ UNCHANGED <<scene, clock, settings, owner, run, row, stale, open, provider, replies, faults, missed>>

ReplyClaim(h) ==
    /\ At(h, "reply claim")
    /\ LET p == job[h].part
            part == job[h].seen[p]
            won == /\ part.status \in Held /\ part.attempts < MaxTries
                   /\ row[p].status = part.status /\ row[p].attempts = part.attempts
            parts == job[h].adopts \cup (IF won THEN {p} ELSE {}) IN
        /\ IF won THEN WritePart(p, Claimed(row[p])) ELSE UNCHANGED <<row, stale>>
        /\ IF p = "txt" THEN Begin(h, [job[h] EXCEPT !.part = "doc", !.adopts = parts])
           ELSE IF parts = {} THEN End(h)
           ELSE Begin(h, [job[h] EXCEPT !.at = "due", !.part = "txt", !.takes = parts, !.adopts = parts])
    /\ UNCHANGED <<scene, clock, settings, owner, run, open, provider, replies, faults, missed>>

\* deliver fails: a statement does, or whatever is not a message's own failure.
Throw(h) ==
    /\ job[h].op = "reply" /\ job[h].adopts # {}
    /\ job[h].at \in {"due", "record"}
    /\ Goto(h, "interrupted")
    /\ UNCHANGED <<scene, clock, settings, owner, run, row, stale, open, provider, replies, faults, missed>>

\* What the reply claimed, and nobody has finished or claimed since, is uncertain.
Interrupt(h) ==
    /\ At(h, "interrupted")
    /\ Write([p \in Parts |->
                IF /\ p \in job[h].adopts /\ row[p].status = "SENDING"
                   /\ row[p].attempts = job[h].seen[p].attempts + 1
                  THEN Interrupted(p) ELSE row[p]])
    /\ Begin(h, Summing(job[h]))
    /\ UNCHANGED <<scene, clock, settings, owner, run, open, provider, replies, faults, missed>>

--------------------------------------------------------------------------------
(* The provider's callbacks: applyReportDeliveryStatus *)

Bounced(p) == Cardinality({m \in mail : m[1] = p /\ <<m, "FAILED">> \in told})

\* The provider reports what has become of a message, once, and not both that it reached
\* the recipient and that it cannot.  The row is found by the message's id.
Callback(h, m, event) ==
    /\ At(h, "idle") /\ <<m, event>> \notin told
    /\ event = "FAILED" => {<<m, "DELIVERED">>, <<m, "READ">>} \cap told = {}
    /\ event \in {"DELIVERED", "READ"} => <<m, "FAILED">> \notin told
    /\ told' = told \cup {<<m, event>>}
    /\ IF row[m[1]].id = m[2]
          THEN Begin(h, [Idle EXCEPT !.op = "hook", !.at = "hook", !.part = m[1], !.seen = row, !.event = event])
          ELSE UNCHANGED job
    /\ UNCHANGED <<scene, clock, settings, owner, run, row, stale, open, reached, mail, replies, faults, lost, missed>>

Rank(status) == CASE status = "SENT" -> 1 [] status = "DELIVERED" -> 2 [] status = "READ" -> 3
                  [] status \notin Accepted -> 0

\* nextPartState: what an event makes of a message, as it was read.
Moves(event, status) ==
    CASE event = "DELIVERED" -> Rank(status) < 2
      [] event = "READ" -> Rank(status) < 3
      [] event = "FAILED" -> Rank(status) <= 1
      [] event = "SENT" -> status \in {"UNCERTAIN", "SENDING"}

Hook(h) ==
    /\ At(h, "hook")
    /\ LET p == job[h].part
            event == job[h].event IN
        IF Moves(event, job[h].seen[p].status)
          THEN /\ WritePart(p, [row[p] EXCEPT !.status = event, !.shut = FALSE,
                                  !.next = IF event = "FAILED" THEN "never" ELSE @])
               /\ Begin(h, Summing(job[h]))
          ELSE End(h) /\ UNCHANGED <<row, stale>>
    /\ UNCHANGED <<scene, clock, settings, owner, run, open, provider, replies, faults, missed>>

--------------------------------------------------------------------------------
(* The world *)

\* Something of the occurrence is left to the scheduler.  A planned retry is, while the owner
\* may have reports sent: otherwise no tick makes it, nor calls it off.
Owed ==
    /\ scene.kind = "SCHEDULED" /\ settings = "in force"
    /\ run.status # "CANCELLED" /\ ~ run.deleted
    /\ \/ ~ HasRow
       \/ row["note"].next # "never" /\ owner
       \/ \E p \in Parts : row[p].status \in Live

\* Time passes: the occurrence is due, past the catch-up time, and two days old.  Ticks come
\* often enough to do what is owed before, unless nothing runs for that long.
Age ==
    /\ \/ clock = "before" /\ clock' = "due" /\ UNCHANGED faults
       \/ clock = "due" /\ clock' = "late" /\ IF Owed THEN Fault ELSE UNCHANGED faults
       \/ clock = "late" /\ clock' = "old" /\ IF Owed /\ run.status = "none" THEN Fault ELSE UNCHANGED faults
    /\ UNCHANGED <<scene, settings, owner, run, row, stale, open, provider, replies, job, missed>>

RetryTime ==
    /\ row["note"].next = "later"
    /\ row' = [row EXCEPT !["note"].next = "now"]
    /\ UNCHANGED <<scene, clock, settings, owner, run, stale, open, provider, replies, job, faults, missed>>

\* A job is sending a message it claimed, or is going to.
Holds(h, p) ==
    \/ job[h].part = p /\ job[h].at \in {"note", "free", "post", "record"}
    \/ job[h].op # "test" /\ p \in job[h].adopts

\* Nobody is at a send any more, or one takes longer than it may: that is a fault.
Stale ==
    /\ ~ stale /\ stale' = TRUE
    /\ LET sending == {p \in Parts : row[p].status = "SENDING"} IN
        /\ sending # {}
        /\ IF \A p \in sending : \E h \in Jobs : Holds(h, p) THEN Fault ELSE UNCHANGED faults
    /\ UNCHANGED <<scene, clock, settings, owner, run, row, open, provider, replies, job, missed>>

\* A window that a reply opened outlasts the catch-up time.
WindowEnds ==
    /\ open /\ (replies > 0 => clock \in {"late", "old"})
    /\ open' = FALSE
    /\ UNCHANGED <<scene, clock, settings, owner, run, row, stale, provider, replies, job, faults, missed>>

\* saveConfig, setEnabled: after its time has come the occurrence is not the new settings'.
Configure(s) ==
    /\ clock # "before" /\ s # settings
    /\ settings' = s
    /\ UNCHANGED <<scene, clock, owner, run, row, stale, open, provider, replies, job, faults, missed>>

\* The owner becomes inactive or loses the role (a fault, for the bound), or regains them.
OwnerChanges ==
    /\ owner' = ~ owner
    /\ IF owner THEN Fault ELSE UNCHANGED faults
    /\ UNCHANGED <<scene, clock, settings, run, row, stale, open, provider, replies, job, missed>>

\* A process stops.
Stop(h) ==
    /\ ~ At(h, "idle")
    /\ Fault
    /\ End(h)
    /\ UNCHANGED <<scene, clock, settings, owner, run, row, stale, open, provider, replies, missed>>

--------------------------------------------------------------------------------
Step(h) ==
    \/ Note(h) \/ Due(h) \/ Take(h) \/ Free(h) \/ Post(h) \/ Record(h) \/ Fallback(h)
    \/ Sum(h) \/ Store(h)
    \/ Create(h) \/ Rows(h) \/ Mark(h) \/ Owner(h) \/ OwnerGone(h) \/ Read(h) \/ Claim(h)
    \/ MissedRows(h) \/ TestRows(h) \/ CancelRun(h) \/ CancelRows(h) \/ RetryClaim(h)
    \/ Recover(h) \/ Select(h) \/ ReplyOwner(h) \/ ReplyClaim(h) \/ Interrupt(h) \/ Hook(h)
Fails(h) == NotBuilt(h) \/ NoAnswer(h) \/ NotRecorded(h) \/ Throw(h) \/ Stop(h)

Next ==
    \/ \E h \in Jobs : Step(h) \/ Fails(h)
    \/ \E h \in Tickers \cap scene.jobs : Tick(h) \/ Miss(h) \/ Expire(h)
    \/ \E h \in Handlers \cap scene.jobs :
        \/ "test" \in scene.requests /\ Test(h)
        \/ "cancel" \in scene.requests /\ Cancel(h)
        \/ "retry" \in scene.requests /\ \E p \in Parts : Retry(h, p)
        \/ "reply" \in scene.requests /\ Reply(h)
        \/ \E m \in mail, event \in scene.events : Callback(h, m, event)
    \/ "delete" \in scene.requests /\ Delete
    \/ "configure" \in scene.requests /\ \E s \in {"saved", "off"} : Configure(s)
    \/ "owner" \in scene.requests /\ OwnerChanges
    \/ Age \/ RetryTime \/ Stale \/ WindowEnds

Spec == Init /\ [][Next]_vars

\* What is under way goes on until its process stops; ticks come on a timer; time passes.
\* Nothing is assumed of users, of the recipient or of the provider's callbacks.
Fairness ==
    /\ \A h \in Jobs : WF_vars(Step(h))
    /\ \A h \in Tickers : WF_vars(h \in scene.jobs /\ (Tick(h) \/ Miss(h) \/ Expire(h)))
    /\ WF_vars(Age /\ UNCHANGED faults) /\ WF_vars(RetryTime) /\ WF_vars(Stale /\ UNCHANGED faults)
FairSpec == Spec /\ Fairness

--------------------------------------------------------------------------------
(* Properties *)

\* The recipient gets no message twice, however many ticks, retries, replies and stops there
\* are: the provider accepts another copy only after it reported the first undeliverable
\* or left a transmission of it without an answer.
CopiesNeedLostAnswers == \A p \in Parts : reached[p] <= 1 + Bounced(p) + lost[p]

\* A message without an answer "may have been accepted, so it is NEVER re-sent
\* automatically" (report-automation.service.ts:30).
NoAnswerIsNotResent == \A p \in Parts : reached[p] <= 1 + Bounced(p)

\* A cancelled occurrence "is therefore never claimed, sent or regenerated", also when the
\* scheduler starts it at the same instant.
CancelledIsNotSent ==
    run.status = "CANCELLED" => \A p \in Parts : reached[p] = 0 /\ row[p].attempts = 0

\* A missed occurrence "is NOT sent - it is recorded as Missed, so nobody receives a stale
\* 'daily' report hours late" (report-automation.service.ts:39), unless a user retries it.
MissedIsNotSent == missed => \A p \in Parts : reached[p] = 0

\* A run removed from the history "is never recreated or resent" (report-automation.service.ts:356).
DeletedIsNotResent == [][run.deleted => reached' = reached]_vars

\* "A late or duplicate event never moves a status backwards" (report-automation.status.ts:11).
StatusMovesForward ==
    [][\A p \in Parts : row[p].status \in Accepted /\ row'[p].status \in Accepted =>
         Rank(row[p].status) <= Rank(row'[p].status)]_vars

\* The run's status is "a SUMMARY of its recipients' results" (report-automation.run.ts:3),
\* once nothing is under way.
SummaryAgrees ==
    HasRow /\ run.status # "CANCELLED" /\ (\A h \in Jobs : At(h, "idle")) => run.status = Summary.status

\* What the scheduler owes is settled within the catch-up time, whatever is refused, whatever
\* stops and whether or not the owner may have reports sent, but for two things the code leaves
\* for ever: what was owed when the settings changed, and the retry planned for an owner who
\* has become inactive.  What waits for a reply does not wait for ever (a test's does: nothing
\* looks at it again).
EveryMessageSettles ==
    /\ Owed /\ clock = "due" ~> ~ Owed \/ clock # "due"
    /\ scene.kind = "SCHEDULED" /\ Waiting # {} ~> Waiting = {}

================================================================================
