--------------------------- MODULE RecordingExports ---------------------------
(***************************************************************************)
(* One background export of call recordings to a ZIP file: the job row, one  *)
(* row per recording, and the file, stored in chunks; the queue's workers    *)
(* that build it, the maintenance that hands interrupted exports back to the *)
(* queue, and the user who asks for it and retries it.                       *)
(*                                                                           *)
(* A recording, the summary and the directory of the archive are one unit of *)
(* the file each; an offset counts units.  Every write to the job row, to    *)
(* the item rows or to a chunk is a step of its own; opening the file for    *)
(* appending, which only touches what lies beyond the recorded recordings,   *)
(* is one step.  No write names the run it is made for.  The queue delivers  *)
(* a message to some worker; a process that stops takes its runs along.      *)
(***************************************************************************)
EXTENDS Integers, Sequences, FiniteSets, FiniteSetsExt

CONSTANTS
    NumRecordings,   \* recordings planned into the export
    ChunkSize,       \* units in a chunk of the file
    CheckpointEvery, \* recordings recorded at once
    MaxAttempts,     \* claims after which an interrupted export is given up
    Runs,            \* workers: what each makes of a message of the queue is a run
    Sweeps,          \* maintenance passes under way
    Clients,         \* requests of users under way
    MaxMessages,     \* bound: messages in the queue that still matter
    MaxRetries,      \* bound: retries by users
    MaxFaults        \* bound: calls that fail for good, runs that stop or stall

ASSUME SizesAssumption ==
    /\ NumRecordings \in Nat \ {0} /\ ChunkSize \in Nat \ {0}
    /\ CheckpointEvery \in Nat \ {0} /\ MaxAttempts \in Nat \ {0}
ASSUME BoundsAssumption == MaxMessages \in Nat \ {0} /\ MaxRetries \in Nat /\ MaxFaults \in Nat
ASSUME ActorsAssumption == Clients # {}

Recordings == 1..NumRecordings \* in the order of their seq
Chunks == 0..(NumRecordings + 2) \div ChunkSize
Offsets == 0..(NumRecordings + 2)

VARIABLES
    job,        \* the job row
    item,       \* the row of each recording
    chunk,      \* the stored chunks of the file; <<>> when there is none
    queue,      \* messages waiting in the queue
    run,        \* what each worker is doing
    sweep,      \* what each maintenance pass is doing
    client,     \* what each request is doing
    retries,    \* retries there have been
    faults,     \* faults there have been
    overridden, \* (history) a run at work lost its claim: to another's write, or to a late heartbeat
    shared      \* (history) two runs have been at work on the export at once

vars == <<job, item, chunk, queue, run, sweep, client, retries, faults, overridden, shared>>

--------------------------------------------------------------------------------
(* Rows and units *)

Active == {"QUEUED", "PROCESSING"}

\* beat: heartbeatAt against the age at which the job counts as stalled; failed: the
\* counter of failed recordings is not 0.
Job == [status : Active \cup {"COMPLETED", "FAILED", "gone"}, beat : {"fresh", "stale"},
        attempts : 0..MaxAttempts, failed : BOOLEAN, size : Offsets]
\* at is localOffset: the recording's unit.
Item == [status : {"none", "PENDING", "DONE", "FAILED"}, at : Offsets]

Audio(i) == <<"audio", i>>
Summary == <<"summary">>
Directory(entries) == <<"directory", entries>>
Units == {Audio(i) : i \in Recordings} \cup {Summary}
           \cup {Directory(entries) : entries \in SUBSET (Recordings \X Offsets)}

Entries == {<<i, item[i].at>> : i \in {j \in Recordings : item[j].status = "DONE"}}

\* The unit of the stored file at an offset.
Stored(offset) ==
    LET c == chunk[offset \div ChunkSize] n == (offset % ChunkSize) + 1 IN
        IF n <= Len(c) THEN c[n] ELSE <<"missing">>

Phases == {"idle", "items", "open", "fetch", "save items", "save job", "reload", "summary",
           "directory", "flush", "finish", "fail", "release", "give up", "requeue", "again"}

\* base and parts: the writer's chunk and what it holds for it; todo: recordings still to
\* fetch; unsaved: results not recorded yet; entries: the directory's, as read at the end.
Run == [at : Phases, base : Chunks, parts : Seq(Units), todo : SUBSET Recordings,
        unsaved : SUBSET [i : Recordings, row : Item], entries : SUBSET (Recordings \X Offsets),
        leaving : BOOLEAN]
Idle == [at |-> "idle", base |-> 0, parts |-> <<>>, todo |-> {}, unsaved |-> {},
         entries |-> {}, leaving |-> FALSE]

TypeOK ==
    /\ job \in Job
    /\ item \in [Recordings -> Item]
    /\ chunk \in [Chunks -> Seq(Units)] /\ \A c \in Chunks : Len(chunk[c]) <= ChunkSize
    /\ queue \in 0..MaxMessages
    /\ run \in [Runs -> Run]
    /\ \A r \in Runs : Len(run[r].parts) < ChunkSize /\ Cardinality(run[r].unsaved) <= CheckpointEvery
    /\ sweep \in [Sweeps -> {"idle", "found", "enqueue"}]
    /\ client \in [Clients -> {"idle", "start", "reset", "requeue"}]
    /\ retries \in 0..MaxRetries
    /\ faults \in 0..MaxFaults
    /\ overridden \in BOOLEAN /\ shared \in BOOLEAN

\* The export is planned, a recording that is not available as failed, and is about to be
\* enqueued.
Init ==
    /\ \E unavailable \in SUBSET Recordings :
        /\ item = [i \in Recordings |->
                     [status |-> IF i \in unavailable THEN "FAILED" ELSE "PENDING", at |-> 0]]
        /\ job = [status |-> "QUEUED", beat |-> "fresh", attempts |-> 0,
                  failed |-> unavailable # {}, size |-> 0]
    /\ chunk = [c \in Chunks |-> <<>>]
    /\ queue = 0
    /\ run = [r \in Runs |-> Idle]
    /\ sweep = [s \in Sweeps |-> "idle"]
    /\ \E creator \in Clients :
        client = [c \in Clients |-> IF c = creator THEN "start" ELSE "idle"]
    /\ retries = 0
    /\ faults = 0
    /\ overridden = FALSE
    /\ shared = FALSE

Fault == faults < MaxFaults /\ faults' = faults + 1
Enqueued == IF queue < MaxMessages THEN queue + 1 ELSE queue

At(r, phase) == run[r].at = phase
Working == {r \in Runs : ~ At(r, "idle") /\ ~ At(r, "again")}

\* A write to a job row that is gone changes nothing.
Write(row) == job' = IF job.status = "gone" THEN job ELSE row
\* A write to the status that does not come from the run at work.
Override(row) == Write(row) /\ overridden' = (overridden \/ (Working # {} /\ job.status = "PROCESSING"))

--------------------------------------------------------------------------------
(* A run *)

Goto(r, phase) == run' = [run EXCEPT ![r].at = phase]
\* A run that is told to stop ends with its process.
End(r) == run' = [run EXCEPT ![r] = Idle]

\* Fault: whatever is not finished can be claimed.
ClaimableUnfinished == job.status \in Active
Claimable == job.status = "QUEUED" \/ (job.status = "PROCESSING" /\ job.beat = "stale")

\* A worker takes a message; the run starts by claiming the export, or finds nothing to do.
Take(r) ==
    /\ At(r, "idle") /\ queue > 0
    /\ queue' = queue - 1
    /\ IF Claimable
          THEN /\ job' = [job EXCEPT !.status = "PROCESSING", !.beat = "fresh",
                            !.attempts = IF @ < MaxAttempts THEN @ + 1 ELSE @]
               /\ Goto(r, "items")
               /\ shared' = (shared \/ Working # {})
          ELSE UNCHANGED <<job, run, shared>>
    /\ UNCHANGED <<item, chunk, sweep, client, retries, faults, overridden>>

\* The items as they are: what is left to fetch, and where the file goes on.
Items(r) ==
    /\ At(r, "items")
    /\ run' = [run EXCEPT ![r].at = "open", ![r].todo = {i \in Recordings : item[i].status = "PENDING"},
                          ![r].entries = Entries]
    /\ UNCHANGED <<job, item, chunk, queue, sweep, client, retries, faults, overridden, shared>>

\* The end of the recordings the items were read with.
Resume(r) == IF run[r].entries = {} THEN 0 ELSE Max({e[2] + 1 : e \in run[r].entries})

\* openWriter: what lies beyond the offset is dropped, but for the chunk the offset is in,
\* of which the writer takes what comes before.  Too little there is an error.
Open(r) ==
    /\ At(r, "open")
    /\ LET first == Resume(r) \div ChunkSize
            kept == Resume(r) % ChunkSize IN
        /\ chunk' = [c \in Chunks |-> IF c > first \/ (c = first /\ kept = 0) THEN <<>> ELSE chunk[c]]
        /\ IF Len(chunk[first]) < kept
              THEN Goto(r, "release")
              ELSE run' = [run EXCEPT ![r].at = "fetch", ![r].base = first, ![r].entries = {},
                                      ![r].parts = SubSeq(chunk[first], 1, kept)]
    /\ UNCHANGED <<job, item, queue, sweep, client, retries, faults, overridden, shared>>

Offset(r) == run[r].base * ChunkSize + Len(run[r].parts)

\* Fault: a chunk is stored when it holds more than ChunkSize.
PutOver(r, unit, rest) ==
    LET parts == Append(run[r].parts, unit) IN
        IF Len(parts) <= ChunkSize
          THEN run' = [run EXCEPT ![r] = [rest EXCEPT !.parts = parts]] /\ UNCHANGED chunk
          ELSE /\ chunk' = [chunk EXCEPT ![run[r].base] = parts]
               /\ run' = [run EXCEPT ![r] = [rest EXCEPT !.base = @ + 1, !.parts = <<>>]]

\* The unit is appended; a chunk that is full is stored, unless the export is gone, and
\* with it the rows of its chunks: then the run, as it goes on, is given.
Put(r, unit, rest) ==
    LET parts == Append(run[r].parts, unit) IN
        IF Len(parts) < ChunkSize
          THEN run' = [run EXCEPT ![r] = [rest EXCEPT !.parts = parts]] /\ UNCHANGED chunk
          ELSE IF job.status = "gone"
            THEN Goto(r, "release") /\ UNCHANGED chunk
            ELSE /\ chunk' = [chunk EXCEPT ![run[r].base] = parts]
                 /\ run' = [run EXCEPT ![r] = [rest EXCEPT !.base = @ + 1, !.parts = <<>>]]

\* A batch of results is full.
Full(r) == Cardinality(run[r].unsaved) >= CheckpointEvery

\* The next recording is downloaded and appended, or is not to be had.
Fetch(r) ==
    /\ At(r, "fetch") /\ ~ Full(r)
    /\ \E i \in run[r].todo :
        /\ \A k \in run[r].todo : i <= k
        /\ LET with(row) == [run[r] EXCEPT !.todo = @ \ {i}, !.unsaved = @ \cup {[i |-> i, row |-> row]}] IN
            \/ Put(r, Audio(i), with([status |-> "DONE", at |-> Offset(r)]))
            \/ /\ run' = [run EXCEPT ![r] = with([status |-> "FAILED", at |-> 0])]
               /\ UNCHANGED chunk
    /\ UNCHANGED <<job, item, queue, sweep, client, retries, faults, overridden, shared>>

\* What is left in the writer is stored; it stays in the writer.
Flush(r, next) ==
    IF run[r].parts = <<>>
      THEN Goto(r, next) /\ UNCHANGED chunk
      ELSE IF job.status = "gone"
        THEN Goto(r, "release") /\ UNCHANGED chunk
        ELSE chunk' = [chunk EXCEPT ![run[r].base] = run[r].parts] /\ Goto(r, next)

\* Fault: the items are recorded without storing what is left in the writer.
CheckpointUnflushed(r) ==
    /\ At(r, "fetch") /\ (Full(r) \/ run[r].todo = {})
    /\ Goto(r, "save items") /\ UNCHANGED chunk
    /\ UNCHANGED <<job, item, queue, sweep, client, retries, faults, overridden, shared>>

\* A checkpoint: the file, then the items, then the job.
Checkpoint(r) ==
    /\ At(r, "fetch") /\ (Full(r) \/ run[r].todo = {})
    /\ Flush(r, "save items")
    /\ UNCHANGED <<job, item, queue, sweep, client, retries, faults, overridden, shared>>

SaveItems(r) ==
    /\ At(r, "save items")
    /\ item' = IF job.status = "gone" THEN item ELSE
          [i \in Recordings |->
             IF \E u \in run[r].unsaved : u.i = i
               THEN (CHOOSE u \in run[r].unsaved : u.i = i).row ELSE item[i]]
    /\ Goto(r, "save job")
    /\ UNCHANGED <<job, chunk, queue, sweep, client, retries, faults, overridden, shared>>

\* The last checkpoint is the one that finds nothing more to fetch and its batch not full.
SaveJob(r) ==
    /\ At(r, "save job")
    /\ Write([job EXCEPT !.failed = \E i \in Recordings : item[i].status = "FAILED", !.beat = "fresh"])
    /\ IF job.status = "gone" THEN End(r) ELSE
        run' = [run EXCEPT ![r].at = IF Full(r) \/ run[r].todo # {} THEN "fetch" ELSE "reload",
                           ![r].unsaved = {}]
    /\ UNCHANGED <<item, chunk, queue, sweep, client, retries, faults, overridden, shared>>

\* Fault: the directory lists the recordings that failed as well.
ReloadAll(r) ==
    /\ At(r, "reload")
    /\ run' = [run EXCEPT ![r].at = IF Entries = {} THEN "fail" ELSE "summary",
                           ![r].entries = {<<i, item[i].at>> : i \in Recordings}]
    /\ UNCHANGED <<job, item, chunk, queue, sweep, client, retries, faults, overridden, shared>>

\* All recordings have been tried: the archive is ended with what the items now tell.
Reload(r) ==
    /\ At(r, "reload")
    /\ run' = [run EXCEPT ![r].at = IF Entries = {} THEN "fail" ELSE "summary", ![r].entries = Entries]
    /\ UNCHANGED <<job, item, chunk, queue, sweep, client, retries, faults, overridden, shared>>

PutSummary(r) ==
    /\ At(r, "summary")
    /\ Put(r, Summary, [run[r] EXCEPT !.at = "directory"])
    /\ UNCHANGED <<job, item, queue, sweep, client, retries, faults, overridden, shared>>

PutDirectory(r) ==
    /\ At(r, "directory")
    /\ Put(r, Directory(run[r].entries), [run[r] EXCEPT !.at = "flush"])
    /\ UNCHANGED <<job, item, queue, sweep, client, retries, faults, overridden, shared>>

LastFlush(r) ==
    /\ At(r, "flush")
    /\ Flush(r, "finish")
    /\ UNCHANGED <<job, item, queue, sweep, client, retries, faults, overridden, shared>>

Finish(r) ==
    /\ At(r, "finish")
    /\ Write([job EXCEPT !.status = "COMPLETED", !.size = Offset(r)])
    /\ End(r)
    /\ UNCHANGED <<item, chunk, queue, sweep, client, retries, faults, overridden, shared>>

\* Nothing could be downloaded, or the attempts are used up.
Fail(r) ==
    /\ At(r, "fail") \/ At(r, "give up")
    /\ Write([job EXCEPT !.status = "FAILED"])
    /\ End(r)
    /\ UNCHANGED <<item, chunk, queue, sweep, client, retries, faults, overridden, shared>>

\* release, after a call that kept failing: back to the queue, up to MaxAttempts times.
Release(r) ==
    /\ At(r, "release")
    /\ IF job.status = "gone" THEN End(r) ELSE
        Goto(r, IF job.attempts >= MaxAttempts THEN "give up" ELSE "requeue")
    /\ UNCHANGED <<job, item, chunk, queue, sweep, client, retries, faults, overridden, shared>>

Requeue(r) ==
    /\ At(r, "requeue")
    /\ Write([job EXCEPT !.status = "QUEUED", !.beat = "fresh"])
    /\ run' = [run EXCEPT ![r] = [Idle EXCEPT !.at = "again", !.leaving = run[r].leaving]]
    /\ UNCHANGED <<item, chunk, queue, sweep, client, retries, faults, overridden, shared>>

\* processExportJob asks for another run.
Again(r) ==
    /\ At(r, "again")
    /\ queue' = Enqueued
    /\ End(r)
    /\ UNCHANGED <<job, item, chunk, sweep, client, retries, faults, overridden, shared>>

Step(r) ==
    \/ Items(r) \/ Open(r) \/ Fetch(r) \/ Checkpoint(r) \/ SaveItems(r) \/ SaveJob(r)
    \/ Reload(r) \/ PutSummary(r) \/ PutDirectory(r) \/ LastFlush(r) \/ Finish(r) \/ Fail(r)
    \/ Release(r) \/ Requeue(r) \/ Again(r)

--------------------------------------------------------------------------------
(* What befalls a run *)

\* A call to the database or the storage keeps failing.
Interrupted(r) ==
    /\ run[r].at \in {"items", "open", "fetch", "save items", "save job", "reload", "summary",
                     "directory", "flush", "finish", "fail"}
    /\ Fault
    /\ Goto(r, "release")
    /\ UNCHANGED <<job, item, chunk, queue, sweep, client, retries, overridden, shared>>

\* Recording the interruption fails too, or asking for another run does: the same trouble
\* lasts.
NotReleased(r) ==
    /\ run[r].at \in {"release", "requeue", "give up", "again"}
    /\ IF At(r, "again") THEN End(r) ELSE
        run' = [run EXCEPT ![r] = [Idle EXCEPT !.at = "again", !.leaving = run[r].leaving]]
    /\ UNCHANGED <<job, item, chunk, queue, sweep, client, retries, faults, overridden, shared>>

\* The process stops, without notice or at the end of its shutdown.
Stop(r) ==
    /\ ~ At(r, "idle") /\ ((run[r].leaving /\ UNCHANGED faults) \/ Fault)
    /\ End(r)
    /\ UNCHANGED <<job, item, chunk, queue, sweep, client, retries, overridden, shared>>

\* SIGTERM: releaseRunningExports hands the export back, and the process exits.
Terminate(r) ==
    /\ r \in Working /\ ~ run[r].leaving /\ job.status = "PROCESSING"
    /\ Fault
    /\ Override([job EXCEPT !.status = "QUEUED", !.beat = "stale"])
    /\ run' = [run EXCEPT ![r].leaving = TRUE]
    /\ UNCHANGED <<item, chunk, queue, sweep, client, retries, shared>>

\* A run beats while it works; when its beats fail long enough the job looks stalled.
Beat(r) ==
    /\ r \in Working /\ job.status = "PROCESSING" /\ job.beat = "stale"
    /\ Write([job EXCEPT !.beat = "fresh"])
    /\ UNCHANGED <<item, chunk, queue, run, sweep, client, retries, faults, overridden, shared>>

Stall ==
    /\ Working # {} /\ job.status = "PROCESSING" /\ job.beat = "fresh"
    /\ Fault
    /\ Override([job EXCEPT !.beat = "stale"])
    /\ UNCHANGED <<item, chunk, queue, run, sweep, client, retries, shared>>

\* Time passes: nobody beats for the job, or it waits in the queue for very long.
Age ==
    /\ job.beat = "fresh"
    /\ job.status = "QUEUED" \/ (job.status = "PROCESSING" /\ Working = {})
    /\ job' = [job EXCEPT !.beat = "stale"]
    /\ UNCHANGED <<item, chunk, queue, run, sweep, client, retries, faults, overridden, shared>>

--------------------------------------------------------------------------------
(* Maintenance: the timer of a process, its start, or the list a user opens *)

\* Fault: an export nobody has taken from the queue is not looked for.
StalledAtWork == job.status = "PROCESSING" /\ job.beat = "stale"
Stalled == job.status \in Active /\ job.beat = "stale"

Find(s) ==
    /\ sweep[s] = "idle" /\ Stalled
    /\ sweep' = [sweep EXCEPT ![s] = "found"]
    /\ UNCHANGED <<job, item, chunk, queue, run, client, retries, faults, overridden, shared>>

\* Whatever has become of the job since.
HandBack(s) ==
    /\ sweep[s] = "found"
    /\ Override([job EXCEPT !.status = "QUEUED", !.beat = "fresh"])
    /\ sweep' = [sweep EXCEPT ![s] = "enqueue"]
    /\ UNCHANGED <<item, chunk, queue, run, client, retries, faults, shared>>

\* One that fails, or whose process stops, is logged and left to the next pass.
Enqueue(s) ==
    /\ sweep[s] = "enqueue"
    /\ \/ queue' = Enqueued /\ UNCHANGED faults
       \/ UNCHANGED queue /\ Fault
    /\ sweep' = [sweep EXCEPT ![s] = "idle"]
    /\ UNCHANGED <<job, item, chunk, run, client, retries, overridden, shared>>

Sweep(s) == Find(s) \/ HandBack(s) \/ Enqueue(s)

\* The export expires and is deleted with its items and its file.
Expire ==
    /\ job.status # "gone"
    /\ job' = [job EXCEPT !.status = "gone", !.beat = "fresh", !.attempts = 0, !.failed = FALSE, !.size = 0]
    /\ item' = [i \in Recordings |-> [status |-> "none", at |-> 0]]
    /\ chunk' = [c \in Chunks |-> <<>>]
    /\ UNCHANGED <<queue, run, sweep, client, retries, faults, overridden, shared>>

--------------------------------------------------------------------------------
(* Requests of users *)

Reply(c, phase) == client' = [client EXCEPT ![c] = phase]

\* start: the job goes to the queue.  When that fails it is failed, enqueued or not.
Start(c) ==
    /\ client[c] = "start"
    /\ \/ queue' = Enqueued /\ UNCHANGED <<job, faults, overridden>>
       \/ /\ queue' \in {queue, Enqueued}
          /\ Fault
          /\ Override([job EXCEPT !.status = "FAILED"])
    /\ Reply(c, "idle")
    /\ UNCHANGED <<item, chunk, run, sweep, retries, shared>>

\* retry, of an export that failed or has recordings that failed.
Retry(c) ==
    /\ client[c] = "idle" /\ retries < MaxRetries
    /\ job.status = "FAILED" \/ (job.status = "COMPLETED" /\ job.failed)
    /\ retries' = retries + 1
    /\ Reply(c, "reset")
    /\ UNCHANGED <<job, item, chunk, queue, run, sweep, faults, overridden, shared>>

\* Fault: every recording is to be downloaded again.
ResetAll(c) ==
    /\ client[c] = "reset"
    /\ item' = [i \in Recordings |->
                  IF item[i].status = "none" THEN item[i] ELSE [item[i] EXCEPT !.status = "PENDING"]]
    /\ Reply(c, "requeue")
    /\ UNCHANGED <<job, chunk, queue, run, sweep, retries, faults, overridden, shared>>

Reset(c) ==
    /\ client[c] = "reset"
    /\ item' = [i \in Recordings |->
                  IF item[i].status = "FAILED" THEN [item[i] EXCEPT !.status = "PENDING"] ELSE item[i]]
    /\ Reply(c, "requeue")
    /\ UNCHANGED <<job, chunk, queue, run, sweep, retries, faults, overridden, shared>>

Reopen(c) ==
    /\ client[c] = "requeue"
    /\ Override([job EXCEPT !.status = "QUEUED", !.beat = "fresh", !.attempts = 0])
    /\ Reply(c, "start")
    /\ UNCHANGED <<item, chunk, queue, run, sweep, retries, faults, shared>>

Request(c) == Start(c) \/ Reset(c) \/ Reopen(c)

\* The process stops in the middle of a request: the export may be queued with no message.
Lost(c) ==
    /\ client[c] # "idle"
    /\ Reply(c, "idle")
    /\ UNCHANGED <<job, item, chunk, queue, run, sweep, retries, faults, overridden, shared>>

--------------------------------------------------------------------------------
Next ==
    \/ \E r \in Runs : Take(r) \/ Step(r) \/ Interrupted(r) \/ NotReleased(r) \/ Stop(r)
                        \/ Terminate(r) \/ Beat(r)
    \/ Stall \/ Age \/ Expire
    \/ \E s \in Sweeps : Sweep(s)
    \/ \E c \in Clients : Retry(c) \/ Request(c) \/ Lost(c)

Spec == Init /\ [][Next]_vars

\* A run goes on until it is interrupted or its process stops, and one that was told to
\* exit does; a worker takes the next message; time passes and maintenance runs on a
\* timer.  Nothing makes calls fail, a process stop or an export expire; and nothing makes a
\* request go on: its process may stop between any two of its writes.
Fairness ==
    /\ \A r \in Runs : WF_vars(Step(r)) /\ WF_vars(Take(r)) /\ WF_vars(run[r].leaving /\ Stop(r))
    /\ WF_vars(Age)
    /\ \A s \in Sweeps : WF_vars(Sweep(s))
FairSpec == Spec /\ Fairness

--------------------------------------------------------------------------------
(* Properties *)

\* A claim excludes all others: two runs build one file only after the first lost its
\* claim, to a write that did not look at the job again or to heartbeats that failed.
OneRunPerClaim == shared => overridden

\* The claim takes the export only when "someone else" does not have it: two runs never
\* work on one export at once, whatever maintenance does.
OneRun == Cardinality(Working) <= 1

\* A recording that is recorded as downloaded is in the stored file at its offset, through
\* interruptions, resumptions, retries and stops at any step: it is stored before it is
\* recorded, and the file is only cut beyond it.
RecordedIsStored ==
    ~ shared => \A i \in Recordings : item[i].status = "DONE" => Stored(item[i].at) = Audio(i)

\* The file of a completed export ends, at the size users are sent, with a directory of
\* exactly the recordings that are recorded as downloaded, after the summary; none of an
\* earlier end of the archive is left behind it.
CompletedIsWhole ==
    job.status = "COMPLETED" /\ ~ shared =>
        LET last == job.size - 1 IN
            /\ Entries # {} /\ Stored(last) = Directory(Entries) /\ Stored(last - 1) = Summary
            /\ Len(chunk[last \div ChunkSize]) = (last % ChunkSize) + 1

\* A recording inside the archive is never downloaded again, nor moved, until the export
\* expires.
DownloadedOnce ==
    [][~ shared' => \A i \in Recordings :
         item[i].status = "DONE" => item'[i] = item[i] \/ job'.status = "gone"]_vars

\* Every export comes to an end, completed, failed or expired: interruptions are resumed or
\* given up, and one whose run, message or request was lost is found by maintenance.  Of an
\* export that two runs have shared while something failed nothing is promised.
EveryExportEnds == job.status \in Active /\ ~ shared ~> job.status \notin Active \/ shared

\* Without a failure it comes to an end although two runs may share it: they do not hand it
\* back and forth for ever, whatever they have made of its file.
SharedExportsEnd == job.status \in Active ~> job.status \notin Active

================================================================================
