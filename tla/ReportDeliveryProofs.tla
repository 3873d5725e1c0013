------------------------- MODULE ReportDeliveryProofs -------------------------
(* Theorems about ReportDelivery, for every value of its constants. *)
EXTENDS ReportDelivery, FiniteSetTheorems, TLAPS

USE BoundsAssumption

--------------------------------------------------------------------------------
(* Messages and jobs *)

\* A message that is still to be sent for the first time was not attempted; one that is
\* being sent was.
OKPart == {q \in Part : (q.status = "PENDING" => q.attempts = 0) /\ (q.status = "SENDING" => q.attempts >= 1)}

\* What a job may be about to do: claims are within the limit of attempts, a message is
\* sent under the attempt that claimed it, and only a summary is stored.
OKJob ==
    {j \in Job :
        /\ j.at = "claim" => j.seen["note"].attempts < MaxTries
        /\ j.at = "retry" => j.seen[j.part].attempts < MaxTries
        /\ j.at \in {"note", "free", "post", "record"} => j.attempt >= 1
        /\ j.at = "store" => j.sum.status \notin {"none", "CANCELLED"}
        /\ j.at \in {"reply owner", "reply claim"} => j.part \in FreeForm
        /\ j.at = "hook" => j.event \in Events}
Sound == TypeOK /\ row \in [Parts -> OKPart] /\ job \in [Jobs -> OKJob]

Closed == Statuses \ {"PENDING", "SENDING"}
Nexts == {"never", "later", "now"}

\* What is written of a message keeps it well formed, unless it is set to be sent.
LEMMA PartWrites ==
    ASSUME NEW q \in OKPart, NEW s \in Closed
    PROVE  /\ \A i \in 0..MaxTries, b \in BOOLEAN, n \in Nexts :
                 [q EXCEPT !.status = s, !.id = i, !.shut = b, !.next = n] \in OKPart
           /\ \A b \in BOOLEAN, n \in Nexts : [q EXCEPT !.status = s, !.shut = b, !.next = n] \in OKPart
           /\ \A b \in BOOLEAN : [q EXCEPT !.status = s, !.shut = b] \in OKPart
           /\ [q EXCEPT !.status = s] \in OKPart
BY DEF OKPart, Part, Closed, Nexts

\* A claim counts an attempt.
LEMMA ClaimWrites ==
    ASSUME NEW q \in OKPart, q.attempts < MaxTries
    PROVE  Claimed(q) \in OKPart
<1>1. q.attempts \in 0..MaxTries /\ q.attempts + 1 \in 0..MaxTries /\ q.attempts + 1 >= 1
  BY DEF OKPart, Part
<1>2. Claimed(q).status = "SENDING" /\ Claimed(q).attempts = q.attempts + 1 /\ Claimed(q) \in Part
  BY <1>1 DEF Claimed, OKPart, Part, Statuses
<1> QED BY <1>1, <1>2 DEF OKPart

LEMMA NewParts ==
    ASSUME NEW s \in Statuses \ {"SENDING"}
    PROVE  NewPart(s) \in OKPart
BY DEF NewPart, OKPart, Part

LEMMA NoRows == NoRow \in [Parts -> OKPart] /\ NoRow \in [Parts -> Part]
BY NewParts DEF NoRow, Statuses, OKPart

LEMMA IdleJob == Idle \in OKJob
<1>1. Idle \in Job
  <2>1. "note" \in Parts /\ {} \in SUBSET FreeForm /\ 0 \in 0..MaxTries /\ "idle" \in Phases /\ "none" \in Answers
    BY DEF Parts, Phases, Answers
  <2>2. [status |-> "none", retry |-> FALSE] \in Summaries
    BY DEF Summaries
  <2> QED BY <2>1, <2>2, NoRows DEF Idle, Job
<1> QED BY <1>1 DEF OKJob, Idle

\* A job that goes on to something a claim, a retry, a send or a summary is not needed for.
Plain == {"idle", "create", "rows", "test rows", "mark", "owner", "close", "read", "due", "take", "fallback", "sum", "cancel",
          "cancel rows", "missed rows", "recover", "select", "interrupted"}
LEMMA PlainJob ==
    ASSUME NEW j \in Job, j.at \in Plain
    PROVE  j \in OKJob
BY DEF OKJob, Plain

\* A job that sends a message under an attempt.
LEMMA SendJob ==
    ASSUME NEW j \in Job, j.at \in {"note", "free", "post", "record"}, j.attempt >= 1
    PROVE  j \in OKJob
BY DEF OKJob

LEMMA Summed ==
    ASSUME NEW j \in Job
    PROVE  Summing(j) \in OKJob /\ Summing(j).at = "sum"
<1>1. Idle \in Job
  BY IdleJob DEF OKJob
<1>2. Summing(j) \in Job /\ Summing(j).at = "sum"
  <2>1. j.op \in {"none", "tick", "test", "cancel", "reply", "retry", "hook"} /\ "sum" \in Phases
    BY DEF Job, Phases
  <2>2. [Idle EXCEPT !.op = j.op, !.at = "sum"] \in Job
    BY <1>1, <2>1 DEF Job
  <2> QED BY <1>1, <2>2 DEF Summing, Job
<1> QED BY <1>2, PlainJob DEF Plain

LEMMA Known ==
    ASSUME open \in BOOLEAN, NEW j \in Job
    PROVE  /\ Knowing(j) \in Job
           /\ Knowing(j).at = j.at /\ Knowing(j).attempt = j.attempt /\ Knowing(j).op = j.op
BY DEF Knowing, KnownOpen, Job

LEMMA Onwards ==
    ASSUME NEW j \in Job, NEW p \in Parts
    PROVE  Onward(j, p) \in OKJob /\ Onward(j, p).at \in {"due", "fallback", "sum"}
<1> DEFINE seen == IF j.op = "reply" THEN j.seen ELSE NoRow
           over == [j EXCEPT !.answer = "none", !.resent = FALSE, !.attempt = 0, !.seen = seen]
<1>1. seen \in [Parts -> Part]
  BY NoRows DEF Job
<1> HIDE DEF seen
<1>2. over \in Job
  <2>1. "none" \in Answers /\ 0 \in 0..MaxTries
    BY DEF Answers
  <2> QED BY <1>1, <2>1 DEF Job
<1>3. Onward(j, p) = IF p = "doc" THEN IF j.skipped THEN [over EXCEPT !.at = "fallback"] ELSE Summing(j)
                     ELSE [over EXCEPT !.at = "due", !.part = After(p)]
  BY DEF Onward, seen
<1> HIDE DEF over
<1>4. [over EXCEPT !.at = "fallback"] \in Job /\ [over EXCEPT !.at = "fallback"].at = "fallback"
  BY <1>2 DEF Job, Phases
<1>5. After(p) \in Parts
  BY DEF After, Parts, FreeForm
<1>6. [over EXCEPT !.at = "due", !.part = After(p)] \in Job /\ [over EXCEPT !.at = "due", !.part = After(p)].at = "due"
  BY <1>2, <1>5 DEF Job, Phases
<1>7. [over EXCEPT !.at = "fallback"] \in OKJob
  BY <1>4, PlainJob DEF Plain
<1>8. [over EXCEPT !.at = "due", !.part = After(p)] \in OKJob
  BY <1>6, PlainJob DEF Plain
<1> QED BY <1>3, <1>4, <1>6, <1>7, <1>8, Summed

\* A claim holds the message under its attempt.
LEMMA Holdings ==
    ASSUME Sound, NEW j \in Job, NEW p \in Parts, row[p].attempts < MaxTries, NEW phase \in {"note", "free"}
    PROVE  /\ Holding(j, p, phase) \in OKJob /\ Holding(j, p, phase).at = phase
           /\ Holding(j, p, phase) \in Job
<1>1. row[p].attempts + 1 \in 0..MaxTries /\ row[p].attempts + 1 >= 1
  BY DEF Sound, OKPart, Part
<1>2. /\ Holding(j, p, phase) \in Job /\ Holding(j, p, phase).at = phase
      /\ Holding(j, p, phase).attempt = row[p].attempts + 1
  BY <1>1, NoRows DEF Holding, Job, Phases
<1> QED BY <1>1, <1>2 DEF OKJob

\* What a step does to the messages and the jobs, as far as their form is concerned.
RowsFine == row' \in [Parts -> OKPart] /\ stale' \in BOOLEAN
JobsFine == job' \in [Jobs -> OKJob]

LEMMA Writes ==
    ASSUME Sound
    PROVE  /\ UNCHANGED <<row, stale>> => RowsFine
           /\ \A r \in [Parts -> OKPart] : Write(r) => RowsFine
           /\ \A p \in Parts, q \in OKPart : WritePart(p, q) => RowsFine
BY DEF Sound, TypeOK, RowsFine, Write, WritePart

LEMMA JobWrites ==
    ASSUME Sound, NEW h \in Jobs
    PROVE  /\ job[h] \in OKJob /\ job[h] \in Job
           /\ UNCHANGED job => JobsFine
           /\ End(h) => JobsFine
           /\ \A w \in OKJob : Begin(h, w) => JobsFine
BY IdleJob DEF Sound, JobsFine, End, Begin, OKJob

LEMMA Gotos ==
    ASSUME Sound, NEW h \in Jobs, NEW phase \in Plain, Goto(h, phase)
    PROVE  JobsFine
<1>1. job[h] \in Job /\ phase \in Phases
  BY JobWrites DEF Plain, Phases
<1>2. [job[h] EXCEPT !.at = phase] \in Job /\ [job[h] EXCEPT !.at = phase].at = phase
  BY <1>1 DEF Job
<1>3. [job[h] EXCEPT !.at = phase] \in OKJob
  BY <1>2, PlainJob
<1> QED BY <1>3 DEF Goto, Sound, JobsFine

--------------------------------------------------------------------------------
(* deliver *)

LEMMA NoteFine == ASSUME Sound, NEW h \in Jobs, Note(h) PROVE RowsFine /\ JobsFine
<1>1. job[h] \in OKJob /\ job[h] \in Job /\ open \in BOOLEAN /\ "note" \in Parts /\ row["note"] \in OKPart
  BY JobWrites DEF Sound, TypeOK, Parts
<1>2. Knowing(job[h]) \in Job /\ Knowing(job[h]).attempt >= 1
  BY <1>1, Known DEF Note, At, OKJob
<1>3. CASE NothingToSendFirst(h)
  <2>1. [row["note"] EXCEPT !.status = "SKIPPED", !.shut = FALSE, !.next = "never"] \in OKPart
    BY <1>1, PartWrites DEF Closed, Statuses, Nexts
  <2>2. Onward(Knowing(job[h]), "note") \in OKJob /\ Onward(Knowing(job[h]), "note").at \in {"due", "fallback", "sum"}
    BY <1>1, <1>2, Onwards
  <2> DEFINE w == [Onward(Knowing(job[h]), "note") EXCEPT !.skipped = TRUE]
  <2>3. w \in Job /\ w.at \in {"due", "fallback", "sum"}
    BY <2>2 DEF OKJob, Job
  <2>4. w \in OKJob
    BY <2>3, PlainJob DEF Plain
  <2> QED BY <1>1, <1>3, <2>1, <2>4, Writes, JobWrites DEF Note
<1>4. CASE ~ NothingToSendFirst(h)
  <2> DEFINE w == [Knowing(job[h]) EXCEPT !.at = "post"]
  <2>1. w \in Job /\ w.at = "post" /\ w.attempt >= 1
    BY <1>2 DEF Job, Phases
  <2>2. w \in OKJob
    BY <2>1 DEF OKJob
  <2> QED BY <1>4, <2>2, Writes, JobWrites DEF Note
<1> QED BY <1>3, <1>4

LEMMA DueFine == ASSUME Sound, NEW h \in Jobs, Due(h) PROVE RowsFine /\ JobsFine
<1> DEFINE p == job[h].part
<1>1. job[h] \in OKJob /\ job[h] \in Job /\ p \in Parts /\ row[p] \in OKPart /\ row \in [Parts -> Part]
  BY JobWrites DEF Sound, TypeOK, Job
<1>2. Onward(job[h], p) \in OKJob
  BY <1>1, Onwards
<1>3. row[p].status = "SENDING" => [job[h] EXCEPT !.at = "free", !.attempt = row[p].attempts] \in OKJob
  <2> SUFFICES ASSUME row[p].status = "SENDING"
               PROVE  [job[h] EXCEPT !.at = "free", !.attempt = row[p].attempts] \in OKJob
    OBVIOUS
  <2> DEFINE w == [job[h] EXCEPT !.at = "free", !.attempt = row[p].attempts]
  <2>1. row[p].attempts \in 0..MaxTries /\ row[p].attempts >= 1 /\ "free" \in Phases
    BY <1>1 DEF OKPart, Part, Phases
  <2>2. w \in Job /\ w.at = "free" /\ w.attempt >= 1
    BY <1>1, <2>1 DEF Job
  <2> QED BY <2>2 DEF OKJob
<1>4. [job[h] EXCEPT !.at = "take", !.seen = row] \in OKJob
  <2>1. [job[h] EXCEPT !.at = "take", !.seen = row] \in Job /\ [job[h] EXCEPT !.at = "take", !.seen = row].at = "take"
    BY <1>1 DEF Job, Phases
  <2> QED BY <2>1, PlainJob DEF Plain
<1> QED BY <1>2, <1>3, <1>4, Writes, JobWrites DEF Due

LEMMA TakeFine == ASSUME Sound, NEW h \in Jobs, Take(h) PROVE RowsFine /\ JobsFine
<1> DEFINE p == job[h].part
<1>1. job[h] \in Job /\ p \in Parts /\ row[p] \in OKPart
  BY JobWrites DEF Sound, Job
<1>2. Onward(job[h], p) \in OKJob
  BY <1>1, Onwards
<1>3. CASE row[p].status = "PENDING"
  <2>1. row[p].attempts < MaxTries
    BY <1>1, <1>3 DEF OKPart
  <2>2. Claimed(row[p]) \in OKPart /\ Holding(job[h], p, "free") \in OKJob
    BY <1>1, <2>1, ClaimWrites, Holdings
  <2> QED BY <1>1, <1>2, <2>2, Writes, JobWrites DEF Take
<1>4. CASE row[p].status # "PENDING"
  BY <1>2, <1>4, Writes, JobWrites DEF Take
<1> QED BY <1>3, <1>4

LEMMA FreeFine == ASSUME Sound, NEW h \in Jobs, Free(h) PROVE RowsFine /\ JobsFine
<1> DEFINE p == job[h].part
<1>1. job[h] \in OKJob /\ job[h] \in Job /\ p \in Parts /\ row[p] \in OKPart /\ open \in BOOLEAN
  BY JobWrites DEF Sound, TypeOK, Job
<1>2. Knowing(job[h]) \in Job /\ Knowing(job[h]).attempt >= 1
  BY <1>1, Known DEF Free, At, OKJob
<1>3. [Knowing(job[h]) EXCEPT !.at = "post"] \in OKJob
  <2> DEFINE w == [Knowing(job[h]) EXCEPT !.at = "post"]
  <2>1. w \in Job /\ w.at = "post" /\ w.attempt >= 1
    BY <1>2 DEF Job, Phases
  <2> QED BY <2>1 DEF OKJob
<1>4. [row[p] EXCEPT !.status = "WAITING_FOR_REPLY", !.shut = TRUE] \in OKPart
  BY <1>1, PartWrites DEF Closed, Statuses
<1>5. Onward(Knowing(job[h]), p) \in OKJob
  BY <1>1, <1>2, Onwards
<1> QED BY <1>1, <1>3, <1>4, <1>5, Writes, JobWrites DEF Free

LEMMA FailedPart ==
    ASSUME NEW q \in OKPart, NEW b \in BOOLEAN, NEW c \in BOOLEAN
    PROVE  Failed(q, b, c) \in OKPart
BY PartWrites DEF Failed, Closed, Statuses, Nexts

LEMMA NotBuiltFine == ASSUME Sound, NEW h \in Jobs, NotBuilt(h) PROVE RowsFine /\ JobsFine
<1> DEFINE p == job[h].part
           c == p = "note" /\ Retried(job[h])
<1>1. job[h] \in Job /\ p \in Parts /\ row[p] \in OKPart
  BY JobWrites DEF Sound, Job
<1>2. c \in BOOLEAN
  OBVIOUS
<1>3. WritePart(p, Failed(row[p], FALSE, c)) /\ Begin(h, Onward(job[h], p))
  BY DEF NotBuilt
<1> HIDE DEF c
<1>4. Failed(row[p], FALSE, c) \in OKPart /\ Onward(job[h], p) \in OKJob
  BY <1>1, <1>2, FailedPart, Onwards
<1> QED BY <1>1, <1>3, <1>4, Writes, JobWrites

LEMMA PostFine == ASSUME Sound, NEW h \in Jobs, Post(h) \/ NoAnswer(h) PROVE RowsFine /\ JobsFine
<1>1. job[h] \in OKJob /\ job[h] \in Job /\ job[h].attempt >= 1 /\ job \in [Jobs -> OKJob]
  BY JobWrites DEF Post, NoAnswer, At, OKJob, Sound
<1>2. ASSUME NEW a \in Answers, Answer(h, a) PROVE JobsFine
  <2> DEFINE w == [job[h] EXCEPT !.at = "record", !.answer = a]
  <2>1. w \in Job /\ w.at = "record" /\ w.attempt >= 1
    BY <1>1 DEF Job, Phases
  <2>2. w \in OKJob
    BY <2>1 DEF OKJob
  <2>3. job' = [job EXCEPT ![h] = w]
    BY <1>1, <1>2 DEF Answer
  <2> HIDE DEF w
  <2> QED BY <1>1, <2>2, <2>3 DEF JobsFine
<1>3. ASSUME job' = [job EXCEPT ![h].resent = TRUE], At(h, "post") PROVE JobsFine
  <2> DEFINE w == [job[h] EXCEPT !.resent = TRUE]
  <2>1. w \in Job /\ w.at = "post" /\ w.attempt >= 1
    BY <1>1, <1>3 DEF Job, At
  <2>2. w \in OKJob
    BY <2>1 DEF OKJob
  <2> HIDE DEF w
  <2>3. job' = [job EXCEPT ![h] = w]
    BY <1>1, <1>3 DEF w
  <2> QED BY <1>1, <2>2, <2>3 DEF JobsFine
<1>4. JobsFine
  <2>1. CASE Post(h)
    BY <1>2, <2>1 DEF Post, Answers
  <2>2. CASE NoAnswer(h)
    BY <1>2, <1>3, <2>2 DEF NoAnswer, Answers
  <2> QED BY <2>1, <2>2
<1> QED BY <1>4, Writes DEF Post, NoAnswer

LEMMA RecordFine == ASSUME Sound, NEW h \in Jobs, Record(h) \/ NotRecorded(h) PROVE RowsFine /\ JobsFine
<1> DEFINE p == job[h].part
           part == row[p]
<1>1. job[h] \in Job /\ p \in Parts /\ part \in OKPart /\ job[h].attempt \in 0..MaxTries /\ part.next \in Nexts
  BY JobWrites DEF Sound, Job, OKPart, Part, Nexts
<1>2. /\ Onward(job[h], p) \in OKJob /\ Summing(job[h]) \in OKJob
  BY <1>1, Onwards, Summed
<1>3. JobsFine
  BY <1>2, JobWrites DEF Record, NotRecorded
<1>4. RowsFine
  <2>1. ASSUME NEW n \in Nexts
        PROVE  /\ [part EXCEPT !.status = "SENT", !.id = job[h].attempt, !.shut = FALSE, !.next = n] \in OKPart
               /\ [part EXCEPT !.status = "UNCERTAIN", !.shut = FALSE, !.next = n] \in OKPart
               /\ [part EXCEPT !.status = "FAILED", !.shut = FALSE] \in OKPart
    BY <1>1, <2>1, PartWrites DEF Closed, Statuses, Accepted
  <2>2. ASSUME NEW b \in BOOLEAN, NEW c \in BOOLEAN PROVE Failed(part, b, c) \in OKPart
    BY <1>1, <2>2, FailedPart
  <2> DEFINE n == IF job[h].again THEN part.next ELSE "never"
             b == job[h].answer = "shut"
             c == p = "note" /\ Retried(job[h])
             q == IF job[h].answer = "accepted"
                    THEN [part EXCEPT !.status = "SENT", !.id = job[h].attempt, !.shut = FALSE, !.next = n]
                    ELSE IF job[h].again THEN [part EXCEPT !.status = "FAILED", !.shut = FALSE]
                    ELSE Failed(part, b, c)
             u == [part EXCEPT !.status = "UNCERTAIN", !.shut = FALSE, !.next = n]
  <2>3. n \in Nexts /\ b \in BOOLEAN /\ c \in BOOLEAN
    BY <1>1 DEF Nexts
  <2>4. Record(h) => WritePart(p, q)
    BY DEF Record
  <2>5. NotRecorded(h) => WritePart(p, u)
    BY DEF NotRecorded
  <2> HIDE DEF n, b, c
  <2>6. q \in OKPart /\ u \in OKPart
    BY <2>1, <2>2, <2>3
  <2> HIDE DEF q, u
  <2> QED BY <1>1, <2>4, <2>5, <2>6, Writes
<1> QED BY <1>3, <1>4

LEMMA FallbackFine == ASSUME Sound, NEW h \in Jobs, Fallback(h) PROVE RowsFine /\ JobsFine
<1> DEFINE w == [job[h] EXCEPT !.at = "post", !.part = "note", !.again = TRUE, !.attempt = 1, !.resent = FALSE]
<1>1. job[h] \in Job /\ "note" \in Parts /\ "post" \in Phases /\ 1 \in 0..MaxTries
  BY JobWrites DEF Parts, Phases
<1>2. w \in Job /\ w.at = "post" /\ w.attempt = 1
  BY <1>1 DEF Job
<1>3. Begin(h, w) \/ Begin(h, Summing(job[h]))
  BY DEF Fallback
<1> HIDE DEF w
<1>4. w \in OKJob /\ Summing(job[h]) \in OKJob
  BY <1>1, <1>2, Summed, SendJob
<1>5. UNCHANGED <<row, stale>>
  BY DEF Fallback
<1> QED BY <1>3, <1>4, <1>5, Writes, JobWrites

LEMMA SumFine == ASSUME Sound, NEW h \in Jobs, Sum(h) \/ Store(h) PROVE RowsFine /\ JobsFine
<1>1. job[h] \in OKJob /\ job[h] \in Job
  BY JobWrites
<1>2. Summary \in Summaries /\ Summary.status \notin {"none", "CANCELLED"}
  BY DEF Summary, Summaries
<1>3. CASE Sum(h)
  <2> DEFINE s == Summary
             w == [job[h] EXCEPT !.at = "store", !.sum = s]
  <2>1. Begin(h, w) \/ End(h)
    BY <1>3 DEF Sum
  <2>2. s \in Summaries /\ s.status \notin {"none", "CANCELLED"}
    BY <1>2
  <2> HIDE DEF s
  <2>3. w \in Job /\ w.at = "store" /\ w.sum = s
    BY <1>1, <2>2 DEF Job, Phases
  <2>4. w \in OKJob
    BY <2>2, <2>3 DEF OKJob
  <2> HIDE DEF w
  <2>5. UNCHANGED <<row, stale>>
    BY <1>3 DEF Sum
  <2> QED BY <2>1, <2>4, <2>5, Writes, JobWrites
<1>4. CASE Store(h)
  <2> DEFINE w == [job[h] EXCEPT !.at = job[h].then, !.then = "idle"]
  <2>1. job[h].then \in {"idle", "select"} /\ "idle" \in Phases /\ "select" \in Phases
    BY <1>1 DEF Job, Phases
  <2>2. w \in Job /\ w.at = job[h].then
    BY <1>1, <2>1 DEF Job
  <2>3. w \in OKJob
    BY <2>1, <2>2, PlainJob DEF Plain
  <2>4. Begin(h, w) \/ End(h)
    BY <1>4 DEF Store
  <2> HIDE DEF w
  <2>5. UNCHANGED <<row, stale>>
    BY <1>4 DEF Store
  <2> QED BY <2>3, <2>4, <2>5, Writes, JobWrites
<1> QED BY <1>3, <1>4

--------------------------------------------------------------------------------
(* The ticks *)

\* A job that starts from nothing.
LEMMA Starts ==
    ASSUME NEW o \in {"none", "tick", "test", "cancel", "reply", "retry", "hook"}, NEW phase \in Plain,
           NEW t \in SUBSET FreeForm, NEW a \in SUBSET FreeForm
    PROVE  /\ [Idle EXCEPT !.op = o, !.at = phase] \in OKJob
           /\ [Idle EXCEPT !.op = o, !.at = phase, !.takes = t] \in OKJob
           /\ [Idle EXCEPT !.op = o, !.at = phase, !.takes = t, !.adopts = a] \in OKJob
<1>1. Idle \in Job /\ phase \in Phases
  BY IdleJob DEF OKJob, Plain, Phases
<1> DEFINE x == [Idle EXCEPT !.op = o, !.at = phase]
           y == [Idle EXCEPT !.op = o, !.at = phase, !.takes = t]
           z == [Idle EXCEPT !.op = o, !.at = phase, !.takes = t, !.adopts = a]
<1>2. x \in Job /\ y \in Job /\ z \in Job /\ x.at = phase /\ y.at = phase /\ z.at = phase
  BY <1>1 DEF Job
<1> HIDE DEF x, y, z
<1>3. x \in OKJob /\ y \in OKJob /\ z \in OKJob
  BY <1>2, PlainJob
<1> QED BY <1>3 DEF x, y, z

LEMMA TickFine ==
    ASSUME Sound, NEW h \in Jobs, Tick(h) \/ Miss(h) \/ Expire(h)
    PROVE  RowsFine /\ JobsFine
<1>1. /\ [Idle EXCEPT !.op = "tick", !.at = "create", !.takes = FreeForm] \in OKJob
      /\ [Idle EXCEPT !.op = "tick", !.at = "missed rows"] \in OKJob
      /\ [Idle EXCEPT !.op = "tick", !.at = "sum"] \in OKJob
  BY Starts DEF Plain
<1>2. JobsFine
  BY <1>1, JobWrites DEF Tick, Miss, Expire
<1>3. ASSUME Expire(h) PROVE RowsFine
  <2> DEFINE r == [p \in Parts |-> IF p \in Waiting THEN [row[p] EXCEPT !.status = "FAILED", !.shut = FALSE] ELSE row[p]]
  <2>1. r \in [Parts -> OKPart]
    BY PartWrites DEF Sound, Closed, Statuses
  <2> QED BY <1>3, <2>1, Writes DEF Expire
<1> QED BY <1>2, <1>3, Writes DEF Tick, Miss

LEMMA InitialRows == InitialParts \in [Parts -> OKPart] /\ \A p \in Parts : InitialParts[p].attempts = 0
<1>1. /\ NewPart("PENDING") \in OKPart /\ NewPart("SKIPPED") \in OKPart
      /\ NewPart("PENDING").attempts = 0 /\ NewPart("SKIPPED").attempts = 0
  BY NewParts DEF Statuses, NewPart
<1> QED BY <1>1 DEF InitialParts

LEMMA CreateFine ==
    ASSUME Sound, NEW h \in Jobs, Create(h) \/ Rows(h) \/ Mark(h) \/ MissedRows(h) \/ Owner(h) \/ OwnerGone(h)
    PROVE  RowsFine /\ JobsFine
<1>1. JobsFine
  BY Gotos, JobWrites DEF Create, Rows, Mark, MissedRows, Owner, OwnerGone, Plain
<1>2. CASE Create(h)
  BY <1>1, <1>2, Writes DEF Create
<1>3. CASE Rows(h)
  BY <1>1, <1>3, InitialRows, Writes DEF Rows
<1>4. CASE Mark(h)
  <2>1. \A p \in Parts : Interrupted(p) \in OKPart
    BY PartWrites DEF Sound, Interrupted, Closed, Statuses
  <2>2. PICK p \in Parts : UNCHANGED <<row, stale>> \/ WritePart(p, Interrupted(p))
    BY <1>4 DEF Mark, Parts, FreeForm
  <2> QED BY <1>1, <2>1, <2>2, Writes
<1>5. CASE MissedRows(h)
  <2>1. [p \in Parts |-> NewPart("FAILED")] \in [Parts -> OKPart]
    BY NewParts DEF Statuses
  <2> QED BY <1>1, <1>5, <2>1, Writes DEF MissedRows
<1>6. CASE OwnerGone(h)
  <2> DEFINE pending == {p \in Parts : row[p].status = "PENDING"}
             r == [p \in Parts |-> IF p \in pending THEN [row[p] EXCEPT !.status = "FAILED"] ELSE row[p]]
  <2>1. r \in [Parts -> OKPart]
    BY PartWrites DEF Sound, Closed, Statuses
  <2>2. Write(r) \/ UNCHANGED <<row, stale>>
    BY <1>6 DEF OwnerGone
  <2> HIDE DEF r
  <2> QED BY <1>1, <2>1, <2>2, Writes
<1>7. CASE Owner(h)
  BY <1>1, <1>7, Writes DEF Owner
<1> QED BY <1>2, <1>3, <1>4, <1>5, <1>6, <1>7

LEMMA ClaimFine == ASSUME Sound, NEW h \in Jobs, Read(h) \/ Claim(h) PROVE RowsFine /\ JobsFine
<1>1. job[h] \in OKJob /\ job[h] \in Job /\ "note" \in Parts /\ row \in [Parts -> Part] /\ row["note"] \in OKPart
  BY JobWrites DEF Sound, TypeOK, Parts
<1>2. Onward(job[h], "note") \in OKJob
  BY <1>1, Onwards
<1>3. CASE Read(h)
  <2> DEFINE w == [job[h] EXCEPT !.at = "claim", !.seen = row]
  <2>1. w \in Job /\ w.at = "claim" /\ w.seen = row
    BY <1>1 DEF Job, Phases
  <2>2. row["note"].attempts \in Nat
    BY <1>1 DEF OKPart, Part
  <2>3. Eligible => row["note"].attempts < MaxTries
    BY <1>1, <2>2 DEF Eligible, OKPart
  <2>4. (Eligible /\ Begin(h, w)) \/ Begin(h, Onward(job[h], "note"))
    BY <1>3 DEF Read
  <2> HIDE DEF w
  <2>5. Eligible => w \in OKJob
    BY <2>1, <2>3 DEF OKJob
  <2> QED BY <1>2, <1>3, <2>4, <2>5, Writes, JobWrites DEF Read
<1>4. CASE Claim(h)
  <2>1. job[h].seen["note"].attempts < MaxTries
    BY <1>1, <1>4 DEF Claim, At, OKJob
  <2>2. CASE row["note"].attempts = job[h].seen["note"].attempts
    <3>1. Claimed(row["note"]) \in OKPart /\ Holding(job[h], "note", "note") \in OKJob
      BY <1>1, <2>1, <2>2, ClaimWrites, Holdings
    <3> QED BY <1>1, <1>2, <1>4, <3>1, Writes, JobWrites DEF Claim
  <2>3. CASE row["note"].attempts # job[h].seen["note"].attempts
    BY <1>2, <1>4, <2>3, Writes, JobWrites DEF Claim
  <2> QED BY <2>2, <2>3
<1> QED BY <1>3, <1>4

--------------------------------------------------------------------------------
(* The users *)

LEMMA TestFine == ASSUME Sound, NEW h \in Jobs, Test(h) \/ TestRows(h) PROVE RowsFine /\ JobsFine
<1>1. CASE Test(h)
  <2>1. [Idle EXCEPT !.op = "test", !.at = "test rows", !.takes = FreeForm, !.adopts = FreeForm] \in OKJob
    BY Starts DEF Plain
  <2> QED BY <1>1, <2>1, Writes, JobWrites DEF Test
<1>2. CASE TestRows(h)
  <2> DEFINE w == [job[h] EXCEPT !.at = "note", !.attempt = 1]
             r == [InitialParts EXCEPT !["note"] = Claimed(@)]
  <2>1. job[h] \in Job /\ "note" \in Parts /\ 1 \in 0..MaxTries /\ 0 < MaxTries /\ "note" \in Phases
    BY JobWrites DEF Parts, Phases
  <2>2. w \in Job /\ w.at = "note" /\ w.attempt = 1
    BY <2>1 DEF Job
  <2>3. Claimed(InitialParts["note"]) \in OKPart
    BY <2>1, InitialRows, ClaimWrites
  <2>4. r \in [Parts -> OKPart]
    BY <2>3, InitialRows
  <2>5. Onward(job[h], "note") \in OKJob
    BY <2>1, Onwards
  <2>6. (Write(r) /\ Begin(h, w)) \/ (Write(InitialParts) /\ Begin(h, Onward(job[h], "note")))
    BY <1>2 DEF TestRows
  <2> HIDE DEF w, r
  <2>7. w \in OKJob
    BY <2>2, SendJob
  <2> QED BY <2>4, <2>5, <2>6, <2>7, InitialRows, Writes, JobWrites
<1> QED BY <1>1, <1>2

LEMMA SkippedRows == [p \in Parts |-> NewPart("SKIPPED")] \in [Parts -> OKPart]
BY NewParts DEF Statuses

LEMMA CancelFine ==
    ASSUME Sound, NEW h \in Jobs, Cancel(h) \/ CancelRun(h) \/ CancelRows(h)
    PROVE  RowsFine /\ JobsFine
<1>1. CASE Cancel(h)
  <2>1. [Idle EXCEPT !.op = "cancel", !.at = "cancel"] \in OKJob
    BY Starts DEF Plain
  <2> QED BY <1>1, <2>1, Writes, JobWrites DEF Cancel
<1>2. CASE CancelRun(h)
  BY <1>2, Gotos, Writes, JobWrites DEF CancelRun, Plain
<1>3. CASE CancelRows(h)
  BY <1>3, SkippedRows, Writes, JobWrites DEF CancelRows
<1> QED BY <1>1, <1>2, <1>3

LEMMA RetryFine ==
    ASSUME Sound, NEW h \in Jobs, (\E p \in Parts : Retry(h, p)) \/ RetryClaim(h)
    PROVE  RowsFine /\ JobsFine
<1>1. ASSUME NEW p \in Parts, Retry(h, p) PROVE RowsFine /\ JobsFine
  <2> DEFINE w == [Idle EXCEPT !.op = "retry", !.at = "retry", !.part = p, !.seen = row]
  <2>1. Idle \in Job /\ row \in [Parts -> Part]
    BY IdleJob DEF OKJob, Sound, TypeOK
  <2>2. w \in Job /\ w.at = "retry" /\ w.seen = row /\ w.part = p
    BY <2>1 DEF Job, Phases
  <2>3. row[p].attempts < MaxTries /\ Begin(h, w) /\ UNCHANGED <<row, stale>>
    BY <1>1 DEF Retry
  <2> HIDE DEF w
  <2>4. w \in OKJob
    BY <2>2, <2>3 DEF OKJob
  <2> QED BY <2>3, <2>4, Writes, JobWrites
<1>2. CASE RetryClaim(h)
  <2> DEFINE p == job[h].part
  <2>1. job[h] \in OKJob /\ job[h] \in Job /\ p \in Parts /\ row[p] \in OKPart
    BY JobWrites DEF Sound, Job
  <2>2. CASE row[p].status = job[h].seen[p].status /\ row[p].attempts = job[h].seen[p].attempts
    <3>1. row[p].attempts < MaxTries
      BY <1>2, <2>1, <2>2 DEF RetryClaim, At, OKJob
    <3>2. Claimed(row[p]) \in OKPart /\ WritePart(p, Claimed(row[p]))
      BY <1>2, <2>1, <2>2, <3>1, ClaimWrites DEF RetryClaim
    <3>3. CASE p = "note"
      <4> DEFINE w == [Holding(job[h], p, "note") EXCEPT !.takes = FreeForm]
      <4>1. Holding(job[h], p, "note") \in OKJob /\ Holding(job[h], p, "note").at = "note"
        BY <2>1, <3>1, Holdings
      <4>2. w \in Job /\ w.at = "note" /\ w.attempt >= 1
        BY <4>1 DEF OKJob, Job
      <4>3. Begin(h, w)
        BY <1>2, <2>2, <3>3 DEF RetryClaim
      <4> HIDE DEF w
      <4>4. w \in OKJob
        BY <4>2 DEF OKJob
      <4> QED BY <2>1, <3>2, <4>3, <4>4, Writes, JobWrites
    <3>4. CASE p # "note"
      <4> DEFINE w == [job[h] EXCEPT !.at = "due", !.part = "txt", !.seen = NoRow, !.takes = {p}, !.adopts = {p}]
      <4>1. "txt" \in Parts /\ {p} \in SUBSET FreeForm /\ NoRow \in [Parts -> Part] /\ "due" \in Phases
        BY <2>1, <3>4, NoRows DEF Parts, FreeForm, Phases
      <4>2. w \in Job /\ w.at = "due"
        BY <2>1, <4>1 DEF Job
      <4>3. Begin(h, w)
        BY <1>2, <2>2, <3>4 DEF RetryClaim
      <4> HIDE DEF w
      <4>4. w \in OKJob
        BY <4>2, PlainJob DEF Plain
      <4> QED BY <2>1, <3>2, <4>3, <4>4, Writes, JobWrites
    <3> QED BY <3>3, <3>4
  <2>3. CASE ~ (row[p].status = job[h].seen[p].status /\ row[p].attempts = job[h].seen[p].attempts)
    BY <1>2, <2>3, Writes, JobWrites DEF RetryClaim
  <2> QED BY <2>2, <2>3
<1> QED BY <1>1, <1>2

--------------------------------------------------------------------------------
(* The recipient and the provider *)

LEMMA InterruptedParts == ASSUME Sound, NEW p \in Parts PROVE Interrupted(p) \in OKPart
BY PartWrites DEF Sound, Interrupted, Closed, Statuses

LEMMA ReplyFine ==
    ASSUME Sound, NEW h \in Jobs, Reply(h) \/ Recover(h) \/ Select(h) \/ ReplyOwner(h) \/ Throw(h) \/ Interrupt(h)
    PROVE  RowsFine /\ JobsFine
<1>1. job[h] \in Job /\ row \in [Parts -> Part] /\ row \in [Parts -> OKPart]
  BY JobWrites DEF Sound, TypeOK
<1>2. CASE Reply(h)
  <2>1. [Idle EXCEPT !.op = "reply", !.at = "recover"] \in OKJob
    BY Starts DEF Plain
  <2> QED BY <1>2, <2>1, Writes, JobWrites DEF Reply
<1>3. CASE Recover(h)
  <2> DEFINE w == [job[h] EXCEPT !.at = "sum", !.then = "select"]
             r == [p \in Parts |-> IF row[p].status = "SENDING" THEN Interrupted(p) ELSE row[p]]
  <2>1. r \in [Parts -> OKPart]
    BY <1>1, InterruptedParts
  <2>2. w \in Job /\ w.at = "sum"
    BY <1>1 DEF Job, Phases
  <2>3. (Write(r) /\ Begin(h, w)) \/ (Goto(h, "select") /\ UNCHANGED <<row, stale>>)
    BY <1>3 DEF Recover
  <2> HIDE DEF w, r
  <2>4. w \in OKJob
    BY <2>2, PlainJob DEF Plain
  <2>5. "select" \in Plain
    BY DEF Plain
  <2> QED BY <2>1, <2>3, <2>4, <2>5, Gotos, Writes, JobWrites
<1>4. CASE Select(h)
  <2> DEFINE w == [job[h] EXCEPT !.at = "reply owner", !.part = "txt", !.seen = row]
  <2>1. w \in Job /\ w.at = "reply owner" /\ w.part = "txt"
    BY <1>1 DEF Job, Phases, Parts, FreeForm
  <2>2. Begin(h, w) \/ End(h)
    BY <1>4 DEF Select
  <2> HIDE DEF w
  <2>3. w \in OKJob
    BY <2>1 DEF OKJob, FreeForm
  <2> QED BY <1>4, <2>2, <2>3, Writes, JobWrites DEF Select
<1>5. CASE Throw(h)
  BY <1>5, Gotos, Writes DEF Throw, Plain
<1>6. CASE Interrupt(h)
  <2>1. Summing(job[h]) \in OKJob
    BY <1>1, Summed
  <2> DEFINE r == [p \in Parts |->
                IF /\ p \in job[h].adopts /\ row[p].status = "SENDING"
                   /\ row[p].attempts = job[h].seen[p].attempts + 1
                  THEN Interrupted(p) ELSE row[p]]
  <2>2. r \in [Parts -> OKPart]
    BY <1>1, InterruptedParts
  <2>3. Write(r) /\ Begin(h, Summing(job[h]))
    BY <1>6 DEF Interrupt
  <2> HIDE DEF r
  <2> QED BY <2>1, <2>2, <2>3, Writes, JobWrites
<1>7. CASE ReplyOwner(h)
  <2> DEFINE w == [job[h] EXCEPT !.at = "reply claim"]
  <2>1. job[h].part \in FreeForm
    BY <1>7, JobWrites DEF ReplyOwner, At, OKJob
  <2>2. w \in Job /\ w.at = "reply claim" /\ w.part = job[h].part
    BY <1>1 DEF Job, Phases
  <2>3. Begin(h, w) \/ End(h)
    BY <1>7, <1>1 DEF ReplyOwner, Goto, Begin, Job, Sound, TypeOK
  <2> HIDE DEF w
  <2>4. w \in OKJob
    BY <2>1, <2>2 DEF OKJob
  <2> QED BY <1>7, <2>3, <2>4, Writes, JobWrites DEF ReplyOwner
<1> QED BY <1>2, <1>3, <1>4, <1>5, <1>6, <1>7

LEMMA ReplyClaimFine == ASSUME Sound, NEW h \in Jobs, ReplyClaim(h) PROVE RowsFine /\ JobsFine
<1> DEFINE p == job[h].part
           part == job[h].seen[p]
           won == /\ part.status \in Held /\ part.attempts < MaxTries
                  /\ row[p].status = part.status /\ row[p].attempts = part.attempts
           parts == job[h].adopts \cup (IF won THEN {p} ELSE {})
           x == [job[h] EXCEPT !.part = "doc", !.adopts = parts]
           y == [job[h] EXCEPT !.at = "due", !.part = "txt", !.takes = parts, !.adopts = parts]
<1>1. job[h] \in Job /\ p \in Parts /\ p \in FreeForm /\ row[p] \in OKPart /\ job[h].at = "reply claim"
  BY JobWrites DEF Sound, Job, ReplyClaim, At, OKJob
<1>2. RowsFine
  <2>1. won => Claimed(row[p]) \in OKPart
    BY <1>1, ClaimWrites
  <2>2. (won /\ WritePart(p, Claimed(row[p]))) \/ UNCHANGED <<row, stale>>
    BY DEF ReplyClaim
  <2> QED BY <1>1, <2>1, <2>2, Writes
<1>3. JobsFine
  <2>1. Begin(h, x) \/ End(h) \/ Begin(h, y)
    BY DEF ReplyClaim
  <2>2. CASE parts \in SUBSET FreeForm
    <3>1. "doc" \in Parts /\ "txt" \in Parts /\ "due" \in Phases
      BY DEF Parts, FreeForm, Phases
    <3> HIDE DEF parts
    <3>2. x \in Job /\ y \in Job /\ x.at = "reply claim" /\ x.part = "doc" /\ y.at = "due"
      BY <1>1, <2>2, <3>1 DEF Job
    <3> HIDE DEF x, y
    <3>3. x \in OKJob /\ y \in OKJob
      BY <3>2, PlainJob DEF Plain, OKJob, FreeForm
    <3> QED BY <2>1, <3>3, JobWrites
  <2>3. parts \in SUBSET FreeForm
    BY <1>1 DEF Job
  <2> QED BY <2>2, <2>3
<1> QED BY <1>2, <1>3

LEMMA CallbackFine ==
    ASSUME Sound, NEW h \in Jobs, (\E m \in mail, e \in Events : Callback(h, m, e)) \/ Hook(h)
    PROVE  RowsFine /\ JobsFine
<1>1. ASSUME NEW m \in mail, NEW e \in Events, Callback(h, m, e) PROVE RowsFine /\ JobsFine
  <2> DEFINE w == [Idle EXCEPT !.op = "hook", !.at = "hook", !.part = m[1], !.seen = row, !.event = e]
  <2>1. Idle \in Job /\ row \in [Parts -> Part] /\ m[1] \in Parts
    BY IdleJob DEF OKJob, Sound, TypeOK, Message
  <2>2. w \in Job /\ w.at = "hook" /\ w.event = e
    BY <2>1 DEF Job, Phases
  <2>3. (Begin(h, w) \/ UNCHANGED job) /\ UNCHANGED <<row, stale>>
    BY <1>1 DEF Callback
  <2> HIDE DEF w
  <2>4. w \in OKJob
    BY <2>2 DEF OKJob
  <2> QED BY <2>3, <2>4, Writes, JobWrites
<1>2. CASE Hook(h)
  <2> DEFINE p == job[h].part
             event == job[h].event
             q == [row[p] EXCEPT !.status = event, !.shut = FALSE,
                                 !.next = IF event = "FAILED" THEN "never" ELSE @]
  <2>1. job[h] \in Job /\ p \in Parts /\ row[p] \in OKPart /\ row[p].next \in Nexts
    BY JobWrites DEF Sound, Job, OKPart, Part, Nexts
  <2>2. event \in Events
    BY <1>2, JobWrites DEF Hook, At, OKJob
  <2>3. Summing(job[h]) \in OKJob
    BY <2>1, Summed
  <2>4. event \in Closed
    BY <2>2 DEF Events, Closed, Statuses, Accepted
  <2> DEFINE n == IF event = "FAILED" THEN "never" ELSE row[p].next
  <2>5. n \in Nexts
    BY <2>1 DEF Nexts
  <2> HIDE DEF n
  <2>6. [row[p] EXCEPT !.status = event, !.shut = FALSE, !.next = n] \in OKPart
    BY <2>1, <2>4, <2>5, PartWrites
  <2>7. q \in OKPart
    BY <2>6 DEF n
  <2>8. (WritePart(p, q) /\ Begin(h, Summing(job[h]))) \/ (End(h) /\ UNCHANGED <<row, stale>>)
    BY <1>2 DEF Hook
  <2> HIDE DEF q
  <2> QED BY <2>1, <2>3, <2>7, <2>8, Writes, JobWrites
<1> QED BY <1>1, <1>2

--------------------------------------------------------------------------------
(* The run, the provider and the world *)

RunStatuses == {"none", "PENDING", "SENDING", "FAILED", "UNCERTAIN", "SENT", "CANCELLED"}
Run == [status : RunStatuses, retry : BOOLEAN, deleted : BOOLEAN]

\* What TypeOK says of what the steps of the jobs seldom write.
Others ==
    /\ scene \in Scenes
    /\ clock \in {"before", "due", "late", "old"}
    /\ settings \in {"in force", "saved", "off"}
    /\ owner \in BOOLEAN
    /\ run \in Run
    /\ open \in BOOLEAN /\ missed \in BOOLEAN
    /\ reached \in [Parts -> Nat] /\ lost \in [Parts -> Nat]
    /\ mail \subseteq Message
    /\ told \subseteq (Message \X Events)
    /\ replies \in 0..MaxReplies
    /\ faults \in 0..scene.faults

LEMMA Parted ==
    /\ TypeOK <=> Others /\ row \in [Parts -> Part] /\ stale \in BOOLEAN /\ job \in [Jobs -> Job]
    /\ Sound' <=> Others' /\ RowsFine /\ JobsFine
<1>1. TypeOK <=> Others /\ row \in [Parts -> Part] /\ stale \in BOOLEAN /\ job \in [Jobs -> Job]
  BY DEF TypeOK, Others, Run, RunStatuses
<1>2. TypeOK' <=> Others' /\ row' \in [Parts -> Part] /\ stale' \in BOOLEAN /\ job' \in [Jobs -> Job]
  BY DEF TypeOK, Others, Run, RunStatuses
<1>3. /\ (row' \in [Parts -> OKPart] => row' \in [Parts -> Part])
      /\ (job' \in [Jobs -> OKJob] => job' \in [Jobs -> Job])
  BY DEF OKPart, OKJob
<1> QED BY <1>1, <1>2, <1>3 DEF Sound, RowsFine, JobsFine

\* Faults are counted up to their number.
LEMMA Faults == ASSUME Sound, scene' = scene, Fault PROVE faults' \in 0..scene'.faults
<1>1. scene.faults \in Nat /\ faults \in 0..scene.faults
  BY ScenesAssumption DEF Sound, TypeOK
<1> QED BY <1>1 DEF Fault

quiet == <<scene, clock, settings, owner, run, open, reached, mail, told, lost, replies, missed>>
LEMMA Quiet == ASSUME Sound, UNCHANGED quiet, UNCHANGED faults \/ Fault PROVE Others'
BY Faults, Parted DEF quiet, Others, Sound

LEMMA Wrote ==
    ASSUME Sound, NEW r \in Run, run' = r, UNCHANGED <<scene, clock, settings, owner, open, provider, replies, faults, missed>>
    PROVE  Others'
BY Parted DEF Others, Sound, provider

LEMMA Runs ==
    ASSUME Sound
    PROVE  /\ run \in Run
           /\ \A s \in RunStatuses, b \in BOOLEAN :
                [run EXCEPT !.status = s] \in Run /\ [run EXCEPT !.status = s, !.retry = b] \in Run
           /\ [run EXCEPT !.deleted = TRUE] \in Run
BY Parted DEF Sound, Others, Run

LEMMA Sends ==
    ASSUME Sound, NEW h \in Jobs, Post(h) \/ NoAnswer(h)
    PROVE  Others'
<1> DEFINE p == job[h].part
<1>1. job[h] \in Job /\ p \in Parts /\ job[h].attempt \in 1..MaxTries
  <2>1. job[h] \in OKJob /\ job[h] \in Job /\ job[h].at = "post"
    BY JobWrites DEF Post, NoAnswer, At
  <2>2. job[h].attempt >= 1 /\ job[h].attempt \in 0..MaxTries /\ p \in Parts
    BY <2>1 DEF OKJob, Job
  <2> QED BY <2>1, <2>2
<1>2. <<p, job[h].attempt>> \in Message
  BY <1>1 DEF Message
<1>3. reached \in [Parts -> Nat] /\ lost \in [Parts -> Nat] /\ mail \subseteq Message
  BY DEF Sound, TypeOK
<1>4. /\ [reached EXCEPT ![p] = @ + 1] \in [Parts -> Nat] /\ [lost EXCEPT ![p] = @ + 1] \in [Parts -> Nat]
      /\ mail \cup {<<p, job[h].attempt>>} \subseteq Message
  BY <1>1, <1>2, <1>3
<1>5. reached' \in [Parts -> Nat] /\ lost' \in [Parts -> Nat] /\ mail' \subseteq Message
  <2>1. CASE Post(h)
    <3>1. lost' = lost
      BY <2>1 DEF Post
    <3>2. \/ reached' = [reached EXCEPT ![p] = @ + 1] /\ mail' = mail \cup {<<p, job[h].attempt>>}
          \/ UNCHANGED <<reached, mail>>
      BY <2>1 DEF Post
    <3> HIDE DEF p
    <3> QED BY <1>3, <1>4, <3>1, <3>2
  <2>2. CASE NoAnswer(h)
    <3>1. mail' = mail
      BY <2>2 DEF NoAnswer
    <3>2. \/ reached' = [reached EXCEPT ![p] = @ + 1] /\ lost' = [lost EXCEPT ![p] = @ + 1]
          \/ UNCHANGED <<reached, lost>>
      BY <2>2 DEF NoAnswer
    <3> HIDE DEF p
    <3> QED BY <1>3, <1>4, <3>1, <3>2
  <2> QED BY <2>1, <2>2
<1>6. /\ UNCHANGED <<scene, clock, settings, owner, run, open, told, replies, missed>>
      /\ UNCHANGED faults \/ Fault
  BY DEF Post, NoAnswer
<1> QED BY <1>5, <1>6, Faults, Parted DEF Others, Sound

LEMMA StepOthers == ASSUME Sound, NEW h \in Jobs, Step(h) PROVE Others'
<1>1. CASE Post(h)
  BY <1>1, Sends
<1>2. CASE Store(h)
  <2>1. job[h].sum.status \in RunStatuses /\ job[h].sum.retry \in BOOLEAN
    BY JobWrites DEF Job, Summaries, RunStatuses
  <2>2. run' = [run EXCEPT !.status = job[h].sum.status, !.retry = job[h].sum.retry]
    BY <1>2 DEF Store
  <2> QED BY <1>2, <2>1, <2>2, Runs, Wrote DEF Store
<1>3. CASE Create(h)
  <2>1. run' \in Run
    BY <1>3, Runs DEF Create, RunStatuses
  <2> QED BY <1>3, <2>1, Wrote DEF Create
<1>4. CASE CancelRun(h)
  <2>1. run' \in Run
    BY <1>4, Runs DEF CancelRun, RunStatuses
  <2> QED BY <1>4, <2>1, Wrote DEF CancelRun
<1>5. CASE MissedRows(h) \/ RetryClaim(h)
  <2>1. missed' \in BOOLEAN /\ UNCHANGED <<scene, clock, settings, owner, run, open, provider, replies, faults>>
    BY <1>5 DEF MissedRows, RetryClaim, Sound, TypeOK
  <2> QED BY <2>1, Parted DEF Others, Sound, provider
<1>6. CASE \/ Note(h) \/ Due(h) \/ Take(h) \/ Free(h) \/ Record(h) \/ Fallback(h) \/ Sum(h)
           \/ Rows(h) \/ Mark(h) \/ Owner(h) \/ OwnerGone(h) \/ Read(h) \/ Claim(h) \/ TestRows(h) \/ CancelRows(h)
           \/ Recover(h) \/ Select(h) \/ ReplyOwner(h) \/ ReplyClaim(h) \/ Interrupt(h) \/ Hook(h)
  <2>1. UNCHANGED <<quiet, faults>>
    BY <1>6 DEF Note, Due, Take, Free, Record, Fallback, Sum, Rows, Mark, Owner, OwnerGone, Read, Claim, TestRows,
                CancelRows, Recover, Select, ReplyOwner, ReplyClaim, Interrupt, Hook, quiet, provider
  <2> QED BY <2>1, Quiet
<1> QED BY <1>1, <1>2, <1>3, <1>4, <1>5, <1>6 DEF Step

LEMMA FailsOthers == ASSUME Sound, NEW h \in Jobs, Fails(h) PROVE Others'
<1>1. CASE NoAnswer(h)
  BY <1>1, Sends
<1>2. CASE NotBuilt(h) \/ NotRecorded(h) \/ Throw(h) \/ Stop(h)
  <2>1. UNCHANGED quiet /\ (UNCHANGED faults \/ Fault)
    BY <1>2 DEF NotBuilt, NotRecorded, Throw, Stop, quiet, provider
  <2> QED BY <2>1, Quiet
<1> QED BY <1>1, <1>2 DEF Fails

LEMMA StepFine == ASSUME Sound, NEW h \in Jobs, Step(h) PROVE Sound'
<1>1. RowsFine /\ JobsFine
  BY NoteFine, DueFine, TakeFine, FreeFine, PostFine, RecordFine, FallbackFine, SumFine, CreateFine, ClaimFine,
     TestFine, CancelFine, RetryFine, ReplyFine, ReplyClaimFine, CallbackFine DEF Step
<1> QED BY <1>1, StepOthers, Parted

LEMMA FailsFine == ASSUME Sound, NEW h \in Jobs, Fails(h) PROVE Sound'
<1>1. CASE Stop(h)
  BY <1>1, FailsOthers, Writes, JobWrites, Parted DEF Stop
<1>2. CASE NotBuilt(h) \/ NoAnswer(h) \/ NotRecorded(h) \/ Throw(h)
  <2>1. RowsFine /\ JobsFine
    BY <1>2, NotBuiltFine, PostFine, RecordFine, ReplyFine
  <2> QED BY <2>1, FailsOthers, Parted
<1> QED BY <1>1, <1>2 DEF Fails

\* What users, the recipient and the provider start.
LEMMA StartFine ==
    ASSUME Sound, NEW h \in Jobs,
           \/ Tick(h) \/ Miss(h) \/ Expire(h) \/ Test(h) \/ Cancel(h) \/ Reply(h)
           \/ \E p \in Parts : Retry(h, p)
           \/ \E m \in mail, e \in Events : Callback(h, m, e)
    PROVE  Sound'
<1>1. RowsFine /\ JobsFine
  BY TickFine, TestFine, CancelFine, RetryFine, ReplyFine, CallbackFine
<1>2. CASE Miss(h) \/ Test(h)
  <2>1. run' \in Run
    BY <1>2, Runs DEF Miss, Test, RunStatuses
  <2> QED BY <1>1, <1>2, <2>1, Wrote, Parted DEF Miss, Test
<1>3. CASE Tick(h) \/ Expire(h) \/ Cancel(h) \/ \E p \in Parts : Retry(h, p)
  <2>1. UNCHANGED <<quiet, faults>>
    BY <1>3 DEF Tick, Expire, Cancel, Retry, quiet, provider
  <2> QED BY <1>1, <2>1, Quiet, Parted
<1>4. CASE Reply(h)
  <2>1. replies' \in 0..MaxReplies /\ open' \in BOOLEAN
    <3>1. replies < MaxReplies /\ replies' = replies + 1 /\ open' = TRUE
      BY <1>4 DEF Reply
    <3>2. replies \in 0..MaxReplies
      BY DEF Sound, TypeOK
    <3> QED BY <3>1, <3>2
  <2>2. UNCHANGED <<scene, clock, settings, owner, run, provider, faults, missed>>
    BY <1>4 DEF Reply
  <2>3. Others'
    BY <2>1, <2>2, Parted DEF Others, Sound, provider
  <2> QED BY <1>1, <2>3, Parted
<1>5. CASE \E m \in mail, e \in Events : Callback(h, m, e)
  <2>1. PICK m \in mail, e \in Events : Callback(h, m, e)
    BY <1>5
  <2>2. told' \subseteq (Message \X Events)
    <3>1. told' = told \cup {<<m, e>>}
      BY <2>1 DEF Callback
    <3>2. told \subseteq (Message \X Events) /\ m \in Message
      BY DEF Sound, TypeOK
    <3> QED BY <3>1, <3>2
  <2>3. UNCHANGED <<scene, clock, settings, owner, run, open, reached, mail, lost, replies, faults, missed>>
    BY <2>1 DEF Callback
  <2>4. Others'
    BY <2>2, <2>3, Parted DEF Others, Sound
  <2> QED BY <1>1, <2>4, Parted
<1> QED BY <1>2, <1>3, <1>4, <1>5

LEMMA NextTimes ==
    ASSUME NEW q \in OKPart, NEW n \in Nexts
    PROVE  [q EXCEPT !.next = n] \in OKPart
BY DEF OKPart, Part, Nexts

LEMMA WorldFine ==
    ASSUME Sound,
           \/ Delete \/ Age \/ RetryTime \/ Stale \/ WindowEnds \/ OwnerChanges
           \/ \E s \in {"saved", "off"} : Configure(s)
    PROVE  Sound'
<1>1. Others /\ (UNCHANGED <<row, stale>> => RowsFine) /\ (UNCHANGED job => JobsFine) /\ row \in [Parts -> OKPart]
  BY Parted, Writes DEF Sound, JobsFine
<1>2. CASE Delete
  BY <1>1, <1>2, Runs, Wrote, Parted DEF Delete
<1>3. CASE Age
  <2>1. scene' = scene /\ clock' \in {"before", "due", "late", "old"} /\ (UNCHANGED faults \/ Fault)
    BY <1>3 DEF Age
  <2>2. UNCHANGED <<settings, owner, run, row, stale, open, provider, replies, job, missed>>
    BY <1>3 DEF Age
  <2>3. faults' \in 0..scene'.faults
    BY <1>1, <2>1, Faults DEF Others
  <2>4. Others'
    BY <1>1, <2>1, <2>2, <2>3 DEF Others, provider
  <2> QED BY <1>1, <2>2, <2>4, Parted
<1>4. CASE RetryTime
  <2>1. "note" \in Parts /\ "now" \in Nexts
    BY DEF Parts, Nexts
  <2>2. row' \in [Parts -> OKPart]
    BY <1>1, <1>4, <2>1, NextTimes DEF RetryTime
  <2>3. UNCHANGED <<quiet, faults>> /\ UNCHANGED <<stale, job>>
    BY <1>4 DEF RetryTime, quiet, provider
  <2>4. Others' /\ RowsFine
    BY <2>2, <2>3, Quiet DEF RowsFine, Sound, TypeOK
  <2> QED BY <1>1, <2>3, <2>4, Parted
<1>5. CASE Stale
  <2>1. row' = row /\ job' = job /\ stale' = TRUE /\ UNCHANGED quiet
    BY <1>5 DEF Stale, quiet, provider
  <2>2. UNCHANGED faults \/ Fault
    BY <1>5 DEF Stale
  <2> QED BY <1>1, <2>1, <2>2, Quiet, Parted DEF RowsFine
<1>6. CASE WindowEnds
  BY <1>1, <1>6, Parted DEF WindowEnds, Others, provider
<1>7. CASE \E s \in {"saved", "off"} : Configure(s)
  BY <1>1, <1>7, Parted DEF Configure, Others, provider
<1>8. CASE OwnerChanges
  <2>1. owner' \in BOOLEAN /\ (UNCHANGED faults \/ Fault)
    BY <1>8 DEF OwnerChanges
  <2>2. UNCHANGED <<scene, clock, settings, run, row, stale, open, provider, replies, job, missed>>
    BY <1>8 DEF OwnerChanges
  <2>3. faults' \in 0..scene'.faults
    BY <1>1, <2>1, <2>2, Faults DEF Others
  <2>4. Others'
    BY <1>1, <2>1, <2>2, <2>3 DEF Others, provider
  <2> QED BY <1>1, <2>2, <2>4, Parted
<1> QED BY <1>2, <1>3, <1>4, <1>5, <1>6, <1>7, <1>8

LEMMA InitSound == Init => Sound
<1> SUFFICES ASSUME Init PROVE Sound
  OBVIOUS
<1>1. scene.faults \in Nat
  BY ScenesAssumption DEF Init
<1>2. Others
  <2>1. run \in Run /\ reached \in [Parts -> Nat] /\ lost \in [Parts -> Nat]
    BY DEF Init, Run, RunStatuses
  <2>2. replies \in 0..MaxReplies /\ faults \in 0..scene.faults
    <3>1. replies = 0 /\ faults = 0
      BY DEF Init
    <3> QED BY <1>1, <3>1
  <2> QED BY <2>1, <2>2 DEF Init, Others
<1>3. row \in [Parts -> OKPart] /\ row \in [Parts -> Part] /\ stale \in BOOLEAN
  BY NoRows DEF Init
<1>4. job \in [Jobs -> OKJob] /\ job \in [Jobs -> Job]
  BY IdleJob DEF Init, OKJob
<1> QED BY <1>2, <1>3, <1>4, Parted DEF Sound

LEMMA NextSound == Sound /\ [Next]_vars => Sound'
<1> SUFFICES ASSUME Sound, [Next]_vars PROVE Sound'
  OBVIOUS
<1>1. CASE \E h \in Jobs : Step(h) \/ Fails(h)
  BY <1>1, StepFine, FailsFine
<1>2. CASE \E h \in Tickers \cap scene.jobs : Tick(h) \/ Miss(h) \/ Expire(h)
  BY <1>2, StartFine DEF Jobs
<1>3. CASE \E h \in Handlers \cap scene.jobs :
        \/ "test" \in scene.requests /\ Test(h)
        \/ "cancel" \in scene.requests /\ Cancel(h)
        \/ "retry" \in scene.requests /\ \E p \in Parts : Retry(h, p)
        \/ "reply" \in scene.requests /\ Reply(h)
        \/ \E m \in mail, event \in scene.events : Callback(h, m, event)
  <2>1. scene.events \subseteq Events
    BY ScenesAssumption DEF Sound, TypeOK
  <2> QED BY <1>3, <2>1, StartFine DEF Jobs
<1>4. CASE \/ "delete" \in scene.requests /\ Delete
           \/ "configure" \in scene.requests /\ \E s \in {"saved", "off"} : Configure(s)
           \/ "owner" \in scene.requests /\ OwnerChanges
           \/ Age \/ RetryTime \/ Stale \/ WindowEnds
  BY <1>4, WorldFine
<1>5. CASE UNCHANGED vars
  <2>1. UNCHANGED <<quiet, faults>> /\ UNCHANGED <<row, stale, job>>
    BY <1>5 DEF vars, quiet
  <2> QED BY <2>1, Quiet, Writes, Parted DEF JobsFine, Sound
<1> QED BY <1>1, <1>2, <1>3, <1>4, <1>5 DEF Next

LEMMA AlwaysSound == Spec => []Sound
BY InitSound, NextSound, PTL DEF Spec

\* Every variable keeps its type: attempts stay within the limit on every path that claims
\* a message, the scheduler's, a retry's and a reply's; and every message the provider
\* answered was claimed under an attempt (claimPart and its callers).
THEOREM TypeCorrect == Spec => []TypeOK
<1>1. Sound => TypeOK
  BY DEF Sound
<1> QED BY <1>1, AlwaysSound, PTL

--------------------------------------------------------------------------------
(* A cancelled occurrence *)

Untouched == reached = [p \in Parts |-> 0] /\ mail = {}
SkippedRow == [p \in Parts |-> NewPart("SKIPPED")]
Early == {"idle", "create", "cancel"}
Harmless == {"idle", "create", "rows", "cancel", "cancel rows", "recover", "select"}

\* Before its run exists nothing is done about an occurrence but to create or to cancel
\* it; after it was cancelled, its messages are skipped and no job goes on to one of them.
None == row = NoRow /\ Untouched /\ \A h \in Jobs : job[h].at \in Early
Off == row \in {NoRow, SkippedRow} /\ Untouched /\ \A h \in Jobs : job[h].at \in Harmless
Cancelled == (run.status = "none" => None) /\ (run.status = "CANCELLED" => Off)
CInv == Sound /\ Cancelled

LEMMA RowsAre ==
    /\ \A p \in Parts : NoRow[p] = NewPart("none") /\ SkippedRow[p] = NewPart("SKIPPED")
    /\ "note" \in Parts /\ FreeForm \subseteq Parts
BY DEF NoRow, SkippedRow, Parts

\* What the messages of an occurrence without a run, or cancelled, are like.
LEMMA Quiescent ==
    ASSUME row \in {NoRow, SkippedRow}
    PROVE  /\ \A p \in Parts : row[p].status \in {"none", "SKIPPED"} /\ row[p].attempts = 0 /\ row[p].next = "never"
           /\ Waiting = {}
           /\ row = NoRow => ~ HasRow
           /\ row = SkippedRow => HasRow
<1>1. \A p \in Parts : row[p] = NewPart("none") \/ row[p] = NewPart("SKIPPED")
  BY RowsAre
<1>2. \A p \in Parts : row[p].status \in {"none", "SKIPPED"} /\ row[p].attempts = 0 /\ row[p].next = "never"
  BY <1>1 DEF NewPart
<1>3. Waiting = {}
  BY <1>2, RowsAre DEF Waiting
<1>4. row = NoRow => ~ HasRow
  BY RowsAre DEF HasRow, NewPart
<1>5. row = SkippedRow => HasRow
  BY RowsAre DEF HasRow, NewPart
<1> QED BY <1>2, <1>3, <1>4, <1>5

\* A job that is at work on the occurrence means that there is a run and nobody cancelled it.
LEMMA AtWork ==
    ASSUME Cancelled, NEW h \in Jobs, job[h].at \notin Harmless
    PROVE  run.status \notin {"none", "CANCELLED"}
BY DEF Cancelled, None, Off, Early, Harmless

LEMMA Standing ==
    ASSUME run.status \notin {"none", "CANCELLED"}, run'.status = run.status
    PROVE  Cancelled'
BY DEF Cancelled

\* Where a step leaves its job.
LEMMA Moved ==
    ASSUME Sound, NEW h \in Jobs, NEW w, job' = [job EXCEPT ![h] = w]
    PROVE  \A g \in Jobs : job'[g] = IF g = h THEN w ELSE job[g]
BY DEF Sound

\* A step that writes neither the run nor the messages, nor sends anything, and leaves its job
\* at one of these.
LEMMA Aside ==
    ASSUME CInv, NEW h \in Jobs, UNCHANGED <<run, row, reached, mail>>,
           \A g \in Jobs \ {h} : job'[g] = job[g],
           run.status = "none" => job'[h].at \in Early,
           run.status = "CANCELLED" => job'[h].at \in Harmless
    PROVE  Cancelled'
BY DEF CInv, Cancelled, None, Off, Untouched

Working == {"test rows", "mark", "owner", "close", "read", "claim", "note", "due", "take", "free", "post", "record",
            "fallback", "sum", "store", "missed rows", "reply owner", "reply claim", "interrupted", "retry", "hook"}

LEMMA WorkingCancelled ==
    ASSUME CInv, NEW h \in Jobs, Step(h) \/ Fails(h), job[h].at \in Working
    PROVE  Cancelled'
<1>1. run.status \notin {"none", "CANCELLED"}
  BY AtWork DEF CInv, Working, Harmless
<1>2. CASE Store(h)
  <2>1. job[h].sum.status \notin {"none", "CANCELLED"}
    BY <1>2, JobWrites DEF CInv, Store, At, OKJob
  <2>2. run'.status = job[h].sum.status
    BY <1>2, Runs DEF CInv, Store, Run
  <2> QED BY <2>1, <2>2 DEF Cancelled
<1>3. CASE ~ Store(h)
  <2>1. run' = run
    BY <1>3 DEF Step, Fails, Working, At, Note, Due, Take, Free, Post, Record, Fallback, Sum, Create, Rows, Mark, Owner,
                Read, Claim, MissedRows, TestRows, CancelRun, CancelRows, RetryClaim, Recover, Select, ReplyOwner,
                ReplyClaim, Interrupt, Hook, NotBuilt, NoAnswer, NotRecorded, OwnerGone, Throw, Stop
  <2> QED BY <1>1, <2>1, Standing
<1> QED BY <1>2, <1>3

LEMMA IdleAt == Idle.at = "idle" /\ "idle" \in Early /\ "idle" \in Harmless
BY DEF Idle, Early, Harmless

LEMMA EndCancelled ==
    ASSUME CInv, NEW h \in Jobs, End(h), UNCHANGED <<run, row, reached, mail>>
    PROVE  Cancelled'
<1>1. \A g \in Jobs : job'[g] = IF g = h THEN Idle ELSE job[g]
  BY Moved DEF CInv, End
<1> QED BY <1>1, Aside, IdleAt

LEMMA GotoAt ==
    ASSUME Sound, NEW h \in Jobs, NEW phase, Goto(h, phase)
    PROVE  job'[h].at = phase /\ \A g \in Jobs \ {h} : job'[g] = job[g]
BY JobWrites DEF Goto, Sound, Job

LEMMA CreateCancelled == ASSUME CInv, NEW h \in Jobs, Create(h) PROVE Cancelled'
<1>1. job'[h].at = "rows" /\ \A g \in Jobs \ {h} : job'[g] = job[g]
  BY GotoAt DEF CInv, Create
<1>2. run.status = "none" => run'.status = "PENDING"
  BY Runs DEF CInv, Create, Run
<1>3. run.status # "none" => run' = run
  BY DEF Create
<1>4. UNCHANGED <<row, reached, mail>>
  BY DEF Create, provider
<1>5. CASE run.status = "none"
  BY <1>2, <1>5 DEF Cancelled
<1>6. CASE run.status # "none"
  BY <1>1, <1>3, <1>4, <1>6, Aside DEF Harmless
<1> QED BY <1>5, <1>6

LEMMA RowsCancelled == ASSUME CInv, NEW h \in Jobs, Rows(h) PROVE Cancelled'
<1>1. run' = run /\ UNCHANGED <<reached, mail>> /\ job[h].at = "rows"
  BY DEF Rows, At, provider
<1>2. run.status # "none"
  BY <1>1 DEF CInv, Cancelled, None, Early
<1>3. CASE run.status = "CANCELLED"
  <2>1. End(h) /\ row' = row
    BY <1>3 DEF Rows
  <2> QED BY <1>1, <2>1, EndCancelled
<1>4. CASE run.status # "CANCELLED"
  BY <1>1, <1>2, <1>4, Standing
<1> QED BY <1>3, <1>4

LEMMA CancelRunCancelled == ASSUME CInv, NEW h \in Jobs, CancelRun(h) PROVE Cancelled'
<1>1. UNCHANGED <<row, reached, mail>>
  BY DEF CancelRun, provider
<1>2. CASE run.status = "none"
  <2>1. run'.status = "CANCELLED" /\ Goto(h, "cancel rows")
    BY <1>2, Runs DEF CInv, CancelRun, Run
  <2>2. job'[h].at = "cancel rows" /\ \A g \in Jobs \ {h} : job'[g] = job[g]
    BY <2>1, GotoAt DEF CInv
  <2>3. None
    BY <1>2 DEF CInv, Cancelled
  <2>4. Off'
    BY <1>1, <2>2, <2>3 DEF None, Off, Untouched, Early, Harmless
  <2> QED BY <2>1, <2>4 DEF Cancelled
<1>3. CASE run.status # "none"
  BY <1>1, <1>3, EndCancelled DEF CancelRun
<1> QED BY <1>2, <1>3

LEMMA CancelRowsCancelled == ASSUME CInv, NEW h \in Jobs, CancelRows(h) PROVE Cancelled'
<1>1. run' = run /\ UNCHANGED <<reached, mail>> /\ job[h].at = "cancel rows" /\ End(h)
  BY DEF CancelRows, At, provider
<1>2. run.status # "none"
  BY <1>1 DEF CInv, Cancelled, None, Early
<1>3. \A g \in Jobs : job'[g] = IF g = h THEN Idle ELSE job[g]
  BY <1>1, Moved DEF CInv, End
<1>4. CASE run.status = "CANCELLED"
  <2>1. row' \in {NoRow, SkippedRow}
    BY <1>4 DEF CancelRows, Write, SkippedRow, CInv, Cancelled, Off
  <2>2. Off'
    BY <1>1, <1>3, <1>4, <2>1, IdleAt DEF CInv, Cancelled, Off, Untouched
  <2> QED BY <1>1, <1>4, <2>2 DEF Cancelled
<1>5. CASE run.status # "CANCELLED"
  BY <1>1, <1>2, <1>5, Standing
<1> QED BY <1>4, <1>5

\* A reply finds nothing to close and nothing to send of a cancelled occurrence.
LEMMA ReplyCancelled == ASSUME CInv, NEW h \in Jobs, Recover(h) \/ Select(h) PROVE Cancelled'
<1>1. run' = run /\ UNCHANGED <<reached, mail>> /\ job[h].at \in {"recover", "select"}
  BY DEF Recover, Select, At, provider
<1>2. run.status # "none"
  BY <1>1 DEF CInv, Cancelled, None, Early
<1>3. CASE run.status = "CANCELLED"
  <2>1. \A p \in Parts : row[p].status # "SENDING"
    BY <1>3, Quiescent DEF CInv, Cancelled, Off
  <2>2. CASE Recover(h)
    <3>1. Goto(h, "select") /\ row' = row
      BY <2>1, <2>2 DEF Recover
    <3>2. job'[h].at = "select" /\ \A g \in Jobs \ {h} : job'[g] = job[g]
      BY <3>1, GotoAt DEF CInv
    <3> QED BY <1>1, <1>2, <3>1, <3>2, Aside DEF Harmless
  <2>3. CASE Select(h)
    <3>1. End(h) /\ row' = row
      BY <1>3, <2>3 DEF Select
    <3> QED BY <1>1, <3>1, EndCancelled
  <2> QED BY <2>2, <2>3
<1>4. CASE run.status # "CANCELLED"
  BY <1>1, <1>2, <1>4, Standing
<1> QED BY <1>3, <1>4

LEMMA StepCancelled == ASSUME CInv, NEW h \in Jobs, Step(h) \/ Fails(h) PROVE Cancelled'
<1>1. CASE job[h].at \in Working
  BY <1>1, WorkingCancelled
<1>2. CASE Stop(h)
  BY <1>2, EndCancelled DEF Stop, provider
<1>3. CASE Create(h) \/ Rows(h) \/ CancelRun(h) \/ CancelRows(h) \/ Recover(h) \/ Select(h)
  BY <1>3, CreateCancelled, RowsCancelled, CancelRunCancelled, CancelRowsCancelled, ReplyCancelled
<1>4. CASE Throw(h)
  <2>1. job[h].at \in {"due", "record"}
    BY <1>4 DEF Throw
  <2> QED BY <1>1, <2>1 DEF Working
<1>5. CASE \/ Note(h) \/ Due(h) \/ Take(h) \/ Free(h) \/ Post(h) \/ Record(h) \/ Fallback(h) \/ Sum(h) \/ Store(h)
           \/ Mark(h) \/ Owner(h) \/ Read(h) \/ Claim(h) \/ MissedRows(h) \/ TestRows(h) \/ RetryClaim(h)
           \/ ReplyOwner(h) \/ ReplyClaim(h) \/ Interrupt(h) \/ Hook(h) \/ NotBuilt(h) \/ NoAnswer(h) \/ NotRecorded(h) \/ OwnerGone(h)
  <2>1. job[h].at \in Working
    BY <1>5 DEF At, Note, Due, Take, Free, Post, Record, Fallback, Sum, Store, Mark, Owner, Read, Claim, MissedRows, TestRows,
                RetryClaim, ReplyOwner, ReplyClaim, Interrupt, Hook, NotBuilt, NoAnswer, NotRecorded, OwnerGone, Working
  <2> QED BY <1>1, <2>1
<1> QED BY <1>2, <1>3, <1>4, <1>5 DEF Step, Fails

LEMMA StartAt ==
    ASSUME Sound, NEW h \in Jobs, NEW w \in Job, Begin(h, w)
    PROVE  job'[h] = w /\ \A g \in Jobs \ {h} : job'[g] = job[g]
BY DEF Begin, Sound

LEMMA StartCancelled ==
    ASSUME CInv, NEW h \in Jobs,
           \/ Tick(h) \/ Miss(h) \/ Expire(h) \/ Test(h) \/ Cancel(h) \/ Reply(h)
           \/ \E p \in Parts : Retry(h, p)
           \/ \E m \in mail, e \in Events : Callback(h, m, e)
    PROVE  Cancelled'
<1>1. CASE Tick(h)
  <2>1. Begin(h, [Idle EXCEPT !.op = "tick", !.at = "create", !.takes = FreeForm])
        /\ UNCHANGED <<run, row, reached, mail>>
    BY <1>1 DEF Tick, provider
  <2>2. [Idle EXCEPT !.op = "tick", !.at = "create", !.takes = FreeForm].at = "create"
    BY DEF Idle
  <2>3. job'[h].at = "create" /\ \A g \in Jobs \ {h} : job'[g] = job[g]
    BY <2>1, <2>2 DEF Begin, CInv, Sound
  <2> QED BY <2>1, <2>3, Aside DEF Early, Harmless
<1>2. CASE Cancel(h)
  <2>1. Begin(h, [Idle EXCEPT !.op = "cancel", !.at = "cancel"]) /\ UNCHANGED <<run, row, reached, mail>>
    BY <1>2 DEF Cancel, provider
  <2>2. [Idle EXCEPT !.op = "cancel", !.at = "cancel"].at = "cancel"
    BY DEF Idle
  <2>3. job'[h].at = "cancel" /\ \A g \in Jobs \ {h} : job'[g] = job[g]
    BY <2>1, <2>2 DEF Begin, CInv, Sound
  <2> QED BY <2>1, <2>3, Aside DEF Early, Harmless
<1>3. CASE Miss(h)
  <2>1. run'.status = "FAILED"
    BY <1>3, Runs DEF CInv, Miss, Run
  <2> QED BY <2>1 DEF Cancelled
<1>4. CASE Test(h)
  <2>1. run'.status = "SENDING"
    BY <1>4, Runs DEF CInv, Test, Run
  <2> QED BY <2>1 DEF Cancelled
<1>5. CASE Reply(h)
  <2>1. Begin(h, [Idle EXCEPT !.op = "reply", !.at = "recover"]) /\ UNCHANGED <<run, row, reached, mail>> /\ HasRow
    BY <1>5 DEF Reply, provider
  <2>2. [Idle EXCEPT !.op = "reply", !.at = "recover"].at = "recover"
    BY DEF Idle
  <2>3. job'[h].at = "recover" /\ \A g \in Jobs \ {h} : job'[g] = job[g]
    BY <2>1, <2>2 DEF Begin, CInv, Sound
  <2>4. run.status # "none"
    BY <2>1, Quiescent DEF CInv, Cancelled, None
  <2> QED BY <2>1, <2>3, <2>4, Aside DEF Harmless
<1>6. CASE Expire(h) \/ \E p \in Parts : Retry(h, p)
  <2>1. run.status # "CANCELLED"
    BY <1>6, Quiescent DEF Expire, Retry, CInv, Cancelled, Off
  <2>2. run.status # "none"
    BY <1>6, Quiescent DEF Expire, Retry, CInv, Cancelled, None
  <2>3. run' = run
    BY <1>6 DEF Expire, Retry
  <2> QED BY <2>1, <2>2, <2>3, Standing
<1>7. CASE \E m \in mail, e \in Events : Callback(h, m, e)
  <2>1. run' = run /\ mail # {}
    BY <1>7 DEF Callback
  <2>2. run.status \notin {"none", "CANCELLED"}
    BY <2>1 DEF CInv, Cancelled, None, Off, Untouched
  <2> QED BY <2>1, <2>2, Standing
<1> QED BY <1>1, <1>2, <1>3, <1>4, <1>5, <1>6, <1>7

LEMMA WorldCancelled ==
    ASSUME CInv,
           \/ Delete \/ Age \/ RetryTime \/ Stale \/ WindowEnds \/ OwnerChanges
           \/ \E s \in {"saved", "off"} : Configure(s)
    PROVE  Cancelled'
<1>1. run'.status = run.status
  BY Runs DEF CInv, Delete, Age, RetryTime, Stale, WindowEnds, OwnerChanges, Configure, Run
<1>2. CASE RetryTime
  <2>1. "note" \in Parts /\ row["note"].next = "later"
    BY <1>2 DEF RetryTime, Parts
  <2>2. run.status \notin {"none", "CANCELLED"}
    BY <2>1, Quiescent DEF CInv, Cancelled, None, Off
  <2> QED BY <1>1, <2>2, Standing
<1>3. CASE ~ RetryTime
  <2>1. UNCHANGED <<row, reached, mail, job>>
    BY <1>3 DEF Delete, Age, Stale, WindowEnds, OwnerChanges, Configure, provider
  <2> QED BY <1>1, <2>1 DEF CInv, Cancelled, None, Off, Untouched
<1> QED BY <1>2, <1>3

LEMMA InitCancelled == Init => CInv
<1> SUFFICES ASSUME Init PROVE CInv
  OBVIOUS
<1>1. run.status = "none" /\ row = NoRow /\ Untouched
  BY DEF Init, Untouched
<1>2. \A h \in Jobs : job[h].at \in Early
  BY IdleAt DEF Init
<1> QED BY <1>1, <1>2, InitSound DEF CInv, Cancelled, None

LEMMA NextCancelled == CInv /\ [Next]_vars => CInv'
<1> SUFFICES ASSUME CInv, [Next]_vars PROVE Cancelled'
  BY NextSound DEF CInv
<1>1. CASE \E h \in Jobs : Step(h) \/ Fails(h)
  BY <1>1, StepCancelled
<1>2. CASE \E h \in Tickers \cap scene.jobs : Tick(h) \/ Miss(h) \/ Expire(h)
  BY <1>2, StartCancelled DEF Jobs
<1>3. CASE \E h \in Handlers \cap scene.jobs :
        \/ "test" \in scene.requests /\ Test(h)
        \/ "cancel" \in scene.requests /\ Cancel(h)
        \/ "retry" \in scene.requests /\ \E p \in Parts : Retry(h, p)
        \/ "reply" \in scene.requests /\ Reply(h)
        \/ \E m \in mail, event \in scene.events : Callback(h, m, event)
  <2>1. scene.events \subseteq Events
    BY ScenesAssumption DEF CInv, Sound, TypeOK
  <2> QED BY <1>3, <2>1, StartCancelled DEF Jobs
<1>4. CASE \/ "delete" \in scene.requests /\ Delete
           \/ "configure" \in scene.requests /\ \E s \in {"saved", "off"} : Configure(s)
           \/ "owner" \in scene.requests /\ OwnerChanges
           \/ Age \/ RetryTime \/ Stale \/ WindowEnds
  BY <1>4, WorldCancelled
<1>5. CASE UNCHANGED vars
  BY <1>5 DEF vars, CInv, Cancelled, None, Off, Untouched
<1> QED BY <1>1, <1>2, <1>3, <1>4, <1>5 DEF Next

\* A cancelled occurrence "is therefore never claimed, sent or regenerated": no message of
\* it is ever attempted or accepted by the provider, also when a tick that read the
\* settings before the cancellation goes on, and however many replies, retries, callbacks
\* and stops there are (cancelOccurrence, processOccurrence, sendPendingOnReply).
THEOREM CancelledNotSent == Spec => []CancelledIsNotSent
<1>1. CInv => CancelledIsNotSent
  BY Quiescent DEF CInv, Cancelled, Off, Untouched, CancelledIsNotSent
<1> QED BY <1>1, InitCancelled, NextCancelled, PTL DEF Spec

--------------------------------------------------------------------------------
(* No message twice *)

\* The statuses a message can be claimed in, and the order a job goes through the messages.
Claimable == {"none", "PENDING", "FAILED", "WAITING_FOR_REPLY"}
Sending == {"note", "free", "post", "record"}
Later(p, q) == (p = "note" /\ q \in FreeForm) \/ (p = "txt" /\ q = "doc")

\* Messages a job still comes to.
Ahead(j, p) ==
    \/ j.at = "due" /\ (p = j.part \/ Later(j.part, p))
    \/ j.at \in Sending \cup {"take"} /\ ~ j.again /\ Later(j.part, p)

\* A job owns the message it is sending, those it claimed and still comes to, and the
\* template it left out until it is known that it need not be sent after all.
Owns(j, p) ==
    \/ j.at \in Sending /\ j.part = p
    \/ p \in j.adopts /\ j.op # "test" /\ (j.at = "reply claim" \/ Ahead(j, p))
    \/ p = "note" /\ j.skipped /\ j.at # "interrupted"
\* A job about to write that a message is undeliverable.
Fatal(j, p) == j.at = "hook" /\ j.part = p /\ j.event = "FAILED"

Shape(j) ==
    /\ j.at \in {"due", "take", "free"} => j.part \in FreeForm
    /\ j.at \in {"note", "test rows"} => j.part = "note"
    /\ j.at = "test rows" => j.op = "test"
    /\ j.again => j.at \in {"post", "record", "interrupted"} /\ j.part = "note"
    /\ j.skipped => j.at \in {"due", "take", "free", "post", "record", "fallback", "interrupted"}
    /\ j.at = "fallback" => j.skipped
    /\ j.skipped /\ j.part = "note" /\ j.at \in {"post", "record"} => j.again
    /\ j.at = "retry" => j.seen[j.part].status \in Claimable
    /\ j.op = "test" => j.at \in {"test rows", "note", "due", "take", "free", "post", "record", "fallback", "sum", "store",
                                "select"}
    /\ j.adopts # {} => j.at \in {"reply claim", "due", "take", "free", "post", "record", "note", "fallback",
                                  "interrupted", "test rows"}

\* Only one user at a time retries a test or sends one.
Calm == scene.kind = "TEST" /\ "retry" \in scene.requests => \A g, h \in Handlers \cap scene.jobs : g = h

\* Jobs that may claim or create messages, and those that need none.
Busy == Phases \ {"idle", "recover", "select", "sum", "store", "hook"}
Before == {"idle", "create", "rows", "cancel", "cancel rows", "missed rows", "test rows"}

\* Where the jobs are: while a test is being sent no other job claims a message, so that what
\* the test still comes to was not attempted; and messages are created together.
Placed ==
    /\ \A h \in Jobs : Shape(job[h])
    /\ \A h \in Jobs : job[h].at \in {"create", "cancel"} => scene.kind = "SCHEDULED"
    /\ \A h \in Jobs : job[h].op = "test" => h \in Handlers \cap scene.jobs /\ scene.kind = "TEST"
    /\ \A g, h \in Jobs : g # h /\ job[g].op = "test" => job[h].at \notin Busy
    /\ ~ HasRow => row = NoRow
    /\ \A h \in Jobs : job[h].at \notin Before => HasRow
    /\ \A h \in Jobs : job[h].at = "test rows" => ~ HasRow
    /\ \A h \in Jobs, p \in FreeForm : job[h].op = "test" /\ Ahead(job[h], p) => row[p].attempts = 0

\* What an owner knows of its message: it holds the last attempt, which nobody has recorded
\* and the provider has not taken, unless it is about to record just that.
Fit(q) == q.attempts >= 1 /\ q.id < q.attempts /\ q.status \notin Claimable
Knows(j, p, k, sent) ==
    /\ sent => j.at = "record" /\ j.part = p /\ j.answer = "accepted"
    /\ j.at \in Sending /\ j.part = p => j.attempt = k
    /\ p = "note" /\ j.skipped => k = 1

Mail(p) == {m \in mail : m[1] = p}
Last(p) == <<p, row[p].attempts>>
Bounce(m) == <<m, "FAILED">> \in told

\* The provider took no more than it answered or left unanswered, and all it answered but the
\* last attempt it reported undeliverable; a message that can be claimed has no owner, and
\* the provider reported what it took of it undeliverable.
Tally(p) ==
    /\ reached[p] = Cardinality(Mail(p)) + lost[p]
    /\ \A m \in mail : m[1] = p => m[2] <= row[p].attempts /\ (m[2] < row[p].attempts => Bounce(m))
    /\ row[p].id <= row[p].attempts
    /\ row[p].status \in Claimable /\ Last(p) \in mail => Bounce(Last(p))
Owned(p) ==
    /\ \A h \in Jobs : Owns(job[h], p) => Fit(row[p]) /\ Knows(job[h], p, row[p].attempts, Last(p) \in mail)
    /\ \A g, h \in Jobs : Owns(job[g], p) /\ Owns(job[h], p) => g = h
Bounces(p) ==
    /\ \A h \in Jobs : Fatal(job[h], p) =>
         row[p].attempts >= 1 /\ row[p].id = row[p].attempts /\ row[p].status \notin Claimable /\ Bounce(Last(p))
    /\ \A g, h \in Jobs : Fatal(job[g], p) /\ Fatal(job[h], p) => g = h
Counted(p) == Tally(p) /\ Owned(p) /\ Bounces(p)
Once == Sound /\ Calm /\ Placed /\ \A p \in Parts : Counted(p)

Rest(h) == \A g \in Jobs \ {h} : job'[g] = job[g]

LEMMA JobNext ==
    ASSUME NEW h \in Jobs, NEW p \in Parts
    PROVE  /\ Owns(job[h], p)' <=> Owns(job'[h], p)
           /\ Fatal(job[h], p)' <=> Fatal(job'[h], p)
           /\ Ahead(job[h], p)' <=> Ahead(job'[h], p)
           /\ Shape(job[h])' <=> Shape(job'[h])
BY DEF Owns, Fatal, Ahead, Shape

LEMMA Texts == "note" \in Parts /\ "txt" \in Parts /\ "doc" \in Parts /\ FreeForm \subseteq Parts /\ "note" \notin FreeForm
               /\ Parts = {"note", "txt", "doc"} /\ FreeForm = {"txt", "doc"}
BY DEF Parts, FreeForm

LEMMA RowTypes ==
    ASSUME Sound, NEW p \in Parts
    PROVE  row[p] \in Part /\ row[p].attempts \in Nat /\ row[p].id \in Nat /\ row[p] \in OKPart
BY DEF Sound, OKPart, Part

LEMMA MailTypes ==
    ASSUME Sound, NEW m \in mail
    PROVE  m \in Message /\ m[1] \in Parts /\ m[2] \in Nat /\ m[2] >= 1 /\ m = <<m[1], m[2]>>
<1>1. m \in Parts \X (1..MaxTries)
  BY DEF Sound, TypeOK, Message
<1>2. PICK p \in Parts, i \in 1..MaxTries : m = <<p, i>>
  BY <1>1
<1> QED BY <1>1, <1>2 DEF Message

--------------------------------------------------------------------------------
(* What the jobs do to one message *)

\* A step that does not count for a message.
LEMMA Stays ==
    ASSUME Once, NEW h \in Jobs, Rest(h), NEW p \in Parts,
           reached'[p] = reached[p], lost'[p] = lost[p], Mail(p)' = Mail(p), told \subseteq told',
           row'[p].attempts = row[p].attempts, row'[p].id = row[p].id,
           row'[p].status \in Claimable => row[p].status \in Claimable,
           Owns(job'[h], p) => Owns(job[h], p) /\ Knows(job'[h], p, row[p].attempts, Last(p) \in mail),
           Fatal(job'[h], p) => Fatal(job[h], p)
    PROVE  Counted(p)'
<1>1. Tally(p) /\ Owned(p) /\ Bounces(p)
  BY DEF Once, Counted
<1>2. Last(p)' = Last(p) /\ (\A m : Bounce(m) => Bounce(m)')
  BY DEF Last, Bounce
<1>3. /\ Last(p) \in mail <=> Last(p) \in Mail(p)
      /\ Last(p)' \in mail' <=> Last(p)' \in Mail(p)'
      /\ \A m \in mail' : m[1] = p => m \in Mail(p)
  BY DEF Last, Mail
<1>4. Tally(p)'
  BY <1>1, <1>2, <1>3 DEF Tally, Mail
<1>5. \A g \in Jobs : Owns(job'[g], p) => Owns(job[g], p)
  BY DEF Rest
<1>6. \A g \in Jobs : Owns(job'[g], p) => Knows(job'[g], p, row[p].attempts, Last(p) \in mail)
  BY <1>1 DEF Rest, Owned
<1>7. \A g \in Jobs : Owns(job'[g], p) => Fit(row'[p])
  BY <1>1, <1>5 DEF Owned, Fit
<1>8. Owned(p)'
  <2>1. \A g \in Jobs : Owns(job[g], p)' => Fit(row[p])' /\ Knows(job[g], p, row[p].attempts, Last(p) \in mail)'
    BY <1>2, <1>3, <1>6, <1>7, JobNext DEF Fit, Knows
  <2>2. \A f, g \in Jobs : Owns(job[f], p)' /\ Owns(job[g], p)' => f = g
    BY <1>1, <1>5, JobNext DEF Owned
  <2> QED BY <2>1, <2>2 DEF Owned
<1>9. \A g \in Jobs : Fatal(job'[g], p) => Fatal(job[g], p)
  BY DEF Rest
<1>10. Bounces(p)'
  BY <1>1, <1>2, <1>9, JobNext DEF Bounces
<1> QED BY <1>4, <1>8, <1>10 DEF Counted

\* A claim: a message that can be claimed has no owner, and gets one.
LEMMA Claims ==
    ASSUME Once, NEW h \in Jobs, Rest(h), NEW p \in Parts,
           UNCHANGED <<reached, mail, told, lost>>,
           row[p].status \in Claimable, row'[p] = Claimed(row[p]),
           Knows(job'[h], p, row[p].attempts + 1, FALSE), ~ Fatal(job'[h], p)
    PROVE  Counted(p)'
<1>1. Tally(p) /\ Owned(p) /\ Bounces(p)
  BY DEF Once, Counted
<1>2. row'[p].attempts = row[p].attempts + 1 /\ row'[p].id = row[p].id /\ row'[p].status = "SENDING"
  BY RowTypes DEF Claimed, Part, Once
<1>3. row[p].attempts \in Nat /\ row[p].id \in Nat
  BY RowTypes DEF Once
<1>4. Last(p)' \notin mail
  <2> SUFFICES ASSUME Last(p)' \in mail PROVE FALSE
    OBVIOUS
  <2>1. Last(p)'[1] = p /\ Last(p)'[2] = row[p].attempts + 1
    BY <1>2 DEF Last
  <2> QED BY <1>1, <1>3, <2>1 DEF Tally
<1>5. \A m \in mail : m[1] = p => m[2] <= row[p].attempts + 1 /\ (m[2] < row[p].attempts + 1 => Bounce(m))
  <2> SUFFICES ASSUME NEW m \in mail, m[1] = p
               PROVE  m[2] <= row[p].attempts + 1 /\ (m[2] < row[p].attempts + 1 => Bounce(m))
    OBVIOUS
  <2>1. m[2] \in Nat /\ m = <<p, m[2]>>
    BY MailTypes DEF Once
  <2>2. m[2] <= row[p].attempts /\ (m[2] < row[p].attempts => Bounce(m))
    BY <1>1 DEF Tally
  <2>3. m[2] = row[p].attempts => Bounce(m)
    BY <1>1, <2>1 DEF Tally, Last
  <2> QED BY <1>3, <2>1, <2>2, <2>3
<1>6. (\A m : Bounce(m)' <=> Bounce(m)) /\ Mail(p)' = Mail(p)
  BY DEF Bounce, Mail
<1>7. Tally(p)'
  BY <1>1, <1>2, <1>3, <1>5, <1>6 DEF Tally, Claimable
<1>8. \A g \in Jobs : ~ Owns(job[g], p) /\ ~ Fatal(job[g], p)
  BY <1>1 DEF Owned, Fit, Bounces
<1>9. \A g \in Jobs : (Owns(job'[g], p) => g = h) /\ ~ Fatal(job'[g], p)
  BY <1>8 DEF Rest
<1>10. Owned(p)'
  <2>1. Fit(row[p])'
    BY <1>1, <1>2, <1>3 DEF Fit, Tally, Claimable
  <2>2. Knows(job[h], p, row[p].attempts, Last(p) \in mail)'
    BY <1>2, <1>4 DEF Knows
  <2> QED BY <1>9, <2>1, <2>2, JobNext DEF Owned
<1>11. Bounces(p)'
  BY <1>9, JobNext DEF Bounces
<1> QED BY <1>7, <1>10, <1>11 DEF Counted

\* An owner is done with its message, which may be claimed again only if the provider has not
\* taken it.
LEMMA Releases ==
    ASSUME Once, NEW h \in Jobs, Rest(h), NEW p \in Parts,
           UNCHANGED <<reached, mail, told, lost>>,
           Owns(job[h], p), ~ Owns(job'[h], p), ~ Fatal(job'[h], p),
           row'[p].attempts = row[p].attempts, row'[p].id \in {row[p].id, row[p].attempts},
           row'[p].status \in Claimable => Last(p) \notin mail
    PROVE  Counted(p)'
<1>1. Tally(p) /\ Owned(p) /\ Bounces(p)
  BY DEF Once, Counted
<1>2. row[p].attempts \in Nat /\ row[p].id \in Nat
  BY RowTypes DEF Once
<1>3. Last(p)' = Last(p) /\ (\A m : Bounce(m)' <=> Bounce(m)) /\ Mail(p)' = Mail(p)
  BY DEF Last, Bounce, Mail
<1>4. Tally(p)'
  BY <1>1, <1>2, <1>3 DEF Tally
<1>5. Fit(row[p]) /\ \A g \in Jobs : Owns(job[g], p) => g = h
  BY <1>1 DEF Owned
<1>6. \A g \in Jobs : ~ Fatal(job[g], p)
  BY <1>1, <1>2, <1>5 DEF Bounces, Fit
<1>7. \A g \in Jobs : ~ Owns(job'[g], p) /\ ~ Fatal(job'[g], p)
  BY <1>5, <1>6 DEF Rest
<1> QED BY <1>4, <1>7, JobNext DEF Counted, Owned, Bounces

\* What the provider answered of a message is a finite set.
LEMMA MailFinite == ASSUME Once, NEW p \in Parts PROVE IsFiniteSet(Mail(p)) /\ Cardinality(Mail(p)) \in Nat
<1>1. Mail(p) \subseteq Message
  BY DEF Mail, Once, Sound, TypeOK
<1>2. IsFiniteSet(Message)
  <2>1. IsFiniteSet({"note"}) /\ IsFiniteSet({"txt"}) /\ IsFiniteSet({"doc"})
    BY FS_Singleton
  <2>2. IsFiniteSet({"note"} \cup {"txt"})
    BY <2>1, FS_Union
  <2>3. IsFiniteSet({"note"} \cup {"txt"} \cup {"doc"})
    BY <2>1, <2>2, FS_Union
  <2>4. Parts = {"note"} \cup {"txt"} \cup {"doc"}
    BY Texts
  <2>5. IsFiniteSet(1..MaxTries)
    BY FS_Interval, BoundsAssumption
  <2> QED BY <2>3, <2>4, <2>5, FS_Product DEF Message
<1>3. IsFiniteSet(Mail(p))
  BY <1>1, <1>2, FS_Subset
<1> QED BY <1>3, FS_CardinalityType

\* The provider takes the message that its owner transmits, whether it answers or not.
LEMMA Takes ==
    ASSUME Once, NEW h \in Jobs, Rest(h), NEW p \in Parts, UNCHANGED <<row, told>>,
           job[h].at = "post", job[h].part = p, Owns(job'[h], p), ~ Fatal(job'[h], p),
           reached'[p] = reached[p] + 1,
           \/ /\ Mail(p)' = Mail(p) \cup {Last(p)} /\ lost'[p] = lost[p]
              /\ Knows(job'[h], p, row[p].attempts, TRUE)
           \/ /\ Mail(p)' = Mail(p) /\ lost'[p] = lost[p] + 1
              /\ Knows(job'[h], p, row[p].attempts, FALSE)
    PROVE  Counted(p)'
<1>1. Tally(p) /\ Owned(p) /\ Bounces(p)
  BY DEF Once, Counted
<1>2. Owns(job[h], p)
  BY DEF Owns, Sending
<1>3. Fit(row[p]) /\ Last(p) \notin mail /\ \A g \in Jobs : Owns(job[g], p) => g = h
  <2>1. Fit(row[p]) /\ Knows(job[h], p, row[p].attempts, Last(p) \in mail)
    BY <1>1, <1>2 DEF Owned
  <2>2. Last(p) \notin mail
    BY <2>1 DEF Knows
  <2> QED BY <1>1, <1>2, <2>1, <2>2 DEF Owned
<1>4. row[p].attempts \in Nat /\ row[p].id \in Nat /\ reached[p] \in Nat /\ lost[p] \in Nat
  BY RowTypes DEF Once, Sound, TypeOK
<1>5. Last(p)' = Last(p) /\ (\A m : Bounce(m)' <=> Bounce(m))
  BY DEF Last, Bounce
<1>6. IsFiniteSet(Mail(p)) /\ Cardinality(Mail(p)) \in Nat
  BY MailFinite
<1>7. reached'[p] = Cardinality(Mail(p)') + lost'[p]
  <2>1. reached[p] = Cardinality(Mail(p)) + lost[p]
    BY <1>1 DEF Tally
  <2>2. Cardinality(Mail(p) \cup {Last(p)}) = Cardinality(Mail(p)) + 1
    BY <1>3, <1>6, FS_AddElement DEF Mail
  <2>3. lost'[p] = lost[p] => Cardinality(Mail(p)') = Cardinality(Mail(p)) + 1
    <3>1. lost[p] + 1 # lost[p]
      BY <1>4
    <3> QED BY <2>2, <3>1
  <2>4. lost'[p] # lost[p] => Cardinality(Mail(p)') = Cardinality(Mail(p)) /\ lost'[p] = lost[p] + 1
    OBVIOUS
  <2> DEFINE c == Cardinality(Mail(p))
             d == Cardinality(Mail(p)')
  <2>5. c \in Nat /\ reached[p] = c + lost[p] /\ (lost'[p] = lost[p] => d = c + 1)
        /\ (lost'[p] # lost[p] => d = c /\ lost'[p] = lost[p] + 1)
    BY <1>6, <2>1, <2>3, <2>4
  <2> HIDE DEF c, d
  <2>6. reached'[p] = d + lost'[p]
    BY <1>4, <2>5
  <2> QED BY <2>6 DEF d
<1>8. \A m \in mail' : m[1] = p => m \in Mail(p) \cup {Last(p)}
  <2>1. \A m \in mail' : m[1] = p => m \in Mail(p)'
    BY DEF Mail
  <2> QED BY <2>1
<1>9. \A m \in mail' : m[1] = p => m[2] <= row[p].attempts /\ (m[2] < row[p].attempts => Bounce(m))
  <2>1. \A m \in Mail(p) : m[2] <= row[p].attempts /\ (m[2] < row[p].attempts => Bounce(m))
    BY <1>1 DEF Tally, Mail
  <2>2. Last(p)[2] <= row[p].attempts /\ ~ (Last(p)[2] < row[p].attempts)
    BY <1>4 DEF Last
  <2> QED BY <1>8, <2>1, <2>2
<1>10. Tally(p)'
  BY <1>1, <1>3, <1>5, <1>7, <1>9 DEF Tally, Fit
<1>11. \A g \in Jobs : ~ Fatal(job[g], p)
  BY <1>1, <1>3, <1>4 DEF Bounces, Fit
<1>12. \A g \in Jobs : (Owns(job'[g], p) => g = h) /\ ~ Fatal(job'[g], p)
  BY <1>3, <1>11 DEF Rest
<1>13. Last(p)' \in mail' <=> Mail(p)' # Mail(p)
  <2>1. Last(p)' \in mail' <=> Last(p) \in Mail(p)'
    BY <1>5 DEF Last, Mail
  <2>2. Last(p) \notin Mail(p)
    BY <1>3 DEF Mail
  <2> QED BY <2>1, <2>2
<1>14. Knows(job[h], p, row[p].attempts, Last(p) \in mail)'
  <2>1. Last(p) \notin Mail(p)
    BY <1>3 DEF Mail
  <2> QED BY <1>13, <2>1 DEF Knows
<1>15. Owned(p)' /\ Bounces(p)'
  BY <1>3, <1>12, <1>14, JobNext DEF Owned, Bounces, Fit
<1> QED BY <1>10, <1>15 DEF Counted

\* The provider reports the last attempt undeliverable.
LEMMA Reports ==
    ASSUME Once, NEW h \in Jobs, Rest(h), NEW p \in Parts, UNCHANGED <<row, reached, mail, lost>>,
           ~ Bounce(Last(p)), Last(p) \in mail, row[p].id = row[p].attempts,
           told' = told \cup {<<Last(p), "FAILED">>},
           ~ Owns(job'[h], p)
    PROVE  Counted(p)'
<1>1. Tally(p) /\ Owned(p) /\ Bounces(p)
  BY DEF Once, Counted
<1>2. Last(p)' = Last(p) /\ (\A m : Bounce(m) => Bounce(m)') /\ Bounce(Last(p))' /\ Mail(p)' = Mail(p)
  BY DEF Last, Bounce, Mail
<1>3. Tally(p)'
  BY <1>1, <1>2 DEF Tally
<1>4. row[p].attempts \in Nat /\ row[p].attempts >= 1
  BY MailTypes, RowTypes DEF Once, Last
<1>5. \A g \in Jobs : ~ Owns(job[g], p) /\ ~ Fatal(job[g], p)
  BY <1>1, <1>4 DEF Owned, Fit, Bounces
<1>6. row[p].status \notin Claimable
  BY <1>1 DEF Tally
<1>7. \A g \in Jobs : ~ Owns(job'[g], p) /\ (Fatal(job'[g], p) => g = h)
  BY <1>5 DEF Rest
<1>8. Owned(p)' /\ Bounces(p)'
  BY <1>2, <1>4, <1>6, <1>7, JobNext DEF Owned, Bounces
<1> QED BY <1>3, <1>8 DEF Counted

\* That a message is undeliverable is written.
LEMMA WritesBounce ==
    ASSUME Once, NEW h \in Jobs, Rest(h), NEW p \in Parts, UNCHANGED <<reached, mail, told, lost>>,
           Fatal(job[h], p), ~ Owns(job'[h], p), ~ Fatal(job'[h], p),
           row'[p].attempts = row[p].attempts, row'[p].id = row[p].id
    PROVE  Counted(p)'
<1>1. Tally(p) /\ Owned(p) /\ Bounces(p)
  BY DEF Once, Counted
<1>2. Last(p)' = Last(p) /\ (\A m : Bounce(m)' <=> Bounce(m)) /\ Mail(p)' = Mail(p)
  BY DEF Last, Bounce, Mail
<1>3. row[p].attempts \in Nat /\ row[p].id = row[p].attempts /\ Bounce(Last(p)) /\ row[p].attempts >= 1
  BY <1>1, RowTypes DEF Bounces, Once
<1>4. Tally(p)'
  BY <1>1, <1>2, <1>3 DEF Tally
<1>5. \A g \in Jobs : ~ Owns(job[g], p) /\ (Fatal(job[g], p) => g = h)
  BY <1>1, <1>3 DEF Owned, Fit, Bounces
<1>6. \A g \in Jobs : ~ Owns(job'[g], p) /\ ~ Fatal(job'[g], p)
  BY <1>5 DEF Rest
<1> QED BY <1>4, <1>6, JobNext DEF Counted, Owned, Bounces

--------------------------------------------------------------------------------
(* Where a step leaves its job and the messages *)

Settled(h) ==
    /\ Shape(job'[h])
    /\ job'[h].at \in {"create", "cancel"} => scene.kind = "SCHEDULED"
    /\ job'[h].op = "test" => job[h].op = "test"
    /\ job'[h].at \in Busy => job[h].at \in Busy \/ scene.kind = "SCHEDULED" \/ \A g \in Jobs : job[g].op # "test"
    /\ job'[h].at \notin Before => HasRow'
    /\ job'[h].at # "test rows"
    /\ \A p \in FreeForm : job'[h].op = "test" /\ Ahead(job'[h], p) => row'[p].attempts = 0
RowsStay(h) ==
    /\ HasRow => HasRow'
    /\ ~ HasRow' => row' = row
    /\ HasRow' => HasRow \/ job[h].at \in Busy
    /\ \A p \in FreeForm : row'[p].attempts = row[p].attempts \/ job[h].at \in Busy

LEMMA PlacedStep ==
    ASSUME Once, NEW h \in Jobs, Rest(h), scene' = scene, Settled(h), RowsStay(h)
    PROVE  Placed'
<1> USE DEF Once
<1>1. \A g \in Jobs : Shape(job[g])'
  BY JobNext, Texts DEF Placed, Settled, Rest
<1>2. \A g \in Jobs : job'[g].at \in {"create", "cancel"} => scene'.kind = "SCHEDULED"
  BY DEF Placed, Settled, Rest
<1>3. \A g \in Jobs : job'[g].op = "test" => job[g].op = "test"
  BY DEF Settled, Rest
<1>4. \A g \in Jobs : job'[g].op = "test" => g \in Handlers \cap scene'.jobs /\ scene'.kind = "TEST"
  BY <1>3 DEF Placed
<1>5. \A f, g \in Jobs : f # g /\ job'[f].op = "test" => job'[g].at \notin Busy
  <2> SUFFICES ASSUME NEW f \in Jobs, NEW g \in Jobs, f # g, job'[f].op = "test" PROVE job'[g].at \notin Busy
    OBVIOUS
  <2>1. job[f].op = "test" /\ scene.kind = "TEST" /\ job[g].at \notin Busy
    BY <1>3 DEF Placed
  <2> QED BY <2>1 DEF Settled, Rest
<1>6. ~ HasRow' => row' = NoRow
  BY DEF Placed, RowsStay
<1>7. \A g \in Jobs : job'[g].at \notin Before => HasRow'
  BY DEF Placed, Settled, RowsStay, Rest
<1>8. \A g \in Jobs : job'[g].at = "test rows" => ~ HasRow'
  <2> SUFFICES ASSUME NEW g \in Jobs, job'[g].at = "test rows" PROVE ~ HasRow'
    OBVIOUS
  <2>1. g # h /\ job[g].at = "test rows" /\ job[g].op = "test"
    BY DEF Placed, Settled, Rest, Shape
  <2> QED BY <2>1 DEF Placed, RowsStay
<1>9. \A g \in Jobs, p \in FreeForm : job'[g].op = "test" /\ Ahead(job'[g], p) => row'[p].attempts = 0
  <2> SUFFICES ASSUME NEW g \in Jobs, NEW p \in FreeForm, job'[g].op = "test", Ahead(job'[g], p), g # h
               PROVE  row'[p].attempts = 0
    BY DEF Settled
  <2>1. job'[g] = job[g] /\ job[g].op = "test"
    BY DEF Rest
  <2>2. row[p].attempts = 0 /\ job[h].at \notin Busy
    BY <2>1 DEF Placed
  <2> QED BY <2>2 DEF RowsStay
<1> QED
  <2>1. \A g \in Jobs, p \in FreeForm : Ahead(job[g], p)' <=> Ahead(job'[g], p)
    BY JobNext, Texts
  <2>2. NoRow' = NoRow
    BY DEF NoRow, NewPart
  <2> QED BY <1>1, <1>2, <1>4, <1>5, <1>6, <1>7, <1>8, <1>9, <2>1, <2>2 DEF Placed

LEMMA FreeHand ==
    ASSUME NEW w, w.at \notin Sending, w.adopts = {}, ~ w.skipped
    PROVE  \A p \in Parts : ~ Owns(w, p)
BY DEF Owns

\* A step that writes none of the messages.
LEMMA Aloof ==
    ASSUME Once, NEW h \in Jobs, Rest(h), UNCHANGED <<row, reached, mail, told, lost>>,
           \A p \in Parts : Owns(job'[h], p) => Owns(job[h], p) /\ Knows(job'[h], p, row[p].attempts, Last(p) \in mail),
           \A p \in Parts : Fatal(job'[h], p) => Fatal(job[h], p)
    PROVE  RowsStay(h) /\ \A p \in Parts : Counted(p)'
<1>1. RowsStay(h)
  BY DEF RowsStay, HasRow
<1>2. \A p \in Parts : Mail(p)' = Mail(p)
  BY DEF Mail
<1> QED BY <1>1, <1>2, Stays

\* A step that writes one message, as far as the messages' places are concerned.
LEMMA OneWrite ==
    ASSUME Once, NEW h \in Jobs, NEW p \in Parts, NEW q, WritePart(p, q), HasRow, q.status # "none",
           q.attempts = row[p].attempts \/ job[h].at \in Busy
    PROVE  RowsStay(h) /\ HasRow' /\ row'[p] = q /\ \A x \in Parts \ {p} : row'[x] = row[x]
<1>1. row'[p] = q /\ \A x \in Parts \ {p} : row'[x] = row[x]
  BY DEF WritePart, Write, Once, Sound, TypeOK
<1> QED BY <1>1, Texts DEF RowsStay, HasRow

\* What an owner knows, it knows until it goes on.
LEMMA Knowledge ==
    ASSUME Once, NEW h \in Jobs, NEW p \in Parts, Owns(job[h], p)
    PROVE  Fit(row[p]) /\ Knows(job[h], p, row[p].attempts, Last(p) \in mail)
BY DEF Once, Counted, Owned

LEMMA KnowingIs ==
    ASSUME NEW j \in Job
    PROVE  LET w == Knowing(j) IN
           /\ w.at = j.at /\ w.op = j.op /\ w.part = j.part /\ w.attempt = j.attempt /\ w.adopts = j.adopts
           /\ w.takes = j.takes /\ w.skipped = j.skipped /\ w.again = j.again /\ w.answer = j.answer /\ w.seen = j.seen
           /\ w.event = j.event
BY DEF Knowing, Job

\* After a message a job goes on to the next ones.
LEMMA OnwardIs ==
    ASSUME NEW j \in Job, NEW q \in Parts, ~ j.again
    PROVE  LET w == Onward(j, q) IN
           /\ w.op = j.op /\ w.at \in {"due", "fallback", "sum"} /\ Shape(w)
           /\ \A p \in Parts : Ahead(w, p) => Later(q, p)
           /\ \A p \in Parts : Owns(w, p) => \/ p \in j.adopts /\ j.op # "test" /\ Later(q, p)
                                             \/ p = "note" /\ j.skipped
<1> DEFINE seen == IF j.op = "reply" THEN j.seen ELSE NoRow
           over == [j EXCEPT !.answer = "none", !.resent = FALSE, !.attempt = 0, !.seen = seen]
<1>1. Onward(j, q) = IF q = "doc" THEN IF j.skipped THEN [over EXCEPT !.at = "fallback"] ELSE Summing(j)
                     ELSE [over EXCEPT !.at = "due", !.part = After(q)]
  BY DEF Onward
<1>2. CASE q # "doc"
  <2> DEFINE w == [over EXCEPT !.at = "due", !.part = After(q)]
  <2>1. After(q) \in FreeForm /\ (\A p \in Parts : p = After(q) \/ Later(After(q), p) => Later(q, p))
    BY <1>2, Texts DEF After, Later
  <2>2. w.at = "due" /\ w.part = After(q) /\ w.op = j.op /\ w.adopts = j.adopts /\ w.skipped = j.skipped /\ w.again = FALSE
    BY DEF Job
  <2> HIDE DEF w
  <2>3. \A p \in Parts : Ahead(w, p) => Later(q, p)
    BY <2>1, <2>2 DEF Ahead, Sending
  <2>4. Shape(w)
    BY <2>1, <2>2 DEF Shape
  <2> QED BY <1>1, <1>2, <2>2, <2>3, <2>4 DEF Owns, Sending, w
<1>3. CASE q = "doc" /\ j.skipped
  <2> DEFINE w == [over EXCEPT !.at = "fallback"]
  <2>1. w.at = "fallback" /\ w.op = j.op /\ w.adopts = j.adopts /\ w.skipped = TRUE /\ w.again = FALSE
    BY <1>3 DEF Job
  <2> HIDE DEF w
  <2>2. \A p \in Parts : ~ Ahead(w, p)
    BY <2>1 DEF Ahead, Sending
  <2>3. Shape(w)
    BY <2>1 DEF Shape
  <2> QED BY <1>1, <1>3, <2>1, <2>2, <2>3 DEF Owns, Sending, w
<1>4. CASE q = "doc" /\ ~ j.skipped
  <2> DEFINE w == Summing(j)
  <2>1. w.at = "sum" /\ w.op = j.op /\ w.adopts = {} /\ w.skipped = FALSE /\ w.again = FALSE
    BY DEF Summing, Idle
  <2> HIDE DEF w
  <2>2. \A p \in Parts : ~ Ahead(w, p) /\ ~ Owns(w, p)
    BY <2>1 DEF Ahead, Owns, Sending
  <2>3. Shape(w)
    BY <2>1 DEF Shape
  <2> QED BY <1>1, <1>4, <2>1, <2>2, <2>3 DEF w
<1> QED BY <1>2, <1>3, <1>4

LEMMA SummingIs ==
    ASSUME NEW j \in Job
    PROVE  LET w == Summing(j) IN
           w.at = "sum" /\ w.op = j.op /\ Shape(w) /\ \A p \in Parts : ~ Ahead(w, p) /\ ~ Owns(w, p) /\ ~ Fatal(w, p)
<1> DEFINE w == Summing(j)
<1>1. w.at = "sum" /\ w.op = j.op /\ w.adopts = {} /\ w.skipped = FALSE /\ w.again = FALSE
  BY DEF Summing, Idle
<1> HIDE DEF w
<1> QED BY <1>1 DEF Ahead, Owns, Sending, Fatal, Shape, w

LEMMA IdleIs ==
    /\ Idle.at = "idle" /\ Idle.op = "none" /\ Idle.adopts = {} /\ Idle.skipped = FALSE /\ Idle.again = FALSE
    /\ Shape(Idle) /\ \A p \in Parts : ~ Ahead(Idle, p) /\ ~ Owns(Idle, p) /\ ~ Fatal(Idle, p)
<1>1. Idle.at = "idle" /\ Idle.op = "none" /\ Idle.adopts = {} /\ Idle.skipped = FALSE /\ Idle.again = FALSE
  BY DEF Idle
<1> QED BY <1>1 DEF Ahead, Owns, Sending, Fatal, Shape

\* A job that goes on from a message, with what it knows of the window or without, owns what
\* it owned of the next ones.
LEMMA Passes ==
    ASSUME Once, NEW h \in Jobs, NEW j \in Job, j \in {job[h], Knowing(job[h])}, job'[h] = Onward(j, job[h].part),
           job[h].at \in Sending \cup {"take", "due"}, ~ job[h].again
    PROVE  /\ Shape(job'[h]) /\ job'[h].op = job[h].op /\ job'[h].at \in {"due", "fallback", "sum"}
           /\ \A p \in FreeForm : job'[h].op = "test" /\ Ahead(job'[h], p) => row[p].attempts = 0 /\ p # job[h].part
           /\ \A p \in Parts : Owns(job'[h], p) =>
                Owns(job[h], p) /\ p # job[h].part /\ Knows(job'[h], p, row[p].attempts, Last(p) \in mail)
           /\ \A p \in Parts : ~ Fatal(job'[h], p)
<1> DEFINE q == job[h].part
<1>1. job[h] \in Job /\ q \in Parts
  BY DEF Once, Sound, TypeOK, Job
<1>2. j.again = job[h].again /\ j.op = job[h].op /\ j.adopts = job[h].adopts /\ j.skipped = job[h].skipped
  BY <1>1, KnowingIs
<1>3. /\ Shape(job'[h]) /\ job'[h].op = job[h].op /\ job'[h].at \in {"due", "fallback", "sum"}
      /\ \A p \in Parts : Ahead(job'[h], p) => Later(q, p)
      /\ \A p \in Parts : Owns(job'[h], p) => \/ p \in job[h].adopts /\ job[h].op # "test" /\ Later(q, p)
                                              \/ p = "note" /\ job[h].skipped
  BY <1>1, <1>2, OnwardIs
<1>4. Shape(job[h])
  BY DEF Once, Placed
<1>5. \A p \in Parts : Later(q, p) => Ahead(job[h], p) /\ p # q
  BY DEF Ahead, Later, FreeForm
<1>6. \A p \in FreeForm : job'[h].op = "test" /\ Ahead(job'[h], p) => row[p].attempts = 0 /\ p # q
  BY <1>3, <1>5, Texts DEF Once, Placed
<1>7. \A p \in Parts : Owns(job'[h], p) => Owns(job[h], p) /\ p # q
  <2>1. job[h].skipped => q # "note"
    BY <1>4, Texts DEF Shape, Sending
  <2> QED BY <1>3, <1>5, <2>1 DEF Owns, Sending
<1>8. \A p \in Parts : ~ Fatal(job'[h], p)
  BY <1>3 DEF Fatal
<1>9. ASSUME NEW p \in Parts, Owns(job'[h], p) PROVE Knows(job'[h], p, row[p].attempts, Last(p) \in mail)
  <2>1. Knows(job[h], p, row[p].attempts, Last(p) \in mail) /\ p # q
    BY <1>7, <1>9, Knowledge
  <2>2. p = "note" => job[h].skipped
    BY <1>3, <1>9 DEF Later, FreeForm
  <2> QED BY <1>3, <2>1, <2>2 DEF Knows, Sending
<1> QED BY <1>3, <1>6, <1>7, <1>8, <1>9

\* What is shown of each step.
Counts(h) == Rest(h) /\ Settled(h) /\ RowsStay(h) /\ \A p \in Parts : Counted(p)'

LEMMA BeginIs ==
    ASSUME Once, NEW h \in Jobs, NEW w, Begin(h, w)
    PROVE  job'[h] = w /\ Rest(h)
BY DEF Begin, Rest, Once, Sound, TypeOK

LEMMA JobIs ==
    ASSUME Once, NEW h \in Jobs
    PROVE  /\ job[h] \in Job /\ job[h] \in OKJob /\ job[h].part \in Parts /\ Shape(job[h])
           /\ job[h].at \notin Before => HasRow
           /\ job[h].at \in Sending \cup {"take", "due"} => job[h].at \in Busy /\ job[h].at \notin Before
BY JobWrites DEF Once, Sound, TypeOK, Job, Placed, Busy, Before, Sending, Phases

\* A job that leaves its message owns what it owned of the others.
Leaves(h) ==
    /\ Shape(job'[h]) /\ job'[h].op = job[h].op /\ job'[h].at \in {"due", "fallback", "sum"}
    /\ \A p \in FreeForm : job'[h].op = "test" /\ Ahead(job'[h], p) => row[p].attempts = 0 /\ p # job[h].part
    /\ \A p \in Parts : Owns(job'[h], p) =>
         Owns(job[h], p) /\ p # job[h].part /\ Knows(job'[h], p, row[p].attempts, Last(p) \in mail)
    /\ \A p \in Parts : ~ Fatal(job'[h], p)

LEMMA SumsUp ==
    ASSUME Once, NEW h \in Jobs, job'[h] = Summing(job[h])
    PROVE  Leaves(h)
BY JobIs, SummingIs, Texts DEF Leaves

LEMMA LeavesQuietly ==
    ASSUME Once, NEW h \in Jobs, Rest(h), Leaves(h), UNCHANGED <<row, provider>>,
           job[h].at \in Sending \cup {"take", "due"}
    PROVE  Counts(h)
<1>1. RowsStay(h) /\ \A p \in Parts : Counted(p)'
  BY Aloof DEF Leaves, provider
<1>2. HasRow' /\ job[h].at \in Busy
  BY JobIs DEF HasRow
<1>3. Settled(h)
  BY <1>2 DEF Leaves, Settled
<1> QED BY <1>1, <1>3 DEF Counts

LEMMA LeavesWriting ==
    ASSUME Once, NEW h \in Jobs, Rest(h), Leaves(h), UNCHANGED provider, job[h].at \in Sending,
           NEW q, WritePart(job[h].part, q), q.status # "none",
           q.attempts = row[job[h].part].attempts, q.id \in {row[job[h].part].id, row[job[h].part].attempts},
           q.status \in Claimable => Last(job[h].part) \notin mail
    PROVE  Counts(h)
<1>0. PICK p \in Parts : p = job[h].part
  BY JobIs
<1>1. HasRow /\ job[h].at \in Busy
  BY JobIs
<1>2. RowsStay(h) /\ HasRow' /\ row'[p] = q /\ \A x \in Parts \ {p} : row'[x] = row[x]
  BY <1>0, <1>1, OneWrite
<1>3. Settled(h)
  <2>1. \A x \in FreeForm : job'[h].op = "test" /\ Ahead(job'[h], x) => row'[x].attempts = 0
    BY <1>0, <1>2, Texts DEF Leaves
  <2> QED BY <1>1, <1>2, <2>1 DEF Leaves, Settled
<1>4. Counted(p)'
  <2>1. Owns(job[h], p) /\ ~ Owns(job'[h], p) /\ ~ Fatal(job'[h], p)
    BY <1>0 DEF Owns, Leaves
  <2>2. /\ row'[p].attempts = row[p].attempts /\ row'[p].id \in {row[p].id, row[p].attempts}
        /\ row'[p].status \in Claimable => Last(p) \notin mail
    BY <1>0, <1>2
  <2> QED BY <2>1, <2>2, Releases DEF provider
<1>5. ASSUME NEW x \in Parts \ {p} PROVE Counted(x)'
  <2>1. Mail(x)' = Mail(x) /\ row'[x] = row[x]
    BY <1>2 DEF Mail, provider
  <2>2. Owns(job'[h], x) => Owns(job[h], x) /\ Knows(job'[h], x, row[x].attempts, Last(x) \in mail)
    BY DEF Leaves
  <2>3. ~ Fatal(job'[h], x)
    BY DEF Leaves
  <2> QED BY <2>1, <2>2, <2>3, Stays DEF provider
<1>6. \A x \in Parts : Counted(x)'
  BY <1>4, <1>5
<1> QED BY <1>2, <1>3, <1>6 DEF Counts

\* A step that writes none of the messages.
LEMMA Turns ==
    ASSUME Once, NEW h \in Jobs, Rest(h), UNCHANGED <<row, provider>>, NEW w, job'[h] = w,
           Shape(w), w.op = "test" => job[h].op = "test",
           w.at \in {"create", "cancel"} => scene.kind = "SCHEDULED",
           w.at \in Busy => job[h].at \in Busy \/ scene.kind = "SCHEDULED" \/ \A g \in Jobs : job[g].op # "test",
           w.at \notin Before => HasRow, w.at # "test rows",
           \A p \in FreeForm : w.op = "test" /\ Ahead(w, p) => Ahead(job[h], p),
           \A p \in Parts : Owns(w, p) => Owns(job[h], p) /\ Knows(w, p, row[p].attempts, Last(p) \in mail),
           \A p \in Parts : ~ Fatal(w, p)
    PROVE  Counts(h)
<1>1. RowsStay(h) /\ \A p \in Parts : Counted(p)'
  BY Aloof DEF provider
<1>2. HasRow' <=> HasRow
  BY DEF HasRow
<1>3. Settled(h)
  BY <1>2 DEF Settled, Once, Placed
<1> QED BY <1>1, <1>3 DEF Counts

\* A job that goes on with its message as it is.
LEMMA Remains ==
    ASSUME Once, NEW h \in Jobs, Rest(h), UNCHANGED <<row, provider>>, NEW w, job'[h] = w,
           job[h].at \in Sending, w.at \in Sending, w.part = job[h].part, w.op = job[h].op, w.adopts = job[h].adopts,
           w.skipped = job[h].skipped, w.again = job[h].again, w.attempt = job[h].attempt,
           w.at \in {"post", "record"}, Last(w.part) \notin mail
    PROVE  Counts(h)
<1> DEFINE p == job[h].part
<1>1. p \in Parts /\ HasRow /\ job[h].at \in Busy /\ Shape(job[h])
  BY JobIs
<1>2. \A x \in Parts : (Ahead(w, x) <=> Ahead(job[h], x)) /\ (Owns(w, x) <=> Owns(job[h], x)) /\ ~ Fatal(w, x)
  BY DEF Ahead, Owns, Fatal, Sending
<1>3. Shape(w)
  BY <1>1, Texts DEF Shape, Sending
<1>4. ASSUME NEW x \in Parts, Owns(w, x) PROVE Knows(w, x, row[x].attempts, Last(x) \in mail)
  BY <1>2, <1>4, Knowledge DEF Knows
<1>5. RowsStay(h) /\ \A x \in Parts : Counted(x)'
  BY <1>2, <1>4, Aloof DEF provider
<1>6. HasRow'
  BY <1>1 DEF HasRow
<1>7. Settled(h)
  BY <1>1, <1>2, <1>3, <1>6, Texts DEF Settled, Once, Placed
<1> QED BY <1>5, <1>7 DEF Counts

--------------------------------------------------------------------------------
(* deliver *)

LEMMA Unsent ==
    ASSUME Once, NEW h \in Jobs, job[h].at \in Sending, ~ (job[h].at = "record" /\ job[h].answer = "accepted")
    PROVE  Last(job[h].part) \notin mail
BY JobIs, Knowledge DEF Owns, Knows

LEMMA NoteCounts == ASSUME Once, NEW h \in Jobs, Note(h) PROVE Counts(h)
<1>1. /\ job[h] \in Job /\ job[h].at = "note" /\ job[h].part = "note" /\ Shape(job[h]) /\ HasRow
      /\ UNCHANGED provider /\ job[h].at \in Sending /\ job[h].at \in Busy
  BY JobIs DEF Note, At, Shape, Sending, Before, provider
<1>2. Last("note") \notin mail
  BY <1>1, Unsent
<1> DEFINE k == Knowing(job[h])
<1>3. /\ k \in Job /\ k.at = "note" /\ k.op = job[h].op /\ k.part = "note" /\ k.attempt = job[h].attempt
      /\ k.adopts = job[h].adopts /\ k.skipped = job[h].skipped /\ k.again = job[h].again
  BY <1>1, KnowingIs, Known DEF Once, Sound, TypeOK
<1>4. CASE NothingToSendFirst(h)
  <2> DEFINE w == Onward(k, "note")
             v == [w EXCEPT !.skipped = TRUE]
             q == [row["note"] EXCEPT !.status = "SKIPPED", !.shut = FALSE, !.next = "never"]
  <2>1. job'[h] = v /\ Rest(h) /\ WritePart("note", q)
    BY <1>4, BeginIs DEF Note
  <2>2. ~ k.again /\ ~ k.skipped
    BY <1>1, <1>3 DEF Shape
  <2>3. /\ w \in Job /\ w.op = job[h].op /\ w.at = "due" /\ w.part = "txt" /\ w.adopts = job[h].adopts
    <3>1. w \in OKJob
      BY <1>3, Onwards, Texts
    <3>2. w.at = "due" /\ w.part = "txt" /\ w.op = k.op /\ w.adopts = k.adopts
      <4> HIDE DEF k
      <4>1. w = [[k EXCEPT !.answer = "none", !.resent = FALSE, !.attempt = 0,
                           !.seen = IF k.op = "reply" THEN @ ELSE NoRow] EXCEPT !.at = "due", !.part = After("note")]
        BY DEF Onward
      <4>2. After("note") = "txt"
        BY Texts DEF After
      <4> QED BY <1>3, <4>1, <4>2 DEF Job
    <3> QED BY <1>3, <3>1, <3>2 DEF OKJob
  <2>4. ~ w.again
    BY <1>3, <2>2 DEF Onward, Job
  <2>5. /\ v.op = job[h].op /\ v.at = "due" /\ v.part = "txt" /\ v.adopts = job[h].adopts /\ v.skipped = TRUE
        /\ v.again = w.again
    BY <2>3 DEF Job
  <2> HIDE DEF v, w
  <2>6. Shape(v) /\ \A x \in Parts : ~ Fatal(v, x)
    BY <1>1, <2>4, <2>5, Texts DEF Shape, Fatal
  <2>7. row["note"].attempts = 1 /\ job[h].attempt = 1
    <3>1. job[h].attempt <= 1 /\ job[h].attempt >= 1 /\ job[h].attempt \in Nat
      <4>1. job[h].attempt <= 1
        BY <1>4 DEF NothingToSendFirst
      <4>2. job[h].attempt >= 1 /\ job[h].attempt \in 0..MaxTries
        BY <1>1, JobIs DEF OKJob, Job
      <4> QED BY <4>1, <4>2, BoundsAssumption
    <3>2. Owns(job[h], "note")
      BY <1>1 DEF Owns
    <3> QED BY <1>1, <3>1, <3>2, Knowledge, Texts DEF Knows
  <2>8. q.status = "SKIPPED" /\ q.attempts = row["note"].attempts /\ q.id = row["note"].id
    BY RowTypes, Texts DEF Once, Part
  <2> HIDE DEF q
  <2>9. RowsStay(h) /\ HasRow' /\ row'["note"] = q /\ \A x \in Parts \ {"note"} : row'[x] = row[x]
    BY <1>1, <2>1, <2>8, OneWrite, Texts
  <2>10. \A x \in FreeForm : Ahead(job[h], x) /\ (Owns(v, x) => Owns(job[h], x))
    BY <1>1, <2>5 DEF Ahead, Owns, Later, Sending, Shape
  <2>11. Settled(h)
    <3>1. \A x \in FreeForm : job'[h].op = "test" => row'[x].attempts = 0
      <4>1. \A x \in FreeForm : row'[x] = row[x]
        BY <2>9, Texts
      <4>2. \A x \in FreeForm : job[h].op = "test" => row[x].attempts = 0
        BY <2>10 DEF Once, Placed
      <4> QED BY <2>1, <2>5, <4>1, <4>2
    <3> QED BY <1>1, <2>1, <2>5, <2>6, <2>9, <3>1 DEF Settled
  <2>12. ASSUME NEW x \in Parts PROVE Counted(x)'
    <3>1. x \in FreeForm \/ x = "note"
      BY Texts
    <3>2. Owns(v, x) => Owns(job[h], x)
      BY <1>1, <2>10, <3>1 DEF Owns
    <3>3. Owns(v, x) => Knows(v, x, row[x].attempts, Last(x) \in mail)
      <4>1. Owns(v, x) => Knows(job[h], x, row[x].attempts, Last(x) \in mail)
        BY <3>2, Knowledge
      <4> QED BY <1>1, <2>5, <2>7, <4>1 DEF Knows, Sending
    <3>4. /\ row'[x].attempts = row[x].attempts /\ row'[x].id = row[x].id
          /\ row'[x].status \in Claimable => row[x].status \in Claimable
      BY <2>8, <2>9 DEF Claimable
    <3>5. Mail(x)' = Mail(x)
      BY <1>1 DEF Mail, provider
    <3> QED BY <1>1, <2>1, <2>6, <3>2, <3>3, <3>4, <3>5, Stays DEF provider
  <2> QED BY <2>1, <2>9, <2>11, <2>12 DEF Counts
<1>5. CASE ~ NothingToSendFirst(h)
  <2> DEFINE w == [k EXCEPT !.at = "post"]
  <2>1. job'[h] = w /\ Rest(h) /\ row' = row
    BY <1>5, BeginIs DEF Note
  <2>2. /\ w.at = "post" /\ w.op = k.op /\ w.part = k.part /\ w.attempt = k.attempt
        /\ w.adopts = k.adopts /\ w.skipped = k.skipped /\ w.again = k.again
    BY <1>3 DEF Job
  <2> HIDE DEF w, k
  <2> QED BY <1>1, <1>2, <1>3, <2>1, <2>2, Remains DEF Sending
<1> QED BY <1>4, <1>5

LEMMA GotoIs ==
    ASSUME Once, NEW h \in Jobs, NEW phase \in Phases, Goto(h, phase)
    PROVE  LET w == [job[h] EXCEPT !.at = phase] IN
           /\ job'[h] = w /\ Rest(h) /\ w \in Job
           /\ w.at = phase /\ w.op = job[h].op /\ w.part = job[h].part /\ w.adopts = job[h].adopts
           /\ w.skipped = job[h].skipped /\ w.again = job[h].again
<1>1. job[h] \in Job /\ job \in [Jobs -> Job]
  BY JobIs DEF Once, Sound, TypeOK
<1> DEFINE w == [job[h] EXCEPT !.at = phase]
<1>2. job'[h] = w /\ Rest(h)
  BY <1>1 DEF Goto, Rest
<1>3. w \in Job /\ w.at = phase /\ w.op = job[h].op /\ w.part = job[h].part /\ w.adopts = job[h].adopts
      /\ w.skipped = job[h].skipped /\ w.again = job[h].again
  BY <1>1 DEF Job
<1> QED BY <1>2, <1>3

\* A job that ends, or that goes on with nothing in hand.
LEMMA Ends ==
    ASSUME Once, NEW h \in Jobs, End(h), UNCHANGED <<row, provider>>
    PROVE  Counts(h)
<1>1. job'[h] = Idle /\ Rest(h)
  BY BeginIs DEF End, Begin
<1> QED BY <1>1, IdleIs, Turns, Texts DEF Before, Busy

LEMMA Light ==
    ASSUME NEW w, w.at \in Phases \ (Sending \cup {"due", "take", "retry", "fallback", "hook", "test rows"}),
           w.adopts = {}, ~ w.skipped, ~ w.again, w.op = "test" => w.at \in {"sum", "store", "select"}
    PROVE  Shape(w) /\ \A p \in Parts : ~ Ahead(w, p) /\ ~ Owns(w, p) /\ ~ Fatal(w, p)
BY DEF Shape, Ahead, Owns, Fatal, Sending

LEMMA DueCounts == ASSUME Once, NEW h \in Jobs, Due(h) PROVE Counts(h)
<1> DEFINE p == job[h].part
<1>1. /\ job[h] \in Job /\ job[h].at = "due" /\ Shape(job[h]) /\ p \in FreeForm /\ p \in Parts /\ HasRow
      /\ UNCHANGED <<row, provider>> /\ ~ job[h].again /\ job[h].at \in Busy
  BY JobIs DEF Due, At, Shape, Before, provider
<1>2. ASSUME Begin(h, Onward(job[h], p)) PROVE Counts(h)
  <2>1. job'[h] = Onward(job[h], p) /\ Rest(h)
    BY <1>2, BeginIs
  <2>2. Leaves(h)
    BY <1>1, <2>1, Passes DEF Leaves
  <2> QED BY <1>1, <2>1, <2>2, LeavesQuietly
<1>3. CASE row[p].status = "SENDING" /\ p \in job[h].adopts /\ p \in job[h].takes
  <2> DEFINE w == [job[h] EXCEPT !.at = "free", !.attempt = row[p].attempts]
  <2>1. job'[h] = w /\ Rest(h)
    BY <1>3, BeginIs DEF Due
  <2>2. /\ w.at = "free" /\ w.attempt = row[p].attempts /\ w.part = p /\ w.op = job[h].op /\ w.adopts = job[h].adopts
        /\ w.skipped = job[h].skipped /\ w.again = FALSE
    BY <1>1 DEF Job
  <2> HIDE DEF w
  <2>3. job[h].op # "test"
    <3>1. row[p].attempts >= 1 /\ row[p].attempts \in Nat
      BY <1>1, <1>3, RowTypes DEF Once, OKPart
    <3>2. Ahead(job[h], p)
      BY <1>1 DEF Ahead
    <3>3. job[h].op = "test" => row[p].attempts = 0
      BY <1>1, <3>2 DEF Once, Placed
    <3> QED BY <3>1, <3>3
  <2>4. Owns(job[h], p)
    BY <1>1, <1>3, <2>3 DEF Owns, Ahead
  <2>5. \A x \in Parts : (Ahead(w, x) => Ahead(job[h], x)) /\ (Owns(w, x) => Owns(job[h], x)) /\ ~ Fatal(w, x)
    BY <1>1, <2>2, <2>4 DEF Ahead, Owns, Sending, Fatal
  <2>6. ASSUME NEW x \in Parts, Owns(w, x) PROVE Knows(w, x, row[x].attempts, Last(x) \in mail)
    <3>1. Knows(job[h], x, row[x].attempts, Last(x) \in mail)
      BY <2>5, <2>6, Knowledge
    <3> QED BY <1>1, <2>2, <3>1 DEF Knows
  <2>7. Shape(w)
    BY <1>1, <2>2, Texts DEF Shape
  <2> QED BY <1>1, <2>1, <2>2, <2>5, <2>6, <2>7, Turns, Texts DEF Before
<1>4. CASE Begin(h, [job[h] EXCEPT !.at = "take", !.seen = row])
  <2> DEFINE w == [job[h] EXCEPT !.at = "take", !.seen = row]
  <2>1. job'[h] = w /\ Rest(h)
    BY <1>4, BeginIs
  <2>2. /\ w.at = "take" /\ w.part = p /\ w.op = job[h].op /\ w.adopts = job[h].adopts
        /\ w.skipped = job[h].skipped /\ w.again = FALSE
    BY <1>1 DEF Job
  <2> HIDE DEF w
  <2>3. \A x \in Parts : (Ahead(w, x) => Ahead(job[h], x)) /\ (Owns(w, x) => Owns(job[h], x)) /\ ~ Fatal(w, x)
    BY <1>1, <2>2 DEF Ahead, Owns, Sending, Fatal
  <2>4. ASSUME NEW x \in Parts, Owns(w, x) PROVE Knows(w, x, row[x].attempts, Last(x) \in mail)
    <3>1. Knows(job[h], x, row[x].attempts, Last(x) \in mail)
      BY <2>3, <2>4, Knowledge
    <3> QED BY <1>1, <2>2, <3>1 DEF Knows, Sending
  <2>5. Shape(w)
    BY <1>1, <2>2, Texts DEF Shape
  <2> QED BY <1>1, <2>1, <2>2, <2>3, <2>4, <2>5, Turns, Texts DEF Before
<1> QED BY <1>2, <1>3, <1>4 DEF Due

\* A claim.
LEMMA Claiming ==
    ASSUME Once, NEW h \in Jobs, Rest(h), UNCHANGED provider, NEW p \in Parts, NEW w, job'[h] = w,
           row[p].status \in Claimable, WritePart(p, Claimed(row[p])), HasRow, job[h].at \in Busy,
           Shape(w), w.op = "test" => job[h].op = "test", w.at \notin Before,
           \A x \in FreeForm : w.op = "test" /\ Ahead(w, x) => Ahead(job[h], x) /\ x # p,
           Knows(w, p, row[p].attempts + 1, FALSE),
           \A x \in Parts \ {p} : Owns(w, x) => Owns(job[h], x) /\ Knows(w, x, row[x].attempts, Last(x) \in mail),
           \A x \in Parts : ~ Fatal(w, x)
    PROVE  Counts(h)
<1>1. Claimed(row[p]).status = "SENDING"
  BY RowTypes DEF Claimed, Part, Once
<1>2. RowsStay(h) /\ HasRow' /\ row'[p] = Claimed(row[p]) /\ \A x \in Parts \ {p} : row'[x] = row[x]
  BY <1>1, OneWrite
<1>3. Settled(h)
  <2>1. ASSUME NEW x \in FreeForm, job'[h].op = "test", Ahead(job'[h], x) PROVE row'[x].attempts = 0
    <3>1. x # p /\ x \in Parts /\ job[h].op = "test" /\ Ahead(job[h], x)
      BY <2>1, Texts
    <3>2. row[x].attempts = 0
      BY <3>1 DEF Once, Placed
    <3> QED BY <1>2, <3>1, <3>2
  <2> QED BY <1>2, <2>1 DEF Settled, Before
<1>4. Counted(p)'
  BY <1>2, Claims DEF provider
<1>5. ASSUME NEW x \in Parts \ {p} PROVE Counted(x)'
  <2>1. Mail(x)' = Mail(x) /\ row'[x] = row[x]
    BY <1>2 DEF Mail, provider
  <2> QED BY <2>1, Stays DEF provider
<1> QED BY <1>2, <1>3, <1>4, <1>5 DEF Counts

LEMMA HoldingIs ==
    ASSUME NEW j \in Job, NEW p \in Parts, NEW phase \in {"note", "free"}
    PROVE  LET w == Holding(j, p, phase) IN
           /\ w.at = phase /\ w.part = p /\ w.attempt = row[p].attempts + 1 /\ w.op = j.op /\ w.adopts = j.adopts
           /\ w.takes = j.takes /\ w.skipped = j.skipped /\ w.again = j.again
BY DEF Holding, Job

LEMMA TakeCounts == ASSUME Once, NEW h \in Jobs, Take(h) PROVE Counts(h)
<1>0. PICK p \in Parts : p = job[h].part
  BY JobIs
<1>1. /\ job[h] \in Job /\ job[h].at = "take" /\ Shape(job[h]) /\ p \in FreeForm /\ HasRow
      /\ UNCHANGED provider /\ ~ job[h].again /\ job[h].at \in Busy
  BY <1>0, JobIs DEF Take, At, Shape, Before, provider
<1>2. CASE row[p].status = "PENDING" /\ row[p].attempts = job[h].seen[p].attempts
  <2> DEFINE w == Holding(job[h], p, "free")
  <2>1. job'[h] = w /\ Rest(h) /\ WritePart(p, Claimed(row[p]))
    BY <1>0, <1>2, BeginIs DEF Take
  <2>2. /\ w.at = "free" /\ w.part = p /\ w.attempt = row[p].attempts + 1 /\ w.op = job[h].op
        /\ w.adopts = job[h].adopts /\ w.skipped = job[h].skipped /\ w.again = FALSE
    BY <1>1, HoldingIs
  <2> HIDE DEF w
  <2>3. \A x \in Parts : ~ Fatal(w, x) /\ (Ahead(w, x) => Ahead(job[h], x) /\ x # p)
    BY <1>0, <1>1, <2>2, Texts DEF Ahead, Sending, Fatal, Later
  <2>4. \A x \in Parts \ {p} : Owns(w, x) => Owns(job[h], x)
    BY <1>1, <2>2, <2>3 DEF Owns
  <2>5. ASSUME NEW x \in Parts \ {p}, Owns(w, x) PROVE Knows(w, x, row[x].attempts, Last(x) \in mail)
    <3>1. Knows(job[h], x, row[x].attempts, Last(x) \in mail)
      BY <2>4, <2>5, Knowledge
    <3> QED BY <1>1, <2>2, <3>1 DEF Knows
  <2>6. Shape(w) /\ Knows(w, p, row[p].attempts + 1, FALSE)
    BY <1>1, <2>2, Texts DEF Shape, Knows
  <2>7. row[p].status \in Claimable /\ w.at \notin Before /\ FreeForm \subseteq Parts
    BY <1>2, <2>2, Texts DEF Claimable, Before
  <2> QED BY <1>1, <2>1, <2>2, <2>3, <2>4, <2>5, <2>6, <2>7, Claiming
<1>3. CASE ~ (row[p].status = "PENDING" /\ row[p].attempts = job[h].seen[p].attempts)
  <2>1. job'[h] = Onward(job[h], job[h].part) /\ Rest(h) /\ row' = row
    BY <1>0, <1>3, BeginIs DEF Take
  <2>2. Leaves(h)
    BY <1>1, <2>1, Passes DEF Leaves
  <2> QED BY <1>1, <2>1, <2>2, LeavesQuietly
<1> QED BY <1>2, <1>3

\* An owner writes what its message came to, and goes on.
LEMMA Writing ==
    ASSUME Once, NEW h \in Jobs, UNCHANGED provider, job[h].at \in Sending, ~ job[h].again,
           NEW j \in {job[h], Knowing(job[h])}, Begin(h, Onward(j, job[h].part)),
           NEW q, WritePart(job[h].part, q), q.status # "none",
           q.attempts = row[job[h].part].attempts, q.id \in {row[job[h].part].id, row[job[h].part].attempts},
           q.status \in Claimable => Last(job[h].part) \notin mail
    PROVE  Counts(h)
<1>1. job'[h] = Onward(j, job[h].part) /\ Rest(h)
  BY BeginIs
<1>2. j \in Job
  <2>1. job[h] \in Job /\ open \in BOOLEAN
    BY JobIs DEF Once, Sound, TypeOK
  <2>2. Knowing(job[h]) \in Job
    BY <2>1, Known
  <2> QED BY <2>1, <2>2
<1>3. Leaves(h)
  BY <1>1, <1>2, Passes DEF Leaves
<1> QED BY <1>1, <1>3, LeavesWriting

LEMMA FreeCounts == ASSUME Once, NEW h \in Jobs, Free(h) PROVE Counts(h)
<1>0. PICK p \in Parts : p = job[h].part
  BY JobIs
<1>1. /\ job[h] \in Job /\ job[h].at = "free" /\ Shape(job[h]) /\ HasRow
      /\ UNCHANGED provider /\ ~ job[h].again /\ job[h].at \in Sending
  BY <1>0, JobIs DEF Free, At, Shape, Before, provider, Sending
<1>2. Last(p) \notin mail
  BY <1>0, <1>1, Unsent
<1> DEFINE k == Knowing(job[h])
<1>3. /\ k \in Job /\ k.op = job[h].op /\ k.part = job[h].part /\ k.attempt = job[h].attempt
      /\ k.adopts = job[h].adopts /\ k.skipped = job[h].skipped /\ k.again = job[h].again
  BY <1>1, KnowingIs, Known DEF Once, Sound, TypeOK
<1>4. CASE KnownOpen(job[h])
  <2> DEFINE w == [k EXCEPT !.at = "post"]
  <2>1. job'[h] = w /\ Rest(h) /\ row' = row
    BY <1>4, BeginIs DEF Free
  <2>2. /\ w.at = "post" /\ w.op = k.op /\ w.part = k.part /\ w.attempt = k.attempt
        /\ w.adopts = k.adopts /\ w.skipped = k.skipped /\ w.again = k.again
    BY <1>3 DEF Job
  <2> HIDE DEF w, k
  <2> QED BY <1>0, <1>1, <1>2, <1>3, <2>1, <2>2, Remains DEF Sending
<1>5. CASE ~ KnownOpen(job[h])
  <2> DEFINE q == [row[p] EXCEPT !.status = "WAITING_FOR_REPLY", !.shut = TRUE]
  <2>1. WritePart(p, q) /\ Begin(h, Onward(k, p))
    BY <1>0, <1>5 DEF Free
  <2>2. q.status = "WAITING_FOR_REPLY" /\ q.attempts = row[p].attempts /\ q.id = row[p].id
    BY RowTypes DEF Once, Part
  <2> HIDE DEF q, k
  <2> QED BY <1>0, <1>1, <1>2, <2>1, <2>2, Writing DEF k
<1> QED BY <1>4, <1>5

LEMMA NotBuiltCounts == ASSUME Once, NEW h \in Jobs, NotBuilt(h) PROVE Counts(h)
<1>0. PICK p \in Parts : p = job[h].part
  BY JobIs
<1>1. /\ job[h].at \in {"note", "free"} /\ Shape(job[h]) /\ UNCHANGED provider /\ job[h].at \in Sending
  BY <1>0, JobIs DEF NotBuilt, At, provider, Sending
<1>2. Last(p) \notin mail /\ ~ job[h].again
  BY <1>0, <1>1, Unsent DEF Shape
<1> DEFINE c == p = "note" /\ Retried(job[h])
           q == Failed(row[p], FALSE, c)
<1>3. WritePart(p, q) /\ Begin(h, Onward(job[h], p))
  BY <1>0 DEF NotBuilt
<1> HIDE DEF c
<1>4. q.status = "FAILED" /\ q.attempts = row[p].attempts /\ q.id = row[p].id
  <2>1. row[p] \in Part
    BY RowTypes DEF Once
  <2> QED BY <2>1 DEF Failed, Part
<1> HIDE DEF q
<1> QED BY <1>0, <1>1, <1>2, <1>3, <1>4, Writing

\* A transmission: the job goes on at its message, which the provider takes or not.
LEMMA Transmits ==
    ASSUME Once, NEW h \in Jobs, Rest(h), UNCHANGED <<row, told>>, job[h].at = "post", NEW w, job'[h] = w,
           w.at \in {"post", "record"}, w.part = job[h].part, w.op = job[h].op, w.adopts = job[h].adopts,
           w.skipped = job[h].skipped, w.again = job[h].again, w.attempt = job[h].attempt,
           NEW p \in Parts, p = job[h].part, \A x \in Parts \ {p} : reached'[x] = reached[x] /\ lost'[x] = lost[x],
           reached'[p] = reached[p] + 1,
           \/ /\ mail' = mail \cup {Last(p)} /\ lost'[p] = lost[p] /\ w.at = "record" /\ w.answer = "accepted"
           \/ mail' = mail /\ lost'[p] = lost[p] + 1
    PROVE  Counts(h)
<1>1. HasRow /\ job[h].at \in Busy /\ Shape(job[h]) /\ job[h].at \in Sending
  BY JobIs DEF Sending
<1>2. \A x \in Parts : (Ahead(w, x) <=> Ahead(job[h], x)) /\ (Owns(w, x) <=> Owns(job[h], x)) /\ ~ Fatal(w, x)
  BY DEF Ahead, Owns, Fatal, Sending
<1>3. Shape(w)
  BY <1>1, Texts DEF Shape, Sending
<1>4. HasRow' /\ RowsStay(h)
  BY <1>1 DEF HasRow, RowsStay
<1>5. Settled(h)
  BY <1>1, <1>2, <1>3, <1>4, Texts DEF Settled, Once, Placed
<1>6. Counted(p)'
  <2>1. Owns(job[h], p) /\ Owns(w, p) /\ ~ Fatal(w, p)
    BY <1>1, <1>2 DEF Owns
  <2>2. Knows(job[h], p, row[p].attempts, Last(p) \in mail)
    BY <2>1, Knowledge
  <2>3. \/ /\ mail' = mail \cup {Last(p)} /\ Knows(w, p, row[p].attempts, TRUE)
        \/ mail' = mail /\ lost'[p] = lost[p] + 1 /\ Knows(w, p, row[p].attempts, FALSE)
    BY <1>1, <2>2 DEF Knows, Sending
  <2>4. mail' = mail \cup {Last(p)} => Mail(p)' = Mail(p) \cup {Last(p)}
    BY DEF Mail, Last
  <2>5. mail' = mail => Mail(p)' = Mail(p)
    BY DEF Mail
  <2>6. Last(p) \notin mail
    BY <1>1, Unsent
  <2>7. mail' = mail \/ mail' # mail
    OBVIOUS
  <2>8. CASE mail' = mail
    <3>1. mail' # mail \cup {Last(p)}
      BY <2>6, <2>8
    <3> QED BY <2>1, <2>3, <2>5, <2>8, <3>1, Takes
  <2>9. CASE mail' # mail
    BY <2>1, <2>3, <2>4, <2>9, Takes
  <2> QED BY <2>7, <2>8, <2>9
<1>7. ASSUME NEW x \in Parts \ {p} PROVE Counted(x)'
  <2>1. Mail(x)' = Mail(x)
    BY DEF Mail, Last
  <2>2. Owns(w, x) => Knows(w, x, row[x].attempts, Last(x) \in mail)
    <3>1. Owns(w, x) => Knows(job[h], x, row[x].attempts, Last(x) \in mail)
      BY <1>2, Knowledge
    <3> QED BY <3>1 DEF Knows
  <2> QED BY <1>2, <2>1, <2>2, Stays
<1>8. \A x \in Parts : Counted(x)'
  BY <1>6, <1>7
<1> QED BY <1>4, <1>5, <1>8 DEF Counts

LEMMA AnswerIs ==
    ASSUME Once, NEW h \in Jobs, NEW a, Answer(h, a)
    PROVE  LET w == [job[h] EXCEPT !.at = "record", !.answer = a] IN
           /\ job'[h] = w /\ Rest(h) /\ w.at = "record" /\ w.answer = a /\ w.part = job[h].part /\ w.op = job[h].op
           /\ w.adopts = job[h].adopts /\ w.skipped = job[h].skipped /\ w.again = job[h].again
           /\ w.attempt = job[h].attempt
<1>1. job[h] \in Job /\ job \in [Jobs -> Job]
  BY JobIs DEF Once, Sound, TypeOK
<1> QED BY <1>1 DEF Answer, Rest, Job

LEMMA ResentIs ==
    ASSUME Once, NEW h \in Jobs, job' = [job EXCEPT ![h].resent = TRUE]
    PROVE  LET w == [job[h] EXCEPT !.resent = TRUE] IN
           /\ job'[h] = w /\ Rest(h) /\ w.at = job[h].at /\ w.part = job[h].part /\ w.op = job[h].op
           /\ w.adopts = job[h].adopts /\ w.skipped = job[h].skipped /\ w.again = job[h].again
           /\ w.attempt = job[h].attempt
<1>1. job[h] \in Job /\ job \in [Jobs -> Job]
  BY JobIs DEF Once, Sound, TypeOK
<1> QED BY <1>1 DEF Rest, Job

LEMMA Adds ==
    ASSUME NEW f \in [Parts -> Nat], NEW p \in Parts, NEW g, g = [f EXCEPT ![p] = @ + 1]
    PROVE  g[p] = f[p] + 1 /\ \A x \in Parts \ {p} : g[x] = f[x]
OBVIOUS

LEMMA PostCounts == ASSUME Once, NEW h \in Jobs, Post(h) PROVE Counts(h)
<1>0. PICK p \in Parts : p = job[h].part
  BY JobIs
<1>1. /\ job[h].at = "post" /\ job[h].at \in Sending /\ UNCHANGED <<row, told, lost>>
      /\ reached \in [Parts -> Nat]
  BY DEF Post, At, Sending, Once, Sound, TypeOK
<1>2. Last(p) \notin mail /\ <<p, job[h].attempt>> = Last(p)
  <2>1. Owns(job[h], p)
    BY <1>0, <1>1 DEF Owns
  <2>2. job[h].attempt = row[p].attempts
    BY <1>0, <1>1, <2>1, Knowledge DEF Knows
  <2> QED BY <1>0, <1>1, <2>2, Unsent DEF Last
<1>3. CASE /\ reached' = [reached EXCEPT ![p] = @ + 1]
           /\ mail' = mail \cup {<<p, job[h].attempt>>}
           /\ Answer(h, "accepted")
  <2> DEFINE w == [job[h] EXCEPT !.at = "record", !.answer = "accepted"]
  <2>1. /\ job'[h] = w /\ Rest(h) /\ w.at = "record" /\ w.answer = "accepted" /\ w.part = job[h].part /\ w.op = job[h].op
        /\ w.adopts = job[h].adopts /\ w.skipped = job[h].skipped /\ w.again = job[h].again
        /\ w.attempt = job[h].attempt
    BY <1>3, AnswerIs
  <2> HIDE DEF w
  <2>2. reached'[p] = reached[p] + 1 /\ \A x \in Parts \ {p} : reached'[x] = reached[x] /\ lost'[x] = lost[x]
    BY <1>1, <1>3, Adds
  <2> QED BY <1>0, <1>1, <1>2, <1>3, <2>1, <2>2, Transmits
<1>4. ASSUME NEW a, Answer(h, a), UNCHANGED <<reached, mail>> PROVE Counts(h)
  <2> DEFINE w == [job[h] EXCEPT !.at = "record", !.answer = a]
  <2>1. /\ job'[h] = w /\ Rest(h) /\ w.at = "record" /\ w.answer = a /\ w.part = job[h].part /\ w.op = job[h].op
        /\ w.adopts = job[h].adopts /\ w.skipped = job[h].skipped /\ w.again = job[h].again
        /\ w.attempt = job[h].attempt
    BY <1>4, AnswerIs
  <2> HIDE DEF w
  <2> QED BY <1>0, <1>1, <1>2, <1>4, <2>1, Remains DEF Sending, provider
<1> QED BY <1>0, <1>3, <1>4 DEF Post

LEMMA NoAnswerCounts == ASSUME Once, NEW h \in Jobs, NoAnswer(h) PROVE Counts(h)
<1>0. PICK p \in Parts : p = job[h].part
  BY JobIs
<1>1. /\ job[h].at = "post" /\ job[h].at \in Sending /\ UNCHANGED <<row, told, mail>>
      /\ reached \in [Parts -> Nat] /\ lost \in [Parts -> Nat]
  BY DEF NoAnswer, At, Sending, Once, Sound, TypeOK
<1>2. Last(p) \notin mail
  BY <1>0, <1>1, Unsent
<1>3. PICK w : /\ job'[h] = w /\ Rest(h) /\ w.at \in {"post", "record"} /\ w.part = job[h].part /\ w.op = job[h].op
               /\ w.adopts = job[h].adopts /\ w.skipped = job[h].skipped /\ w.again = job[h].again
               /\ w.attempt = job[h].attempt
  <2>1. CASE job[h].resent
    <3>1. Answer(h, "unreachable")
      BY <2>1 DEF NoAnswer
    <3> QED BY <3>1, AnswerIs
  <2>2. CASE ~ job[h].resent
    <3>1. job' = [job EXCEPT ![h].resent = TRUE]
      BY <2>2 DEF NoAnswer
    <3> DEFINE w == [job[h] EXCEPT !.resent = TRUE]
    <3>2. /\ job'[h] = w /\ Rest(h) /\ w.at = job[h].at /\ w.part = job[h].part /\ w.op = job[h].op
          /\ w.adopts = job[h].adopts /\ w.skipped = job[h].skipped /\ w.again = job[h].again
          /\ w.attempt = job[h].attempt
      BY <3>1, ResentIs
    <3> HIDE DEF w
    <3> QED BY <1>1, <3>2
  <2> QED BY <2>1, <2>2
<1>4. CASE UNCHANGED <<reached, lost>>
  BY <1>0, <1>1, <1>2, <1>3, <1>4, Remains DEF Sending, provider
<1>5. CASE reached' = [reached EXCEPT ![p] = @ + 1] /\ lost' = [lost EXCEPT ![p] = @ + 1]
  <2>1. /\ reached'[p] = reached[p] + 1 /\ lost'[p] = lost[p] + 1
        /\ \A x \in Parts \ {p} : reached'[x] = reached[x] /\ lost'[x] = lost[x]
    BY <1>1, <1>5, Adds
  <2> QED BY <1>0, <1>1, <1>3, <2>1, Transmits
<1> QED BY <1>0, <1>4, <1>5 DEF NoAnswer

\* What a send came to is written.
LEMMA RecordCounts == ASSUME Once, NEW h \in Jobs, Record(h) \/ NotRecorded(h) PROVE Counts(h)
<1> DEFINE p == job[h].part
<1>0. p \in Parts
  BY JobIs
<1>1. /\ job[h].at = "record" /\ job[h].at \in Sending /\ UNCHANGED provider /\ row[p] \in Part
  BY <1>0, RowTypes DEF Record, NotRecorded, At, Sending, provider, Once
<1>2. job[h].attempt = row[p].attempts
  <2>1. Owns(job[h], p)
    BY <1>0, <1>1 DEF Owns
  <2> QED BY <1>0, <1>1, <2>1, Knowledge DEF Knows
<1>3. job[h].answer # "accepted" => Last(p) \notin mail
  BY <1>0, <1>1, Unsent
<1>4. PICK q : /\ WritePart(p, q) /\ q.status # "none" /\ q.attempts = row[p].attempts
               /\ q.id \in {row[p].id, row[p].attempts} /\ (q.status \in Claimable => Last(p) \notin mail)
  <2> DEFINE n == IF job[h].again THEN row[p].next ELSE "never"
             c == p = "note" /\ Retried(job[h])
             b == job[h].answer = "shut"
             u == [row[p] EXCEPT !.status = "UNCERTAIN", !.shut = FALSE, !.next = n]
             s == [row[p] EXCEPT !.status = "SENT", !.id = job[h].attempt, !.shut = FALSE, !.next = n]
             f == [row[p] EXCEPT !.status = "FAILED", !.shut = FALSE]
             g == Failed(row[p], b, c)
  <2>1. \/ WritePart(p, u)
        \/ WritePart(p, s)
        \/ job[h].answer # "accepted" /\ (WritePart(p, f) \/ WritePart(p, g))
    <3>1. NotRecorded(h) => WritePart(p, u)
      BY DEF NotRecorded
    <3> DEFINE q == IF job[h].answer = "accepted" THEN s ELSE IF job[h].again THEN f ELSE g
    <3>2. Record(h) => WritePart(p, q)
      BY DEF Record
    <3> HIDE DEF u, s, f, g
    <3>3. CASE job[h].answer = "accepted"
      <4>1. q = s
        BY <3>3
      <4> HIDE DEF q
      <4> QED BY <3>1, <3>2, <3>3, <4>1
    <3>4. CASE job[h].answer # "accepted" /\ job[h].again
      <4>1. q = f
        BY <3>4
      <4> HIDE DEF q
      <4> QED BY <3>1, <3>2, <3>4, <4>1
    <3>5. CASE job[h].answer # "accepted" /\ ~ job[h].again
      <4>1. q = g
        BY <3>5
      <4> HIDE DEF q
      <4> QED BY <3>1, <3>2, <3>5, <4>1
    <3> QED BY <3>3, <3>4, <3>5
  <2> HIDE DEF n, b, c
  <2>2. /\ u.status = "UNCERTAIN" /\ u.attempts = row[p].attempts /\ u.id = row[p].id
        /\ s.status = "SENT" /\ s.attempts = row[p].attempts /\ s.id = row[p].attempts
        /\ f.status = "FAILED" /\ f.attempts = row[p].attempts /\ f.id = row[p].id
        /\ g.status = "FAILED" /\ g.attempts = row[p].attempts /\ g.id = row[p].id
    BY <1>1, <1>2 DEF Part, Failed
  <2> HIDE DEF u, s, f, g
  <2>3. \A q \in {u, s} : q.status # "none" /\ q.attempts = row[p].attempts
                          /\ q.id \in {row[p].id, row[p].attempts} /\ (q.status \in Claimable => Last(p) \notin mail)
    BY <2>2 DEF Claimable
  <2>4. job[h].answer # "accepted" => \A q \in {f, g} : q.status # "none" /\ q.attempts = row[p].attempts
                          /\ q.id \in {row[p].id, row[p].attempts} /\ (q.status \in Claimable => Last(p) \notin mail)
    BY <1>3, <2>2
  <2> QED BY <2>1, <2>3, <2>4
<1>5. CASE job[h].again
  <2>1. job'[h] = Summing(job[h]) /\ Rest(h)
    BY <1>5, BeginIs DEF Record, NotRecorded
  <2>2. Leaves(h)
    BY <2>1, SumsUp
  <2> QED BY <1>0, <1>1, <1>4, <2>1, <2>2, LeavesWriting
<1>6. CASE ~ job[h].again
  <2>1. Begin(h, Onward(job[h], p))
    BY <1>0, <1>6 DEF Record, NotRecorded
  <2> QED BY <1>0, <1>1, <1>4, <1>6, <2>1, Writing
<1> QED BY <1>5, <1>6

LEMMA FallbackCounts == ASSUME Once, NEW h \in Jobs, Fallback(h) PROVE Counts(h)
<1>1. /\ job[h] \in Job /\ job[h].at = "fallback" /\ Shape(job[h]) /\ HasRow /\ job[h].skipped /\ job[h].at \in Busy
      /\ UNCHANGED <<row, provider>>
  BY JobIs DEF Fallback, At, Shape, Before, provider, Busy, Phases
<1>2. CASE Begin(h, Summing(job[h]))
  <2>1. job'[h] = Summing(job[h]) /\ Rest(h)
    BY <1>2, BeginIs
  <2>2. /\ job'[h].at = "sum" /\ job'[h].op = job[h].op /\ Shape(job'[h])
        /\ \A x \in Parts : ~ Ahead(job'[h], x) /\ ~ Owns(job'[h], x) /\ ~ Fatal(job'[h], x)
    BY <1>1, <2>1, SummingIs
  <2> HIDE DEF Summing
  <2> QED BY <1>1, <2>1, <2>2, Turns, Texts
<1>3. CASE ~ Begin(h, Summing(job[h]))
  <2> DEFINE w == [job[h] EXCEPT !.at = "post", !.part = "note", !.again = TRUE, !.attempt = 1, !.resent = FALSE]
  <2>1. job'[h] = w /\ Rest(h)
    BY <1>3, BeginIs DEF Fallback
  <2>2. /\ w.at = "post" /\ w.part = "note" /\ w.attempt = 1 /\ w.op = job[h].op /\ w.adopts = job[h].adopts
        /\ w.skipped = job[h].skipped /\ w.again = TRUE
    BY <1>1 DEF Job
  <2> HIDE DEF w
  <2>3. \A x \in Parts : ~ Ahead(w, x) /\ ~ Fatal(w, x) /\ (Owns(w, x) => x = "note")
    BY <2>2 DEF Ahead, Fatal, Owns
  <2>4. Owns(job[h], "note")
    BY <1>1 DEF Owns
  <2>5. Knows(job[h], "note", row["note"].attempts, Last("note") \in mail)
    BY <2>4, Knowledge, Texts
  <2>6. Knows(w, "note", row["note"].attempts, Last("note") \in mail)
    BY <1>1, <2>2, <2>5 DEF Knows
  <2>7. Shape(w)
    BY <1>1, <2>2 DEF Shape
  <2> QED BY <1>1, <2>1, <2>2, <2>3, <2>4, <2>6, <2>7, Turns, Texts
<1> QED BY <1>2, <1>3

LEMMA SumCounts == ASSUME Once, NEW h \in Jobs, Sum(h) PROVE Counts(h)
<1>1. /\ job[h] \in Job /\ job[h].at = "sum" /\ Shape(job[h]) /\ HasRow /\ UNCHANGED <<row, provider>>
  BY JobIs DEF Sum, At, Before, provider
<1>2. CASE End(h)
  BY <1>1, <1>2, Ends
<1>3. CASE ~ End(h)
  <2> DEFINE s == Summary
             w == [job[h] EXCEPT !.at = "store", !.sum = s]
  <2>1. job'[h] = w /\ Rest(h)
    BY <1>3, BeginIs DEF Sum
  <2> HIDE DEF s
  <2>2. w.at = "store" /\ w.op = job[h].op /\ w.adopts = job[h].adopts /\ w.skipped = job[h].skipped /\ w.again = job[h].again
    BY <1>1 DEF Job
  <2> HIDE DEF w
  <2>3. w.at = "store" /\ w.adopts = {} /\ ~ w.skipped /\ ~ w.again
    BY <1>1, <2>2 DEF Shape
  <2>4. Shape(w) /\ \A x \in Parts : ~ Ahead(w, x) /\ ~ Owns(w, x) /\ ~ Fatal(w, x)
    BY <2>3, Light DEF Sending, Phases
  <2> QED BY <1>1, <2>1, <2>2, <2>4, Turns, Texts DEF Busy
<1> QED BY <1>2, <1>3

LEMMA StoreCounts == ASSUME Once, NEW h \in Jobs, Store(h) PROVE Counts(h)
<1>1. /\ job[h] \in Job /\ job[h].at = "store" /\ Shape(job[h]) /\ HasRow /\ UNCHANGED <<row, provider>>
      /\ job[h].then \in {"idle", "select"}
  BY JobIs DEF Store, At, Before, provider, Job
<1>2. CASE job[h].then = "idle"
  BY <1>1, <1>2, Ends DEF Store
<1>3. CASE job[h].then # "idle"
  <2> DEFINE w == [job[h] EXCEPT !.at = job[h].then, !.then = "idle"]
  <2>1. job'[h] = w /\ Rest(h)
    BY <1>3, BeginIs DEF Store
  <2>2. w.at = "select" /\ w.op = job[h].op /\ w.adopts = job[h].adopts /\ w.skipped = job[h].skipped /\ w.again = job[h].again
    BY <1>1, <1>3 DEF Job
  <2> HIDE DEF w
  <2>3. w.adopts = {} /\ ~ w.skipped /\ ~ w.again
    BY <1>1, <2>2 DEF Shape
  <2>4. Shape(w) /\ \A x \in Parts : ~ Ahead(w, x) /\ ~ Owns(w, x) /\ ~ Fatal(w, x)
    BY <1>3, <2>2, <2>3, Light DEF Sending, Phases
  <2> QED BY <1>1, <2>1, <2>2, <2>4, Turns, Texts DEF Busy
<1> QED BY <1>2, <1>3

LEMMA ThrowCounts == ASSUME Once, NEW h \in Jobs, Throw(h) PROVE Counts(h)
<1>1. /\ job[h].op = "reply" /\ job[h].at \in {"due", "record"} /\ Goto(h, "interrupted") /\ Shape(job[h]) /\ HasRow
      /\ UNCHANGED <<row, provider>> /\ "interrupted" \in Phases /\ job[h].at \in Busy
  BY JobIs DEF Throw, Before, provider, Phases, Busy
<1> DEFINE w == [job[h] EXCEPT !.at = "interrupted"]
<1>2. /\ job'[h] = w /\ Rest(h) /\ w.at = "interrupted" /\ w.op = job[h].op /\ w.part = job[h].part
      /\ w.adopts = job[h].adopts /\ w.skipped = job[h].skipped /\ w.again = job[h].again
  BY <1>1, GotoIs
<1> HIDE DEF w
<1>3. Shape(w) /\ \A x \in Parts : ~ Ahead(w, x) /\ ~ Owns(w, x) /\ ~ Fatal(w, x)
  BY <1>1, <1>2 DEF Shape, Ahead, Owns, Fatal, Sending
<1> QED BY <1>1, <1>2, <1>3, Turns, Texts

LEMMA StopCounts == ASSUME Once, NEW h \in Jobs, Stop(h) PROVE Counts(h)
BY Ends DEF Stop, provider

--------------------------------------------------------------------------------
(* The ticks *)

\* A job that goes from one phase to another with nothing in hand.
LEMMA Walks ==
    ASSUME Once, NEW h \in Jobs, NEW phase \in {"rows", "mark", "owner", "close", "read", "sum", "cancel rows", "select", "reply claim"}, Goto(h, phase),
           job[h].at \in {"create", "rows", "mark", "owner", "close", "missed rows", "cancel", "recover", "reply owner"}
    PROVE  /\ job'[h].at = phase /\ job'[h].op = job[h].op /\ job[h].op # "test" /\ Rest(h) /\ Shape(job'[h])
           /\ \A x \in Parts : ~ Ahead(job'[h], x) /\ ~ Owns(job'[h], x) /\ ~ Fatal(job'[h], x)
<1>1. phase \in Phases /\ Shape(job[h])
  BY JobIs DEF Phases
<1> DEFINE w == [job[h] EXCEPT !.at = phase]
<1>2. /\ job'[h] = w /\ Rest(h) /\ w.at = phase /\ w.op = job[h].op /\ w.adopts = job[h].adopts
      /\ w.skipped = job[h].skipped /\ w.again = job[h].again
  BY <1>1, GotoIs
<1> HIDE DEF w
<1>3. w.adopts = {} /\ ~ w.skipped /\ ~ w.again /\ w.op # "test"
  BY <1>1, <1>2 DEF Shape
<1>4. Shape(w) /\ \A x \in Parts : ~ Ahead(w, x) /\ ~ Owns(w, x) /\ ~ Fatal(w, x)
  BY <1>1, <1>2, <1>3, Light DEF Sending
<1> QED BY <1>2, <1>3, <1>4

LEMMA CreateCounts == ASSUME Once, NEW h \in Jobs, Create(h) \/ Cancel(h) \/ CancelRun(h) PROVE Counts(h)
<1>1. UNCHANGED <<row, provider>>
  BY DEF Create, Cancel, CancelRun, provider
<1>2. CASE Create(h)
  <2>1. job[h].at = "create" /\ Goto(h, "rows")
    BY <1>2 DEF Create, At
  <2> QED BY <1>1, <2>1, Walks, Turns, Texts DEF Before, Busy, Phases
<1>3. CASE CancelRun(h) /\ ~ End(h)
  <2>1. job[h].at = "cancel" /\ Goto(h, "cancel rows")
    BY <1>3 DEF CancelRun, At
  <2> QED BY <1>1, <2>1, Walks, Turns, Texts DEF Before, Busy, Phases
<1>4. CASE Cancel(h)
  <2> DEFINE w == [Idle EXCEPT !.op = "cancel", !.at = "cancel"]
  <2>1. job'[h] = w /\ Rest(h) /\ scene.kind = "SCHEDULED"
    BY <1>4, BeginIs DEF Cancel
  <2>2. w.at = "cancel" /\ w.op = "cancel" /\ w.adopts = {} /\ ~ w.skipped /\ ~ w.again
    BY DEF Idle
  <2> HIDE DEF w
  <2>3. Shape(w) /\ \A x \in Parts : ~ Ahead(w, x) /\ ~ Owns(w, x) /\ ~ Fatal(w, x)
    BY <2>2, Light DEF Sending, Phases
  <2> QED BY <1>1, <2>1, <2>2, <2>3, Turns, Texts DEF Before
<1>5. CASE End(h)
  BY <1>1, <1>5, Ends
<1> QED BY <1>2, <1>3, <1>4, <1>5

LEMMA ReadCounts == ASSUME Once, NEW h \in Jobs, Read(h) PROVE Counts(h)
<1>1. /\ job[h] \in Job /\ job[h].at = "read" /\ Shape(job[h]) /\ HasRow /\ UNCHANGED <<row, provider>> /\ job[h].at \in Busy
  BY JobIs DEF Read, At, Before, provider, Busy, Phases
<1>2. ~ job[h].again /\ ~ job[h].skipped /\ job[h].adopts = {} /\ job[h].op # "test"
  BY <1>1 DEF Shape
<1>3. CASE Eligible
  <2> DEFINE w == [job[h] EXCEPT !.at = "claim", !.seen = row]
  <2>1. job'[h] = w /\ Rest(h)
    BY <1>3, BeginIs DEF Read
  <2>2. w.at = "claim" /\ w.op = job[h].op /\ w.adopts = {} /\ ~ w.skipped /\ ~ w.again
    BY <1>1, <1>2 DEF Job
  <2> HIDE DEF w
  <2>3. Shape(w) /\ \A x \in Parts : ~ Ahead(w, x) /\ ~ Owns(w, x) /\ ~ Fatal(w, x)
    BY <1>2, <2>2, Light DEF Sending, Phases
  <2> QED BY <1>1, <2>1, <2>2, <2>3, Turns, Texts
<1>4. CASE ~ Eligible
  <2>1. job'[h] = Onward(job[h], "note") /\ Rest(h)
    BY <1>4, BeginIs DEF Read
  <2>2. /\ job'[h].op = job[h].op /\ job'[h].at \in {"due", "fallback", "sum"} /\ Shape(job'[h])
        /\ \A x \in Parts : ~ Owns(job'[h], x)
    BY <1>1, <1>2, <2>1, OnwardIs, Texts
  <2>3. \A x \in Parts : ~ Fatal(job'[h], x)
    BY <2>2 DEF Fatal
  <2> QED BY <1>1, <1>2, <2>1, <2>2, <2>3, Turns, Texts
<1> QED BY <1>3, <1>4

LEMMA ClaimCounts == ASSUME Once, NEW h \in Jobs, Claim(h) PROVE Counts(h)
<1>1. /\ job[h] \in Job /\ job[h].at = "claim" /\ Shape(job[h]) /\ HasRow /\ UNCHANGED provider /\ job[h].at \in Busy
  BY JobIs DEF Claim, At, Before, provider, Busy, Phases
<1>2. ~ job[h].again /\ ~ job[h].skipped /\ job[h].adopts = {} /\ job[h].op # "test"
  BY <1>1 DEF Shape
<1>3. CASE row["note"].status \in {"PENDING", "FAILED"} /\ row["note"].attempts = job[h].seen["note"].attempts
  <2> DEFINE w == Holding(job[h], "note", "note")
  <2>1. job'[h] = w /\ Rest(h) /\ WritePart("note", Claimed(row["note"]))
    BY <1>3, BeginIs DEF Claim
  <2>2. /\ w.at = "note" /\ w.part = "note" /\ w.attempt = row["note"].attempts + 1 /\ w.op = job[h].op
        /\ w.adopts = {} /\ ~ w.skipped /\ ~ w.again
    BY <1>1, <1>2, HoldingIs, Texts
  <2> HIDE DEF w
  <2>3. Shape(w) /\ Knows(w, "note", row["note"].attempts + 1, FALSE)
    BY <1>2, <2>2 DEF Shape, Knows
  <2>4. /\ \A x \in Parts : ~ Fatal(w, x)
        /\ \A x \in Parts \ {"note"} : ~ Owns(w, x)
    BY <2>2 DEF Fatal, Owns
  <2>5. row["note"].status \in Claimable /\ w.at \notin Before
    BY <1>3, <2>2 DEF Claimable, Before
  <2> QED BY <1>1, <1>2, <2>1, <2>2, <2>3, <2>4, <2>5, Claiming, Texts
<1>4. CASE ~ (row["note"].status \in {"PENDING", "FAILED"} /\ row["note"].attempts = job[h].seen["note"].attempts)
  <2>1. job'[h] = Onward(job[h], "note") /\ Rest(h) /\ row' = row
    BY <1>4, BeginIs DEF Claim
  <2>2. /\ job'[h].op = job[h].op /\ job'[h].at \in {"due", "fallback", "sum"} /\ Shape(job'[h])
        /\ \A x \in Parts : ~ Owns(job'[h], x)
    BY <1>1, <1>2, <2>1, OnwardIs, Texts
  <2>3. \A x \in Parts : ~ Fatal(job'[h], x)
    BY <2>2 DEF Fatal
  <2> QED BY <1>1, <1>2, <2>1, <2>2, <2>3, Turns, Texts
<1> QED BY <1>3, <1>4

\* The messages are created together.
LEMMA Creates ==
    ASSUME Once, NEW h \in Jobs, Rest(h), UNCHANGED provider, ~ HasRow,
           \A p \in Parts : row'[p].id = 0 /\ ~ Fatal(job'[h], p),
           \A p \in Parts : \/ row'[p].attempts = 0 /\ ~ Owns(job'[h], p)
                            \/ /\ row'[p].attempts = 1 /\ row'[p].status = "SENDING"
                               /\ Knows(job'[h], p, 1, FALSE)
    PROVE  \A p \in Parts : Counted(p)'
<1> SUFFICES ASSUME NEW p \in Parts PROVE Counted(p)'
  OBVIOUS
<1>1. Tally(p) /\ Owned(p) /\ Bounces(p)
  BY DEF Once, Counted
<1>2. row[p].attempts = 0
  <2>1. row = NoRow
    BY DEF Once, Placed
  <2>2. NoRow[p] = NewPart("none")
    BY DEF NoRow
  <2> QED BY <2>1, <2>2 DEF NewPart
<1>3. \A m \in mail : m[1] # p
  <2> SUFFICES ASSUME NEW m \in mail, m[1] = p PROVE FALSE
    OBVIOUS
  <2>1. m[2] <= 0 /\ m[2] >= 1 /\ m[2] \in Nat
    BY <1>1, <1>2, MailTypes DEF Tally, Once
  <2> QED BY <2>1
<1>4. Mail(p)' = Mail(p) /\ Last(p)' \notin mail
  BY <1>3 DEF Mail, Last, provider
<1>5. \A g \in Jobs : ~ Owns(job[g], p) /\ ~ Fatal(job[g], p)
  BY <1>1, <1>2 DEF Owned, Fit, Bounces
<1>6. \A g \in Jobs : (Owns(job'[g], p) => g = h) /\ ~ Fatal(job'[g], p)
  BY <1>5 DEF Rest
<1>7. row'[p].id = 0 /\ (row'[p].attempts = 0 \/ row'[p].attempts = 1)
  OBVIOUS
<1>8. Tally(p)'
  <2>1. row'[p].id <= row'[p].attempts
    BY <1>7
  <2> QED BY <1>1, <1>3, <1>4, <2>1 DEF Tally, provider
<1>9. ASSUME Owns(job'[h], p) PROVE Fit(row'[p]) /\ Knows(job'[h], p, row'[p].attempts, FALSE)
  <2>1. row'[p].attempts = 1 /\ row'[p].status = "SENDING" /\ Knows(job'[h], p, 1, FALSE)
    BY <1>9
  <2>2. Fit(row'[p])
    BY <1>7, <2>1 DEF Fit, Claimable
  <2> QED BY <2>1, <2>2
<1>10. Owned(p)'
  <2>1. Owns(job'[h], p) => Fit(row[p])' /\ Knows(job[h], p, row[p].attempts, Last(p) \in mail)'
    BY <1>4, <1>9 DEF Fit, Knows, provider
  <2> QED BY <1>6, <2>1, JobNext DEF Owned
<1>11. Bounces(p)'
  BY <1>6, JobNext DEF Bounces
<1> QED BY <1>8, <1>10, <1>11 DEF Counted

LEMMA CreatesRows ==
    ASSUME Once, NEW h \in Jobs, Rest(h), UNCHANGED provider, ~ HasRow, job[h].at \in Busy,
           Shape(job'[h]), job'[h].op = job[h].op, job'[h].at \notin {"create", "cancel", "test rows"},
           \A p \in FreeForm : job'[h].op = "test" => row'[p].attempts = 0,
           \A p \in Parts : row'[p].id = 0 /\ row'[p].status # "none" /\ ~ Fatal(job'[h], p),
           \A p \in Parts : \/ row'[p].attempts = 0 /\ ~ Owns(job'[h], p)
                            \/ /\ row'[p].attempts = 1 /\ row'[p].status = "SENDING"
                               /\ Knows(job'[h], p, 1, FALSE)
    PROVE  Counts(h)
<1>1. HasRow'
  BY Texts DEF HasRow
<1>2. RowsStay(h) /\ Settled(h)
  BY <1>1 DEF RowsStay, Settled
<1> QED BY <1>2, Creates DEF Counts

LEMMA NewPartIs == \A s : NewPart(s).status = s /\ NewPart(s).attempts = 0 /\ NewPart(s).id = 0
BY DEF NewPart

LEMMA InitialIs ==
    \A p \in Parts : InitialParts[p].status # "none" /\ InitialParts[p].attempts = 0 /\ InitialParts[p].id = 0
BY NewPartIs DEF InitialParts

LEMMA RowsCounts == ASSUME Once, NEW h \in Jobs, Rows(h) PROVE Counts(h)
<1>1. job[h].at = "rows" /\ job[h].at \in Busy /\ UNCHANGED provider
  BY DEF Rows, At, Busy, Phases, provider
<1>2. CASE run.status = "CANCELLED" \/ run.deleted
  BY <1>1, <1>2, Ends DEF Rows
<1>3. CASE ~ (run.status = "CANCELLED" \/ run.deleted)
  <2>1. /\ job'[h].at = "mark" /\ job'[h].op = job[h].op /\ job[h].op # "test" /\ Rest(h) /\ Shape(job'[h])
        /\ \A x \in Parts : ~ Ahead(job'[h], x) /\ ~ Owns(job'[h], x) /\ ~ Fatal(job'[h], x)
    BY <1>1, <1>3, Walks DEF Rows
  <2>2. CASE HasRow
    BY <1>1, <1>3, <2>1, <2>2, Turns, Texts DEF Rows
  <2>3. CASE ~ HasRow
    <3>1. row' = InitialParts
      BY <1>3, <2>3 DEF Rows, Write
    <3> QED BY <1>1, <2>1, <2>3, <3>1, InitialIs, CreatesRows, Texts
  <2> QED BY <2>2, <2>3
<1> QED BY <1>2, <1>3

LEMMA TestRowsCounts == ASSUME Once, NEW h \in Jobs, TestRows(h) PROVE Counts(h)
<1>1. /\ job[h] \in Job /\ job[h].at = "test rows" /\ job[h].at \in Busy /\ UNCHANGED provider /\ Shape(job[h])
      /\ ~ HasRow
  BY JobIs DEF TestRows, At, Busy, Phases, provider, Once, Placed
<1>2. job[h].part = "note" /\ job[h].op = "test" /\ ~ job[h].again /\ ~ job[h].skipped
  BY <1>1 DEF Shape
<1>3. CASE On("note")
  <2> DEFINE w == [job[h] EXCEPT !.at = "note", !.attempt = 1]
             r == [InitialParts EXCEPT !["note"] = Claimed(@)]
  <2>1. job'[h] = w /\ Rest(h) /\ row' = r
    BY <1>3, BeginIs DEF TestRows, Write
  <2>2. /\ w.at = "note" /\ w.attempt = 1 /\ w.part = "note" /\ w.op = "test" /\ ~ w.again /\ ~ w.skipped
        /\ w.adopts = job[h].adopts
    BY <1>1, <1>2 DEF Job
  <2>3. InitialParts \in [Parts -> OKPart] /\ InitialParts["note"] \in Part
    BY InitialRows, Texts DEF OKPart
  <2>4. /\ \A p \in FreeForm : r[p] = InitialParts[p]
        /\ r["note"] = Claimed(InitialParts["note"])
    BY <2>3, Texts
  <2>5. r["note"].attempts = 1 /\ r["note"].status = "SENDING" /\ r["note"].id = 0
    <3>1. InitialParts["note"].attempts = 0 /\ InitialParts["note"].id = 0
      BY InitialIs, Texts
    <3> DEFINE q == InitialParts["note"]
    <3>2. q \in Part /\ q.attempts = 0 /\ q.id = 0 /\ r["note"] = Claimed(q)
      BY <2>3, <2>4, <3>1
    <3> HIDE DEF q, r
    <3>3. Claimed(q).attempts = q.attempts + 1 /\ Claimed(q).id = q.id /\ Claimed(q).status = "SENDING"
      BY <3>2 DEF Claimed, Part
    <3> QED BY <3>2, <3>3
  <2> HIDE DEF w, r
  <2>6. Shape(w) /\ Knows(w, "note", 1, FALSE) /\ \A p \in Parts : ~ Fatal(w, p) /\ (p # "note" => ~ Owns(w, p))
    BY <2>2 DEF Shape, Knows, Fatal, Owns
  <2>7. \A p \in FreeForm : r[p].attempts = 0 /\ r[p].id = 0 /\ r[p].status # "none"
    BY <2>4, InitialIs, Texts
  <2>8. \A p \in Parts : r[p].id = 0 /\ r[p].status # "none"
    BY <2>5, <2>7, Texts
  <2>9. \A p \in Parts : \/ r[p].attempts = 0 /\ ~ Owns(w, p)
                         \/ r[p].attempts = 1 /\ r[p].status = "SENDING" /\ Knows(w, p, 1, FALSE)
    BY <2>5, <2>6, <2>7, Texts
  <2> QED BY <1>1, <1>2, <2>1, <2>2, <2>6, <2>7, <2>8, <2>9, CreatesRows
<1>4. CASE ~ On("note")
  <2>1. job'[h] = Onward(job[h], "note") /\ Rest(h) /\ row' = InitialParts
    BY <1>4, BeginIs DEF TestRows, Write
  <2>2. /\ job'[h].op = job[h].op /\ job'[h].at \in {"due", "fallback", "sum"} /\ Shape(job'[h])
        /\ \A x \in Parts : ~ Owns(job'[h], x)
    <3> DEFINE w == Onward(job[h], "note")
    <3>1. /\ w.op = job[h].op /\ w.at \in {"due", "fallback", "sum"} /\ Shape(w)
          /\ \A x \in Parts : Owns(w, x) => \/ x \in job[h].adopts /\ job[h].op # "test" /\ Later("note", x)
                                            \/ x = "note" /\ job[h].skipped
      BY <1>1, <1>2, OnwardIs, Texts
    <3> HIDE DEF w
    <3>2. \A x \in Parts : ~ Owns(w, x)
      BY <1>2, <3>1
    <3> QED BY <2>1, <3>1, <3>2 DEF w
  <2>3. \A x \in Parts : ~ Fatal(job'[h], x)
    BY <2>2 DEF Fatal
  <2> QED BY <1>1, <2>1, <2>2, <2>3, InitialIs, CreatesRows, Texts
<1> QED BY <1>3, <1>4

LEMMA MissedRowsCounts == ASSUME Once, NEW h \in Jobs, MissedRows(h) PROVE Counts(h)
<1>1. job[h].at = "missed rows" /\ job[h].at \in Busy /\ UNCHANGED provider
  BY DEF MissedRows, At, Busy, Phases, provider
<1>2. /\ job'[h].at = "sum" /\ job'[h].op = job[h].op /\ job[h].op # "test" /\ Rest(h) /\ Shape(job'[h])
      /\ \A x \in Parts : ~ Ahead(job'[h], x) /\ ~ Owns(job'[h], x) /\ ~ Fatal(job'[h], x)
  BY <1>1, Walks DEF MissedRows
<1>3. CASE HasRow
  BY <1>1, <1>2, <1>3, Turns, Texts DEF MissedRows
<1>4. CASE ~ HasRow
  <2>1. row' = [p \in Parts |-> NewPart("FAILED")]
    BY <1>4 DEF MissedRows, Write
  <2>2. \A p \in Parts : row'[p].status # "none" /\ row'[p].attempts = 0 /\ row'[p].id = 0
    BY <2>1, NewPartIs
  <2> QED BY <1>1, <1>2, <1>4, <2>2, CreatesRows, Texts
<1> QED BY <1>3, <1>4

LEMMA CancelRowsCounts == ASSUME Once, NEW h \in Jobs, CancelRows(h) PROVE Counts(h)
<1>1. job[h].at = "cancel rows" /\ job[h].at \in Busy /\ UNCHANGED provider /\ End(h)
  BY DEF CancelRows, At, Busy, Phases, provider
<1>2. CASE HasRow
  BY <1>1, <1>2, Ends DEF CancelRows
<1>3. CASE ~ HasRow
  <2>1. row' = [p \in Parts |-> NewPart("SKIPPED")]
    BY <1>3 DEF CancelRows, Write
  <2>2. \A p \in Parts : row'[p].status # "none" /\ row'[p].attempts = 0 /\ row'[p].id = 0
    BY <2>1, NewPartIs
  <2>3. job'[h] = Idle /\ Rest(h)
    BY <1>1, BeginIs DEF End, Begin
  <2>4. HasRow' /\ RowsStay(h)
    BY <1>1, <1>3, <2>2, Texts DEF HasRow, RowsStay
  <2>5. Settled(h)
    BY <2>3, <2>4, IdleIs, Texts DEF Settled, Busy
  <2>6. \A p \in Parts : Counted(p)'
    BY <1>1, <1>3, <2>2, <2>3, IdleIs, Creates
  <2> QED BY <2>3, <2>4, <2>5, <2>6 DEF Counts
<1> QED BY <1>2, <1>3

--------------------------------------------------------------------------------
(* Messages are closed *)

\* Messages are written that stay what they are, as far as claims are concerned.
LEMMA Rewrites ==
    ASSUME Once, NEW h \in Jobs, Rest(h), UNCHANGED provider, HasRow,
           \A p \in Parts : /\ row'[p].attempts = row[p].attempts /\ row'[p].id = row[p].id
                            /\ row'[p].status # "none" \/ row'[p].status = row[p].status
                            /\ row'[p].status \in Claimable => row[p].status \in Claimable,
           Shape(job'[h]), job'[h].op = "test" => job[h].op = "test",
           job'[h].at \notin {"create", "cancel", "test rows"}, job'[h].at \in Busy => job[h].at \in Busy,
           \A p \in Parts : ~ Ahead(job'[h], p) /\ ~ Owns(job'[h], p) /\ ~ Fatal(job'[h], p)
    PROVE  Counts(h)
<1>1. HasRow'
  BY Texts DEF HasRow
<1>2. RowsStay(h) /\ Settled(h)
  BY <1>1, Texts DEF RowsStay, Settled
<1>3. ASSUME NEW p \in Parts PROVE Counted(p)'
  <2>1. Mail(p)' = Mail(p)
    BY DEF Mail, provider
  <2> QED BY <2>1, Stays DEF provider
<1> QED BY <1>2, <1>3 DEF Counts

LEMMA InterruptedIs ==
    ASSUME Once, NEW p \in Parts
    PROVE  /\ Interrupted(p).attempts = row[p].attempts /\ Interrupted(p).id = row[p].id
           /\ Interrupted(p).status = "UNCERTAIN" /\ Interrupted(p).status \notin Claimable
BY RowTypes DEF Interrupted, Part, Once, Claimable

LEMMA MarkCounts == ASSUME Once, NEW h \in Jobs, Mark(h) PROVE Counts(h)
<1>1. job[h].at = "mark" /\ job[h].at \in Busy /\ UNCHANGED provider /\ HasRow
  BY JobIs DEF Mark, At, Busy, Phases, Before, provider
<1>2. /\ job'[h].at = "owner" /\ job'[h].op = job[h].op /\ job[h].op # "test" /\ Rest(h) /\ Shape(job'[h])
      /\ \A x \in Parts : ~ Ahead(job'[h], x) /\ ~ Owns(job'[h], x) /\ ~ Fatal(job'[h], x)
  BY <1>1, Walks DEF Mark
<1>3. PICK p \in Parts : row' = row \/ WritePart(p, Interrupted(p))
  BY DEF Mark, Parts, FreeForm
<1>4. \A x \in Parts : row'[x] = row[x] \/ row'[x] = Interrupted(x)
  BY <1>3 DEF WritePart, Write, Once, Sound, TypeOK
<1>5. \A x \in Parts : /\ row'[x].attempts = row[x].attempts /\ row'[x].id = row[x].id
                       /\ row'[x].status # "none" \/ row'[x].status = row[x].status
                       /\ row'[x].status \in Claimable => row[x].status \in Claimable
  BY <1>4, InterruptedIs
<1> QED BY <1>1, <1>2, <1>5, Rewrites

LEMMA OwnerGoneCounts == ASSUME Once, NEW h \in Jobs, OwnerGone(h) PROVE Counts(h)
<1>1. job[h].at = "close" /\ job[h].at \in Busy /\ UNCHANGED provider /\ HasRow
  BY JobIs DEF OwnerGone, At, Busy, Phases, Before, provider
<1>2. /\ job'[h].at = "sum" /\ job'[h].op = job[h].op /\ job[h].op # "test" /\ Rest(h) /\ Shape(job'[h])
      /\ \A x \in Parts : ~ Ahead(job'[h], x) /\ ~ Owns(job'[h], x) /\ ~ Fatal(job'[h], x)
  BY <1>1, Walks DEF OwnerGone
<1>3. \A x \in Parts : \/ row'[x] = row[x]
                       \/ /\ row[x].status = "PENDING"
                          /\ row'[x] = [row[x] EXCEPT !.status = "FAILED"]
  <2> DEFINE pending == {p \in Parts : row[p].status = "PENDING"}
             r == [p \in Parts |-> IF p \in pending THEN [row[p] EXCEPT !.status = "FAILED"] ELSE row[p]]
  <2>1. row' = row \/ row' = r
    BY DEF OwnerGone, Write
  <2>2. CASE row' = row
    BY <2>2
  <2>3. CASE row' = r
    BY <2>3
  <2> QED BY <2>1, <2>2, <2>3
<1>4. ASSUME NEW x \in Parts
      PROVE  /\ row'[x].attempts = row[x].attempts /\ row'[x].id = row[x].id
             /\ row'[x].status # "none" \/ row'[x].status = row[x].status
             /\ row'[x].status \in Claimable => row[x].status \in Claimable
  BY <1>3, RowTypes DEF Once, Part, Claimable
<1> QED BY <1>1, <1>2, <1>4, Rewrites

LEMMA OwnerCounts == ASSUME Once, NEW h \in Jobs, Owner(h) \/ ReplyOwner(h) PROVE Counts(h)
<1>1. /\ job[h].at \in {"owner", "reply owner"} /\ job[h].at \in Busy /\ HasRow /\ UNCHANGED <<row, provider>>
  BY JobIs DEF Owner, ReplyOwner, At, Busy, Phases, Before, provider
<1>2. CASE End(h)
  BY <1>1, <1>2, Ends
<1>3. CASE ~ End(h)
  <2>1. PICK phase \in {"close", "read", "reply claim"} : Goto(h, phase)
    BY <1>3 DEF Owner, ReplyOwner
  <2> QED BY <1>1, <2>1, Walks, Turns, Texts DEF Before, Busy, Phases
<1> QED BY <1>2, <1>3

LEMMA ExpireCounts == ASSUME Once, NEW h \in Jobs, Expire(h) PROVE Counts(h)
<1> DEFINE w == [Idle EXCEPT !.op = "tick", !.at = "sum"]
<1>1. job'[h] = w /\ Rest(h) /\ UNCHANGED provider
  BY BeginIs DEF Expire, provider
<1>2. w.at = "sum" /\ w.op = "tick" /\ w.adopts = {} /\ ~ w.skipped /\ ~ w.again
  BY DEF Idle
<1> HIDE DEF w
<1>3. Shape(w) /\ \A x \in Parts : ~ Ahead(w, x) /\ ~ Owns(w, x) /\ ~ Fatal(w, x)
  BY <1>2, Light DEF Sending, Phases
<1>4. HasRow
  <2>1. PICK p \in FreeForm : row[p].status = "WAITING_FOR_REPLY"
    BY DEF Expire, Waiting
  <2>2. row # NoRow
    BY <2>1, Texts DEF NoRow, NewPart
  <2> QED BY <2>2 DEF Once, Placed
<1>5. \A x \in Parts : row'[x] = IF x \in Waiting THEN [row[x] EXCEPT !.status = "FAILED", !.shut = FALSE] ELSE row[x]
  BY DEF Expire, Write
<1>6. ASSUME NEW x \in Parts
      PROVE  /\ row'[x].attempts = row[x].attempts /\ row'[x].id = row[x].id
             /\ row'[x].status # "none" \/ row'[x].status = row[x].status
             /\ row'[x].status \in Claimable => row[x].status \in Claimable
  BY <1>5, RowTypes DEF Once, Part, Claimable, Waiting
<1> QED BY <1>1, <1>2, <1>3, <1>4, <1>6, Rewrites DEF Busy

--------------------------------------------------------------------------------
(* Jobs that start *)

\* A job starts with nothing in hand.
LEMMA StartsPlainly ==
    ASSUME Once, NEW h \in Jobs, NEW w, Begin(h, w), UNCHANGED <<row, provider>>,
           w.at \in {"create", "missed rows", "recover"}, w.adopts = {}, ~ w.skipped, ~ w.again, w.op # "test",
           w.at # "recover" => scene.kind = "SCHEDULED", w.at = "recover" => HasRow
    PROVE  Counts(h)
<1>1. job'[h] = w /\ Rest(h)
  BY BeginIs
<1>2. Shape(w) /\ \A x \in Parts : ~ Ahead(w, x) /\ ~ Owns(w, x) /\ ~ Fatal(w, x)
  BY Light DEF Sending, Phases
<1> QED BY <1>1, <1>2, Turns, Texts DEF Busy, Before

LEMMA StartCounts == ASSUME Once, NEW h \in Jobs, Tick(h) \/ Miss(h) \/ Reply(h) PROVE Counts(h)
<1>1. UNCHANGED <<row, provider>>
  BY DEF Tick, Miss, Reply, provider
<1>2. CASE Tick(h)
  <2> DEFINE w == [Idle EXCEPT !.op = "tick", !.at = "create", !.takes = FreeForm]
  <2>1. Begin(h, w) /\ scene.kind = "SCHEDULED"
    BY <1>2 DEF Tick
  <2>2. w.at = "create" /\ w.op = "tick" /\ w.adopts = {} /\ ~ w.skipped /\ ~ w.again
    BY DEF Idle
  <2> HIDE DEF w
  <2> QED BY <1>1, <2>1, <2>2, StartsPlainly
<1>3. CASE Miss(h)
  <2> DEFINE w == [Idle EXCEPT !.op = "tick", !.at = "missed rows"]
  <2>1. Begin(h, w) /\ scene.kind = "SCHEDULED"
    BY <1>3 DEF Miss
  <2>2. w.at = "missed rows" /\ w.op = "tick" /\ w.adopts = {} /\ ~ w.skipped /\ ~ w.again
    BY DEF Idle
  <2> HIDE DEF w
  <2> QED BY <1>1, <2>1, <2>2, StartsPlainly
<1>4. CASE Reply(h)
  <2> DEFINE w == [Idle EXCEPT !.op = "reply", !.at = "recover"]
  <2>1. Begin(h, w) /\ HasRow
    BY <1>4 DEF Reply
  <2>2. w.at = "recover" /\ w.op = "reply" /\ w.adopts = {} /\ ~ w.skipped /\ ~ w.again
    BY DEF Idle
  <2> HIDE DEF w
  <2> QED BY <1>1, <2>1, <2>2, StartsPlainly
<1> QED BY <1>2, <1>3, <1>4

\* A retry starts while no test is being sent.
LEMMA RetryCounts ==
    ASSUME Once, NEW h \in Handlers \cap scene.jobs, "retry" \in scene.requests, NEW p \in Parts, Retry(h, p)
    PROVE  h \in Jobs /\ Counts(h)
<1> DEFINE w == [Idle EXCEPT !.op = "retry", !.at = "retry", !.part = p, !.seen = row]
<1>1. h \in Jobs /\ job[h].at = "idle" /\ HasRow /\ Begin(h, w) /\ UNCHANGED <<row, provider>> /\ Retryable(p)
  BY DEF Jobs, Retry, At, provider
<1>2. job'[h] = w /\ Rest(h)
  BY <1>1, BeginIs
<1>3. /\ w.at = "retry" /\ w.op = "retry" /\ w.part = p /\ w.seen = row
      /\ w.adopts = {} /\ ~ w.skipped /\ ~ w.again
  BY DEF Idle
<1> HIDE DEF w
<1>4. row[p].status \in Claimable
  BY <1>1 DEF Retryable, Claimable
<1>5. Shape(w)
  BY <1>3, <1>4 DEF Shape
<1>6. \A x \in Parts : ~ Ahead(w, x) /\ ~ Owns(w, x) /\ ~ Fatal(w, x)
  BY <1>3 DEF Ahead, Owns, Fatal, Sending
<1>7. scene.kind = "SCHEDULED" \/ \A g \in Jobs : job[g].op # "test"
  <2> SUFFICES ASSUME scene.kind # "SCHEDULED", NEW g \in Jobs, job[g].op = "test" PROVE FALSE
    OBVIOUS
  <2>1. g \in Handlers \cap scene.jobs /\ scene.kind = "TEST"
    BY DEF Once, Placed
  <2>2. g = h
    BY <2>1 DEF Once, Calm
  <2>3. Shape(job[h])
    BY <1>1, JobIs
  <2> QED BY <1>1, <2>2, <2>3 DEF Shape
<1> QED BY <1>1, <1>2, <1>3, <1>5, <1>6, <1>7, Turns, Texts DEF Before

LEMMA RetryClaimCounts == ASSUME Once, NEW h \in Jobs, RetryClaim(h) PROVE Counts(h)
<1>0. PICK p \in Parts : p = job[h].part
  BY JobIs
<1>1. /\ job[h] \in Job /\ job[h].at = "retry" /\ Shape(job[h]) /\ HasRow /\ UNCHANGED provider /\ job[h].at \in Busy
  BY JobIs DEF RetryClaim, At, Before, provider, Busy, Phases
<1>2. ~ job[h].again /\ ~ job[h].skipped /\ job[h].adopts = {} /\ job[h].op # "test" /\ job[h].seen[p].status \in Claimable
  BY <1>0, <1>1 DEF Shape
<1>3. CASE ~ (row[p].status = job[h].seen[p].status /\ row[p].attempts = job[h].seen[p].attempts)
  BY <1>0, <1>1, <1>3, Ends DEF RetryClaim
<1>4. CASE row[p].status = job[h].seen[p].status /\ row[p].attempts = job[h].seen[p].attempts
  <2>1. row[p].status \in Claimable /\ WritePart(p, Claimed(row[p]))
    BY <1>0, <1>2, <1>4 DEF RetryClaim
  <2>2. CASE p = "note"
    <3> DEFINE v == Holding(job[h], p, "note")
               w == [v EXCEPT !.takes = FreeForm]
    <3>1. job'[h] = w /\ Rest(h)
      BY <1>0, <1>4, <2>2, BeginIs DEF RetryClaim
    <3>2. /\ v.at = "note" /\ v.part = p /\ v.attempt = row[p].attempts + 1 /\ v.op = job[h].op
          /\ v.adopts = job[h].adopts /\ v.skipped = job[h].skipped /\ v.again = job[h].again
      BY <1>1, HoldingIs
    <3>3. /\ w.at = v.at /\ w.part = v.part /\ w.attempt = v.attempt /\ w.op = v.op
          /\ w.adopts = v.adopts /\ w.skipped = v.skipped /\ w.again = v.again
      BY <1>1 DEF Holding, Job
    <3> HIDE DEF w, v
    <3>4. Shape(w) /\ Knows(w, p, row[p].attempts + 1, FALSE)
      BY <1>2, <2>2, <3>2, <3>3 DEF Shape, Knows
    <3>5. /\ \A x \in Parts : ~ Fatal(w, x)
          /\ \A x \in Parts \ {p} : ~ Owns(w, x)
      BY <1>2, <3>2, <3>3 DEF Fatal, Owns
    <3>6. w.at \notin Before /\ w.op # "test"
      BY <1>2, <3>2, <3>3 DEF Before
    <3> QED BY <1>1, <2>1, <3>1, <3>4, <3>5, <3>6, Claiming
  <2>3. CASE p # "note"
    <3> DEFINE w == [job[h] EXCEPT !.at = "due", !.part = "txt", !.seen = NoRow, !.takes = {p}, !.adopts = {p}]
    <3>1. job'[h] = w /\ Rest(h)
      BY <1>0, <1>4, <2>3, BeginIs DEF RetryClaim
    <3>2. /\ w.at = "due" /\ w.part = "txt" /\ w.op = job[h].op /\ w.adopts = {p}
          /\ w.skipped = job[h].skipped /\ w.again = job[h].again
      BY <1>1 DEF Job
    <3> HIDE DEF w
    <3>3. Shape(w) /\ Knows(w, p, row[p].attempts + 1, FALSE)
      BY <1>2, <2>3, <3>2, Texts DEF Shape, Knows, Sending
    <3>4. /\ \A x \in Parts : ~ Fatal(w, x)
          /\ \A x \in Parts \ {p} : ~ Owns(w, x)
      BY <1>2, <3>2 DEF Fatal, Owns, Sending
    <3>5. w.at \notin Before /\ w.op # "test"
      BY <1>2, <3>2 DEF Before
    <3> QED BY <1>1, <2>1, <3>1, <3>3, <3>4, <3>5, Claiming
  <2> QED BY <2>2, <2>3
<1> QED BY <1>3, <1>4

--------------------------------------------------------------------------------
(* The recipient writes *)

LEMMA RecoverCounts == ASSUME Once, NEW h \in Jobs, Recover(h) PROVE Counts(h)
<1>1. /\ job[h] \in Job /\ job[h].at = "recover" /\ Shape(job[h]) /\ HasRow /\ UNCHANGED provider
  BY JobIs DEF Recover, At, Before, provider
<1>2. CASE Goto(h, "select") /\ row' = row
  BY <1>1, <1>2, Walks, Turns, Texts DEF Before, Busy
<1>3. CASE ~ (Goto(h, "select") /\ row' = row)
  <2> DEFINE w == [job[h] EXCEPT !.at = "sum", !.then = "select"]
  <2>1. job'[h] = w /\ Rest(h)
    BY <1>3, BeginIs DEF Recover
  <2>2. /\ w.at = "sum" /\ w.op = job[h].op /\ w.adopts = job[h].adopts /\ w.skipped = job[h].skipped
        /\ w.again = job[h].again
    BY <1>1 DEF Job
  <2> HIDE DEF w
  <2>3. w.adopts = {} /\ ~ w.skipped /\ ~ w.again
    BY <1>1, <2>2 DEF Shape
  <2>4. Shape(w) /\ \A x \in Parts : ~ Ahead(w, x) /\ ~ Owns(w, x) /\ ~ Fatal(w, x)
    BY <2>2, <2>3, Light DEF Sending, Phases
  <2>5. \A x \in Parts : row'[x] = IF row[x].status = "SENDING" THEN Interrupted(x) ELSE row[x]
    BY <1>3 DEF Recover, Write
  <2>6. \A x \in Parts : /\ row'[x].attempts = row[x].attempts /\ row'[x].id = row[x].id
                         /\ row'[x].status # "none" \/ row'[x].status = row[x].status
                         /\ row'[x].status \in Claimable => row[x].status \in Claimable
    BY <2>5, InterruptedIs
  <2> QED BY <1>1, <2>1, <2>2, <2>4, <2>6, Rewrites DEF Busy
<1> QED BY <1>2, <1>3

LEMMA SelectCounts == ASSUME Once, NEW h \in Jobs, Select(h) PROVE Counts(h)
<1>1. /\ job[h] \in Job /\ job[h].at = "select" /\ Shape(job[h]) /\ HasRow /\ UNCHANGED <<row, provider>>
  BY JobIs DEF Select, At, Before, provider
<1>2. CASE End(h)
  BY <1>1, <1>2, Ends
<1>3. CASE ~ End(h)
  <2> DEFINE w == [job[h] EXCEPT !.at = "reply owner", !.part = "txt", !.seen = row]
  <2>1. job'[h] = w /\ Rest(h) /\ scene.kind = "SCHEDULED"
    BY <1>3, BeginIs DEF Select
  <2>2. /\ w.at = "reply owner" /\ w.op = job[h].op /\ w.adopts = job[h].adopts /\ w.skipped = job[h].skipped
        /\ w.again = job[h].again
    BY <1>1 DEF Job
  <2> HIDE DEF w
  <2>3. w.adopts = {} /\ ~ w.skipped /\ ~ w.again
    BY <1>1, <2>2 DEF Shape
  <2>4. w.op # "test"
    BY <2>1, <2>2 DEF Once, Placed
  <2>5. Shape(w) /\ \A x \in Parts : ~ Ahead(w, x) /\ ~ Owns(w, x) /\ ~ Fatal(w, x)
    BY <2>2, <2>3, <2>4, Light DEF Sending, Phases
  <2> QED BY <1>1, <2>1, <2>2, <2>5, Turns, Texts DEF Before
<1> QED BY <1>2, <1>3

LEMMA ReplyClaimCounts == ASSUME Once, NEW h \in Jobs, ReplyClaim(h) PROVE Counts(h)
<1>0. PICK p \in Parts : p = job[h].part
  BY JobIs
<1>1. /\ job[h] \in Job /\ job[h].at = "reply claim" /\ Shape(job[h]) /\ HasRow /\ UNCHANGED provider /\ job[h].at \in Busy
      /\ p \in FreeForm
  BY <1>0, JobIs DEF ReplyClaim, At, Before, provider, Busy, Phases, OKJob
<1>2. ~ job[h].again /\ ~ job[h].skipped /\ job[h].op # "test"
  BY <1>1 DEF Shape
<1> DEFINE part == job[h].seen[p]
           won == /\ part.status \in Held /\ part.attempts < MaxTries
                  /\ row[p].status = part.status /\ row[p].attempts = part.attempts
           parts == job[h].adopts \cup (IF won THEN {p} ELSE {})
           next == [job[h] EXCEPT !.part = "doc", !.adopts = parts]
           over == [job[h] EXCEPT !.at = "due", !.part = "txt", !.takes = parts, !.adopts = parts]
<1>3. /\ IF won THEN WritePart(p, Claimed(row[p])) ELSE UNCHANGED <<row, stale>>
      /\ \/ Begin(h, next)
         \/ parts = {} /\ End(h)
         \/ Begin(h, over)
  BY <1>0 DEF ReplyClaim
<1>4. CASE parts = {} /\ End(h)
  BY <1>1, <1>3, <1>4, Ends
<1>5. ASSUME NEW w \in {next, over}, Begin(h, w) PROVE Counts(h)
  <2>1. job'[h] = w /\ Rest(h)
    BY <1>5, BeginIs
  <2>2. /\ next.at = "reply claim" /\ next.part = "doc" /\ next.op = job[h].op /\ next.adopts = parts
        /\ next.skipped = job[h].skipped /\ next.again = job[h].again
        /\ over.at = "due" /\ over.part = "txt" /\ over.op = job[h].op /\ over.adopts = parts
        /\ over.skipped = job[h].skipped /\ over.again = job[h].again
    BY <1>1 DEF Job
  <2>3. /\ w.at \in {"reply claim", "due"} /\ w.part \in FreeForm /\ w.op = job[h].op /\ w.adopts = parts
        /\ ~ w.skipped /\ ~ w.again
    BY <1>2, <1>5, <2>2, Texts
  <2> HIDE DEF next, over, parts
  <2>4. Shape(w)
    BY <1>2, <2>3 DEF Shape
  <2>5. \A x \in Parts : ~ Fatal(w, x) /\ (Owns(w, x) => x \in parts)
    BY <2>3 DEF Fatal, Owns, Sending
  <2>6. ASSUME NEW x \in Parts, x \in job[h].adopts
        PROVE  Owns(job[h], x) /\ Knows(w, x, row[x].attempts, Last(x) \in mail)
    <3>1. Owns(job[h], x)
      BY <1>1, <1>2, <2>6 DEF Owns
    <3>2. Knows(job[h], x, row[x].attempts, Last(x) \in mail)
      BY <3>1, Knowledge
    <3>3. Last(x) \notin mail
      BY <1>1, <3>2 DEF Knows
    <3> QED BY <2>3, <3>1, <3>3 DEF Knows, Sending
  <2>7. w.at \notin Before /\ w.op # "test" /\ w.at \notin {"create", "cancel", "test rows"}
    BY <1>2, <2>3 DEF Before
  <2>8. CASE won
    <3>1. row[p].status \in Claimable /\ WritePart(p, Claimed(row[p]))
      BY <1>3, <2>8 DEF Held, Claimable
    <3>2. Knows(w, p, row[p].attempts + 1, FALSE)
      BY <2>3 DEF Knows, Sending
    <3>3. \A x \in Parts \ {p} : Owns(w, x) => Owns(job[h], x) /\ Knows(w, x, row[x].attempts, Last(x) \in mail)
      BY <2>5, <2>6 DEF parts
    <3> QED BY <1>1, <2>1, <2>4, <2>5, <2>7, <3>1, <3>2, <3>3, Claiming
  <2>9. CASE ~ won
    <3>1. row' = row
      BY <1>3, <2>9
    <3>2. \A x \in Parts : Owns(w, x) => Owns(job[h], x) /\ Knows(w, x, row[x].attempts, Last(x) \in mail)
      BY <2>5, <2>6, <2>9 DEF parts
    <3> QED BY <1>1, <2>1, <2>4, <2>5, <2>7, <3>1, <3>2, Turns
  <2> QED BY <2>8, <2>9
<1> QED BY <1>3, <1>4, <1>5

LEMMA InterruptCounts == ASSUME Once, NEW h \in Jobs, Interrupt(h) PROVE Counts(h)
<1>1. job[h] \in Job /\ job[h].at = "interrupted" /\ HasRow /\ UNCHANGED provider
  BY JobIs DEF Interrupt, At, Before, provider
<1>2. job'[h] = Summing(job[h]) /\ Rest(h)
  BY BeginIs DEF Interrupt
<1>3. /\ job'[h].at = "sum" /\ job'[h].op = job[h].op /\ Shape(job'[h])
      /\ \A x \in Parts : ~ Ahead(job'[h], x) /\ ~ Owns(job'[h], x) /\ ~ Fatal(job'[h], x)
  BY <1>1, <1>2, SummingIs
<1>4. \A x \in Parts : row'[x] = row[x] \/ row'[x] = Interrupted(x)
  BY DEF Interrupt, Write
<1>5. \A x \in Parts : /\ row'[x].attempts = row[x].attempts /\ row'[x].id = row[x].id
                       /\ row'[x].status # "none" \/ row'[x].status = row[x].status
                       /\ row'[x].status \in Claimable => row[x].status \in Claimable
  BY <1>4, InterruptedIs
<1> QED BY <1>1, <1>2, <1>3, <1>5, Rewrites DEF Busy

--------------------------------------------------------------------------------
(* The provider's callbacks *)

LEMMA HookCounts == ASSUME Once, NEW h \in Jobs, Hook(h) PROVE Counts(h)
<1>0. PICK p \in Parts : p = job[h].part
  BY JobIs
<1>1. /\ job[h] \in Job /\ job[h].at = "hook" /\ HasRow /\ UNCHANGED provider /\ job[h].event \in Events
  BY JobIs DEF Hook, At, Before, provider, OKJob
<1>2. CASE End(h) /\ row' = row
  BY <1>1, <1>2, Ends
<1>3. CASE ~ (End(h) /\ row' = row)
  <2> DEFINE e == job[h].event
             n == IF e = "FAILED" THEN "never" ELSE row[p].next
             q == [row[p] EXCEPT !.status = e, !.shut = FALSE, !.next = n]
  <2>1. job'[h] = Summing(job[h]) /\ Rest(h) /\ WritePart(p, q)
    BY <1>0, <1>3, BeginIs DEF Hook
  <2>2. /\ job'[h].at = "sum" /\ job'[h].op = job[h].op /\ Shape(job'[h])
        /\ \A x \in Parts : ~ Ahead(job'[h], x) /\ ~ Owns(job'[h], x) /\ ~ Fatal(job'[h], x)
    BY <1>1, <2>1, SummingIs
  <2> HIDE DEF n
  <2>3. q.status = e /\ q.attempts = row[p].attempts /\ q.id = row[p].id
    BY RowTypes DEF Once, Part
  <2>4. q.status # "none" /\ (q.status \in Claimable => e = "FAILED")
    BY <1>1, <2>3 DEF Events, Claimable
  <2> HIDE DEF q
  <2>5. RowsStay(h) /\ HasRow' /\ row'[p] = q /\ \A x \in Parts \ {p} : row'[x] = row[x]
    BY <1>1, <2>1, <2>3, <2>4, OneWrite
  <2>6. Settled(h)
    BY <2>2, <2>5, Texts DEF Settled, Busy
  <2>7. \A x \in Parts : Mail(x)' = Mail(x)
    BY <1>1 DEF Mail, provider
  <2>8. Counted(p)'
    <3>1. CASE e = "FAILED"
      <4>1. Fatal(job[h], p)
        BY <1>0, <1>1, <3>1 DEF Fatal
      <4> QED BY <1>1, <2>1, <2>2, <2>3, <2>5, <4>1, WritesBounce DEF provider
    <3>2. CASE e # "FAILED"
      BY <1>1, <2>1, <2>2, <2>3, <2>4, <2>5, <2>7, <3>2, Stays DEF provider
    <3> QED BY <3>1, <3>2
  <2>9. \A x \in Parts \ {p} : Counted(x)'
    BY <1>1, <2>1, <2>2, <2>5, <2>7, Stays DEF provider
  <2> QED BY <2>1, <2>5, <2>6, <2>8, <2>9 DEF Counts
<1> QED
  BY <1>2, <1>3

LEMMA CallbackCounts ==
    ASSUME Once, NEW h \in Jobs, NEW m \in mail, NEW event \in Events, Callback(h, m, event)
    PROVE  Counts(h)
<1> DEFINE w == [Idle EXCEPT !.op = "hook", !.at = "hook", !.part = m[1], !.seen = row, !.event = event]
<1>1. /\ job[h].at = "idle" /\ UNCHANGED <<row, reached, mail, lost>> /\ told' = told \cup {<<m, event>>}
      /\ <<m, event>> \notin told /\ Shape(job[h])
  BY JobIs DEF Callback, At
<1>2. PICK p \in Parts : p = m[1] /\ m[2] \in Nat /\ m[2] >= 1 /\ m = <<p, m[2]>>
  BY MailTypes DEF Once
<1>3. \/ row[p].id = m[2] /\ job'[h] = w /\ Rest(h)
      \/ job'[h] = job[h] /\ Rest(h)
  <2>1. CASE row[m[1]].id = m[2]
    BY <1>2, <2>1, BeginIs DEF Callback
  <2>2. CASE row[m[1]].id # m[2]
    BY <2>2 DEF Callback, Rest
  <2> QED BY <2>1, <2>2
<1>4. Tally(p) /\ row[p].attempts \in Nat /\ row[p].id \in Nat
  BY RowTypes DEF Once, Counted
<1>5. m[2] <= row[p].attempts /\ (m[2] < row[p].attempts => Bounce(m))
  BY <1>2, <1>4 DEF Tally
<1>6. HasRow
  <2> SUFFICES ASSUME ~ HasRow PROVE FALSE
    OBVIOUS
  <2>1. row = NoRow
    BY DEF Once, Placed
  <2>2. NoRow[p] = NewPart("none")
    BY DEF NoRow
  <2>3. row[p].attempts = 0
    BY <2>1, <2>2 DEF NewPart
  <2> QED BY <1>2, <1>5, <2>3
<1>7. w.at = "hook" /\ w.op = "hook" /\ w.part = p /\ w.event = event /\ w.adopts = {} /\ ~ w.skipped /\ ~ w.again
  BY <1>2 DEF Idle
<1> HIDE DEF w
<1>8. Shape(w) /\ \A x \in Parts : ~ Ahead(w, x) /\ ~ Owns(w, x) /\ (Fatal(w, x) => x = p /\ event = "FAILED")
  BY <1>7 DEF Shape, Ahead, Owns, Fatal, Sending
<1>9. RowsStay(h) /\ HasRow'
  BY <1>1, <1>6 DEF RowsStay, HasRow
<1>10. Settled(h)
  <2>1. CASE job'[h] = w
    BY <1>7, <1>8, <1>9, <2>1, Texts DEF Settled, Busy
  <2>2. CASE job'[h] = job[h]
    BY <1>1, <1>9, <2>2 DEF Settled, Busy, Ahead, Sending
  <2> QED BY <1>3, <2>1, <2>2
<1>11. \A x \in Parts : Mail(x)' = Mail(x)
  BY <1>1 DEF Mail
<1>12. Rest(h) /\ told \subseteq told'
  BY <1>1, <1>3
<1>13. ASSUME NEW x \in Parts, job'[h] = w, ~ Fatal(w, x) PROVE Counted(x)'
  <2>1. ~ Owns(job'[h], x) /\ ~ Fatal(job'[h], x)
    BY <1>8, <1>13
  <2> QED BY <1>1, <1>11, <1>12, <2>1, Stays
<1>14. ASSUME NEW x \in Parts, job'[h] = job[h] PROVE Counted(x)'
  <2>1. Owns(job'[h], x) => Owns(job[h], x) /\ Knows(job'[h], x, row[x].attempts, Last(x) \in mail)
    BY <1>14, Knowledge
  <2>2. Fatal(job'[h], x) => Fatal(job[h], x)
    BY <1>14
  <2> QED BY <1>1, <1>11, <1>12, <2>1, <2>2, Stays
<1>15. CASE job'[h] = w /\ Fatal(w, p) /\ row[p].id = m[2]
  <2>1. event = "FAILED" /\ ~ Bounce(m)
    BY <1>1, <1>8, <1>15 DEF Bounce
  <2>2. m[2] = row[p].attempts
    BY <1>2, <1>4, <1>5, <2>1
  <2>3. m = Last(p)
    BY <1>2, <2>2 DEF Last
  <2>4. ~ Owns(job'[h], p)
    BY <1>8, <1>15
  <2>5. Counted(p)'
    BY <1>1, <1>12, <1>15, <2>1, <2>2, <2>3, <2>4, Reports
  <2>6. \A x \in Parts : x # p => ~ Fatal(w, x)
    BY <1>8
  <2> QED BY <1>9, <1>10, <1>12, <1>13, <1>15, <2>5, <2>6 DEF Counts
<1>16. CASE job'[h] = w /\ ~ Fatal(w, p)
  <2>1. \A x \in Parts : ~ Fatal(w, x)
    BY <1>8, <1>16
  <2> QED BY <1>9, <1>10, <1>12, <1>13, <1>16, <2>1 DEF Counts
<1>17. CASE job'[h] = job[h]
  BY <1>9, <1>10, <1>12, <1>14, <1>17 DEF Counts
<1> QED BY <1>3, <1>15, <1>16, <1>17

--------------------------------------------------------------------------------
(* A test is sent *)

LEMMA TestPlaced ==
    ASSUME Once, Cancelled, NEW h \in Handlers \cap scene.jobs, Test(h)
    PROVE  Placed' /\ \A p \in Parts : Counted(p)'
<1> DEFINE w == [Idle EXCEPT !.op = "test", !.at = "test rows", !.takes = FreeForm, !.adopts = FreeForm]
<1>1. /\ h \in Jobs /\ scene' = scene /\ scene.kind = "TEST" /\ UNCHANGED <<row, reached, mail, told, lost>>
      /\ Begin(h, w) /\ run.status = "none"
  BY DEF Jobs, Test, provider
<1>2. job'[h] = w /\ Rest(h)
  BY <1>1, BeginIs
<1>3. /\ w.op = "test" /\ w.at = "test rows" /\ w.part = "note" /\ w.adopts = FreeForm /\ ~ w.skipped /\ ~ w.again
  BY DEF Idle
<1> HIDE DEF w
<1>4. Shape(w) /\ \A x \in Parts : ~ Ahead(w, x) /\ ~ Owns(w, x) /\ ~ Fatal(w, x)
  BY <1>3 DEF Shape, Ahead, Owns, Fatal, Sending
<1>5. row = NoRow /\ ~ HasRow /\ \A g \in Jobs : job[g].at = "idle" /\ job[g].op # "test"
  <2>1. row = NoRow /\ \A g \in Jobs : job[g].at \in Early
    BY <1>1 DEF Cancelled, None
  <2>2. ~ HasRow
    BY <2>1, Quiescent
  <2>3. \A g \in Jobs : job[g].at = "idle"
    BY <1>1, <2>1 DEF Early, Once, Placed
  <2>4. \A g \in Jobs : job[g].op # "test"
    BY <2>3 DEF Once, Placed, Shape
  <2> QED BY <2>1, <2>2, <2>3, <2>4
<1>6. row' = NoRow /\ NoRow' = NoRow /\ ~ HasRow'
  BY <1>1, <1>5 DEF HasRow, NoRow, NewPart
<1>7. /\ \A g \in Jobs : job'[g] = IF g = h THEN w ELSE job[g]
      /\ \A g \in Jobs \ {h} : job'[g].at = "idle" /\ job'[g].op # "test" /\ Shape(job'[g])
  BY <1>2, <1>5 DEF Rest, Once, Placed
<1>8. Placed'
  <2>1. \A g \in Jobs : Shape(job[g])'
    BY <1>2, <1>4, <1>7, JobNext, Texts
  <2>2. \A g \in Jobs, p \in FreeForm : job'[g].op = "test" => ~ Ahead(job[g], p)'
    BY <1>2, <1>4, <1>7, JobNext, Texts
  <2>3. \A g \in Jobs : job'[g].at \in {"idle", "test rows"} /\ (job'[g].op = "test" => g = h)
    BY <1>2, <1>3, <1>7
  <2>4. \A f, g \in Jobs : f # g /\ job'[f].op = "test" => job'[g].at \notin Busy
    BY <1>7, <2>3 DEF Busy
  <2> QED BY <1>1, <1>6, <2>1, <2>2, <2>3, <2>4 DEF Placed, Before
<1>9. \A p \in Parts : Counted(p)'
  BY <1>1, <1>2, <1>4, Aloof
<1> QED BY <1>8, <1>9

--------------------------------------------------------------------------------
(* The world, and all steps *)

LEMMA WorldPlaced ==
    ASSUME Once, UNCHANGED <<scene, job, reached, mail, told, lost>>, row' = row \/ HasRow,
           \A p \in Parts : row'[p].status = row[p].status /\ row'[p].attempts = row[p].attempts /\ row'[p].id = row[p].id
    PROVE  Placed' /\ \A p \in Parts : Counted(p)'
<1>1. HasRow' <=> HasRow
  BY Texts DEF HasRow
<1>2. Placed'
  <2>1. \A g \in Jobs : Shape(job[g])'
    BY JobNext, Texts DEF Once, Placed
  <2>2. \A g \in Jobs, p \in FreeForm : job'[g].op = "test" /\ Ahead(job[g], p)' => row'[p].attempts = 0
    BY JobNext, Texts DEF Once, Placed
  <2>3. ~ HasRow' => row' = NoRow'
    BY <1>1 DEF Once, Placed, NoRow, NewPart
  <2> QED BY <1>1, <2>1, <2>2, <2>3 DEF Once, Placed
<1>3. ASSUME NEW p \in Parts PROVE Counted(p)'
  <2>1. Tally(p) /\ Owned(p) /\ Bounces(p)
    BY DEF Once, Counted
  <2>2. Last(p)' = Last(p) /\ (\A m : Bounce(m)' <=> Bounce(m)) /\ Mail(p)' = Mail(p)
    BY DEF Last, Bounce, Mail
  <2>3. Tally(p)'
    BY <2>1, <2>2 DEF Tally
  <2>4. Owned(p)'
    BY <2>1, <2>2, JobNext DEF Owned, Fit, Knows
  <2>5. Bounces(p)'
    BY <2>1, <2>2, JobNext DEF Bounces
  <2> QED BY <2>3, <2>4, <2>5 DEF Counted
<1> QED BY <1>2, <1>3

LEMMA WorldCounts ==
    ASSUME Once,
           \/ Delete \/ Age \/ RetryTime \/ Stale \/ WindowEnds \/ OwnerChanges \/ UNCHANGED vars
           \/ \E s \in {"saved", "off"} : Configure(s)
    PROVE  Placed' /\ \A p \in Parts : Counted(p)'
<1>1. UNCHANGED <<scene, job, reached, mail, told, lost>>
  BY DEF Delete, Age, RetryTime, Stale, WindowEnds, OwnerChanges, Configure, provider, vars
<1>2. CASE RetryTime
  <2>1. row["note"].next = "later" /\ row' = [row EXCEPT !["note"].next = "now"]
    BY <1>2 DEF RetryTime
  <2>2. HasRow
    BY <2>1, Texts, Quiescent DEF Once, Placed
  <2>3. \A p \in Parts : row'[p].status = row[p].status /\ row'[p].attempts = row[p].attempts /\ row'[p].id = row[p].id
    <3>1. row \in [Parts -> Part]
      BY DEF Once, Sound, TypeOK
    <3> QED BY <2>1, <3>1 DEF Part
  <2> QED BY <1>1, <2>2, <2>3, WorldPlaced
<1>3. CASE ~ RetryTime
  <2>1. row' = row
    BY <1>3 DEF Delete, Age, Stale, WindowEnds, OwnerChanges, Configure, vars
  <2> QED BY <1>1, <2>1, WorldPlaced
<1> QED BY <1>2, <1>3

\* What the jobs do next, or fail to do.
LEMMA StepCounts == ASSUME Once, NEW h \in Jobs, Step(h) \/ Fails(h) PROVE Counts(h)
BY NoteCounts, DueCounts, TakeCounts, FreeCounts, NotBuiltCounts, PostCounts, NoAnswerCounts, RecordCounts,
   FallbackCounts, SumCounts, StoreCounts, ThrowCounts, StopCounts, CreateCounts, RowsCounts, MarkCounts, OwnerCounts,
   OwnerGoneCounts, ReadCounts, ClaimCounts, MissedRowsCounts, TestRowsCounts, CancelRowsCounts, RetryClaimCounts, RecoverCounts,
   SelectCounts, ReplyClaimCounts, InterruptCounts, HookCounts
   DEF Step, Fails

\* The scene is set once.
LEMMA SameScene == ASSUME [Next]_vars PROVE scene' = scene
<1>1. ASSUME NEW h \in Jobs, Step(h) \/ Fails(h) PROVE scene' = scene
  BY <1>1 DEF Step, Fails, Note, Due, Take, Free, Post, Record, Fallback, Sum, Store, Create, Rows, Mark, Owner, Read,
              Claim, MissedRows, TestRows, CancelRun, CancelRows, RetryClaim, Recover, Select, ReplyOwner, ReplyClaim,
              Interrupt, Hook,
              NotBuilt, NoAnswer, NotRecorded, OwnerGone, Throw, Stop
<1>2. ASSUME ~ \E h \in Jobs : Step(h) \/ Fails(h) PROVE scene' = scene
  BY <1>2 DEF Next, vars, Tick, Miss, Expire, Test, Cancel, Retry, Reply, Callback, Delete, Configure, Age, RetryTime,
              Stale, WindowEnds, OwnerChanges
<1> QED BY <1>1, <1>2

LEMMA NextCounts ==
    ASSUME Once, Cancelled, [Next]_vars
    PROVE  Placed' /\ \A p \in Parts : Counted(p)'
<1>0. scene' = scene
  BY SameScene
<1>1. ASSUME NEW h \in Jobs, Counts(h) PROVE Placed' /\ \A p \in Parts : Counted(p)'
  BY <1>0, <1>1, PlacedStep DEF Counts
<1>2. CASE \E h \in Jobs : Step(h) \/ Fails(h)
  BY <1>1, <1>2, StepCounts
<1>3. CASE \E h \in Tickers \cap scene.jobs : Tick(h) \/ Miss(h) \/ Expire(h)
  <2>1. PICK h \in Jobs : Tick(h) \/ Miss(h) \/ Expire(h)
    BY <1>3 DEF Jobs
  <2> QED BY <1>1, <2>1, StartCounts, ExpireCounts
<1>4. ASSUME NEW h \in Handlers \cap scene.jobs,
             \/ "test" \in scene.requests /\ Test(h)
             \/ "cancel" \in scene.requests /\ Cancel(h)
             \/ "retry" \in scene.requests /\ \E p \in Parts : Retry(h, p)
             \/ "reply" \in scene.requests /\ Reply(h)
             \/ \E m \in mail, event \in scene.events : Callback(h, m, event)
      PROVE Placed' /\ \A p \in Parts : Counted(p)'
  <2>1. h \in Jobs /\ scene.events \subseteq Events
    BY ScenesAssumption DEF Jobs, Once, Sound, TypeOK
  <2>2. CASE Test(h)
    BY <2>2, TestPlaced
  <2>3. CASE "retry" \in scene.requests /\ \E p \in Parts : Retry(h, p)
    BY <1>1, <2>3, RetryCounts
  <2>4. CASE Cancel(h) \/ Reply(h)
    BY <1>1, <2>1, <2>4, CreateCounts, StartCounts
  <2>5. CASE \E m \in mail, event \in scene.events : Callback(h, m, event)
    BY <1>1, <2>1, <2>5, CallbackCounts
  <2> QED BY <1>4, <2>2, <2>3, <2>4, <2>5
<1>5. CASE \/ Delete \/ Age \/ RetryTime \/ Stale \/ WindowEnds \/ OwnerChanges \/ UNCHANGED vars
           \/ \E s \in {"saved", "off"} : Configure(s)
  BY <1>5, WorldCounts
<1> QED BY <1>2, <1>3, <1>4, <1>5 DEF Next

\* The inductive invariant.  It is false of a test that one user retries while another user's
\* request still sends it: the request adopts what the retry has claimed.
OInv == CInv /\ (Calm => Once)

LEMMA InitOnce == Init => OInv
<1> SUFFICES ASSUME Init PROVE Placed /\ \A p \in Parts : Counted(p)
  BY InitCancelled DEF OInv, CInv, Once
<1>1. row = NoRow /\ mail = {} /\ ~ HasRow /\ \A h \in Jobs : job[h] = Idle
  BY Quiescent DEF Init
<1>2. Placed
  BY <1>1, IdleIs, Texts DEF Placed, Busy, Before
<1>3. ASSUME NEW p \in Parts PROVE Counted(p)
  <2>1. row[p].status = "none" /\ row[p].attempts = 0 /\ row[p].id = 0
    <3>1. NoRow[p] = NewPart("none")
      BY DEF NoRow
    <3> QED BY <1>1, <3>1 DEF NewPart
  <2>2. Mail(p) = {} /\ reached[p] = 0 /\ lost[p] = 0
    BY <1>1 DEF Mail, Init
  <2>3. Tally(p)
    BY <1>1, <2>1, <2>2, FS_EmptySet DEF Tally
  <2>4. Owned(p) /\ Bounces(p)
    BY <1>1, IdleIs DEF Owned, Bounces
  <2> QED BY <2>3, <2>4 DEF Counted
<1> QED BY <1>2, <1>3

LEMMA NextOnce == OInv /\ [Next]_vars => OInv'
<1> SUFFICES ASSUME OInv, [Next]_vars PROVE Calm' => Once'
  BY NextCancelled DEF OInv
<1>1. Calm' <=> Calm
  BY SameScene DEF Calm
<1>2. Sound'
  BY NextCancelled DEF OInv, CInv
<1> QED BY <1>1, <1>2, NextCounts DEF OInv, CInv, Once

\* All the messages the provider answered but one it reported undeliverable.
LEMMA OneCopy == ASSUME Once, NEW p \in Parts PROVE reached[p] <= 1 + Bounced(p) + lost[p]
<1> DEFINE B == {m \in mail : m[1] = p /\ <<m, "FAILED">> \in told}
<1>1. Tally(p) /\ row[p].attempts \in Nat /\ lost[p] \in Nat
  BY RowTypes DEF Once, Counted, Sound, TypeOK
<1>2. IsFiniteSet(Mail(p)) /\ Cardinality(Mail(p)) \in Nat
  BY MailFinite
<1>3. Mail(p) \subseteq B \cup {Last(p)}
  <2> SUFFICES ASSUME NEW m \in mail, m[1] = p, m # Last(p) PROVE Bounce(m)
    BY DEF Mail, Bounce
  <2>1. m[2] \in Nat /\ m = <<p, m[2]>>
    BY MailTypes DEF Once
  <2>2. m[2] # row[p].attempts
    BY <2>1 DEF Last
  <2> QED BY <1>1, <2>1, <2>2 DEF Tally
<1>4. IsFiniteSet(B) /\ Cardinality(B) \in Nat
  <2>1. B \subseteq Mail(p)
    BY DEF Mail
  <2> QED BY <1>2, <2>1, FS_Subset, FS_CardinalityType
<1>5. Cardinality(B \cup {Last(p)}) <= Cardinality(B) + 1 /\ IsFiniteSet(B \cup {Last(p)})
      /\ Cardinality(B \cup {Last(p)}) \in Nat
  <2>1. /\ IsFiniteSet(B \cup {Last(p)})
        /\ \/ Cardinality(B \cup {Last(p)}) = Cardinality(B)
           \/ Cardinality(B \cup {Last(p)}) = Cardinality(B) + 1
    BY <1>4, FS_AddElement
  <2> QED BY <1>4, <2>1
<1>6. Cardinality(Mail(p)) <= Cardinality(B \cup {Last(p)})
  BY <1>3, <1>5, FS_Subset
<1>7. reached[p] = Cardinality(Mail(p)) + lost[p] /\ Bounced(p) = Cardinality(B)
  BY <1>1 DEF Tally, Bounced
<1> DEFINE a == Cardinality(Mail(p))
           b == Cardinality(B)
           c == Cardinality(B \cup {Last(p)})
<1>8. a \in Nat /\ b \in Nat /\ c \in Nat /\ a <= c /\ c <= b + 1 /\ reached[p] = a + lost[p] /\ Bounced(p) = b
  BY <1>2, <1>4, <1>5, <1>6, <1>7
<1> HIDE DEF a, b, c
<1> QED BY <1>1, <1>8

\* The recipient gets no message twice: the provider takes another copy of one
\* only after it reported the copies before undeliverable or left a transmission
\* without an answer, however many ticks, claims, retries, replies, callbacks and stops there
\* are, of every occurrence and of every test that no two users act on while it is retried
\* (claimPart, duePart, retryRecipient, sendPendingOnReply, applyReportDeliveryStatus).
THEOREM CopiesOnlyAfterLostAnswers == Spec => [](Calm => CopiesNeedLostAnswers)
<1>1. OInv => (Calm => CopiesNeedLostAnswers)
  BY OneCopy DEF OInv, CopiesNeedLostAnswers
<1> QED BY <1>1, InitOnce, NextOnce, PTL DEF Spec
================================================================================
